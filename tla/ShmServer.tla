------------------------------ MODULE ShmServer ------------------------------
(***************************************************************************)
(* The UBS-MEM test server, src/tools/ubs-mem-test: an HTTP server whose   *)
(* thread pool runs ApiHandler's handlers, each a sequence of calls of the *)
(* ubsmem SDK, and the test programs that call it (UbsMemHttpClient).      *)
(*                                                                         *)
(* Modelled are the handlers that keep state in the server or undo what    *)
(* they did: the batch operations with the map of pointers g_shmMap and    *)
(* its mutex, the single map and unmap whose pointers the client keeps,    *)
(* and the initialized_ flag.  Every SDK call is a step of its own, so the *)
(* calls of concurrent handlers interleave.  The SDK is external: it       *)
(* refuses to create what exists, to free what is absent or mapped, to map *)
(* what is absent and to unmap what is not mapped; the calls in `Faulty'   *)
(* may fail for reasons of their own.  Handlers that only pass one SDK     *)
(* call through (regions, leases, locks, lookups) are left out.            *)
(***************************************************************************)
EXTENDS Naturals, FiniteSets

CONSTANTS Clients,    \* test programs, each one request at a time
          Workers,    \* threads of the server's pool
          Prefixes,   \* "name" of the requests
          BatchNum,   \* "batch_num" of the requests
          Ptrs,       \* addresses the SDK maps at
          Ops,        \* requests the clients make, a subset of OpNames
          Faulty,     \* SDK calls that may fail spontaneously
          Timeouts,   \* whether a client may give up on a request
          MaxReqs,    \* bound on the requests made
          NoPtr, NoWorker, NoClient

BatchOps == {"allocate_batch", "deallocate_batch", "map_batch", "unmap_batch"}
OpNames == BatchOps \cup {"map", "unmap", "initialize", "finalize"}
SdkCalls == {"allocate", "deallocate", "map", "unmap", "initialize"}

ASSUME ServerAssumption ==
    /\ BatchNum \in Nat \ {0}
    /\ MaxReqs \in Nat
    /\ Ops \subseteq OpNames
    /\ Faulty \subseteq SdkCalls
    /\ Timeouts \in BOOLEAN
    /\ NoPtr \notin Ptrs
    /\ NoWorker \notin Workers
    /\ NoClient \notin Clients

\* full_name: the prefix and the index.
Names == Prefixes \X (0 .. BatchNum - 1)
NoName == <<"none">>

VARIABLES objects,      \* SDK: the request that created each object, 0 for none
          live,         \* SDK: what is mapped at each address
          sdk,          \* SDK: whether it is initialized
          initialized,  \* initialized_
          shmMap,       \* g_shmMap
          mutex,        \* the holder of g_shmMapMutex
          work,         \* what each thread is doing
          held,         \* the addresses each client was given
          wait,         \* the thread that serves each client's request
          reqs,         \* number of requests made so far
          lost          \* history: addresses given up by a fault or a timeout

vars == <<objects, live, sdk, initialized, shmMap, mutex, work, held, wait, reqs, lost>>
store == <<objects, live, sdk, initialized, shmMap, lost>>

\* A thread: its request, the loop counters of the handler and of its rollback,
\* the address it works on and the result.
Work == [pc: {"idle", "lock", "loop", "undo", "call", "flag", "reply"},
         op: OpNames \cup {"none"}, id: Nat, client: Clients \cup {NoClient},
         prefix: Prefixes \cup {"none"}, i: Nat, j: Nat, ptr: Ptrs \cup {NoPtr},
         ok: BOOLEAN, blocked: SUBSET Names]
Free == [pc |-> "idle", op |-> "none", id |-> 0, client |-> NoClient,
         prefix |-> "none", i |-> 0, j |-> 0, ptr |-> NoPtr, ok |-> TRUE,
         blocked |-> {}]

TypeOK ==
    /\ objects \in [Names -> Nat]
    /\ live \in [Ptrs -> Names \cup {NoName}]
    /\ sdk \in BOOLEAN
    /\ initialized \in BOOLEAN
    /\ shmMap \in [Names -> Ptrs \cup {NoPtr}]
    /\ mutex \in Workers \cup {NoWorker}
    /\ work \in [Workers -> Work]
    /\ held \in [Clients -> SUBSET Ptrs]
    /\ wait \in [Clients -> Workers \cup {NoWorker}]
    /\ reqs \in 0 .. MaxReqs
    /\ lost \subseteq Ptrs

\* ApiHandler(): ubsmem_initialize() is called and its result is not looked at.
Init ==
    /\ objects = [n \in Names |-> 0]
    /\ live = [p \in Ptrs |-> NoName]
    /\ sdk \in IF "initialize" \in Faulty THEN BOOLEAN ELSE {TRUE}
    /\ initialized = TRUE
    /\ shmMap = [n \in Names |-> NoPtr]
    /\ mutex = NoWorker
    /\ work = [w \in Workers |-> Free]
    /\ held = [c \in Clients |-> {}]
    /\ wait = [c \in Clients |-> NoWorker]
    /\ reqs = 0
    /\ lost = {}

Name(w) == <<work[w].prefix, work[w].i>>
UndoName(w) == <<work[w].prefix, work[w].j>>
At(w, op, pc) == work[w].op = op /\ work[w].pc = pc
MappedAt(n) == {p \in Ptrs : live[p] = n}

-----------------------------------------------------------------------------
(* Clients *)

Locking == {"map_batch", "unmap_batch"}
Serve(c, op, prefix) ==
    [Free EXCEPT !.op = op, !.id = reqs + 1, !.client = c, !.prefix = prefix,
                 !.pc = IF op \in Locking THEN "lock" ELSE "loop"]

\* A free thread takes the request.  A client unmaps an address once.
Request(c, w) ==
    /\ wait[c] = NoWorker
    /\ work[w].pc = "idle"
    /\ reqs < MaxReqs
    /\ reqs' = reqs + 1
    /\ wait' = [wait EXCEPT ![c] = w]
    /\ \/ \E op \in Ops \ {"unmap"}, prefix \in Prefixes :
            /\ work' = [work EXCEPT ![w] = Serve(c, op, prefix)]
            /\ UNCHANGED held
       \/ \E p \in held[c] :
            /\ "unmap" \in Ops
            /\ work' = [work EXCEPT ![w] = [Serve(c, "unmap", "none") EXCEPT !.ptr = p]]
            /\ held' = [held EXCEPT ![c] = @ \ {p}]
    /\ UNCHANGED <<store, mutex>>

\* _call(): requests.post() gave up; the thread serving the request did not.
GiveUp(c) ==
    /\ Timeouts
    /\ wait[c] # NoWorker
    /\ wait' = [wait EXCEPT ![c] = NoWorker]
    /\ UNCHANGED <<store, mutex, work, held, reqs>>

-----------------------------------------------------------------------------
(* Handlers *)

\* Faulty variant: unmap_batch forgets the lock.
LockMapOnly(w) ==
    /\ work[w].pc = "lock"
    /\ IF work[w].op = "map_batch" THEN mutex = NoWorker /\ mutex' = w
                                   ELSE UNCHANGED mutex
    /\ work' = [work EXCEPT ![w].pc = "loop"]
    /\ UNCHANGED <<store, held, wait, reqs>>

\* std::lock_guard on g_shmMapMutex.
Lock(w) ==
    /\ work[w].pc = "lock"
    /\ mutex = NoWorker
    /\ mutex' = w
    /\ work' = [work EXCEPT ![w].pc = "loop"]
    /\ UNCHANGED <<store, held, wait, reqs>>

\* The loop is over.
Done(w, ok) == work' = [work EXCEPT ![w].pc = "reply", ![w].ok = ok]

AllocateBatch(w) ==
    /\ At(w, "allocate_batch", "loop")
    /\ \/ /\ work[w].i < BatchNum /\ objects[Name(w)] = 0
          /\ objects' = [objects EXCEPT ![Name(w)] = work[w].id]
          /\ work' = [work EXCEPT ![w].i = @ + 1]
       \/ /\ work[w].i < BatchNum
          /\ objects[Name(w)] # 0 \/ "allocate" \in Faulty
          /\ work' = [work EXCEPT ![w].pc = "undo"]
          /\ UNCHANGED objects
       \/ /\ work[w].i = BatchNum
          /\ Done(w, TRUE)
          /\ UNCHANGED objects
    /\ UNCHANGED <<live, sdk, initialized, shmMap, lost, mutex, held, wait, reqs>>

\* ubsmem_shmem_deallocate() of name n.
CanFree(n) == objects[n] # 0 /\ MappedAt(n) = {}
MayKeep(n) == ~CanFree(n) \/ "deallocate" \in Faulty

\* Faulty variant: the rollback skips the object created first.
AllocateUndoButFirst(w) ==
    /\ At(w, "allocate_batch", "undo")
    /\ IF work[w].j + 1 >= work[w].i
       THEN Done(w, FALSE) /\ UNCHANGED objects
       ELSE LET n == <<work[w].prefix, work[w].j + 1>> IN
            /\ \/ CanFree(n) /\ objects' = [objects EXCEPT ![n] = 0]
               \/ MayKeep(n) /\ UNCHANGED objects
            /\ work' = [work EXCEPT ![w].j = @ + 1]
    /\ UNCHANGED <<live, sdk, initialized, shmMap, lost, mutex, held, wait, reqs>>

\* Rollback: what was created is freed in order, the results are ignored.
AllocateUndo(w) ==
    /\ At(w, "allocate_batch", "undo")
    /\ \/ /\ work[w].j < work[w].i /\ CanFree(UndoName(w))
          /\ objects' = [objects EXCEPT ![UndoName(w)] = 0]
          /\ work' = [work EXCEPT ![w].j = @ + 1]
       \/ /\ work[w].j < work[w].i /\ MayKeep(UndoName(w))
          /\ work' = [work EXCEPT ![w].j = @ + 1,
                                  ![w].blocked = @ \cup {UndoName(w)}]
          /\ UNCHANGED objects
       \/ /\ work[w].j = work[w].i
          /\ Done(w, FALSE)
          /\ UNCHANGED objects
    /\ UNCHANGED <<live, sdk, initialized, shmMap, lost, mutex, held, wait, reqs>>

\* Every name is tried; -1 if any failed.
DeallocateBatch(w) ==
    /\ At(w, "deallocate_batch", "loop")
    /\ \/ /\ work[w].i < BatchNum /\ CanFree(Name(w))
          /\ objects' = [objects EXCEPT ![Name(w)] = 0]
          /\ work' = [work EXCEPT ![w].i = @ + 1]
       \/ /\ work[w].i < BatchNum /\ MayKeep(Name(w))
          /\ work' = [work EXCEPT ![w].i = @ + 1, ![w].ok = FALSE]
          /\ UNCHANGED objects
       \/ /\ work[w].i = BatchNum
          /\ Done(w, work[w].ok)
          /\ UNCHANGED objects
    /\ UNCHANGED <<live, sdk, initialized, shmMap, lost, mutex, held, wait, reqs>>

\* ubsmem_shmem_map(): the SDK picks an address where nothing is mapped.
SdkMaps(n, p) ==
    /\ objects[n] # 0
    /\ live[p] = NoName
    /\ live' = [live EXCEPT ![p] = n]
MapMayFail(n) == objects[n] = 0 \/ MappedAt(NoName) = {} \/ "map" \in Faulty

MapBatch(w) ==
    /\ At(w, "map_batch", "loop")
    /\ \/ \E p \in Ptrs :
            /\ work[w].i < BatchNum
            /\ SdkMaps(Name(w), p)
            /\ shmMap' = [shmMap EXCEPT ![Name(w)] = p]
            /\ lost' = lost \cup ({shmMap[Name(w)]} \ {NoPtr})
            /\ work' = [work EXCEPT ![w].i = @ + 1]
       \/ /\ work[w].i < BatchNum
          /\ MapMayFail(Name(w))
          /\ work' = [work EXCEPT ![w].pc = "undo"]
          /\ UNCHANGED <<live, shmMap, lost>>
       \/ /\ work[w].i = BatchNum
          /\ Done(w, TRUE)
          /\ UNCHANGED <<live, shmMap, lost>>
    /\ UNCHANGED <<objects, sdk, initialized, mutex, held, wait, reqs>>

\* Faulty variant: the entry is unmapped but not erased.
ForgetKeep(n) ==
    IF shmMap[n] = NoPtr
    THEN UNCHANGED <<live, shmMap, lost>>
    ELSE /\ live' = [live EXCEPT ![shmMap[n]] = NoName]
         /\ UNCHANGED <<shmMap, lost>>

\* ubsmem_shmem_unmap() of a recorded address, result ignored, then erase().
Forget(n) ==
    IF shmMap[n] = NoPtr
    THEN UNCHANGED <<live, shmMap, lost>>
    ELSE /\ shmMap' = [shmMap EXCEPT ![n] = NoPtr]
         /\ \/ /\ live' = [live EXCEPT ![shmMap[n]] = NoName]
               /\ UNCHANGED lost
            \/ /\ "unmap" \in Faulty
               /\ lost' = lost \cup {shmMap[n]}
               /\ UNCHANGED live

MapUndo(w) ==
    /\ At(w, "map_batch", "undo")
    /\ \/ /\ work[w].j < work[w].i
          /\ Forget(UndoName(w))
          /\ work' = [work EXCEPT ![w].j = @ + 1]
       \/ /\ work[w].j = work[w].i
          /\ Done(w, FALSE)
          /\ UNCHANGED <<live, shmMap, lost>>
    /\ UNCHANGED <<objects, sdk, initialized, mutex, held, wait, reqs>>

UnmapBatch(w) ==
    /\ At(w, "unmap_batch", "loop")
    /\ \/ /\ work[w].i < BatchNum
          /\ Forget(Name(w))
          /\ work' = [work EXCEPT ![w].i = @ + 1]
       \/ /\ work[w].i = BatchNum
          /\ Done(w, TRUE)
          /\ UNCHANGED <<live, shmMap, lost>>
    /\ UNCHANGED <<objects, sdk, initialized, mutex, held, wait, reqs>>

\* The single map and unmap of object 0 of the prefix: the server records nothing.
Map(w) ==
    /\ At(w, "map", "loop")
    /\ \/ \E p \in Ptrs :
            /\ SdkMaps(Name(w), p)
            /\ work' = [work EXCEPT ![w].pc = "reply", ![w].ptr = p]
       \/ /\ MapMayFail(Name(w))
          /\ Done(w, FALSE)
          /\ UNCHANGED live
    /\ UNCHANGED <<objects, sdk, initialized, shmMap, lost, mutex, held, wait, reqs>>

\* Faulty variant: everything mapped to the object at the address is unmapped.
UnmapObject(w) ==
    /\ At(w, "unmap", "loop")
    /\ live' = [p \in Ptrs |-> IF live[p] = live[work[w].ptr] THEN NoName ELSE live[p]]
    /\ work' = [work EXCEPT ![w].pc = "reply", ![w].ptr = NoPtr]
    /\ UNCHANGED <<objects, sdk, initialized, shmMap, lost, mutex, held, wait, reqs>>

\* The address is the request's until the SDK has answered.
Unmap(w) ==
    /\ At(w, "unmap", "loop")
    /\ \/ /\ live[work[w].ptr] # NoName
          /\ live' = [live EXCEPT ![work[w].ptr] = NoName]
          /\ work' = [work EXCEPT ![w].pc = "reply", ![w].ptr = NoPtr]
          /\ UNCHANGED lost
       \/ /\ live[work[w].ptr] = NoName \/ "unmap" \in Faulty
          /\ lost' = lost \cup {work[w].ptr}
          /\ work' = [work EXCEPT ![w].pc = "reply", ![w].ptr = NoPtr, ![w].ok = FALSE]
          /\ UNCHANGED live
    /\ UNCHANGED <<objects, sdk, initialized, shmMap, mutex, held, wait, reqs>>

\* initialized_ is read, the SDK called and initialized_ written, each on its own
\* and without a lock.
Initialize(w) ==
    /\ \/ /\ At(w, "initialize", "loop")
          /\ IF initialized THEN Done(w, TRUE)
                            ELSE work' = [work EXCEPT ![w].pc = "call"]
          /\ UNCHANGED sdk
       \/ /\ At(w, "initialize", "call")
          /\ sdk' = TRUE
          /\ work' = [work EXCEPT ![w].pc = "flag"]
       \/ /\ At(w, "initialize", "call")
          /\ "initialize" \in Faulty
          /\ Done(w, FALSE)
          /\ UNCHANGED sdk
    /\ UNCHANGED <<objects, live, initialized, shmMap, lost, mutex, held, wait, reqs>>

Finalize(w) ==
    /\ At(w, "finalize", "loop")
    /\ \/ sdk /\ sdk' = FALSE /\ work' = [work EXCEPT ![w].pc = "flag"]
       \/ ~sdk /\ Done(w, FALSE) /\ UNCHANGED sdk
    /\ UNCHANGED <<objects, live, initialized, shmMap, lost, mutex, held, wait, reqs>>

SetFlag(w) ==
    /\ work[w].pc = "flag"
    /\ initialized' = (work[w].op = "initialize")
    /\ Done(w, TRUE)
    /\ UNCHANGED <<objects, live, sdk, shmMap, lost, mutex, held, wait, reqs>>

\* Faulty variant: the address of a failed map is handed out, to whoever asked.
ReplyAnyway(w) ==
    /\ work[w].pc = "reply"
    /\ mutex' = IF mutex = w THEN NoWorker ELSE mutex
    /\ wait' = [wait EXCEPT ![work[w].client] = NoWorker]
    /\ held' = [held EXCEPT ![work[w].client] = @ \cup {work[w].ptr}]
    /\ work' = [work EXCEPT ![w] = Free]
    /\ UNCHANGED <<store, reqs>>

\* The handler returns, the lock_guard with it; the answer reaches the client
\* unless it gave up, and a mapped address is lost with an answer nobody reads.
Reply(w) ==
    /\ work[w].pc = "reply"
    /\ mutex' = IF mutex = w THEN NoWorker ELSE mutex
    /\ LET c == work[w].client
           p == IF work[w].op = "map" THEN {work[w].ptr} \ {NoPtr} ELSE {}
       IN IF wait[c] = w
          THEN /\ held' = [held EXCEPT ![c] = @ \cup p]
               /\ wait' = [wait EXCEPT ![c] = NoWorker]
               /\ UNCHANGED lost
          ELSE /\ lost' = lost \cup p
               /\ UNCHANGED <<held, wait>>
    /\ work' = [work EXCEPT ![w] = Free]
    /\ UNCHANGED <<objects, live, sdk, initialized, shmMap, reqs>>

-----------------------------------------------------------------------------
WorkerStep(w) ==
    \/ Lock(w)
    \/ AllocateBatch(w) \/ AllocateUndo(w) \/ DeallocateBatch(w)
    \/ MapBatch(w) \/ MapUndo(w) \/ UnmapBatch(w)
    \/ Map(w) \/ Unmap(w)
    \/ Initialize(w) \/ Finalize(w) \/ SetFlag(w)
    \/ Reply(w)

Next ==
    \/ \E c \in Clients : GiveUp(c) \/ \E w \in Workers : Request(c, w)
    \/ \E w \in Workers : WorkerStep(w)

Spec == Init /\ [][Next]_vars

-----------------------------------------------------------------------------
(* Properties *)

Recorded == {shmMap[n] : n \in Names} \ {NoPtr}
InFlight(w) == {work[w].ptr} \ {NoPtr}

\* Every recorded address is still mapped, to the object it is recorded for, and
\* belongs to no client and no request under way, and what a client was given
\* stays mapped and its own: no batch operation ever unmaps memory that someone
\* else mapped at the same address later.
RecordedIsOwned ==
    /\ \A n \in Names : shmMap[n] # NoPtr => live[shmMap[n]] = n
    /\ \A c \in Clients : held[c] \cap Recorded = {}
    /\ \A w \in Workers : InFlight(w) \cap Recorded = {}
    /\ \A c \in Clients, p \in Ptrs : p \in held[c] => live[p] # NoName
    /\ \A c, d \in Clients : c # d => held[c] \cap held[d] = {}

\* A mapping that nobody can unmap any more was given up by a fault of unmap, by
\* a batch mapped over itself or by an answer that came too late, never by a
\* rollback or by two requests getting in each other's way.
NoOrphan == \A p \in Ptrs :
    live[p] # NoName =>
      \/ p \in Recorded \cup lost
      \/ \E c \in Clients : p \in held[c]
      \/ \E w \in Workers : p \in InFlight(w)

\* The accounts agree: what the server records, what the clients hold and what the
\* SDK has mapped are about the same addresses, each with one owner.
Accounted == RecordedIsOwned /\ NoOrphan

\* Outside the critical section a batch is recorded as a whole or not at all, as
\* long as no batch was mapped over itself.
BatchIsWhole ==
    mutex = NoWorker /\ lost = {} =>
      \A prefix \in Prefixes :
        \/ \A i \in 0 .. BatchNum - 1 : shmMap[<<prefix, i>>] # NoPtr
        \/ \A i \in 0 .. BatchNum - 1 : shmMap[<<prefix, i>>] = NoPtr

\* ubs_mem_cli.py:163, "Failed mid-way triggers rollback of already-created
\* names": an allocate_batch that failed leaves an object of its own only where
\* the SDK refused to free it.
RollbackComplete == \A w \in Workers :
    At(w, "allocate_batch", "reply") /\ ~work[w].ok =>
      {n \in Names : objects[n] = work[w].id} \subseteq work[w].blocked

\* The same sentence: what the rollback frees are the objects the call created.
RollbackOwnOnly == [][
    \A w \in Workers : At(w, "allocate_batch", "undo") /\ work'[w].j > work[w].j =>
      \A n \in Names : objects'[n] # objects[n] => objects[n] = work[w].id]_vars

\* README.md:67-68 of the server, ubsmem_initialize initializes and ubsmem_finalize
\* undoes it: when neither is under way a server that takes itself for initialized
\* (and so answers the next ubsmem_initialize without calling the SDK) has an
\* initialized SDK.  The code does not keep this: neither the constructor, which does
\* not look at what the SDK returned, nor an initialize and a finalize that overlap.
InitializedIsUp ==
    (\A w \in Workers : work[w].op \notin {"initialize", "finalize"}) =>
      (initialized => sdk)
=============================================================================
