-------------------------- MODULE ShmServer_proofs --------------------------
(***************************************************************************)
(* Proofs about ShmServer for any number of clients, threads, prefixes and *)
(* addresses, any batch size and any set of failing SDK calls.             *)
(***************************************************************************)
EXTENDS ShmLedger, TLAPS

\* The batch handlers' loops stay within the batch, and an address travels with a
\* request only from its map to the answer, or from the unmap's arrival to the call.
StageOK(r) ==
    /\ r.pc # "idle" => r.client \in Clients
    /\ r.op \notin {"none", "unmap"} => r.prefix \in Prefixes
    /\ r.i <= BatchNum
    /\ r.j <= r.i
    /\ r.op = "map" => r.i = 0
    /\ r.pc = "lock" => r.op \in Locking
    /\ r.op = "unmap" /\ r.pc = "loop" => r.ptr # NoPtr
    /\ r.ptr # NoPtr => \/ r.op = "unmap" /\ r.pc = "loop"
                        \/ r.op = "map" /\ r.pc = "reply"

Staged == TypeOK /\ \A w \in Workers : StageOK(work[w])

-----------------------------------------------------------------------------
(* Names *)

\* NoName marks an address where nothing is mapped, and is no object's name.
LEMMA NoNameIsNone == NoName \notin Names
  BY DEF NoName, Names

\* The names a handler works on.
LEMMA NameType ==
  ASSUME NEW w \in Workers, Staged, work[w].op \notin {"none", "unmap"}
  PROVE  /\ work[w].i < BatchNum => Name(w) \in Names
         /\ work[w].j < work[w].i => UndoName(w) \in Names
  BY ServerAssumption DEF Staged, StageOK, TypeOK, Work, Name, UndoName, Names

-----------------------------------------------------------------------------
(* Type correctness *)

\* The server as it is constructed.
LEMMA InitStaged == Init => Staged
  <1> SUFFICES ASSUME Init PROVE Staged
    OBVIOUS
  <1>1. Free \in Work /\ StageOK(Free)
    BY ServerAssumption DEF Free, Work, StageOK
  <1>2. work \in [Workers -> Work] /\ \A w \in Workers : StageOK(work[w])
    BY <1>1 DEF Init
  <1>3. sdk \in BOOLEAN
    BY DEF Init
  <1>4. /\ objects \in [Names -> Nat]
        /\ live \in [Ptrs -> Names \cup {NoName}]
        /\ shmMap \in [Names -> Ptrs \cup {NoPtr}]
    BY DEF Init
  <1>5. /\ held \in [Clients -> SUBSET Ptrs]
        /\ wait \in [Clients -> Workers \cup {NoWorker}]
    BY DEF Init
  <1>6. /\ initialized \in BOOLEAN
        /\ mutex \in Workers \cup {NoWorker}
        /\ reqs \in 0 .. MaxReqs
        /\ lost \subseteq Ptrs
    BY ServerAssumption DEF Init
  <1> QED
    BY <1>2, <1>3, <1>4, <1>5, <1>6 DEF Staged, TypeOK

\* A step of thread w that leaves the clients and the lock alone.
LEMMA WorkStep ==
  ASSUME Staged, NEW w \in Workers, NEW r, r \in Work, StageOK(r),
         work' = [work EXCEPT ![w] = r],
         objects' \in [Names -> Nat], live' \in [Ptrs -> Names \cup {NoName}],
         sdk' \in BOOLEAN, initialized' \in BOOLEAN,
         shmMap' \in [Names -> Ptrs \cup {NoPtr}],
         mutex' \in Workers \cup {NoWorker}, lost' \subseteq Ptrs,
         held' \in [Clients -> SUBSET Ptrs],
         wait' \in [Clients -> Workers \cup {NoWorker}],
         reqs' \in 0 .. MaxReqs
  PROVE  Staged'
  <1>1. TypeOK'
    BY DEF TypeOK, Staged
  <1>2. \A x \in Workers : StageOK(work'[x])
    BY DEF TypeOK, Staged
  <1> QED
    BY <1>1, <1>2 DEF Staged

\* The types a step of a thread may change, apart from its own record.
StoreTyped ==
    /\ objects' \in [Names -> Nat]
    /\ live' \in [Ptrs -> Names \cup {NoName}]
    /\ sdk' \in BOOLEAN
    /\ initialized' \in BOOLEAN
    /\ shmMap' \in [Names -> Ptrs \cup {NoPtr}]
    /\ mutex' \in Workers \cup {NoWorker}
    /\ lost' \subseteq Ptrs
    /\ held' \in [Clients -> SUBSET Ptrs]
    /\ wait' \in [Clients -> Workers \cup {NoWorker}]
    /\ reqs' \in 0 .. MaxReqs

\* Each step of a handler keeps the types and the stages.
LEMMA StagedWorker ==
  ASSUME Staged, NEW w \in Workers, WorkerStep(w)
  PROVE  Staged'
  <1> DEFINE r == work'[w]
             OneStep == /\ work' = [work EXCEPT ![w] = r]
                        /\ r \in Work
                        /\ StageOK(r)
  <1>0. OneStep /\ StoreTyped => Staged'
    BY WorkStep DEF StoreTyped
  <1> HIDE DEF OneStep
  <1>w. work[w] \in Work /\ StageOK(work[w]) /\ work \in [Workers -> Work]
    BY DEF Staged, TypeOK
  <1>n. work[w].op \notin {"none", "unmap"} =>
          /\ work[w].i < BatchNum => Name(w) \in Names
          /\ work[w].j < work[w].i => UndoName(w) \in Names
    BY NameType
  <1>1. CASE Lock(w)
    <2>1. OneStep
      BY <1>1, <1>w, ServerAssumption DEF OneStep, Lock, Work, StageOK, OpNames, BatchOps, Locking
    <2>2. StoreTyped
      BY <1>1, <1>w, ServerAssumption
         DEF Lock, Staged, TypeOK, StoreTyped, store
    <2> QED
      BY <1>0, <2>1, <2>2
  <1>2. CASE AllocateBatch(w)
    <2>1. OneStep
      BY <1>2, <1>w, ServerAssumption DEF OneStep, AllocateBatch, Done, At, Work, StageOK, OpNames, BatchOps, Locking
    <2>2. StoreTyped
      BY <1>2, <1>w, <1>n, ServerAssumption
         DEF AllocateBatch, Done, At, Staged, TypeOK, StoreTyped, Work
    <2> QED
      BY <1>0, <2>1, <2>2
  <1>3. CASE AllocateUndo(w)
    <2>1. OneStep
      BY <1>3, <1>w, ServerAssumption DEF OneStep, AllocateUndo, Done, At, Work, StageOK, OpNames, BatchOps, Locking
    <2>2. StoreTyped
      BY <1>3, <1>w, <1>n, ServerAssumption
         DEF AllocateUndo, Done, At, Staged, TypeOK, StoreTyped, Work
    <2> QED
      BY <1>0, <2>1, <2>2
  <1>4. CASE DeallocateBatch(w)
    <2>1. OneStep
      BY <1>4, <1>w, ServerAssumption DEF OneStep, DeallocateBatch, Done, At, Work, StageOK, OpNames, BatchOps, Locking
    <2>2. StoreTyped
      BY <1>4, <1>w, <1>n, ServerAssumption
         DEF DeallocateBatch, Done, At, Staged, TypeOK, StoreTyped, Work
    <2> QED
      BY <1>0, <2>1, <2>2
  <1>5. CASE MapBatch(w)
    <2>1. OneStep
      BY <1>5, <1>w, ServerAssumption DEF OneStep, MapBatch, SdkMaps, Done, At, Work, StageOK, OpNames, BatchOps, Locking
    <2>2. StoreTyped
      <3>1. live' \in [Ptrs -> Names \cup {NoName}]
        BY <1>5, <1>w, <1>n DEF MapBatch, SdkMaps, Done, At, Staged, TypeOK, Work
      <3>2. shmMap' \in [Names -> Ptrs \cup {NoPtr}]
        BY <1>5, <1>w, <1>n DEF MapBatch, SdkMaps, Done, At, Staged, TypeOK, Work
      <3>3. lost' \subseteq Ptrs
        BY <1>5, <1>w, <1>n DEF MapBatch, SdkMaps, Done, At, Staged, TypeOK, Work
      <3> QED
        BY <1>5, <3>1, <3>2, <3>3 DEF MapBatch, Staged, TypeOK, StoreTyped
    <2> QED
      BY <1>0, <2>1, <2>2
  <1>6. CASE MapUndo(w)
    <2>1. OneStep
      BY <1>6, <1>w, ServerAssumption DEF OneStep, MapUndo, Forget, Done, At, Work, StageOK, OpNames, BatchOps, Locking
    <2>2. StoreTyped
      <3>1. live' \in [Ptrs -> Names \cup {NoName}]
        BY <1>6, <1>w, <1>n DEF MapUndo, Forget, Done, At, Staged, TypeOK, Work
      <3>2. shmMap' \in [Names -> Ptrs \cup {NoPtr}]
        BY <1>6, <1>w, <1>n DEF MapUndo, Forget, Done, At, Staged, TypeOK, Work
      <3>3. lost' \subseteq Ptrs
        BY <1>6, <1>w, <1>n DEF MapUndo, Forget, Done, At, Staged, TypeOK, Work
      <3> QED
        BY <1>6, <3>1, <3>2, <3>3 DEF MapUndo, Staged, TypeOK, StoreTyped
    <2> QED
      BY <1>0, <2>1, <2>2
  <1>7. CASE UnmapBatch(w)
    <2>1. OneStep
      BY <1>7, <1>w, ServerAssumption DEF OneStep, UnmapBatch, Forget, Done, At, Work, StageOK, OpNames, BatchOps, Locking
    <2>2. StoreTyped
      <3>1. live' \in [Ptrs -> Names \cup {NoName}]
        BY <1>7, <1>w, <1>n DEF UnmapBatch, Forget, Done, At, Staged, TypeOK, Work
      <3>2. shmMap' \in [Names -> Ptrs \cup {NoPtr}]
        BY <1>7, <1>w, <1>n DEF UnmapBatch, Forget, Done, At, Staged, TypeOK, Work
      <3>3. lost' \subseteq Ptrs
        BY <1>7, <1>w, <1>n DEF UnmapBatch, Forget, Done, At, Staged, TypeOK, Work
      <3> QED
        BY <1>7, <3>1, <3>2, <3>3 DEF UnmapBatch, Staged, TypeOK, StoreTyped
    <2> QED
      BY <1>0, <2>1, <2>2
  <1>8. CASE Map(w)
    <2>1. OneStep
      BY <1>8, <1>w, ServerAssumption DEF OneStep, Map, SdkMaps, Done, At, Work, StageOK, OpNames, BatchOps, Locking
    <2>2. StoreTyped
      <3>0. Name(w) \in Names
        BY <1>8, <1>w, <1>n, ServerAssumption DEF Map, At, StageOK, Work
      <3>1. live' \in [Ptrs -> Names \cup {NoName}]
        BY <1>8, <3>0 DEF Map, SdkMaps, Done, At, Staged, TypeOK, Work
      <3>2. shmMap' \in [Names -> Ptrs \cup {NoPtr}]
        BY <1>8, <1>w, <1>n DEF Map, SdkMaps, Done, At, Staged, TypeOK, Work
      <3>3. lost' \subseteq Ptrs
        BY <1>8, <1>w, <1>n DEF Map, SdkMaps, Done, At, Staged, TypeOK, Work
      <3> QED
        BY <1>8, <3>1, <3>2, <3>3 DEF Map, Staged, TypeOK, StoreTyped
    <2> QED
      BY <1>0, <2>1, <2>2
  <1>9. CASE Unmap(w)
    <2>1. OneStep
      BY <1>9, <1>w, ServerAssumption DEF OneStep, Unmap, At, Work, StageOK, OpNames, BatchOps, Locking
    <2>2. StoreTyped
      BY <1>9, <1>w, ServerAssumption
         DEF Unmap, At, Staged, TypeOK, StoreTyped, Work, StageOK
    <2> QED
      BY <1>0, <2>1, <2>2
  <1>10. CASE Initialize(w)
    <2>1. OneStep
      BY <1>10, <1>w, ServerAssumption DEF OneStep, Initialize, Done, At, Work, StageOK, OpNames, BatchOps, Locking
    <2>2. StoreTyped
      BY <1>10, <1>w, ServerAssumption
         DEF Initialize, Done, At, Staged, TypeOK, StoreTyped, Work
    <2> QED
      BY <1>0, <2>1, <2>2
  <1>11. CASE Finalize(w)
    <2>1. OneStep
      BY <1>11, <1>w, ServerAssumption DEF OneStep, Finalize, Done, At, Work, StageOK, OpNames, BatchOps, Locking
    <2>2. StoreTyped
      BY <1>11, <1>w, ServerAssumption
         DEF Finalize, Done, At, Staged, TypeOK, StoreTyped, Work
    <2> QED
      BY <1>0, <2>1, <2>2
  <1>12. CASE SetFlag(w)
    <2>1. OneStep
      <3>1. PICK q \in Work : q = work[w] BY <1>w
      <3>2. PICK d : d = [q EXCEPT !.pc = "reply", !.ok = TRUE] OBVIOUS
      <3>3. /\ d \in Work /\ d.pc = "reply" /\ d.op = q.op /\ d.client = q.client
            /\ d.prefix = q.prefix /\ d.i = q.i /\ d.j = q.j /\ d.ptr = q.ptr
        BY <3>2 DEF Work
      <3>4. StageOK(q) /\ q.pc = "flag" BY <1>12, <1>w, <3>1 DEF SetFlag
      <3>5. StageOK(d) BY <3>3, <3>4 DEF StageOK
      <3>6. work' = [work EXCEPT ![w] = d] BY <1>12, <1>w, <3>1, <3>2 DEF SetFlag, Done
      <3>7. r = d BY <1>w, <3>6
      <3> QED BY <3>3, <3>5, <3>6, <3>7 DEF OneStep
    <2>2. StoreTyped
      BY <1>12, <1>w, ServerAssumption
         DEF SetFlag, Done, Staged, TypeOK, StoreTyped, Work
    <2> QED
      BY <1>0, <2>1, <2>2
  <1>13. CASE Reply(w)
    <2>1. OneStep
      BY <1>13, <1>w, ServerAssumption DEF OneStep, Reply, Free, Work, StageOK
    <2>2. StoreTyped
      BY <1>13, <1>w, ServerAssumption DEF Reply, Staged, TypeOK, StoreTyped, Work
    <2> QED
      BY <1>0, <2>1, <2>2
  <1> QED
    BY <1>1, <1>2, <1>3, <1>4, <1>5, <1>6, <1>7, <1>8, <1>9, <1>10, <1>11, <1>12, <1>13 DEF WorkerStep

\* So does a request and giving up on one.
LEMMA StagedClient ==
  ASSUME Staged, NEW c \in Clients,
         GiveUp(c) \/ \E w \in Workers : Request(c, w)
  PROVE  Staged'
  <1>1. CASE GiveUp(c)
    BY <1>1 DEF GiveUp, Staged, TypeOK, store
  <1>2. ASSUME NEW w \in Workers, Request(c, w)
        PROVE  Staged'
    <2> DEFINE r == work'[w]
    <2>1. reqs' \in 0 .. MaxReqs /\ reqs + 1 \in Nat
      BY <1>2, ServerAssumption DEF Request, Staged, TypeOK
    <2>2. /\ work' = [work EXCEPT ![w] = r]
          /\ r \in Work
          /\ StageOK(r)
      <3>0. Free \in Work /\ Free.i = 0 /\ Free.j = 0 /\ Free.ptr = NoPtr
        BY DEF Free, Work
      <3>1. ASSUME NEW op \in Ops, NEW prefix \in Prefixes \cup {"none"}
            PROVE  /\ Serve(c, op, prefix) \in Work
                   /\ LET s == Serve(c, op, prefix) IN
                        /\ s.op = op /\ s.client = c /\ s.prefix = prefix
                        /\ s.i = 0 /\ s.j = 0 /\ s.ptr = NoPtr
                        /\ s.pc = IF op \in Locking THEN "lock" ELSE "loop"
        <4> DEFINE pc == IF op \in Locking THEN "lock" ELSE "loop"
        <4>1. pc \in {"idle", "lock", "loop", "undo", "call", "flag", "reply"}
          OBVIOUS
        <4>2. op \in OpNames
          BY ServerAssumption
        <4>3. Serve(c, op, prefix) = [Free EXCEPT !.op = op, !.id = reqs + 1, !.client = c,
                                                  !.prefix = prefix, !.pc = pc]
          BY DEF Serve
        <4> HIDE DEF pc
        <4>4. Serve(c, op, prefix) \in Work
          <5>1. reqs + 1 \in Nat /\ c \in Clients \cup {NoClient}
            BY <2>1
          <5>2. PICK f \in Work : f = Free
            BY <3>0
          <5>3. [f EXCEPT !.op = op, !.id = reqs + 1, !.client = c, !.prefix = prefix,
                          !.pc = pc] \in Work
            BY <4>1, <4>2, <5>1 DEF Work
          <5> QED
            BY <4>3, <5>2, <5>3
        <4>5. LET s == Serve(c, op, prefix) IN
                /\ s.op = op /\ s.client = c /\ s.prefix = prefix
                /\ s.i = 0 /\ s.j = 0 /\ s.ptr = NoPtr /\ s.pc = pc
          BY <3>0, <4>3 DEF Work
        <4> QED
          BY <4>4, <4>5 DEF pc
      <3>2. ASSUME NEW op \in Ops \ {"unmap"}, NEW prefix \in Prefixes
            PROVE  StageOK(Serve(c, op, prefix))
        BY <3>1, ServerAssumption DEF StageOK
      <3>4. ASSUME NEW p \in Ptrs, "unmap" \in Ops
            PROVE  LET u == [Serve(c, "unmap", "none") EXCEPT !.ptr = p]
                   IN  u \in Work /\ StageOK(u)
        <4>1. [Serve(c, "unmap", "none") EXCEPT !.ptr = p] \in Work
          BY <3>1, <3>4 DEF Work
        <4> QED
          BY <3>1, <3>4, <4>1, ServerAssumption DEF StageOK, Work, Locking
      <3>3. held[c] \subseteq Ptrs /\ work \in [Workers -> Work]
        BY DEF Staged, TypeOK
      <3> QED
        BY <1>2, <3>1, <3>2, <3>3, <3>4 DEF Request
    <2>3. StoreTyped
      BY <1>2, <2>1 DEF Request, Staged, TypeOK, StoreTyped, store
    <2> HIDE DEF r
    <2> QED
      BY <2>2, <2>3, WorkStep DEF StoreTyped
  <1> QED
    BY <1>1, <1>2

\* The stages are inductive.
LEMMA StagedStep == Staged /\ [Next]_vars => Staged'
  <1> SUFFICES ASSUME Staged, [Next]_vars PROVE Staged'
    OBVIOUS
  <1>1. CASE UNCHANGED vars
    BY <1>1 DEF vars, Staged, TypeOK
  <1>2. CASE Next
    BY <1>2, StagedClient, StagedWorker DEF Next
  <1> QED
    BY <1>1, <1>2

\* The server's and the SDK's state, the threads' records and what the clients hold
\* keep their types, whatever the sizes and the faults.
THEOREM TypeCorrect == Spec => []TypeOK
  <1>1. Init => Staged
    BY InitStaged
  <1>2. Staged /\ [Next]_vars => Staged'
    BY StagedStep
  <1>3. Staged => TypeOK
    BY DEF Staged
  <1> QED
    BY <1>1, <1>2, <1>3, PTL DEF Spec

-----------------------------------------------------------------------------
(* Ownership of mapped addresses *)

\* Each mapped address has one owner: an entry of g_shmMap, a client, or a request
\* under way; what a fault or a late answer gave up has none.
RecordLive == \A n \in Names : shmMap[n] # NoPtr => live[shmMap[n]] = n
HeldLive == \A c \in Clients : \A p \in held[c] : live[p] # NoName
FlightLive == \A w \in Workers : work[w].ptr # NoPtr => live[work[w].ptr] # NoName
HeldApart == \A c, d \in Clients : \A p \in held[c] : p \in held[d] => c = d
HeldUnrecorded == \A c \in Clients, n \in Names : shmMap[n] \notin held[c]
FlightUnrecorded == \A w \in Workers, n \in Names :
    work[w].ptr # NoPtr => shmMap[n] # work[w].ptr
FlightUnheld == \A w \in Workers, c \in Clients : work[w].ptr \notin held[c]
FlightApart == \A w, x \in Workers :
    work[w].ptr # NoPtr /\ work[w].ptr = work[x].ptr => w = x

Owned == /\ RecordLive /\ HeldLive /\ FlightLive
         /\ HeldApart /\ HeldUnrecorded
         /\ FlightUnrecorded /\ FlightUnheld /\ FlightApart
         /\ NoOrphan

\* A step that moves no address keeps the owners.
LEMMA OwnedInert ==
  ASSUME Staged, Owned, live' = live, shmMap' = shmMap, held' = held,
         lost \subseteq lost',
         \A x \in Workers : work'[x].ptr = work[x].ptr
  PROVE  Owned'
  <1>1. RecordLive' /\ HeldLive' /\ HeldApart' /\ HeldUnrecorded'
    BY DEF Owned, RecordLive, HeldLive, HeldApart, HeldUnrecorded
  <1>2. FlightLive' /\ FlightUnrecorded' /\ FlightUnheld' /\ FlightApart'
    BY DEF Owned, FlightLive, FlightUnrecorded, FlightUnheld, FlightApart
  <1>3. NoOrphan'
    BY DEF Owned, NoOrphan, Recorded, InFlight
  <1> QED
    BY <1>1, <1>2, <1>3 DEF Owned

\* map_batch records an address where nothing was mapped.
LEMMA OwnedMapBatch ==
  ASSUME Staged, Owned, NEW n \in Names, NEW p \in Ptrs,
         live[p] = NoName, live' = [live EXCEPT ![p] = n],
         shmMap' = [shmMap EXCEPT ![n] = p],
         lost' = lost \cup ({shmMap[n]} \ {NoPtr}), held' = held,
         \A x \in Workers : work'[x].ptr = work[x].ptr
  PROVE  Owned'
  <1> USE NoNameIsNone, ServerAssumption
  <1>t. /\ live \in [Ptrs -> Names \cup {NoName}]
        /\ shmMap \in [Names -> Ptrs \cup {NoPtr}]
        /\ held \in [Clients -> SUBSET Ptrs]
        /\ \A x \in Workers : work[x].ptr \in Ptrs \cup {NoPtr}
    BY DEF Staged, TypeOK, Work
  <1>1. RecordLive'
    BY <1>t DEF Owned, RecordLive
  <1>2. HeldLive' /\ HeldApart'
    BY <1>t DEF Owned, HeldLive, HeldApart
  <1>3. HeldUnrecorded'
    BY <1>t DEF Owned, HeldLive, HeldUnrecorded
  <1>4. FlightLive' /\ FlightApart' /\ FlightUnheld'
    BY <1>t DEF Owned, FlightLive, FlightApart, FlightUnheld
  <1>5. FlightUnrecorded'
    BY <1>t DEF Owned, FlightLive, FlightUnrecorded
  <1>6. NoOrphan'
    <2> SUFFICES ASSUME NEW q \in Ptrs, live'[q] # NoName
                 PROVE  \/ q \in Recorded' \cup lost'
                        \/ \E d \in Clients : q \in held'[d]
                        \/ \E w \in Workers : q \in InFlight(w)'
      BY DEF NoOrphan
    <2>1. CASE q = p
      BY <2>1, <1>t DEF Recorded
    <2>2. CASE q # p
      <3>1. q \in Recorded => q \in Recorded' \cup lost'
        BY <2>2, <1>t DEF Recorded
      <3>2. \A w \in Workers : q \in InFlight(w) => q \in InFlight(w)'
        BY DEF InFlight
      <3>3. live[q] # NoName
        BY <2>2, <1>t
      <3> QED
        BY <3>1, <3>2, <3>3 DEF Owned, NoOrphan
    <2> QED
      BY <2>1, <2>2
  <1> QED
    BY <1>1, <1>2, <1>3, <1>4, <1>5, <1>6 DEF Owned

\* Unmapping a recorded address, by unmap_batch or by the rollback of map_batch.
LEMMA OwnedForget ==
  ASSUME Staged, Owned, NEW n \in Names, Forget(n), held' = held,
         \A x \in Workers : work'[x].ptr = work[x].ptr
  PROVE  Owned'
  <1> USE NoNameIsNone, ServerAssumption
  <1>t. /\ live \in [Ptrs -> Names \cup {NoName}]
        /\ shmMap \in [Names -> Ptrs \cup {NoPtr}]
        /\ held \in [Clients -> SUBSET Ptrs]
        /\ \A x \in Workers : work[x].ptr \in Ptrs \cup {NoPtr}
    BY DEF Staged, TypeOK, Work
  <1>0. CASE shmMap[n] = NoPtr
    BY <1>0, OwnedInert DEF Forget
  <1>1. CASE shmMap[n] # NoPtr
    <2> DEFINE p == shmMap[n]
    <2>0. /\ p \in Ptrs /\ live[p] = n
          /\ shmMap' = [shmMap EXCEPT ![n] = NoPtr]
          /\ \/ live' = [live EXCEPT ![p] = NoName] /\ lost' = lost
             \/ live' = live /\ lost' = lost \cup {p}
      BY <1>1, <1>t DEF Forget, Owned, RecordLive
    <2>a. \A q \in Ptrs : q # p => live'[q] = live[q]
      BY <2>0, <1>t
    <2>1. RecordLive'
      BY <2>0, <2>a, <1>t DEF Owned, RecordLive
    <2>2. HeldLive' /\ HeldApart' /\ HeldUnrecorded'
      BY <2>0, <2>a, <1>t DEF Owned, HeldLive, HeldApart, HeldUnrecorded
    <2>3. FlightLive' /\ FlightApart' /\ FlightUnheld' /\ FlightUnrecorded'
      BY <2>0, <2>a, <1>t
         DEF Owned, FlightLive, FlightApart, FlightUnheld, FlightUnrecorded
    <2>4. NoOrphan'
      <3> SUFFICES ASSUME NEW q \in Ptrs, live'[q] # NoName
                   PROVE  \/ q \in Recorded' \cup lost'
                          \/ \E d \in Clients : q \in held'[d]
                          \/ \E w \in Workers : q \in InFlight(w)'
        BY DEF NoOrphan
      <3>1. CASE q = p
        BY <3>1, <2>0, <1>t
      <3>2. CASE q # p
        <4>1. q \in Recorded => q \in Recorded'
          BY <3>2, <2>0, <1>t DEF Recorded
        <4>2. \A w \in Workers : q \in InFlight(w) => q \in InFlight(w)'
          BY DEF InFlight
        <4> QED
          BY <3>2, <4>1, <4>2, <2>0, <2>a DEF Owned, NoOrphan
      <3> QED
        BY <3>1, <3>2
    <2> QED
      BY <2>1, <2>2, <2>3, <2>4 DEF Owned
  <1> QED
    BY <1>0, <1>1

\* The single map: the request carries an address where nothing was mapped.
LEMMA OwnedMap ==
  ASSUME Staged, Owned, NEW w \in Workers, NEW n \in Names, NEW p \in Ptrs,
         live[p] = NoName, live' = [live EXCEPT ![p] = n], work[w].ptr = NoPtr,
         work'[w].ptr = p, \A x \in Workers \ {w} : work'[x].ptr = work[x].ptr,
         shmMap' = shmMap, held' = held, lost' = lost
  PROVE  Owned'
  <1> USE NoNameIsNone, ServerAssumption
  <1>t. /\ live \in [Ptrs -> Names \cup {NoName}]
        /\ shmMap \in [Names -> Ptrs \cup {NoPtr}]
        /\ held \in [Clients -> SUBSET Ptrs]
        /\ \A x \in Workers : work[x].ptr \in Ptrs \cup {NoPtr}
    BY DEF Staged, TypeOK, Work
  <1>1. RecordLive' /\ HeldLive' /\ HeldApart' /\ HeldUnrecorded'
    BY <1>t DEF Owned, RecordLive, HeldLive, HeldApart, HeldUnrecorded
  <1>2. FlightLive' /\ FlightApart'
    BY <1>t DEF Owned, FlightLive, FlightApart
  <1>3. FlightUnheld'
    BY <1>t DEF Owned, FlightUnheld, HeldLive
  <1>4. FlightUnrecorded'
    BY <1>t DEF Owned, FlightUnrecorded, RecordLive
  <1>5. NoOrphan'
    <2> SUFFICES ASSUME NEW q \in Ptrs, live'[q] # NoName
                 PROVE  \/ q \in Recorded' \cup lost'
                        \/ \E d \in Clients : q \in held'[d]
                        \/ \E x \in Workers : q \in InFlight(x)'
      BY DEF NoOrphan
    <2>1. CASE q = p
      BY <2>1 DEF InFlight
    <2>2. CASE q # p
      <3>1. live[q] # NoName
        BY <2>2, <1>t
      <3>2. \A x \in Workers : q \in InFlight(x) => q \in InFlight(x)'
        BY DEF InFlight
      <3> QED
        BY <3>1, <3>2 DEF Owned, NoOrphan, Recorded
    <2> QED
      BY <2>1, <2>2
  <1> QED
    BY <1>1, <1>2, <1>3, <1>4, <1>5 DEF Owned

\* An address leaves the request that carried it: it is unmapped, or goes to the
\* client, or is given up.
LEMMA OwnedRelease ==
  ASSUME Staged, Owned, NEW w \in Workers, NEW p \in Ptrs, work[w].ptr = p,
         work'[w].ptr = NoPtr, \A x \in Workers \ {w} : work'[x].ptr = work[x].ptr,
         shmMap' = shmMap,
         \/ live' = [live EXCEPT ![p] = NoName] /\ held' = held /\ lost' = lost
         \/ live' = live /\ held' = held /\ lost' = lost \cup {p}
         \/ /\ live' = live /\ lost' = lost
            /\ \E c \in Clients : held' = [held EXCEPT ![c] = @ \cup {p}]
  PROVE  Owned'
  <1> USE NoNameIsNone, ServerAssumption
  <1>t. /\ live \in [Ptrs -> Names \cup {NoName}]
        /\ shmMap \in [Names -> Ptrs \cup {NoPtr}]
        /\ held \in [Clients -> SUBSET Ptrs]
        /\ \A x \in Workers : work[x].ptr \in Ptrs \cup {NoPtr}
    BY DEF Staged, TypeOK, Work
  <1>1. FlightLive' /\ FlightApart'
    BY <1>t DEF Owned, FlightLive, FlightApart
  <1>2. FlightUnrecorded'
    BY <1>t DEF Owned, FlightUnrecorded
  <1>3. RecordLive'
    BY <1>t DEF Owned, RecordLive, FlightUnrecorded
  <1>4. \A q \in Ptrs : q # p /\ live'[q] # NoName => live[q] # NoName
    BY <1>t
  <1>5. \A x \in Workers, q \in Ptrs : q # p /\ q \in InFlight(x) => q \in InFlight(x)'
    BY DEF InFlight
  <1>6. CASE held' = held
    <2>1. HeldLive' /\ HeldApart' /\ HeldUnrecorded'
      BY <1>6, <1>t DEF Owned, HeldLive, HeldApart, HeldUnrecorded, FlightUnheld
    <2>2. FlightUnheld'
      BY <1>6, <1>t DEF Owned, FlightUnheld
    <2>3. p \in lost' \/ live'[p] = NoName \/ \E c \in Clients : p \in held'[c]
      BY <1>6, <1>t
    <2>4. lost \subseteq lost'
      OBVIOUS
    <2>5. NoOrphan'
      BY <1>4, <1>5, <1>6, <2>3, <2>4 DEF Owned, NoOrphan, Recorded
    <2> QED
      BY <1>1, <1>2, <1>3, <2>1, <2>2, <2>5 DEF Owned
  <1>7. ASSUME NEW c \in Clients, held' = [held EXCEPT ![c] = @ \cup {p}],
               live' = live, lost' = lost
        PROVE  Owned'
    <2>1. \A d \in Clients : \A q : q \in held'[d] <=> q \in held[d] \/ (d = c /\ q = p)
      BY <1>7, <1>t
    <2>0. \A d \in Clients : p \notin held[d]
      BY DEF Owned, FlightUnheld
    <2>2. HeldLive'
      BY <1>7, <2>1 DEF Owned, HeldLive, FlightLive
    <2>3. HeldApart'
      BY <2>0, <2>1 DEF Owned, HeldApart
    <2>a. \A n \in Names : shmMap[n] # p
      BY DEF Owned, FlightUnrecorded
    <2>4. HeldUnrecorded'
      BY <2>1, <2>a DEF Owned, HeldUnrecorded
    <2>5. FlightUnheld'
      BY <2>1, <1>t DEF Owned, FlightUnheld, FlightApart
    <2>6. NoOrphan'
      BY <1>5, <1>7, <2>1 DEF Owned, NoOrphan, Recorded
    <2> QED
      BY <1>1, <1>2, <1>3, <2>2, <2>3, <2>4, <2>5, <2>6 DEF Owned
  <1> QED
    BY <1>6, <1>7

\* An address goes from the client to the request that unmaps it.
LEMMA OwnedUnmapRequest ==
  ASSUME Staged, Owned, NEW c \in Clients, NEW w \in Workers, NEW p \in held[c],
         work[w].ptr = NoPtr, work'[w].ptr = p,
         \A x \in Workers \ {w} : work'[x].ptr = work[x].ptr,
         held' = [held EXCEPT ![c] = @ \ {p}],
         live' = live, shmMap' = shmMap, lost' = lost
  PROVE  Owned'
  <1> USE NoNameIsNone, ServerAssumption
  <1>t. /\ live \in [Ptrs -> Names \cup {NoName}]
        /\ shmMap \in [Names -> Ptrs \cup {NoPtr}]
        /\ held \in [Clients -> SUBSET Ptrs]
        /\ \A x \in Workers : work[x].ptr \in Ptrs \cup {NoPtr}
    BY DEF Staged, TypeOK, Work
  <1>1. \A d \in Clients : held'[d] = IF d = c THEN held[d] \ {p} ELSE held[d]
    BY <1>t
  <1>2. RecordLive' /\ HeldLive' /\ HeldApart' /\ HeldUnrecorded'
    BY <1>1 DEF Owned, RecordLive, HeldLive, HeldApart, HeldUnrecorded
  <1>3. FlightLive' /\ FlightUnrecorded'
    BY DEF Owned, FlightLive, HeldLive, FlightUnrecorded, HeldUnrecorded
  <1>4. FlightUnheld'
    BY <1>1 DEF Owned, FlightUnheld, HeldApart
  <1>5. FlightApart'
    BY <1>t DEF Owned, FlightUnheld, FlightApart
  <1>6. NoOrphan'
    <2> SUFFICES ASSUME NEW q \in Ptrs, live'[q] # NoName
                 PROVE  \/ q \in Recorded' \cup lost'
                        \/ \E d \in Clients : q \in held'[d]
                        \/ \E x \in Workers : q \in InFlight(x)'
      BY DEF NoOrphan
    <2>1. CASE q = p
      BY <2>1, <1>t DEF InFlight
    <2>2. CASE q # p
      <3>1. \A x \in Workers : q \in InFlight(x) => q \in InFlight(x)'
        BY DEF InFlight
      <3> QED
        BY <2>2, <1>1, <3>1 DEF Owned, NoOrphan, Recorded
    <2> QED
      BY <2>1, <2>2
  <1> QED
    BY <1>2, <1>3, <1>4, <1>5, <1>6 DEF Owned

\* Nothing is mapped at first.
LEMMA OwnedInit == Init => Owned
  <1> SUFFICES ASSUME Init PROVE Owned
    OBVIOUS
  <1>1. /\ \A p \in Ptrs : live[p] = NoName
        /\ \A n \in Names : shmMap[n] = NoPtr
        /\ \A w \in Workers : work[w].ptr = NoPtr
        /\ \A c \in Clients : held[c] = {}
    BY DEF Init, Free
  <1> QED
    BY <1>1 DEF Owned, RecordLive, HeldLive, FlightLive, HeldApart, HeldUnrecorded,
                FlightUnrecorded, FlightUnheld, FlightApart, NoOrphan

\* Each step of a handler keeps the owners.
LEMMA OwnedWorker ==
  ASSUME Staged, Owned, NEW w \in Workers, WorkerStep(w)
  PROVE  Owned'
  <1>w. work[w] \in Work /\ StageOK(work[w]) /\ work \in [Workers -> Work]
    BY DEF Staged, TypeOK
  <1>n. work[w].op \notin {"none", "unmap"} =>
          /\ work[w].i < BatchNum => Name(w) \in Names
          /\ work[w].j < work[w].i => UndoName(w) \in Names
    BY NameType
  <1> DEFINE Carries == \A x \in Workers : work'[x].ptr = work[x].ptr
  <1>1. CASE Lock(w)
    <2>1. Carries
      BY <1>1, <1>w DEF Lock, Done, Work
    <2> QED
      BY <1>1, <2>1, OwnedInert DEF Lock, store
  <1>2. CASE AllocateBatch(w)
    <2>1. Carries
      BY <1>2, <1>w DEF AllocateBatch, Done, Work
    <2> QED
      BY <1>2, <2>1, OwnedInert DEF AllocateBatch, store
  <1>3. CASE AllocateUndo(w)
    <2>1. Carries
      BY <1>3, <1>w DEF AllocateUndo, Done, Work
    <2> QED
      BY <1>3, <2>1, OwnedInert DEF AllocateUndo, store
  <1>4. CASE DeallocateBatch(w)
    <2>1. Carries
      BY <1>4, <1>w DEF DeallocateBatch, Done, Work
    <2> QED
      BY <1>4, <2>1, OwnedInert DEF DeallocateBatch, store
  <1>5. CASE Initialize(w)
    <2>1. Carries
      BY <1>5, <1>w DEF Initialize, Done, Work
    <2> QED
      BY <1>5, <2>1, OwnedInert DEF Initialize, store
  <1>6. CASE Finalize(w)
    <2>1. Carries
      BY <1>6, <1>w DEF Finalize, Done, Work
    <2> QED
      BY <1>6, <2>1, OwnedInert DEF Finalize, store
  <1>7. CASE SetFlag(w)
    <2>1. Carries
      BY <1>7, <1>w DEF SetFlag, Done, Work
    <2> QED
      BY <1>7, <2>1, OwnedInert DEF SetFlag, store
  <1>8. CASE MapBatch(w)
    <2>1. Carries
      BY <1>8, <1>w DEF MapBatch, Done, Work
    <2>2. ASSUME NEW p \in Ptrs, work[w].i < BatchNum, SdkMaps(Name(w), p),
                 shmMap' = [shmMap EXCEPT ![Name(w)] = p],
                 lost' = lost \cup ({shmMap[Name(w)]} \ {NoPtr})
          PROVE  Owned'
      <3>1. Name(w) \in Names
        BY <1>8, <1>n, <2>2 DEF MapBatch, At
      <3> QED
        BY <1>8, <2>1, <2>2, <3>1, OwnedMapBatch DEF MapBatch, SdkMaps
    <2>3. CASE UNCHANGED <<live, shmMap, lost>>
      BY <1>8, <2>1, <2>3, OwnedInert DEF MapBatch
    <2> QED
      BY <1>8, <2>2, <2>3 DEF MapBatch
  <1>9. CASE MapUndo(w)
    <2>1. Carries
      BY <1>9, <1>w DEF MapUndo, Done, Work
    <2>2. CASE work[w].j < work[w].i /\ Forget(UndoName(w))
      <3>1. UndoName(w) \in Names
        BY <1>9, <1>n, <2>2 DEF MapUndo, At
      <3> QED
        BY <1>9, <2>1, <2>2, <3>1, OwnedForget DEF MapUndo
    <2>3. CASE UNCHANGED <<live, shmMap, lost>>
      BY <1>9, <2>1, <2>3, OwnedInert DEF MapUndo
    <2> QED
      BY <1>9, <2>2, <2>3 DEF MapUndo
  <1>10. CASE UnmapBatch(w)
    <2>1. Carries
      BY <1>10, <1>w DEF UnmapBatch, Done, Work
    <2>2. CASE work[w].i < BatchNum /\ Forget(Name(w))
      <3>1. Name(w) \in Names
        BY <1>10, <1>n, <2>2 DEF UnmapBatch, At
      <3> QED
        BY <1>10, <2>1, <2>2, <3>1, OwnedForget DEF UnmapBatch
    <2>3. CASE UNCHANGED <<live, shmMap, lost>>
      BY <1>10, <2>1, <2>3, OwnedInert DEF UnmapBatch
    <2> QED
      BY <1>10, <2>2, <2>3 DEF UnmapBatch
  <1>11. CASE Map(w)
    <2>1. Name(w) \in Names /\ work[w].ptr = NoPtr
      BY <1>11, <1>w, <1>n, ServerAssumption DEF Map, At, StageOK, Work
    <2>2. ASSUME NEW p \in Ptrs, SdkMaps(Name(w), p),
                 work' = [work EXCEPT ![w].pc = "reply", ![w].ptr = p]
          PROVE  Owned'
      <3>1. work'[w].ptr = p /\ \A x \in Workers \ {w} : work'[x].ptr = work[x].ptr
        BY <1>w, <2>2 DEF Work
      <3> QED
        BY <1>11, <2>1, <2>2, <3>1, OwnedMap DEF Map, SdkMaps
    <2>3. CASE Done(w, FALSE) /\ UNCHANGED live
      <3>1. Carries
        BY <2>3, <1>w DEF Done, Work
      <3> QED
        BY <1>11, <2>3, <3>1, OwnedInert DEF Map
    <2> QED
      BY <1>11, <2>2, <2>3 DEF Map
  <1>12. CASE Unmap(w)
    <2> DEFINE p == work[w].ptr
    <2>1. p \in Ptrs
      BY <1>12, <1>w DEF Unmap, At, StageOK, Work
    <2>2. work'[w].ptr = NoPtr /\ \A x \in Workers \ {w} : work'[x].ptr = work[x].ptr
      BY <1>12, <1>w DEF Unmap, Work
    <2>3. \/ live' = [live EXCEPT ![p] = NoName] /\ held' = held /\ lost' = lost
          \/ live' = live /\ held' = held /\ lost' = lost \cup {p}
      BY <1>12 DEF Unmap
    <2>4. shmMap' = shmMap
      BY <1>12 DEF Unmap
    <2> HIDE DEF p
    <2>5. work[w].ptr = p
      BY DEF p
    <2> QED
      BY <2>1, <2>2, <2>3, <2>4, <2>5, OwnedRelease
  <1>13. CASE Reply(w)
    <2> DEFINE p == work[w].ptr
    <2>1. /\ p \in Ptrs \cup {NoPtr}
          /\ p # NoPtr => work[w].op = "map"
          /\ work[w].client \in Clients
      BY <1>13, <1>w DEF Reply, StageOK, Work
    <2>2. work'[w].ptr = NoPtr /\ \A x \in Workers \ {w} : work'[x].ptr = work[x].ptr
      BY <1>13, <1>w DEF Reply, Free, Work
    <2>3. CASE p = NoPtr
      <3>1. Carries
        BY <2>2, <2>3
      <3>2. live' = live /\ shmMap' = shmMap /\ lost \subseteq lost'
        BY <1>13 DEF Reply
      <3>3. held' = held
        <4>1. held \in [Clients -> SUBSET Ptrs]
          BY DEF Staged, TypeOK
        <4>2. (IF work[w].op = "map" THEN {work[w].ptr} \ {NoPtr} ELSE {}) = {}
          BY <2>3
        <4>3. [held EXCEPT ![work[w].client] = @ \cup {}] = held
          BY <4>1
        <4> QED
          BY <1>13, <4>2, <4>3 DEF Reply
      <3> QED
        BY <3>1, <3>2, <3>3, OwnedInert
    <2>4. CASE p # NoPtr
      <3>1. /\ live' = live /\ shmMap' = shmMap
            /\ \/ held' = held /\ lost' = lost \cup {p}
               \/ lost' = lost /\ \E c \in Clients : held' = [held EXCEPT ![c] = @ \cup {p}]
        <4>1. (IF work[w].op = "map" THEN {work[w].ptr} \ {NoPtr} ELSE {}) = {p}
          BY <2>1, <2>4
        <4> QED
          BY <1>13, <2>1, <4>1 DEF Reply
      <3>2. p \in Ptrs
        BY <2>1, <2>4
      <3> HIDE DEF p
      <3>3. work[w].ptr = p
        BY DEF p
      <3> QED
        BY <2>2, <3>1, <3>2, <3>3, OwnedRelease
    <2> QED
      BY <2>3, <2>4
  <1> QED
    BY <1>1, <1>2, <1>3, <1>4, <1>5, <1>6, <1>7, <1>8, <1>9, <1>10, <1>11, <1>12, <1>13 DEF WorkerStep

\* So does a request and giving up on one.
LEMMA OwnedClient ==
  ASSUME Staged, Owned, NEW c \in Clients,
         GiveUp(c) \/ \E w \in Workers : Request(c, w)
  PROVE  Owned'
  <1>1. CASE GiveUp(c)
    BY <1>1, OwnedInert DEF GiveUp, store
  <1>2. ASSUME NEW w \in Workers, Request(c, w)
        PROVE  Owned'
    <2>1. /\ work \in [Workers -> Work]
          /\ work[w].ptr = NoPtr
      BY <1>2 DEF Request, Staged, TypeOK, StageOK
    <2>2. \A op, prefix : Serve(c, op, prefix).ptr = NoPtr
      BY DEF Serve, Free
    <2>3. ASSUME NEW op, NEW prefix, work' = [work EXCEPT ![w] = Serve(c, op, prefix)],
                 UNCHANGED held
          PROVE  Owned'
      <3>1. \A x \in Workers : work'[x].ptr = work[x].ptr
        BY <2>1, <2>2, <2>3
      <3> QED
        BY <1>2, <2>3, <3>1, OwnedInert DEF Request, store
    <2>4. ASSUME NEW p \in held[c],
                 work' = [work EXCEPT ![w] = [Serve(c, "unmap", "none") EXCEPT !.ptr = p]],
                 held' = [held EXCEPT ![c] = @ \ {p}]
          PROVE  Owned'
      <3>1. work'[w].ptr = p /\ \A x \in Workers \ {w} : work'[x].ptr = work[x].ptr
        BY <2>1, <2>4 DEF Serve, Free
      <3> QED
        BY <1>2, <2>1, <2>4, <3>1, OwnedUnmapRequest DEF Request, store
    <2> QED
      BY <1>2, <2>3, <2>4 DEF Request
  <1> QED
    BY <1>1, <1>2

\* Ownership is inductive, given the stages.
LEMMA OwnedStep == Staged /\ Owned /\ [Next]_vars => Owned'
  <1> SUFFICES ASSUME Staged, Owned, [Next]_vars PROVE Owned'
    OBVIOUS
  <1>1. CASE UNCHANGED vars
    BY <1>1, OwnedInert DEF vars
  <1>2. CASE Next
    BY <1>2, OwnedClient, OwnedWorker DEF Next
  <1> QED
    BY <1>1, <1>2

\* Every address has one owner, always.
LEMMA OwnedAlways == Spec => []Owned
  <1>1. Init => Staged /\ Owned
    BY InitStaged, OwnedInit
  <1>2. Staged /\ Owned /\ [Next]_vars => (Staged /\ Owned)'
    BY StagedStep, OwnedStep
  <1> QED
    BY <1>1, <1>2, PTL DEF Spec

\* Whatever the interleaving of handlers, clients that give up and calls that fail,
\* a recorded address is mapped to the object it is recorded for and belongs to
\* nobody else, what a client was given stays mapped and its own, and a mapping that
\* nobody can unmap any more was given up by a failed unmap, a batch mapped over
\* itself or an answer that came too late.
THEOREM Accounts == Spec => []Accounted
  <1>1. Owned => RecordedIsOwned
    BY DEF Owned, RecordLive, HeldLive, HeldApart, HeldUnrecorded, FlightUnrecorded,
           RecordedIsOwned, Recorded, InFlight
  <1>2. Owned => NoOrphan
    BY DEF Owned
  <1>3. Owned => Accounted
    BY <1>1, <1>2 DEF Accounted
  <1> QED
    BY <1>3, OwnedAlways, PTL

-----------------------------------------------------------------------------
(* The ledger of addresses.  That each address has one owner (Owned) makes *)
(* the owner read off the server's state unique; each step is then one     *)
(* move of the ledger, or none.                                            *)

\* The owner of an address, one case at a time.
AddrCases(p) ==
    /\ AddrState(p) \in {"free", "batch", "client", "request", "lost"}
    /\ live[p] = NoName <=> AddrState(p) = "free"
    /\ (\E n \in Names : shmMap[n] = p) <=> AddrState(p) = "batch"
    /\ (\E c \in Clients : p \in held[c]) <=> AddrState(p) = "client"
    /\ (\E w \in Workers : work[w].ptr = p) <=> AddrState(p) = "request"
    /\ AddrState(p) \in {"free", "batch", "lost"} => AddrUser(p) = NoClient
    /\ \A c \in Clients : p \in held[c] => AddrUser(p) = c
    /\ \A w \in Workers : work[w].ptr = p => AddrUser(p) = work[w].client

\* The owners exclude each other.
LEMMA Cases == Staged /\ Owned => \A p \in Ptrs : AddrCases(p)
  <1> SUFFICES ASSUME Staged, Owned, NEW p \in Ptrs PROVE AddrCases(p)
    OBVIOUS
  <1> USE ServerAssumption, NoNameIsNone
  <1>1. p \in Recorded <=> \E n \in Names : shmMap[n] = p
    BY DEF Recorded
  <1>2. Holders(p) # {} <=> \E c \in Clients : p \in held[c]
    BY DEF Holders
  <1>3. Carriers(p) # {} <=> \E w \in Workers : work[w].ptr = p
    BY DEF Carriers
  <1>4. (\E n \in Names : shmMap[n] = p) =>
          /\ live[p] # NoName
          /\ \A c \in Clients : p \notin held[c]
          /\ \A w \in Workers : work[w].ptr # p
    BY DEF Owned, RecordLive, HeldUnrecorded, FlightUnrecorded
  <1>5. (\E c \in Clients : p \in held[c]) =>
          live[p] # NoName /\ \A w \in Workers : work[w].ptr # p
    BY DEF Owned, HeldLive, FlightUnheld
  <1>6. (\E w \in Workers : work[w].ptr = p) => live[p] # NoName
    BY DEF Owned, FlightLive
  <1>7. ASSUME NEW c \in Clients, p \in held[c]
        PROVE  AddrUser(p) = c
    <2>1. AddrState(p) = "client"
      BY <1>1, <1>2, <1>4, <1>5, <1>7 DEF AddrState
    <2>2. (CHOOSE d \in Clients : p \in held[d]) = c
      BY <1>7 DEF Owned, HeldApart
    <2> QED
      BY <2>1, <2>2 DEF AddrUser
  <1>8. ASSUME NEW w \in Workers, work[w].ptr = p
        PROVE  AddrUser(p) = work[w].client
    <2>1. AddrState(p) = "request"
      BY <1>1, <1>2, <1>3, <1>4, <1>5, <1>6, <1>8 DEF AddrState
    <2>2. (CHOOSE x \in Workers : work[x].ptr = p) = w
      BY <1>8 DEF Owned, FlightApart
    <2> QED
      BY <2>1, <2>2 DEF AddrUser
  <1>9. AddrState(p) \in {"free", "batch", "lost"} => AddrUser(p) = NoClient
    BY DEF AddrUser
  <1>10. /\ AddrState(p) \in {"free", "batch", "client", "request", "lost"}
         /\ live[p] = NoName <=> AddrState(p) = "free"
    BY DEF AddrState
  <1>11. /\ (\E n \in Names : shmMap[n] = p) <=> AddrState(p) = "batch"
         /\ (\E c \in Clients : p \in held[c]) <=> AddrState(p) = "client"
         /\ (\E w \in Workers : work[w].ptr = p) <=> AddrState(p) = "request"
    BY <1>1, <1>2, <1>3, <1>4, <1>5, <1>6 DEF AddrState
  <1> QED
    BY <1>7, <1>8, <1>9, <1>10, <1>11 DEF AddrCases

\* The same after a step.
LEMMA CasesAfter ==
  ASSUME Staged', Owned'
  PROVE  \A p \in Ptrs : AddrCases(p)'
  <1>1. (Staged /\ Owned => \A p \in Ptrs : AddrCases(p))'
    BY Cases, PTL
  <1> QED
    BY <1>1

-----------------------------------------------------------------------------
(* One step, by what it does to the addresses *)

\* The ledger's view of the state and of the users.
StateOf == [p \in Ptrs |-> AddrState(p)]
UserOf == [p \in Ptrs |-> AddrUser(p)]

Invariants == Staged /\ Owned /\ Staged' /\ Owned'

\* Nothing about the owner of address p changes.
Keeps(p) ==
    /\ live'[p] = live[p]
    /\ (\E n \in Names : shmMap'[n] = p) <=> (\E n \in Names : shmMap[n] = p)
    /\ \A c \in Clients : p \in held'[c] <=> p \in held[c]
    /\ \A w \in Workers : work'[w].ptr = p <=> work[w].ptr = p
    /\ \A w \in Workers : work[w].ptr = p => work'[w].client = work[w].client

\* What owns an address goes on owning it.
LEMMA SameOwner ==
  ASSUME Invariants, NEW p \in Ptrs, Keeps(p)
  PROVE  AddrState(p)' = AddrState(p) /\ AddrUser(p)' = AddrUser(p)
  <1>1. AddrCases(p) /\ AddrCases(p)'
    BY Cases, CasesAfter DEF Invariants
  <1>2. AddrState(p)' = AddrState(p)
    BY <1>1 DEF AddrCases, Keeps
  <1>3. AddrUser(p)' = AddrUser(p)
    BY <1>1, <1>2 DEF AddrCases, Keeps
  <1> QED
    BY <1>2, <1>3

\* One address moves and the others stay.
LEMMA OneMoves ==
  ASSUME Invariants, NEW p \in Ptrs, \A q \in Ptrs \ {p} : Keeps(q)
  PROVE  /\ StateOf' = [StateOf EXCEPT ![p] = AddrState(p)']
         /\ UserOf' = [UserOf EXCEPT ![p] = AddrUser(p)']
  <1>1. \A q \in Ptrs \ {p} : AddrState(q)' = AddrState(q) /\ AddrUser(q)' = AddrUser(q)
    BY SameOwner
  <1> QED
    BY <1>1 DEF StateOf, UserOf

\* A step that moves no address.
LEMMA LedgerInert ==
  ASSUME Invariants, live' = live, shmMap' = shmMap, held' = held,
         \A x \in Workers : work'[x].ptr = work[x].ptr,
         \A x \in Workers : work[x].ptr # NoPtr => work'[x].client = work[x].client
  PROVE  UNCHANGED Ledger!vars
  <1>1. \A p \in Ptrs : Keeps(p)
    BY ServerAssumption DEF Keeps
  <1>2. \A p \in Ptrs : AddrState(p)' = AddrState(p) /\ AddrUser(p)' = AddrUser(p)
    BY <1>1, SameOwner
  <1>3. StateOf' = StateOf /\ UserOf' = UserOf
    BY <1>2 DEF StateOf, UserOf
  <1> QED
    BY <1>3 DEF Ledger!vars, StateOf, UserOf

\* map_batch takes a free address; the one recorded before, if any, is given up.
LEMMA LedgerMapBatch ==
  ASSUME Invariants, NEW n \in Names, NEW p \in Ptrs,
         live[p] = NoName, live' = [live EXCEPT ![p] = n],
         shmMap' = [shmMap EXCEPT ![n] = p], held' = held,
         \A x \in Workers : work'[x].ptr = work[x].ptr,
         \A x \in Workers : work[x].ptr # NoPtr => work'[x].client = work[x].client
  PROVE  Ledger!Next
  <1> USE NoNameIsNone, ServerAssumption
  <1>t. /\ live \in [Ptrs -> Names \cup {NoName}]
        /\ shmMap \in [Names -> Ptrs \cup {NoPtr}]
    BY DEF Invariants, Staged, TypeOK
  <1>c. \A q \in Ptrs : AddrCases(q) /\ AddrCases(q)'
    BY Cases, CasesAfter DEF Invariants
  <1>r. \A m \in Names : shmMap[m] \in Ptrs => live[shmMap[m]] = m
    BY DEF Invariants, Owned, RecordLive
  <1>1. /\ AddrState(p) = "free" /\ AddrState(p)' = "batch"
        /\ AddrUser(p) = NoClient /\ AddrUser(p)' = NoClient
    <2>1. shmMap'[n] = p
      BY <1>t
    <2> QED
      BY <1>c, <2>1 DEF AddrCases
  <1>2. ASSUME NEW q \in Ptrs \ {p}, q # shmMap[n]
        PROVE  Keeps(q)
    BY <1>2, <1>t DEF Keeps
  <1>3. CASE shmMap[n] = NoPtr
    <2>1. /\ StateOf' = [StateOf EXCEPT ![p] = AddrState(p)']
          /\ UserOf' = [UserOf EXCEPT ![p] = AddrUser(p)']
      BY <1>2, <1>3, OneMoves
    <2>2. UserOf' = UserOf
      BY <1>1, <2>1 DEF UserOf
    <2>3. Ledger!MapForBatch(p)
      BY <1>1, <2>1, <2>2 DEF Ledger!MapForBatch, Ledger!Pass, StateOf, UserOf
    <2> QED
      BY <2>3 DEF Ledger!Next
  <1>4. CASE shmMap[n] # NoPtr
    <2>0. PICK q \in Ptrs : q = shmMap[n]
      BY <1>4, <1>t
    <2>1. q \in Ptrs /\ q # p /\ live[q] = n
      BY <1>t, <1>r, <2>0
    <2>2. /\ AddrState(q) = "batch"
          /\ AddrUser(q) = NoClient
      BY <1>c, <2>0 DEF AddrCases
    <2>3. AddrState(q)' = "lost" /\ AddrUser(q)' = NoClient
      <3>1. live'[q] # NoName
        BY <2>1, <1>t
      <3>2. \A m \in Names : shmMap'[m] # q
        BY <2>0, <2>1, <1>t, <1>r
      <3>3. \A c \in Clients : q \notin held'[c]
        BY <2>0 DEF Invariants, Owned, HeldUnrecorded
      <3>4. \A x \in Workers : work'[x].ptr # q
        BY <2>0, <2>1 DEF Invariants, Owned, FlightUnrecorded
      <3>5. AddrCases(q)'
        BY <1>c, <2>1
      <3> QED
        BY <3>1, <3>2, <3>3, <3>4, <3>5 DEF AddrCases
    <2>4. \A r \in Ptrs \ {p, q} : AddrState(r)' = AddrState(r) /\ AddrUser(r)' = AddrUser(r)
      BY <1>2, <2>0, SameOwner
    <2>5. /\ StateOf' = [StateOf EXCEPT ![q] = "lost", ![p] = "batch"]
          /\ UserOf' = UserOf
      BY <1>1, <2>1, <2>2, <2>3, <2>4 DEF StateOf, UserOf
    <2>6. Ledger!Replace(q, p)
      BY <1>1, <2>1, <2>2, <2>5 DEF Ledger!Replace, StateOf, UserOf
    <2> QED
      BY <2>1, <2>6 DEF Ledger!Next
  <1> QED
    BY <1>3, <1>4

\* A recorded address is unmapped, or given up by a fault.
LEMMA LedgerForget ==
  ASSUME Invariants, NEW n \in Names, Forget(n), held' = held,
         \A x \in Workers : work'[x].ptr = work[x].ptr,
         \A x \in Workers : work[x].ptr # NoPtr => work'[x].client = work[x].client
  PROVE  [Ledger!Next]_(Ledger!vars)
  <1> USE NoNameIsNone, ServerAssumption
  <1>t. /\ live \in [Ptrs -> Names \cup {NoName}]
        /\ shmMap \in [Names -> Ptrs \cup {NoPtr}]
    BY DEF Invariants, Staged, TypeOK
  <1>0. CASE shmMap[n] = NoPtr
    BY <1>0, LedgerInert DEF Forget
  <1>1. CASE shmMap[n] # NoPtr
    <2>0. PICK p \in Ptrs : p = shmMap[n]
      BY <1>1, <1>t
    <2>1. /\ shmMap' = [shmMap EXCEPT ![n] = NoPtr]
          /\ \/ live' = [live EXCEPT ![p] = NoName]
             \/ live' = live
      BY <1>1, <2>0 DEF Forget
    <2>c. AddrCases(p) /\ AddrCases(p)'
      BY Cases, CasesAfter DEF Invariants
    <2>2. \A m \in Names : shmMap[m] = p => m = n
      BY <2>0 DEF Invariants, Owned, RecordLive
    <2>3. \A m \in Names : shmMap'[m] # p
      BY <2>0, <2>1, <2>2, <1>t
    <2>4. AddrState(p) = "batch" /\ AddrUser(p) = NoClient
      BY <2>0, <2>c DEF AddrCases
    <2>5. /\ \A c \in Clients : p \notin held'[c]
          /\ \A x \in Workers : work'[x].ptr # p
      BY <2>0 DEF Invariants, Owned, HeldUnrecorded, FlightUnrecorded
    <2>6. AddrState(p)' \in {"free", "lost"} /\ AddrUser(p)' = NoClient
      BY <2>3, <2>5, <2>c DEF AddrCases
    <2>7. ASSUME NEW q \in Ptrs \ {p}
          PROVE  Keeps(q)
      BY <2>0, <2>1, <1>t DEF Keeps
    <2>8. /\ StateOf' = [StateOf EXCEPT ![p] = AddrState(p)']
          /\ UserOf' = [UserOf EXCEPT ![p] = AddrUser(p)']
      BY <2>7, OneMoves
    <2>9. UserOf' = UserOf
      BY <2>4, <2>6, <2>8 DEF UserOf
    <2>10. Ledger!UnmapBatch(p) \/ Ledger!AbandonBatch(p)
      BY <2>4, <2>6, <2>8, <2>9
         DEF Ledger!UnmapBatch, Ledger!AbandonBatch, Ledger!Pass, StateOf, UserOf
    <2> QED
      BY <2>10 DEF Ledger!Next
  <1> QED
    BY <1>0, <1>1

\* The single map: the address belongs to the request, for the client that asked.
LEMMA LedgerMap ==
  ASSUME Invariants, NEW w \in Workers, NEW n \in Names, NEW p \in Ptrs,
         live[p] = NoName, live' = [live EXCEPT ![p] = n], work[w].ptr = NoPtr,
         work'[w].ptr = p, work[w].client \in Clients,
         \A x \in Workers \ {w} : work'[x].ptr = work[x].ptr,
         \A x \in Workers : work'[x].client = work[x].client,
         shmMap' = shmMap, held' = held
  PROVE  Ledger!Next
  <1> USE NoNameIsNone, ServerAssumption
  <1>t. live \in [Ptrs -> Names \cup {NoName}]
    BY DEF Invariants, Staged, TypeOK
  <1>c. AddrCases(p) /\ AddrCases(p)'
    BY Cases, CasesAfter DEF Invariants
  <1>0. PICK c \in Clients : c = work[w].client
    OBVIOUS
  <1>1. AddrState(p) = "free" /\ AddrState(p)' = "request" /\ AddrUser(p)' = c
    BY <1>0, <1>c DEF AddrCases
  <1>2. ASSUME NEW q \in Ptrs \ {p}
        PROVE  Keeps(q)
    BY <1>t DEF Keeps
  <1>3. /\ StateOf' = [StateOf EXCEPT ![p] = "request"]
        /\ UserOf' = [UserOf EXCEPT ![p] = c]
    BY <1>1, <1>2, OneMoves
  <1>4. Ledger!MapForRequest(p, c)
    BY <1>1, <1>3 DEF Ledger!MapForRequest, Ledger!Pass, StateOf, UserOf
  <1> QED
    BY <1>4 DEF Ledger!Next

\* The request is over: the address is unmapped, given up, or the client's.
LEMMA LedgerRelease ==
  ASSUME Invariants, NEW w \in Workers, NEW p \in Ptrs, work[w].ptr = p,
         work'[w].ptr = NoPtr, work[w].client \in Clients,
         \A x \in Workers \ {w} : work'[x].ptr = work[x].ptr,
         \A x \in Workers \ {w} : work'[x].client = work[x].client,
         shmMap' = shmMap,
         \/ live' = [live EXCEPT ![p] = NoName] /\ held' = held
         \/ live' = live /\ held' = held
         \/ live' = live /\ held' = [held EXCEPT ![work[w].client] = @ \cup {p}]
  PROVE  Ledger!Next
  <1> USE NoNameIsNone, ServerAssumption
  <1>t. /\ live \in [Ptrs -> Names \cup {NoName}]
        /\ held \in [Clients -> SUBSET Ptrs]
    BY DEF Invariants, Staged, TypeOK
  <1>c. AddrCases(p) /\ AddrCases(p)'
    BY Cases, CasesAfter DEF Invariants
  <1>0. PICK c \in Clients : c = work[w].client
    OBVIOUS
  <1>1. AddrState(p) = "request" /\ AddrUser(p) = c
    BY <1>0, <1>c DEF AddrCases
  <1>2. \A x \in Workers : work'[x].ptr # p
    BY ServerAssumption DEF Invariants, Owned, FlightApart
  <1>3. \A n \in Names : shmMap'[n] # p
    BY DEF Invariants, Owned, FlightUnrecorded
  <1>4. ASSUME NEW q \in Ptrs \ {p}
        PROVE  Keeps(q)
    BY <1>t DEF Keeps
  <1>5. /\ StateOf' = [StateOf EXCEPT ![p] = AddrState(p)']
        /\ UserOf' = [UserOf EXCEPT ![p] = AddrUser(p)']
    BY <1>4, OneMoves
  <1>6. CASE held' = held
    <2>1. \A d \in Clients : p \notin held'[d]
      BY <1>6 DEF Invariants, Owned, FlightUnheld
    <2>2. AddrState(p)' \in {"free", "lost"} /\ AddrUser(p)' = NoClient
      BY <1>2, <1>3, <1>c, <2>1 DEF AddrCases
    <2>3. Ledger!Unmap(p) \/ Ledger!Abandon(p)
      BY <1>1, <1>5, <2>2
         DEF Ledger!Unmap, Ledger!Abandon, Ledger!Pass, StateOf, UserOf
    <2> QED
      BY <2>3 DEF Ledger!Next
  <1>7. CASE held' = [held EXCEPT ![c] = @ \cup {p}]
    <2>1. p \in held'[c]
      BY <1>7, <1>t
    <2>2. AddrState(p)' = "client" /\ AddrUser(p)' = c
      BY <1>c, <2>1 DEF AddrCases
    <2>3. UserOf' = UserOf
      BY <1>1, <1>5, <2>2 DEF UserOf
    <2>4. Ledger!Answer(p)
      BY <1>1, <1>5, <2>2, <2>3 DEF Ledger!Answer, Ledger!Pass, StateOf, UserOf
    <2> QED
      BY <2>4 DEF Ledger!Next
  <1> QED
    BY <1>0, <1>6, <1>7

\* The client asks for an address of its own to be unmapped.
LEMMA LedgerUnmapRequest ==
  ASSUME Invariants, NEW c \in Clients, NEW w \in Workers, NEW p \in held[c],
         work[w].ptr = NoPtr, work'[w].ptr = p, work'[w].client = c,
         \A x \in Workers \ {w} : work'[x].ptr = work[x].ptr,
         \A x \in Workers \ {w} : work'[x].client = work[x].client,
         held' = [held EXCEPT ![c] = @ \ {p}],
         live' = live, shmMap' = shmMap
  PROVE  Ledger!Next
  <1> USE NoNameIsNone, ServerAssumption
  <1>t. held \in [Clients -> SUBSET Ptrs]
    BY DEF Invariants, Staged, TypeOK
  <1>0. p \in Ptrs
    BY <1>t
  <1>c. AddrCases(p) /\ AddrCases(p)'
    BY <1>0, Cases, CasesAfter DEF Invariants
  <1>1. /\ AddrState(p) = "client" /\ AddrUser(p) = c
        /\ AddrState(p)' = "request" /\ AddrUser(p)' = c
    BY <1>c DEF AddrCases
  <1>2. ASSUME NEW q \in Ptrs \ {p}
        PROVE  Keeps(q)
    BY <1>t DEF Keeps
  <1>3. /\ StateOf' = [StateOf EXCEPT ![p] = AddrState(p)']
        /\ UserOf' = [UserOf EXCEPT ![p] = AddrUser(p)']
    BY <1>0, <1>2, OneMoves
  <1>4. UserOf' = UserOf
    BY <1>1, <1>3 DEF UserOf
  <1>5. Ledger!GiveBack(p)
    BY <1>0, <1>1, <1>3, <1>4 DEF Ledger!GiveBack, Ledger!Pass, StateOf, UserOf
  <1> QED
    BY <1>0, <1>5 DEF Ledger!Next

-----------------------------------------------------------------------------
(* The steps of the server *)

\* Each step of a handler is a move of the ledger or leaves it alone.
LEMMA LedgerWorker ==
  ASSUME Invariants, NEW w \in Workers, WorkerStep(w)
  PROVE  [Ledger!Next]_(Ledger!vars)
  <1>w. work[w] \in Work /\ StageOK(work[w]) /\ work \in [Workers -> Work]
    BY DEF Invariants, Staged, TypeOK
  <1>n. work[w].op \notin {"none", "unmap"} =>
          /\ work[w].i < BatchNum => Name(w) \in Names
          /\ work[w].j < work[w].i => UndoName(w) \in Names
    BY NameType DEF Invariants
  <1> DEFINE Carries == /\ \A x \in Workers : work'[x].ptr = work[x].ptr
                        /\ \A x \in Workers : work[x].ptr # NoPtr =>
                             work'[x].client = work[x].client
  <1>1. CASE Lock(w)
    <2>1. Carries
      BY <1>1, <1>w DEF Lock, Work
    <2> QED
      BY <1>1, <2>1, LedgerInert DEF Lock, store
  <1>2. CASE AllocateBatch(w)
    <2>1. Carries
      BY <1>2, <1>w DEF AllocateBatch, Done, Work
    <2> QED
      BY <1>2, <2>1, LedgerInert DEF AllocateBatch, store
  <1>3. CASE AllocateUndo(w)
    <2>1. Carries
      BY <1>3, <1>w DEF AllocateUndo, Done, Work
    <2> QED
      BY <1>3, <2>1, LedgerInert DEF AllocateUndo, store
  <1>4. CASE DeallocateBatch(w)
    <2>1. Carries
      BY <1>4, <1>w DEF DeallocateBatch, Done, Work
    <2> QED
      BY <1>4, <2>1, LedgerInert DEF DeallocateBatch, store
  <1>5. CASE Initialize(w)
    <2>1. Carries
      BY <1>5, <1>w DEF Initialize, Done, Work
    <2> QED
      BY <1>5, <2>1, LedgerInert DEF Initialize, store
  <1>6. CASE Finalize(w)
    <2>1. Carries
      BY <1>6, <1>w DEF Finalize, Done, Work
    <2> QED
      BY <1>6, <2>1, LedgerInert DEF Finalize, store
  <1>7. CASE SetFlag(w)
    <2>1. Carries
      BY <1>7, <1>w DEF SetFlag, Done, Work
    <2> QED
      BY <1>7, <2>1, LedgerInert DEF SetFlag, store
  <1>8. CASE MapBatch(w)
    <2>1. Carries
      BY <1>8, <1>w DEF MapBatch, Done, Work
    <2>2. ASSUME NEW p \in Ptrs, work[w].i < BatchNum, SdkMaps(Name(w), p),
                 shmMap' = [shmMap EXCEPT ![Name(w)] = p]
          PROVE  Ledger!Next
      <3>1. PICK n \in Names : n = Name(w)
        BY <1>8, <1>n, <2>2 DEF MapBatch, At
      <3> QED
        BY <1>8, <2>1, <2>2, <3>1, LedgerMapBatch DEF MapBatch, SdkMaps
    <2>3. CASE UNCHANGED <<live, shmMap, lost>>
      BY <1>8, <2>1, <2>3, LedgerInert DEF MapBatch
    <2> QED
      BY <1>8, <2>2, <2>3 DEF MapBatch
  <1>9. CASE MapUndo(w)
    <2>1. Carries
      BY <1>9, <1>w DEF MapUndo, Done, Work
    <2>2. CASE work[w].j < work[w].i /\ Forget(UndoName(w))
      <3>1. PICK n \in Names : n = UndoName(w)
        BY <1>9, <1>n, <2>2 DEF MapUndo, At
      <3> QED
        BY <1>9, <2>1, <2>2, <3>1, LedgerForget DEF MapUndo
    <2>3. CASE UNCHANGED <<live, shmMap, lost>>
      BY <1>9, <2>1, <2>3, LedgerInert DEF MapUndo
    <2> QED
      BY <1>9, <2>2, <2>3 DEF MapUndo
  <1>10. CASE UnmapBatch(w)
    <2>1. Carries
      BY <1>10, <1>w DEF UnmapBatch, Done, Work
    <2>2. CASE work[w].i < BatchNum /\ Forget(Name(w))
      <3>1. PICK n \in Names : n = Name(w)
        BY <1>10, <1>n, <2>2 DEF UnmapBatch, At
      <3> QED
        BY <1>10, <2>1, <2>2, <3>1, LedgerForget DEF UnmapBatch
    <2>3. CASE UNCHANGED <<live, shmMap, lost>>
      BY <1>10, <2>1, <2>3, LedgerInert DEF UnmapBatch
    <2> QED
      BY <1>10, <2>2, <2>3 DEF UnmapBatch
  <1>11. CASE Map(w)
    <2>1. /\ Name(w) \in Names
          /\ work[w].ptr = NoPtr
          /\ work[w].client \in Clients
      BY <1>11, <1>w, <1>n, ServerAssumption DEF Map, At, StageOK, Work
    <2>2. ASSUME NEW p \in Ptrs, SdkMaps(Name(w), p),
                 work' = [work EXCEPT ![w].pc = "reply", ![w].ptr = p]
          PROVE  Ledger!Next
      <3>1. /\ work'[w].ptr = p
            /\ \A x \in Workers \ {w} : work'[x].ptr = work[x].ptr
            /\ \A x \in Workers : work'[x].client = work[x].client
        BY <1>w, <2>2 DEF Work
      <3>2. PICK n \in Names : n = Name(w)
        BY <2>1
      <3> QED
        BY <1>11, <2>1, <2>2, <3>1, <3>2, LedgerMap DEF Map, SdkMaps
    <2>3. CASE Done(w, FALSE) /\ UNCHANGED live
      <3>1. Carries
        BY <2>3, <1>w DEF Done, Work
      <3> QED
        BY <1>11, <2>3, <3>1, LedgerInert DEF Map
    <2> QED
      BY <1>11, <2>2, <2>3 DEF Map
  <1>12. CASE Unmap(w)
    <2>0. work[w].ptr \in Ptrs /\ work[w].client \in Clients
      BY <1>12, <1>w DEF Unmap, At, StageOK, Work
    <2>1. PICK p \in Ptrs : p = work[w].ptr
      BY <2>0
    <2>2. /\ work'[w].ptr = NoPtr
          /\ \A x \in Workers \ {w} : work'[x].ptr = work[x].ptr
          /\ \A x \in Workers \ {w} : work'[x].client = work[x].client
      BY <1>12, <1>w DEF Unmap, Work
    <2>3. /\ held' = held /\ shmMap' = shmMap
          /\ live' = [live EXCEPT ![p] = NoName] \/ live' = live
      BY <1>12, <2>1 DEF Unmap
    <2> QED
      BY <2>0, <2>1, <2>2, <2>3, LedgerRelease
  <1>13. CASE Reply(w)
    <2>1. /\ work[w].ptr # NoPtr => work[w].op = "map"
          /\ work[w].client \in Clients
          /\ work[w].ptr \in Ptrs \cup {NoPtr}
      BY <1>13, <1>w DEF Reply, StageOK, Work
    <2>2. /\ work'[w].ptr = NoPtr
          /\ \A x \in Workers \ {w} : work'[x].ptr = work[x].ptr
          /\ \A x \in Workers \ {w} : work'[x].client = work[x].client
      BY <1>13, <1>w DEF Reply, Free, Work
    <2>3. live' = live /\ shmMap' = shmMap
      BY <1>13 DEF Reply
    <2>4. CASE work[w].ptr = NoPtr
      <3>1. Carries
        BY <2>2, <2>4
      <3>2. held' = held
        <4>1. (IF work[w].op = "map" THEN {work[w].ptr} \ {NoPtr} ELSE {}) = {}
          BY <2>4
        <4>2. [held EXCEPT ![work[w].client] = @ \cup {}] = held
          BY DEF Invariants, Staged, TypeOK
        <4> QED
          BY <1>13, <4>1, <4>2 DEF Reply
      <3> QED
        BY <2>3, <3>1, <3>2, LedgerInert
    <2>5. CASE work[w].ptr # NoPtr
      <3>1. PICK p \in Ptrs : p = work[w].ptr
        BY <2>1, <2>5
      <3>2. \/ held' = held
            \/ held' = [held EXCEPT ![work[w].client] = @ \cup {p}]
        <4>1. (IF work[w].op = "map" THEN {work[w].ptr} \ {NoPtr} ELSE {}) = {p}
          BY <2>1, <2>5, <3>1
        <4> QED
          BY <1>13, <4>1 DEF Reply
      <3> QED
        BY <2>1, <2>2, <2>3, <3>1, <3>2, LedgerRelease
    <2> QED
      BY <2>4, <2>5
  <1> QED
    BY <1>1, <1>2, <1>3, <1>4, <1>5, <1>6, <1>7, <1>8, <1>9, <1>10, <1>11, <1>12, <1>13 DEF WorkerStep

\* So is a request and giving up on one.
LEMMA LedgerClient ==
  ASSUME Invariants, NEW c \in Clients,
         GiveUp(c) \/ \E w \in Workers : Request(c, w)
  PROVE  [Ledger!Next]_(Ledger!vars)
  <1>1. CASE GiveUp(c)
    BY <1>1, LedgerInert DEF GiveUp, store
  <1>2. ASSUME NEW w \in Workers, Request(c, w)
        PROVE  [Ledger!Next]_(Ledger!vars)
    <2>1. /\ work \in [Workers -> Work]
          /\ work[w].ptr = NoPtr
      BY <1>2 DEF Request, Invariants, Staged, TypeOK, StageOK
    <2>2. \A op, prefix : Serve(c, op, prefix).ptr = NoPtr
      BY DEF Serve, Free
    <2>3. ASSUME NEW op, NEW prefix, work' = [work EXCEPT ![w] = Serve(c, op, prefix)],
                 UNCHANGED held
          PROVE  UNCHANGED Ledger!vars
      <3>1. /\ \A x \in Workers : work'[x].ptr = work[x].ptr
            /\ \A x \in Workers : work[x].ptr # NoPtr => work'[x].client = work[x].client
        BY <2>1, <2>2, <2>3
      <3> QED
        BY <1>2, <2>3, <3>1, LedgerInert DEF Request, store
    <2>4. ASSUME NEW p \in held[c],
                 work' = [work EXCEPT ![w] = [Serve(c, "unmap", "none") EXCEPT !.ptr = p]],
                 held' = [held EXCEPT ![c] = @ \ {p}]
          PROVE  Ledger!Next
      <3>1. /\ work'[w].ptr = p /\ work'[w].client = c
            /\ \A x \in Workers \ {w} : work'[x].ptr = work[x].ptr
            /\ \A x \in Workers \ {w} : work'[x].client = work[x].client
        BY <2>1, <2>4 DEF Serve, Free
      <3> QED
        BY <1>2, <2>1, <2>4, <3>1, LedgerUnmapRequest DEF Request, store
    <2> QED
      BY <1>2, <2>3, <2>4 DEF Request
  <1> QED
    BY <1>1, <1>2

\* Nothing is mapped at first.
LEMMA LedgerInit == Init => Ledger!Init
  <1> SUFFICES ASSUME Init PROVE Ledger!Init
    OBVIOUS
  <1>1. \A p \in Ptrs : AddrState(p) = "free" /\ AddrUser(p) = NoClient
    BY DEF Init, AddrState, AddrUser
  <1> QED
    BY <1>1 DEF Ledger!Init

\* The server implements the ledger: whatever the interleaving of its handlers, the
\* clients that give up and the SDK calls that fail, an address passes from owner to
\* owner only by the ledger's moves.
THEOREM ImplementsLedger == Spec => KeepsLedger
  <1>1. Init => Staged /\ Owned /\ Ledger!Init
    BY InitStaged, OwnedInit, LedgerInit
  <1>2. Staged /\ Owned /\ [Next]_vars => Staged' /\ Owned' /\ [Ledger!Next]_(Ledger!vars)
    <2> SUFFICES ASSUME Staged, Owned, [Next]_vars
                 PROVE  Staged' /\ Owned' /\ [Ledger!Next]_(Ledger!vars)
      OBVIOUS
    <2>1. Staged' /\ Owned'
      BY StagedStep, OwnedStep
    <2>2. Invariants
      BY <2>1 DEF Invariants
    <2>3. CASE UNCHANGED vars
      BY <2>1, <2>2, <2>3, LedgerInert DEF vars
    <2>4. CASE Next
      BY <2>1, <2>2, <2>4, LedgerClient, LedgerWorker DEF Next
    <2> QED
      BY <2>1, <2>3, <2>4
  <1> QED
    BY <1>1, <1>2, PTL DEF Spec, KeepsLedger, Ledger!Spec

-----------------------------------------------------------------------------
(* Rollback                                                                *)

\* What a request is from its arrival to its answer.
SameRequest(w) ==
    /\ work'[w].id = work[w].id /\ work'[w].op = work[w].op
    /\ work'[w].prefix = work[w].prefix /\ work'[w].client = work[w].client

\* A step of a thread is one of its own; its request stays until it is answered.
LEMMA OneWorks ==
  ASSUME Staged, NEW w \in Workers, WorkerStep(w)
  PROVE  /\ \A x \in Workers : x # w => work'[x] = work[x]
         /\ work[w].pc # "idle" /\ work'[w] \in Work
         /\ SameRequest(w) \/ (Reply(w) /\ work'[w] = Free)
         /\ Reply(w) \/ work'[w].pc # "idle"
         /\ UNCHANGED reqs
  <1>0. work[w] \in Work /\ work \in [Workers -> Work] /\ Staged'
    BY StagedWorker DEF Staged, TypeOK
  <1> USE <1>0 DEF SameRequest, Work, At, Done
  <1>1. CASE Lock(w) BY <1>1 DEF Lock
  <1>2. CASE AllocateBatch(w) BY <1>2 DEF AllocateBatch
  <1>3. CASE AllocateUndo(w) BY <1>3 DEF AllocateUndo
  <1>4. CASE DeallocateBatch(w) BY <1>4 DEF DeallocateBatch
  <1>5. CASE MapBatch(w) BY <1>5 DEF MapBatch
  <1>6. CASE MapUndo(w) BY <1>6 DEF MapUndo
  <1>7. CASE UnmapBatch(w) BY <1>7 DEF UnmapBatch
  <1>8. CASE Map(w) BY <1>8 DEF Map
  <1>9. CASE Unmap(w) BY <1>9 DEF Unmap
  <1>10. CASE Initialize(w) BY <1>10 DEF Initialize
  <1>11. CASE Finalize(w) BY <1>11 DEF Finalize
  <1>12. CASE SetFlag(w) BY <1>12 DEF SetFlag
  <1>13. CASE Reply(w) BY <1>13 DEF Reply, Staged, TypeOK
  <1> QED
    BY <1>1, <1>2, <1>3, <1>4, <1>5, <1>6, <1>7, <1>8, <1>9, <1>10, <1>11, <1>12, <1>13, Zenon
       DEF WorkerStep

\* A request as a thread takes it.
LEMMA Requested ==
  ASSUME Staged, NEW c \in Clients, NEW w \in Workers, Request(c, w)
  PROVE  /\ \A x \in Workers : x # w => work'[x] = work[x]
         /\ work[w].pc = "idle" /\ work'[w].id = reqs + 1 /\ work'[w].client = c
         /\ work'[w].i = 0 /\ work'[w].j = 0 /\ work'[w].blocked = {}
         /\ work'[w].op \in Ops
         /\ work'[w].pc = IF work'[w].op \in Locking THEN "lock" ELSE "loop"
         /\ reqs' = reqs + 1 /\ reqs \in Nat /\ wait[c] = NoWorker
         /\ wait' = [wait EXCEPT ![c] = w]
         /\ UNCHANGED <<objects, live, sdk, initialized, shmMap, lost, mutex>>
  <1>1. work \in [Workers -> Work] /\ reqs \in Nat
    BY ServerAssumption DEF Staged, TypeOK
  <1>2. Free \in Work /\ Free.i = 0 /\ Free.j = 0 /\ Free.blocked = {}
    BY DEF Free, Work
  <1>3. ASSUME NEW op, NEW prefix
        PROVE  LET s == Serve(c, op, prefix) IN
                 /\ s.id = reqs + 1 /\ s.client = c /\ s.i = 0 /\ s.j = 0 /\ s.blocked = {}
                 /\ s.op = op /\ s.pc = IF op \in Locking THEN "lock" ELSE "loop"
                 /\ s = [pc |-> s.pc, op |-> op, id |-> reqs + 1, client |-> c, prefix |-> prefix,
                         i |-> 0, j |-> 0, ptr |-> NoPtr, ok |-> TRUE, blocked |-> {}]
    <2> DEFINE pc == IF op \in Locking THEN "lock" ELSE "loop"
               s == [pc |-> pc, op |-> op, id |-> reqs + 1, client |-> c, prefix |-> prefix,
                     i |-> 0, j |-> 0, ptr |-> NoPtr, ok |-> TRUE, blocked |-> {}]
    <2>1. Serve(c, op, prefix) = [Free EXCEPT !.op = op, !.id = reqs + 1, !.client = c,
                                              !.prefix = prefix, !.pc = pc]
      BY DEF Serve
    <2> HIDE DEF pc
    <2>2. Serve(c, op, prefix) = s
      BY <2>1 DEF Free
    <2>3. s.pc = pc
      OBVIOUS
    <2> QED
      BY <2>2, <2>3 DEF pc
  <1>4. CASE \E op \in Ops \ {"unmap"}, prefix \in Prefixes :
               work' = [work EXCEPT ![w] = Serve(c, op, prefix)]
    <2>1. PICK op \in Ops \ {"unmap"}, prefix \in Prefixes :
                 work' = [work EXCEPT ![w] = Serve(c, op, prefix)]
      BY <1>4
    <2> DEFINE s == Serve(c, op, prefix)
    <2>2. work'[w] = s /\ \A x \in Workers : x # w => work'[x] = work[x]
      BY <1>1, <2>1
    <2>3. s.id = reqs + 1 /\ s.client = c /\ s.i = 0 /\ s.j = 0 /\ s.blocked = {}
          /\ s.op = op /\ s.pc = IF op \in Locking THEN "lock" ELSE "loop"
      BY <1>3
    <2> HIDE DEF s
    <2> QED
      BY <1>1, <2>2, <2>3 DEF Request, store
  <1>5. CASE \E p \in held[c] :
               /\ "unmap" \in Ops
               /\ work' = [work EXCEPT ![w] = [Serve(c, "unmap", "none") EXCEPT !.ptr = p]]
    <2>1. PICK p \in held[c] :
                 work' = [work EXCEPT ![w] = [Serve(c, "unmap", "none") EXCEPT !.ptr = p]]
      BY <1>5
    <2> DEFINE s == [Serve(c, "unmap", "none") EXCEPT !.ptr = p]
    <2>2. work'[w] = s /\ \A x \in Workers : x # w => work'[x] = work[x]
      BY <1>1, <2>1
    <2>3. "unmap" \notin Locking
      BY DEF Locking
    <2>4. s.id = reqs + 1 /\ s.client = c /\ s.i = 0 /\ s.j = 0 /\ s.blocked = {}
          /\ s.op = "unmap" /\ s.pc = "loop"
      BY <1>3, <2>3
    <2> HIDE DEF s
    <2> QED
      BY <1>1, <1>5, <2>2, <2>3, <2>4 DEF Request, store
  <1> QED
    BY <1>4, <1>5 DEF Request

\* Requests are numbered, and an object is marked with the request that made it.
Numbered ==
    /\ \A n \in Names : objects[n] <= reqs
    /\ \A w \in Workers : work[w].pc # "idle" => work[w].id \in 1 .. reqs
    /\ \A w, x \in Workers :
         work[w].pc # "idle" /\ work[x].pc # "idle" /\ work[w].id = work[x].id => w = x

\* The names a rollback has still to free, or could not.
Pending(w, n) ==
    (\E k \in work[w].j .. (work[w].i - 1) : n = <<work[w].prefix, k>>) \/ n \in work[w].blocked

\* An object of an allocate_batch is one its rollback will come to.
OwnBatch == \A w \in Workers : work[w].op = "allocate_batch" =>
    /\ work[w].pc \in {"loop", "undo"} =>
         \A n \in Names : objects[n] = work[w].id => Pending(w, n)
    /\ work[w].pc = "reply" /\ ~work[w].ok =>
         \A n \in Names : objects[n] = work[w].id => n \in work[w].blocked

\* A step creates only objects of its own request.
LEMMA ObjectsGo ==
  ASSUME Staged, NEW w \in Workers, WorkerStep(w), NEW n \in Names
  PROVE  \/ objects'[n] = objects[n]
         \/ objects'[n] = 0
         \/ objects'[n] = work[w].id
  <1>0. objects \in [Names -> Nat]
    BY DEF Staged, TypeOK
  <1>1. CASE AllocateBatch(w) BY <1>0, <1>1 DEF AllocateBatch
  <1>2. CASE AllocateUndo(w) BY <1>0, <1>2 DEF AllocateUndo
  <1>3. CASE DeallocateBatch(w) BY <1>0, <1>3 DEF DeallocateBatch
  <1>4. CASE ~(AllocateBatch(w) \/ AllocateUndo(w) \/ DeallocateBatch(w))
    <2>1. UNCHANGED objects
      BY <1>4, Zenon DEF WorkerStep, Lock, MapBatch, MapUndo, UnmapBatch, Map, Unmap, Initialize,
                         Finalize, SetFlag, Reply, store
    <2> QED
      BY <2>1
  <1> QED
    BY <1>1, <1>2, <1>3, <1>4

\* A step keeps the numbers.
LEMMA NumberedStep == ASSUME Staged, Numbered, [Next]_vars PROVE Numbered'
  <1>0. /\ reqs \in Nat /\ objects \in [Names -> Nat] /\ work \in [Workers -> Work]
        /\ \A w \in Workers : work[w].id \in Nat
    BY ServerAssumption DEF Staged, TypeOK, Work
  <1>1. CASE UNCHANGED vars
    BY <1>1 DEF vars, Numbered
  <1>2. ASSUME NEW c \in Clients, GiveUp(c) PROVE Numbered'
    BY <1>2 DEF GiveUp, store, Numbered
  <1>3. ASSUME NEW c \in Clients, NEW w \in Workers, Request(c, w) PROVE Numbered'
    <2>1. /\ \A x \in Workers : x # w => work'[x] = work[x]
          /\ work'[w].id = reqs + 1 /\ reqs' = reqs + 1 /\ UNCHANGED objects
      BY <1>3, Requested
    <2>2. \A x \in Workers : work[x].pc # "idle" => work[x].id \in 1 .. reqs'
      BY <1>0, <2>1 DEF Numbered
    <2>3. \A x \in Workers : work[x].pc # "idle" => work[x].id # reqs + 1
      BY <1>0 DEF Numbered
    <2>4. \A n \in Names : objects'[n] <= reqs'
      BY <1>0, <2>1 DEF Numbered
    <2>5. \A x \in Workers : work'[x].pc # "idle" => work'[x].id \in 1 .. reqs'
      BY <1>0, <2>1, <2>2
    <2>6. \A x, y \in Workers :
            work'[x].pc # "idle" /\ work'[y].pc # "idle" /\ work'[x].id = work'[y].id => x = y
      BY <2>1, <2>3 DEF Numbered
    <2> QED
      BY <2>4, <2>5, <2>6 DEF Numbered
  <1>4. ASSUME NEW w \in Workers, WorkerStep(w) PROVE Numbered'
    <2>1. /\ \A x \in Workers : x # w => work'[x] = work[x]
          /\ work[w].pc # "idle"
          /\ work'[w].id = work[w].id \/ work'[w].pc = "idle"
          /\ UNCHANGED reqs
      <3>1. Free.pc = "idle"
        BY DEF Free
      <3> QED
        BY <1>4, <3>1, OneWorks DEF SameRequest
    <2>2. work[w].id \in 1 .. reqs
      BY <2>1 DEF Numbered
    <2>3. \A n \in Names : objects'[n] <= reqs
      <3> SUFFICES ASSUME NEW n \in Names PROVE objects'[n] <= reqs
        OBVIOUS
      <3>1. objects'[n] = objects[n] \/ objects'[n] = 0 \/ objects'[n] = work[w].id
        BY <1>4, ObjectsGo
      <3>2. objects[n] <= reqs
        BY DEF Numbered
      <3> QED
        BY <1>0, <2>2, <3>1, <3>2
    <2> QED
      BY <2>1, <2>3 DEF Numbered
  <1> QED
    BY <1>1, <1>2, <1>3, <1>4 DEF Next

\* What allocate_batch does to its own request.
LEMMA OwnBatchOwn ==
  ASSUME Staged, Numbered, OwnBatch, NEW w \in Workers, WorkerStep(w),
         work'[w].op = "allocate_batch", NEW n \in Names, objects'[n] = work'[w].id
  PROVE  /\ work'[w].pc \in {"loop", "undo"} => Pending(w, n)'
         /\ work'[w].pc = "reply" /\ ~work'[w].ok => n \in work'[w].blocked
  <1>1. /\ work \in [Workers -> Work] /\ work[w] \in Work /\ objects \in [Names -> Nat]
        /\ StageOK(work[w]) /\ BatchNum \in Nat
    BY ServerAssumption DEF Staged, TypeOK
  <1>2. /\ SameRequest(w) /\ ~Reply(w) /\ work[w].pc # "idle" /\ work[w].op = "allocate_batch"
        /\ work'[w].id = work[w].id
    <2>1. Free.op # "allocate_batch"
      BY DEF Free
    <2>2. Reply(w) => work'[w] = Free
      BY <1>1 DEF Reply
    <2> QED
      BY <2>1, <2>2, OneWorks DEF SameRequest
  <1>3. work[w].id # 0
    BY <1>2 DEF Numbered
  <1>4. /\ work[w].i \in Nat /\ work[w].j \in Nat /\ work[w].j <= work[w].i
        /\ work[w].i <= BatchNum
    BY <1>1 DEF Work, StageOK
  <1>5. CASE AllocateBatch(w)
    <2>1. work[w].pc = "loop"
      BY <1>5 DEF AllocateBatch, At
    <2>2. objects[n] = work[w].id => Pending(w, n)
      BY <1>2, <2>1 DEF OwnBatch
    <2>3. CASE /\ objects' = [objects EXCEPT ![Name(w)] = work[w].id]
               /\ work' = [work EXCEPT ![w].i = @ + 1]
      <3>1. /\ work'[w].i = work[w].i + 1 /\ work'[w].j = work[w].j /\ work'[w].pc = "loop"
            /\ work'[w].prefix = work[w].prefix /\ work'[w].blocked = work[w].blocked
        BY <1>1, <2>1, <2>3 DEF Work
      <3>2. CASE n = Name(w)
        <4>1. work[w].i \in work[w].j .. (work'[w].i - 1)
          BY <1>4, <3>1
        <4> QED
          BY <3>1, <3>2, <4>1 DEF Pending, Name
      <3>3. CASE n # Name(w)
        <4>1. Pending(w, n)
          BY <1>1, <1>2, <2>2, <2>3, <3>3
        <4>2. work[w].j .. (work[w].i - 1) \subseteq work'[w].j .. (work'[w].i - 1)
          BY <1>4, <3>1
        <4> QED
          BY <3>1, <4>1, <4>2 DEF Pending
      <3> QED
        BY <3>2, <3>3
    <2>4. CASE work' = [work EXCEPT ![w].pc = "undo"] /\ UNCHANGED objects
      <3>1. /\ work'[w].i = work[w].i /\ work'[w].j = work[w].j /\ work'[w].pc = "undo"
            /\ work'[w].prefix = work[w].prefix /\ work'[w].blocked = work[w].blocked
        BY <1>1, <2>4 DEF Work
      <3> QED
        BY <1>2, <2>2, <2>4, <3>1 DEF Pending
    <2>5. CASE Done(w, TRUE)
      <3>1. work'[w].pc = "reply" /\ work'[w].ok
        BY <1>1, <2>5 DEF Done, Work
      <3> QED
        BY <3>1
    <2> QED
      BY <1>5, <2>3, <2>4, <2>5 DEF AllocateBatch
  <1>6. CASE AllocateUndo(w)
    <2>1. work[w].pc = "undo"
      BY <1>6 DEF AllocateUndo, At
    <2>2. objects[n] = work[w].id => Pending(w, n)
      BY <1>2, <2>1 DEF OwnBatch
    <2>3. CASE /\ objects' = [objects EXCEPT ![UndoName(w)] = 0]
               /\ work' = [work EXCEPT ![w].j = @ + 1]
      <3>1. /\ work'[w].i = work[w].i /\ work'[w].j = work[w].j + 1 /\ work'[w].pc = "undo"
            /\ work'[w].prefix = work[w].prefix /\ work'[w].blocked = work[w].blocked
        BY <1>1, <2>1, <2>3 DEF Work
      <3>2. n # UndoName(w) /\ objects[n] = work[w].id
        BY <1>1, <1>2, <1>3, <2>3
      <3>3. \A k \in work[w].j .. (work[w].i - 1) :
              n = <<work[w].prefix, k>> => k \in work'[w].j .. (work'[w].i - 1)
        <4> SUFFICES ASSUME NEW k \in work[w].j .. (work[w].i - 1), n = <<work[w].prefix, k>>
                     PROVE  k \in work'[w].j .. (work'[w].i - 1)
          OBVIOUS
        <4>1. k # work[w].j
          BY <3>2 DEF UndoName
        <4> QED
          BY <1>4, <3>1, <4>1
      <3> QED
        BY <2>2, <3>1, <3>2, <3>3 DEF Pending
    <2>4. CASE /\ work' = [work EXCEPT ![w].j = @ + 1,
                                       ![w].blocked = @ \cup {UndoName(w)}]
               /\ UNCHANGED objects
      <3>1. /\ work'[w].i = work[w].i /\ work'[w].j = work[w].j + 1 /\ work'[w].pc = "undo"
            /\ work'[w].prefix = work[w].prefix
            /\ work'[w].blocked = work[w].blocked \cup {UndoName(w)}
        BY <1>1, <2>1, <2>4 DEF Work
      <3>2. \A k \in work[w].j .. (work[w].i - 1) :
              k = work[w].j \/ k \in work'[w].j .. (work'[w].i - 1)
        BY <1>4, <3>1
      <3> QED
        BY <1>2, <2>2, <2>4, <3>1, <3>2 DEF Pending, UndoName
    <2>5. CASE work[w].j = work[w].i /\ Done(w, FALSE) /\ UNCHANGED objects
      <3>1. work'[w].pc = "reply" /\ work'[w].blocked = work[w].blocked
        BY <1>1, <2>5 DEF Done, Work
      <3>2. work[w].j .. (work[w].i - 1) = {}
        BY <1>4, <2>5
      <3> QED
        BY <1>2, <2>2, <2>5, <3>1, <3>2 DEF Pending
    <2> QED
      BY <1>6, <2>3, <2>4, <2>5 DEF AllocateUndo
  <1>7. CASE SetFlag(w)
    <2>1. work'[w].pc = "reply" /\ work'[w].ok
      BY <1>1, <1>7 DEF SetFlag, Done, Work
    <2> QED
      BY <2>1
  <1>8. ~Lock(w)
    BY <1>1, <1>2 DEF Lock, StageOK, Locking
  <1>9. /\ ~DeallocateBatch(w) /\ ~MapBatch(w) /\ ~MapUndo(w) /\ ~UnmapBatch(w)
        /\ ~Map(w) /\ ~Unmap(w) /\ ~Initialize(w) /\ ~Finalize(w)
    BY <1>2 DEF DeallocateBatch, MapBatch, MapUndo, UnmapBatch, Map, Unmap, Initialize, Finalize, At
  <1> QED
    BY <1>2, <1>5, <1>6, <1>7, <1>8, <1>9, Zenon DEF WorkerStep

\* A step keeps each batch's objects within reach of its rollback.
LEMMA OwnBatchStep == ASSUME Staged, Numbered, OwnBatch, [Next]_vars PROVE OwnBatch'
  <1>0. /\ reqs \in Nat /\ objects \in [Names -> Nat]
        /\ \A w \in Workers : work[w].id \in Nat
    BY ServerAssumption DEF Staged, TypeOK, Work
  <1>1. CASE UNCHANGED vars
    BY <1>1 DEF vars, OwnBatch, Pending
  <1>2. ASSUME NEW c \in Clients, GiveUp(c) PROVE OwnBatch'
    BY <1>2 DEF GiveUp, store, OwnBatch, Pending
  <1>3. ASSUME NEW c \in Clients, NEW w \in Workers, Request(c, w) PROVE OwnBatch'
    <2>1. /\ \A x \in Workers : x # w => work'[x] = work[x]
          /\ work'[w].id = reqs + 1 /\ UNCHANGED objects
      BY <1>3, Requested
    <2>2. \A n \in Names : objects'[n] # work'[w].id
      BY <1>0, <2>1 DEF Numbered
    <2>3. \A x \in Workers : x # w => \A n \in Names : Pending(x, n) => Pending(x, n)'
      BY <2>1 DEF Pending
    <2> QED
      BY <2>1, <2>2, <2>3 DEF OwnBatch
  <1>4. ASSUME NEW w \in Workers, WorkerStep(w) PROVE OwnBatch'
    <2>1. /\ \A x \in Workers : x # w => work'[x] = work[x]
          /\ work[w].pc # "idle"
      BY <1>4, OneWorks
    <2>2. ASSUME NEW x \in Workers, x # w, work[x].op = "allocate_batch",
                 work[x].pc \in {"loop", "undo", "reply"}, NEW n \in Names,
                 objects'[n] = work[x].id
          PROVE  objects[n] = work[x].id
      <3>1. work[x].id # work[w].id /\ work[x].id # 0
        BY <2>1, <2>2 DEF Numbered
      <3> QED
        BY <1>4, <2>2, <3>1, ObjectsGo
    <2>3. \A x \in Workers : x # w => \A n \in Names : Pending(x, n) => Pending(x, n)'
      BY <2>1 DEF Pending
    <2>4. ASSUME NEW x \in Workers, x # w, work'[x].op = "allocate_batch"
          PROVE  /\ work'[x].pc \in {"loop", "undo"} =>
                      \A n \in Names : objects'[n] = work'[x].id => Pending(x, n)'
                 /\ work'[x].pc = "reply" /\ ~work'[x].ok =>
                      \A n \in Names : objects'[n] = work'[x].id => n \in work'[x].blocked
      BY <2>1, <2>2, <2>3, <2>4 DEF OwnBatch
    <2>5. ASSUME work'[w].op = "allocate_batch"
          PROVE  /\ work'[w].pc \in {"loop", "undo"} =>
                      \A n \in Names : objects'[n] = work'[w].id => Pending(w, n)'
                 /\ work'[w].pc = "reply" /\ ~work'[w].ok =>
                      \A n \in Names : objects'[n] = work'[w].id => n \in work'[w].blocked
      BY <1>4, <2>5, OwnBatchOwn
    <2> QED
      BY <2>4, <2>5 DEF OwnBatch
  <1> QED
    BY <1>1, <1>2, <1>3, <1>4 DEF Next

\* An allocate_batch that failed leaves an object of its own only where the SDK refused
\* to free it, whatever other requests do to the same names meanwhile.
THEOREM RollbackDone == Spec => []RollbackComplete
  <1> DEFINE Inv == Staged /\ Numbered /\ OwnBatch
  <1>1. Init => Inv
    <2> SUFFICES ASSUME Init PROVE Numbered /\ OwnBatch
      BY InitStaged
    <2>1. /\ \A n \in Names : objects[n] = 0
          /\ \A w \in Workers : work[w].pc = "idle" /\ work[w].op = "none"
          /\ reqs = 0
      BY DEF Init, Free
    <2> QED
      BY <2>1 DEF Numbered, OwnBatch
  <1>2. Inv /\ [Next]_vars => Inv'
    BY StagedStep, NumberedStep, OwnBatchStep
  <1>3. Inv => RollbackComplete
    BY DEF OwnBatch, RollbackComplete, At
  <1> HIDE DEF Inv
  <1> QED
    BY <1>1, <1>2, <1>3, PTL DEF Spec

-----------------------------------------------------------------------------
(* Whole batches                                                           *)

\* The mutex is held by the one thread inside map_batch or unmap_batch.
Holding == \A w \in Workers : (work[w].op \in Locking /\ work[w].pc # "lock") <=> mutex = w

\* An idle thread has no request; the loops begin at zero.
Starting == \A w \in Workers :
    /\ work[w].pc = "idle" => work[w].op = "none"
    /\ work[w].pc = "lock" => work[w].i = 0 /\ work[w].j = 0
    /\ work[w].op = "map_batch" /\ work[w].pc = "loop" => work[w].j = 0

Indices == 0 .. BatchNum - 1
Whole(prefix) == \/ \A k \in Indices : shmMap[<<prefix, k>>] # NoPtr
                 \/ \A k \in Indices : shmMap[<<prefix, k>>] = NoPtr

Mapping(r) == r.op = "map_batch" /\ r.pc \in {"loop", "undo"} /\ r.i > 0
Unmapping(r) == r.op = "unmap_batch" /\ r.pc = "loop"

\* How far a request under way has got with its batch.
Part(r) ==
    /\ Mapping(r) =>
         \A k \in Indices : shmMap[<<r.prefix, k>>] # NoPtr <=> (r.j <= k /\ k < r.i)
    /\ Unmapping(r) =>
         /\ \A k \in Indices : k < r.i => shmMap[<<r.prefix, k>>] = NoPtr
         /\ \/ \A k \in Indices : k >= r.i => shmMap[<<r.prefix, k>>] # NoPtr
            \/ \A k \in Indices : k >= r.i => shmMap[<<r.prefix, k>>] = NoPtr
    /\ ~Mapping(r) /\ ~Unmapping(r) => Whole(r.prefix)

\* Every batch is whole but the one of the holder, which is as far as the holder is.
Batches == lost = {} =>
    /\ \A prefix \in Prefixes :
         (\A w \in Workers : mutex = w => work[w].prefix # prefix) => Whole(prefix)
    /\ \A w \in Workers : mutex = w => Part(work[w])

\* Which step it can be, by what the request asks for.
LEMMA LockingSteps ==
  ASSUME Staged, NEW w \in Workers, WorkerStep(w), work[w].op \in Locking
  PROVE  \/ work[w].pc = "lock" /\ Lock(w)
         \/ work[w].op = "map_batch" /\ MapBatch(w)
         \/ work[w].op = "map_batch" /\ MapUndo(w)
         \/ work[w].op = "unmap_batch" /\ UnmapBatch(w)
         \/ SetFlag(w)
         \/ Reply(w)
  <1>1. /\ ~AllocateBatch(w) /\ ~AllocateUndo(w) /\ ~DeallocateBatch(w)
        /\ ~Map(w) /\ ~Unmap(w) /\ ~Initialize(w) /\ ~Finalize(w)
    BY DEF Locking, AllocateBatch, AllocateUndo, DeallocateBatch, Map, Unmap, Initialize, Finalize, At
  <1>2. /\ Lock(w) => work[w].pc = "lock"
        /\ MapBatch(w) \/ MapUndo(w) => work[w].op = "map_batch"
        /\ UnmapBatch(w) => work[w].op = "unmap_batch"
    BY DEF Lock, MapBatch, MapUndo, UnmapBatch, At
  <1> QED
    BY <1>1, <1>2, Zenon DEF WorkerStep

\* The other requests leave the lock and the table alone.
LEMMA OtherSteps ==
  ASSUME Staged, Holding, NEW w \in Workers, WorkerStep(w), work[w].op \notin Locking
  PROVE  /\ UNCHANGED shmMap /\ mutex' = mutex /\ mutex # w
         /\ work'[w].op \notin Locking
  <1>1. mutex # w
    BY DEF Holding
  <1>2. Free.op \notin Locking
    BY DEF Free, Locking
  <1>3. /\ ~Lock(w) /\ ~MapBatch(w) /\ ~MapUndo(w) /\ ~UnmapBatch(w)
    BY DEF Staged, StageOK, Lock, MapBatch, MapUndo, UnmapBatch, At, Locking
  <1>4. UNCHANGED shmMap /\ mutex' = mutex
    <2>1. CASE Reply(w)
      BY <1>1, <2>1 DEF Reply
    <2>2. CASE ~Reply(w)
      BY <1>3, <2>2, Zenon DEF WorkerStep, AllocateBatch, AllocateUndo, DeallocateBatch, Map, Unmap,
                               Initialize, Finalize, SetFlag
    <2> QED
      BY <2>1, <2>2
  <1>5. work'[w].op \notin Locking
    BY <1>2, OneWorks DEF SameRequest
  <1> QED
    BY <1>1, <1>4, <1>5

\* What the steps of map_batch and unmap_batch do to their request.
LEMMA LockedSteps ==
  ASSUME Staged, Starting, NEW w \in Workers
  PROVE  /\ Lock(w) =>
              /\ mutex = NoWorker /\ mutex' = w /\ work'[w].pc = "loop" /\ UNCHANGED <<shmMap, lost>>
              /\ work'[w].i = work[w].i /\ work'[w].j = work[w].j /\ SameRequest(w)
              /\ work[w].i = 0 /\ work[w].j = 0
         /\ MapBatch(w) =>
              /\ SameRequest(w) /\ work[w].pc = "loop" /\ work[w].j = 0 /\ work'[w].j = 0
              /\ UNCHANGED mutex
              /\ \/ /\ work[w].i < BatchNum /\ work'[w].i = work[w].i + 1 /\ work'[w].pc = "loop"
                    /\ \E p \in Ptrs : shmMap' = [shmMap EXCEPT ![Name(w)] = p]
                    /\ lost' = lost \cup ({shmMap[Name(w)]} \ {NoPtr})
                 \/ /\ work'[w].i = work[w].i /\ work'[w].pc = "undo" /\ UNCHANGED <<shmMap, lost>>
                 \/ /\ work[w].i = BatchNum /\ work'[w].pc = "reply" /\ UNCHANGED <<shmMap, lost>>
         /\ MapUndo(w) =>
              /\ SameRequest(w) /\ work[w].pc = "undo" /\ UNCHANGED mutex
              /\ \/ /\ work[w].j < work[w].i /\ work'[w].j = work[w].j + 1 /\ work'[w].i = work[w].i
                    /\ work'[w].pc = "undo" /\ Forget(UndoName(w))
                 \/ /\ work[w].j = work[w].i /\ work'[w].pc = "reply" /\ UNCHANGED <<shmMap, lost>>
         /\ UnmapBatch(w) =>
              /\ SameRequest(w) /\ work[w].pc = "loop" /\ UNCHANGED mutex
              /\ \/ /\ work[w].i < BatchNum /\ work'[w].i = work[w].i + 1 /\ work'[w].pc = "loop"
                    /\ Forget(Name(w))
                 \/ /\ work[w].i = BatchNum /\ work'[w].pc = "reply" /\ UNCHANGED <<shmMap, lost>>
         /\ SetFlag(w) =>
              /\ SameRequest(w) /\ work[w].pc = "flag" /\ work'[w].pc = "reply"
              /\ UNCHANGED <<shmMap, lost, mutex>>
         /\ Reply(w) =>
              /\ work[w].pc = "reply" /\ work'[w] = Free /\ lost \subseteq lost'
              /\ mutex' = (IF mutex = w THEN NoWorker ELSE mutex) /\ UNCHANGED shmMap
  <1>0. work \in [Workers -> Work] /\ work[w] \in Work
    BY DEF Staged, TypeOK
  <1> USE <1>0 DEF SameRequest, Work, At, Done
  <1>1. Lock(w) =>
              /\ mutex = NoWorker /\ mutex' = w /\ work'[w].pc = "loop" /\ UNCHANGED <<shmMap, lost>>
              /\ work'[w].i = work[w].i /\ work'[w].j = work[w].j /\ SameRequest(w)
              /\ work[w].i = 0 /\ work[w].j = 0
    BY DEF Lock, store, Starting
  <1>2. MapBatch(w) =>
              /\ SameRequest(w) /\ work[w].pc = "loop" /\ work[w].j = 0 /\ work'[w].j = 0
              /\ UNCHANGED mutex
              /\ \/ /\ work[w].i < BatchNum /\ work'[w].i = work[w].i + 1 /\ work'[w].pc = "loop"
                    /\ \E p \in Ptrs : shmMap' = [shmMap EXCEPT ![Name(w)] = p]
                    /\ lost' = lost \cup ({shmMap[Name(w)]} \ {NoPtr})
                 \/ /\ work'[w].i = work[w].i /\ work'[w].pc = "undo" /\ UNCHANGED <<shmMap, lost>>
                 \/ /\ work[w].i = BatchNum /\ work'[w].pc = "reply" /\ UNCHANGED <<shmMap, lost>>
    BY DEF MapBatch, Starting
  <1>3. MapUndo(w) =>
              /\ SameRequest(w) /\ work[w].pc = "undo" /\ UNCHANGED mutex
              /\ \/ /\ work[w].j < work[w].i /\ work'[w].j = work[w].j + 1 /\ work'[w].i = work[w].i
                    /\ work'[w].pc = "undo" /\ Forget(UndoName(w))
                 \/ /\ work[w].j = work[w].i /\ work'[w].pc = "reply" /\ UNCHANGED <<shmMap, lost>>
    BY DEF MapUndo
  <1>4. UnmapBatch(w) =>
              /\ SameRequest(w) /\ work[w].pc = "loop" /\ UNCHANGED mutex
              /\ \/ /\ work[w].i < BatchNum /\ work'[w].i = work[w].i + 1 /\ work'[w].pc = "loop"
                    /\ Forget(Name(w))
                 \/ /\ work[w].i = BatchNum /\ work'[w].pc = "reply" /\ UNCHANGED <<shmMap, lost>>
    BY DEF UnmapBatch
  <1>5. SetFlag(w) =>
              /\ SameRequest(w) /\ work[w].pc = "flag" /\ work'[w].pc = "reply"
              /\ UNCHANGED <<shmMap, lost, mutex>>
    BY DEF SetFlag
  <1>6. Reply(w) =>
              /\ work[w].pc = "reply" /\ work'[w] = Free /\ lost \subseteq lost'
              /\ mutex' = (IF mutex = w THEN NoWorker ELSE mutex) /\ UNCHANGED shmMap
    BY DEF Reply
  <1> QED
    BY <1>1, <1>2, <1>3, <1>4, <1>5, <1>6

\* Forgetting a name loses it from the table, and only it.
LEMMA ForgetIs ==
  ASSUME Staged, NEW n \in Names, Forget(n)
  PROVE  shmMap' = [shmMap EXCEPT ![n] = NoPtr] /\ lost \subseteq lost'
  <1>1. shmMap \in [Names -> Ptrs \cup {NoPtr}]
    BY DEF Staged, TypeOK
  <1>2. CASE shmMap[n] = NoPtr
    BY <1>1, <1>2 DEF Forget
  <1>3. CASE shmMap[n] # NoPtr
    BY <1>3 DEF Forget
  <1> QED
    BY <1>2, <1>3

\* A step keeps the mutex with the one thread that works on the table.
LEMMA HoldingStep ==
  ASSUME Staged, Holding, Starting, [Next]_vars PROVE Holding' /\ Starting'
  <1>1. CASE UNCHANGED vars
    BY <1>1 DEF vars, Holding, Starting
  <1>2. ASSUME NEW c \in Clients, GiveUp(c) PROVE Holding' /\ Starting'
    BY <1>2 DEF GiveUp, store, Holding, Starting
  <1>3. ASSUME NEW c \in Clients, NEW w \in Workers, Request(c, w) PROVE Holding' /\ Starting'
    <2>1. /\ \A x \in Workers : x # w => work'[x] = work[x]
          /\ work[w].pc = "idle" /\ work'[w].i = 0 /\ work'[w].j = 0
          /\ work'[w].pc = IF work'[w].op \in Locking THEN "lock" ELSE "loop"
          /\ UNCHANGED mutex
      BY <1>3, Requested
    <2>2. work[w].op \notin Locking
      BY <2>1 DEF Starting, Locking
    <2>3. Holding'
      BY <2>1, <2>2 DEF Holding
    <2>4. Starting'
      BY <2>1 DEF Starting
    <2> QED
      BY <2>3, <2>4
  <1>4. ASSUME NEW w \in Workers, WorkerStep(w) PROVE Holding' /\ Starting'
    <2>1. \A x \in Workers : x # w => work'[x] = work[x]
      BY <1>4, OneWorks
    <2>2. Free.op = "none" /\ Free.pc = "idle" /\ "none" \notin Locking
      BY DEF Free, Locking
    <2>3. mutex \in Workers \cup {NoWorker} /\ NoWorker \notin Workers
      BY ServerAssumption DEF Staged, TypeOK
    <2>4. CASE work[w].op \notin Locking
      <3>1. mutex' = mutex /\ mutex # w /\ work'[w].op \notin Locking
        BY <1>4, <2>4, OtherSteps
      <3>2. work'[w].pc # "idle" \/ work'[w] = Free
        BY <1>4, OneWorks, LockedSteps
      <3>3. work'[w].pc # "lock"
        <4>1. Staged'
          BY <1>4, StagedWorker
        <4> QED
          BY <3>1, <4>1 DEF Staged, StageOK
      <3>4. Holding'
        BY <2>1, <3>1 DEF Holding
      <3>5. Starting'
        BY <2>1, <2>2, <3>1, <3>2, <3>3 DEF Starting, Locking
      <3> QED
        BY <3>4, <3>5
    <2>5. CASE work[w].op \in Locking
      <3>1. CASE Lock(w) /\ work[w].pc = "lock"
        <4>1. /\ mutex = NoWorker /\ mutex' = w /\ work'[w].pc = "loop"
              /\ work'[w].j = 0 /\ work'[w].op = work[w].op
          BY <3>1, LockedSteps DEF SameRequest
        <4> QED
          BY <2>1, <2>3, <2>5, <4>1 DEF Holding, Starting
      <3>2. CASE /\ SameRequest(w) /\ UNCHANGED mutex
                 /\ work[w].pc \notin {"idle", "lock"} /\ work'[w].pc \notin {"idle", "lock"}
                 /\ (work'[w].op = "map_batch" /\ work'[w].pc = "loop") => work'[w].j = 0
        BY <2>1, <3>2 DEF Holding, Starting, SameRequest
      <3>3. CASE Reply(w)
        <4>1. work[w].pc = "reply" /\ work'[w] = Free
              /\ mutex' = (IF mutex = w THEN NoWorker ELSE mutex)
          BY <3>3, LockedSteps
        <4>2. mutex = w
          BY <2>5, <4>1 DEF Holding
        <4> QED
          BY <2>1, <2>2, <2>3, <4>1, <4>2 DEF Holding, Starting
      <3>4. CASE MapBatch(w)
        BY <3>2, <3>4, LockedSteps
      <3>5. CASE MapUndo(w)
        BY <3>2, <3>5, LockedSteps
      <3>6. CASE work[w].op = "unmap_batch" /\ UnmapBatch(w)
        BY <3>2, <3>6, LockedSteps DEF SameRequest
      <3>7. CASE SetFlag(w)
        BY <3>2, <3>7, LockedSteps
      <3> QED
        BY <1>4, <2>5, <3>1, <3>3, <3>4, <3>5, <3>6, <3>7, LockingSteps
    <2> QED
      BY <2>4, <2>5
  <1> QED
    BY <1>1, <1>2, <1>3, <1>4 DEF Next

\* The holder's own batch, as it goes.
LEMMA PartStep ==
  ASSUME Staged, Holding, Starting, NEW w \in Workers, WorkerStep(w), ~Lock(w), ~Reply(w),
         mutex = w, Part(work[w]), lost' = {}
  PROVE  Part(work[w])'
  <1>0. /\ shmMap \in [Names -> Ptrs \cup {NoPtr}] /\ BatchNum \in Nat /\ BatchNum >= 1
        /\ work[w].i \in Nat /\ work[w].j \in Nat /\ work[w].i <= BatchNum /\ work[w].j <= work[w].i
        /\ work[w].op \in Locking /\ work[w].prefix \in Prefixes
    BY ServerAssumption DEF Staged, TypeOK, Work, StageOK, Holding, Locking
  <1> DEFINE r == work[w]
             Had(k) == shmMap[<<r.prefix, k>>] # NoPtr
             Has(k) == shmMap'[<<r.prefix, k>>] # NoPtr
  <1>1. \A k \in Indices : <<r.prefix, k>> \in Names
    BY <1>0 DEF Names, Indices
  <1>2. \A k \in Indices : k \in Nat /\ k < BatchNum
    BY <1>0 DEF Indices
  <1>3. ASSUME NEW v, NEW m \in Indices, shmMap' = [shmMap EXCEPT ![<<r.prefix, m>>] = v]
        PROVE  \A k \in Indices : Has(k) <=> IF k = m THEN v # NoPtr ELSE Had(k)
    BY <1>0, <1>1, <1>3
  <1>4. CASE MapBatch(w)
    <2>1. /\ SameRequest(w) /\ r.op = "map_batch" /\ r.pc = "loop" /\ r.j = 0 /\ work'[w].j = 0
          /\ \/ /\ r.i < BatchNum /\ work'[w].i = r.i + 1 /\ work'[w].pc = "loop"
                /\ \E p \in Ptrs : shmMap' = [shmMap EXCEPT ![Name(w)] = p]
                /\ lost' = lost \cup ({shmMap[Name(w)]} \ {NoPtr})
             \/ /\ work'[w].i = r.i /\ work'[w].pc = "undo" /\ UNCHANGED <<shmMap, lost>>
             \/ /\ r.i = BatchNum /\ work'[w].pc = "reply" /\ UNCHANGED <<shmMap, lost>>
      BY <1>4, LockedSteps DEF MapBatch, At
    <2>2. work'[w].op = "map_batch" /\ work'[w].prefix = r.prefix
      BY <2>1 DEF SameRequest
    <2>3. r.i > 0 => \A k \in Indices : Had(k) <=> k < r.i
      BY <1>2, <2>1 DEF Part, Mapping
    <2>4. r.i = 0 => (\A k \in Indices : Had(k)) \/ (\A k \in Indices : ~Had(k))
      BY <2>1 DEF Part, Mapping, Unmapping, Whole
    <2>5. CASE /\ r.i < BatchNum /\ work'[w].i = r.i + 1 /\ work'[w].pc = "loop"
               /\ \E p \in Ptrs : shmMap' = [shmMap EXCEPT ![Name(w)] = p]
               /\ lost' = lost \cup ({shmMap[Name(w)]} \ {NoPtr})
      <3>1. r.i \in Indices /\ Name(w) = <<r.prefix, r.i>>
        BY <1>0, <2>5 DEF Indices, Name
      <3>2. ~Had(r.i)
        BY <2>5, <3>1
      <3>3. \A k \in Indices : Had(k) <=> k < r.i
        <4>1. CASE r.i > 0 BY <2>3, <4>1
        <4>2. CASE r.i = 0
          <5>1. \A k \in Indices : ~Had(k) BY <2>4, <3>1, <3>2, <4>2
          <5> QED BY <1>2, <4>2, <5>1
        <4> QED BY <1>0, <4>1, <4>2
      <3>4. PICK p \in Ptrs : shmMap' = [shmMap EXCEPT ![<<r.prefix, r.i>>] = p]
        BY <2>5, <3>1
      <3>5. \A k \in Indices : Has(k) <=> (k = r.i \/ Had(k))
        BY <1>3, <3>1, <3>4, ServerAssumption
      <3>6. \A k \in Indices : Has(k) <=> (work'[w].j <= k /\ k < work'[w].i)
        BY <1>0, <1>2, <2>1, <2>5, <3>3, <3>5
      <3> QED
        BY <1>0, <2>2, <2>5, <3>6 DEF Part, Mapping, Unmapping
    <2>6. CASE work'[w].i = r.i /\ work'[w].pc = "undo" /\ UNCHANGED <<shmMap, lost>>
      <3>1. r.i > 0 => \A k \in Indices : Has(k) <=> (work'[w].j <= k /\ k < work'[w].i)
        BY <1>2, <2>1, <2>3, <2>6
      <3> QED
        BY <1>0, <2>2, <2>4, <2>6, <3>1 DEF Part, Mapping, Unmapping, Whole
    <2>7. CASE r.i = BatchNum /\ work'[w].pc = "reply" /\ UNCHANGED <<shmMap, lost>>
      <3>1. \A k \in Indices : Has(k)
        BY <1>0, <1>2, <2>3, <2>7
      <3> QED
        BY <2>2, <2>7, <3>1 DEF Part, Mapping, Unmapping, Whole
    <2> QED
      BY <2>1, <2>5, <2>6, <2>7
  <1>5. CASE MapUndo(w)
    <2>1. /\ SameRequest(w) /\ r.op = "map_batch" /\ r.pc = "undo"
          /\ \/ /\ r.j < r.i /\ work'[w].j = r.j + 1 /\ work'[w].i = r.i
                /\ work'[w].pc = "undo" /\ Forget(UndoName(w))
             \/ /\ r.j = r.i /\ work'[w].pc = "reply" /\ UNCHANGED <<shmMap, lost>>
      BY <1>5, LockedSteps DEF MapUndo, At
    <2>2. work'[w].op = "map_batch" /\ work'[w].prefix = r.prefix
      BY <2>1 DEF SameRequest
    <2>3. r.i > 0 => \A k \in Indices : Had(k) <=> (r.j <= k /\ k < r.i)
      BY <2>1 DEF Part, Mapping
    <2>4. r.i = 0 => (\A k \in Indices : Had(k)) \/ (\A k \in Indices : ~Had(k))
      BY <2>1 DEF Part, Mapping, Unmapping, Whole
    <2>5. CASE /\ r.j < r.i /\ work'[w].j = r.j + 1 /\ work'[w].i = r.i
               /\ work'[w].pc = "undo" /\ Forget(UndoName(w))
      <3>1. r.j \in Indices /\ UndoName(w) = <<r.prefix, r.j>> /\ UndoName(w) \in Names /\ r.i > 0
        BY <1>0, <1>1, <2>5 DEF Indices, UndoName
      <3>2. shmMap' = [shmMap EXCEPT ![<<r.prefix, r.j>>] = NoPtr]
        BY <2>5, <3>1, ForgetIs
      <3>3. \A k \in Indices : Has(k) <=> (k # r.j /\ Had(k))
        BY <1>3, <3>1, <3>2
      <3>4. \A k \in Indices : Has(k) <=> (work'[w].j <= k /\ k < work'[w].i)
        BY <1>0, <1>2, <2>3, <2>5, <3>1, <3>3
      <3> QED
        BY <2>2, <2>5, <3>1, <3>4 DEF Part, Mapping, Unmapping
    <2>6. CASE r.j = r.i /\ work'[w].pc = "reply" /\ UNCHANGED <<shmMap, lost>>
      <3>1. (\A k \in Indices : Has(k)) \/ (\A k \in Indices : ~Has(k))
        BY <1>0, <1>2, <2>3, <2>4, <2>6
      <3> QED
        BY <2>2, <2>6, <3>1 DEF Part, Mapping, Unmapping, Whole
    <2> QED
      BY <2>1, <2>5, <2>6
  <1>6. CASE UnmapBatch(w)
    <2>1. /\ SameRequest(w) /\ r.op = "unmap_batch" /\ r.pc = "loop"
          /\ \/ /\ r.i < BatchNum /\ work'[w].i = r.i + 1 /\ work'[w].pc = "loop"
                /\ Forget(Name(w))
             \/ /\ r.i = BatchNum /\ work'[w].pc = "reply" /\ UNCHANGED <<shmMap, lost>>
      BY <1>6, LockedSteps DEF UnmapBatch, At
    <2>2. work'[w].op = "unmap_batch" /\ work'[w].prefix = r.prefix
      BY <2>1 DEF SameRequest
    <2>3. /\ \A k \in Indices : k < r.i => ~Had(k)
          /\ (\A k \in Indices : k >= r.i => Had(k)) \/ (\A k \in Indices : k >= r.i => ~Had(k))
      BY <2>1 DEF Part, Mapping, Unmapping
    <2>4. CASE /\ r.i < BatchNum /\ work'[w].i = r.i + 1 /\ work'[w].pc = "loop"
               /\ Forget(Name(w))
      <3>1. r.i \in Indices /\ Name(w) = <<r.prefix, r.i>> /\ Name(w) \in Names
        BY <1>0, <1>1, <2>4 DEF Indices, Name
      <3>2. shmMap' = [shmMap EXCEPT ![<<r.prefix, r.i>>] = NoPtr]
        BY <2>4, <3>1, ForgetIs
      <3>3. \A k \in Indices : Has(k) <=> (k # r.i /\ Had(k))
        BY <1>3, <3>1, <3>2
      <3>4. \A k \in Indices : k < r.i + 1 => ~Has(k)
        BY <1>0, <1>2, <2>3, <3>3
      <3>5. \A k \in Indices : k >= r.i + 1 => (Has(k) <=> Had(k)) /\ k >= r.i
        BY <1>0, <1>2, <3>3
      <3> QED
        BY <2>2, <2>3, <2>4, <3>4, <3>5 DEF Part, Mapping, Unmapping
    <2>5. CASE r.i = BatchNum /\ work'[w].pc = "reply" /\ UNCHANGED <<shmMap, lost>>
      <3>1. \A k \in Indices : ~Has(k)
        BY <1>2, <2>3, <2>5
      <3> QED
        BY <2>2, <2>5, <3>1 DEF Part, Mapping, Unmapping, Whole
    <2> QED
      BY <2>1, <2>4, <2>5
  <1>7. CASE SetFlag(w)
    <2>1. SameRequest(w) /\ r.pc = "flag" /\ work'[w].pc = "reply" /\ UNCHANGED shmMap
      BY <1>7, LockedSteps
    <2> QED
      BY <2>1 DEF Part, Mapping, Unmapping, Whole, SameRequest
  <1> QED
    BY <1>0, <1>4, <1>5, <1>6, <1>7, LockingSteps

\* A step keeps every batch whole but the holder's.
LEMMA BatchesStep ==
  ASSUME Staged, Holding, Starting, Batches, [Next]_vars PROVE Batches'
  <1>0. /\ mutex \in Workers \cup {NoWorker} /\ NoWorker \notin Workers
        /\ shmMap \in [Names -> Ptrs \cup {NoPtr}]
    BY ServerAssumption DEF Staged, TypeOK
  <1>1. CASE UNCHANGED vars
    BY <1>1 DEF vars, Batches, Part, Mapping, Unmapping, Whole
  <1>2. ASSUME NEW c \in Clients, GiveUp(c) PROVE Batches'
    BY <1>2 DEF GiveUp, store, Batches, Part, Mapping, Unmapping, Whole
  <1>3. ASSUME UNCHANGED <<shmMap, mutex>>, lost \subseteq lost',
               \A w \in Workers : mutex = w => work'[w] = work[w]
        PROVE  Batches'
    <2> SUFFICES ASSUME lost' = {} PROVE
           /\ \A prefix \in Prefixes :
                (\A w \in Workers : mutex' = w => work'[w].prefix # prefix) => Whole(prefix)'
           /\ \A w \in Workers : mutex' = w => Part(work[w])'
      BY DEF Batches
    <2>1. lost = {}
      BY <1>3
    <2>2. \A prefix : Whole(prefix)' <=> Whole(prefix)
      BY <1>3 DEF Whole
    <2>3. \A w \in Workers : mutex = w /\ Part(work[w]) => Part(work[w])'
      BY <1>3, <2>2 DEF Part, Mapping, Unmapping
    <2> QED
      BY <1>3, <2>1, <2>2, <2>3 DEF Batches
  <1>4. ASSUME NEW c \in Clients, NEW w \in Workers, Request(c, w) PROVE Batches'
    <2>1. /\ \A x \in Workers : x # w => work'[x] = work[x]
          /\ work[w].pc = "idle" /\ UNCHANGED <<shmMap, mutex, lost>>
      BY <1>4, Requested
    <2>2. mutex # w
      <3>1. work[w].op \notin Locking
        BY <2>1 DEF Starting, Locking
      <3> QED
        BY <3>1 DEF Holding
    <2> QED
      BY <1>3, <2>1, <2>2
  <1>5. ASSUME NEW w \in Workers, WorkerStep(w) PROVE Batches'
    <2>1. \A x \in Workers : x # w => work'[x] = work[x]
      BY <1>5, OneWorks
    <2>2. lost \subseteq lost'
      <3>1. \A n \in Names : Forget(n) => lost \subseteq lost'
        BY ForgetIs
      <3>2. /\ work[w].j < work[w].i => (At(w, "map_batch", "undo") => UndoName(w) \in Names)
            /\ work[w].i < BatchNum => (At(w, "unmap_batch", "loop") => Name(w) \in Names)
        BY NameType DEF At
      <3>3. MapUndo(w) => lost \subseteq lost'
        BY <3>1, <3>2 DEF MapUndo
      <3>4. UnmapBatch(w) => lost \subseteq lost'
        BY <3>1, <3>2 DEF UnmapBatch
      <3>5. MapBatch(w) \/ Unmap(w) \/ Reply(w) => lost \subseteq lost'
        BY DEF MapBatch, Unmap, Reply
      <3>6. ~MapUndo(w) /\ ~UnmapBatch(w) /\ ~MapBatch(w) /\ ~Unmap(w) /\ ~Reply(w) => UNCHANGED lost
        BY <1>5, Zenon DEF WorkerStep, Lock, store, AllocateBatch, AllocateUndo, DeallocateBatch, Map,
                           Initialize, Finalize, SetFlag
      <3> QED
        BY <3>3, <3>4, <3>5, <3>6
    <2>3. CASE work[w].op \notin Locking
      <3>1. UNCHANGED shmMap /\ mutex' = mutex /\ mutex # w
        BY <1>5, <2>3, OtherSteps
      <3> QED
        BY <1>3, <2>1, <2>2, <3>1
    <2>4. CASE work[w].op \in Locking
      <3> SUFFICES ASSUME lost' = {} PROVE
             /\ \A prefix \in Prefixes :
                  (\A x \in Workers : mutex' = x => work'[x].prefix # prefix) => Whole(prefix)'
             /\ \A x \in Workers : mutex' = x => Part(work[x])'
        BY DEF Batches
      <3>1. lost = {}
        BY <2>2
      <3>2. CASE Lock(w)
        <4>1. /\ mutex = NoWorker /\ mutex' = w /\ work'[w].pc = "loop" /\ UNCHANGED <<shmMap, lost>>
              /\ work'[w].i = 0 /\ SameRequest(w)
          BY <3>2, LockedSteps
        <4>2. \A prefix \in Prefixes : Whole(prefix)'
          BY <1>0, <3>1, <4>1 DEF Batches, Whole
        <4>3. work'[w].prefix \in Prefixes /\ BatchNum \in Nat
          BY <2>4, <4>1, ServerAssumption DEF Staged, StageOK, SameRequest, Locking
        <4>4. Whole(work[w].prefix)'
          BY <4>2, <4>3
        <4>5. Part(work[w])'
          BY <4>1, <4>3, <4>4 DEF Part, Mapping, Unmapping, Whole, Indices
        <4> QED
          BY <4>1, <4>2, <4>5
      <3>3. CASE Reply(w)
        <4>1. work[w].pc = "reply" /\ mutex' = (IF mutex = w THEN NoWorker ELSE mutex) /\ UNCHANGED shmMap
          BY <3>3, LockedSteps
        <4>2. mutex = w
          BY <2>4, <4>1 DEF Holding
        <4>3. Whole(work[w].prefix)
          BY <3>1, <4>1, <4>2 DEF Batches, Part, Mapping, Unmapping
        <4>4. \A prefix \in Prefixes : Whole(prefix)
          BY <3>1, <4>2, <4>3 DEF Batches
        <4> QED
          BY <1>0, <4>1, <4>2, <4>4 DEF Whole
      <3>4. CASE ~Lock(w) /\ ~Reply(w)
        <4>1. mutex = w /\ mutex' = mutex /\ work'[w].prefix = work[w].prefix
          <5>1. CASE MapBatch(w) \/ MapUndo(w) \/ SetFlag(w) \/ UnmapBatch(w)
            BY <2>4, <5>1, LockedSteps DEF Holding, SameRequest
          <5> QED
            BY <1>5, <2>4, <3>4, <5>1, LockingSteps
        <4>2. Part(work[w])
          BY <3>1, <4>1 DEF Batches
        <4>3. Part(work[w])'
          BY <1>5, <3>4, <4>1, <4>2, PartStep
        <4>4. ASSUME NEW prefix \in Prefixes, prefix # work[w].prefix PROVE Whole(prefix)'
          <5>1. Whole(prefix)
            BY <3>1, <4>1, <4>4 DEF Batches
          <5>2. \A i \in Indices : shmMap'[<<prefix, i>>] = shmMap[<<prefix, i>>]
            <6>1. \A i \in Indices : /\ <<prefix, i>> \in Names
                                     /\ <<prefix, i>> # Name(w) /\ <<prefix, i>> # UndoName(w)
              BY <4>4 DEF Names, Indices, Name, UndoName
            <6>2. \A n \in Names : Forget(n) =>
                    \A i \in Indices : <<prefix, i>> # n => shmMap'[<<prefix, i>>] = shmMap[<<prefix, i>>]
              BY <1>0, <6>1, ForgetIs
            <6>3. CASE MapBatch(w)
              BY <1>0, <6>1, <6>3 DEF MapBatch
            <6>4. CASE MapUndo(w)
              <7>1. UNCHANGED shmMap \/ (Forget(UndoName(w)) /\ UndoName(w) \in Names)
                BY <2>4, <6>4, NameType DEF MapUndo, At
              <7> QED
                BY <6>1, <6>2, <7>1
            <6>5. CASE UnmapBatch(w)
              <7>1. UNCHANGED shmMap \/ (Forget(Name(w)) /\ Name(w) \in Names)
                BY <2>4, <6>5, NameType DEF UnmapBatch, At
              <7> QED
                BY <6>1, <6>2, <7>1
            <6>6. CASE SetFlag(w)
              BY <6>6 DEF SetFlag
            <6> QED
              BY <1>5, <2>4, <3>4, <6>3, <6>4, <6>5, <6>6, LockingSteps
          <5> QED
            BY <5>1, <5>2 DEF Whole
        <4> QED
          BY <4>1, <4>3, <4>4
      <3> QED
        BY <3>2, <3>3, <3>4
    <2> QED
      BY <2>3, <2>4
  <1> QED
    BY <1>1, <1>2, <1>4, <1>5 DEF Next

\* Outside the critical section every batch is recorded as a whole or not at all, as long
\* as no mapping was given up, whatever fails and whoever waits for the mutex.
THEOREM BatchesWhole == Spec => []BatchIsWhole
  <1> DEFINE Inv == Staged /\ Holding /\ Starting /\ Batches
  <1>1. Init => Inv
    <2> SUFFICES ASSUME Init PROVE Holding /\ Starting /\ Batches
      BY InitStaged
    <2>1. /\ \A w \in Workers : work[w].pc = "idle" /\ work[w].op = "none"
          /\ mutex = NoWorker /\ NoWorker \notin Workers
      BY ServerAssumption DEF Init, Free
    <2>2. \A prefix \in Prefixes : Whole(prefix)
      <3>1. \A prefix \in Prefixes, k \in Indices : <<prefix, k>> \in Names
        BY DEF Names, Indices
      <3> QED
        BY <3>1 DEF Init, Whole
    <2> QED
      BY <2>1, <2>2 DEF Holding, Starting, Batches, Locking
  <1>2. Inv /\ [Next]_vars => Inv'
    BY StagedStep, HoldingStep, BatchesStep
  <1>3. Inv => BatchIsWhole
    BY ServerAssumption DEF Holding, Batches, BatchIsWhole, Whole, Indices
  <1> HIDE DEF Inv
  <1> QED
    BY <1>1, <1>2, <1>3, PTL DEF Spec

=============================================================================
