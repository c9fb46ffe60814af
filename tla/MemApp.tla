------------------------------- MODULE MemApp -------------------------------
(***************************************************************************)
(* ubse_mem_app.py: the interactive tool the cases drive to borrow memory. *)
(* An app executes one command at a time.  A command with --count greater  *)
(* than one hands count tasks to a pool of --concurrency threads; the      *)
(* tasks add up their results under a lock, the first task that needs the  *)
(* tool library loads it under another, and then each loads it once more   *)
(* for itself.  Beside the commands of the UBSE service the app keeps one  *)
(* mapped memory device and its NUMA blocks.  The service is shared by the *)
(* apps and may refuse any call.                                           *)
(***************************************************************************)
EXTENDS Integers, FiniteSets

CONSTANTS Apps,
          Verbs,     \* the <<verb, form>> pairs the users give, a subset of Commands
          Names,     \* the names of memory they use
          Counts,    \* the values of --count
          Concs,     \* the values of --concurrency
          Devices,   \* memory devices, /dev/obmm_shmdev<id>
          Fds,       \* file descriptors
          Nodes,     \* NUMA nodes
          MaxCmds,   \* bound on the commands given to an app
          None

Commands ==
    ({"create", "delete"} \X {"fd", "numa", "shm", "addr"})
      \cup ({"lend"} \X {"fd", "numa", "shm"})
      \cup ({"attach", "detach"} \X {"shm"})

Workers == {n \in Concs : n > 0}
Sizes == {n \in Counts : n > 0}

\* Counts and concurrencies are numbers a user can type: each set has a greatest.
ASSUME MemAppAssumption ==
    /\ Verbs \subseteq Commands
    /\ Counts \subseteq Int
    /\ Concs \subseteq Int
    /\ \E n \in Workers \cup {0} : \A m \in Workers : m <= n
    /\ \E n \in Sizes \cup {0} : \A m \in Sizes : m <= n
    /\ MaxCmds \in Nat
    /\ None \notin Devices \cup Fds \cup Int

Threads == 0..(CHOOSE n \in Workers \cup {0} : \A m \in Workers : m <= n)
Main == 0            \* the thread of cmdloop(), which executes single operations
Plain == -1          \* the index of an operation outside a batch: the name as it is
Tasks == 0..((CHOOSE n \in Sizes \cup {0} : \A m \in Sizes : m <= n) - 1)

Items == [form : {"fd", "numa", "shm", "addr"}, name : Names, index : Tasks \cup {Plain}]
Cmds == {[verb |-> v[1], form |-> v[2], name |-> n, count |-> k, conc |-> c] :
            v \in Verbs, n \in Names, k \in Counts, c \in Concs}
NoCmd == [verb |-> "none", form |-> "none", name |-> None, count |-> 0, conc |-> 0]

VARIABLES
    made,     \* the memory that exists at the service
    bound,    \* the shared memory an app has attached, <<app, item>>
    main,     \* per app: what cmdloop() is doing
    thread,   \* per app and thread: the task it executes
    tally,    \* per app: success_count, failure_count and the lock over them
    tool,     \* per app: the tool library, its flag and its lock
    dev,      \* per app: fd, mmap_obj and current_device
    open,     \* per app: the descriptors the process has open
    blocks,   \* per app: numa_blocks
    seen      \* per app: what a user could have noticed; read by the properties only

vars == <<made, bound, main, thread, tally, tool, dev, open, blocks, seen>>

IdleThread == [pc |-> "idle", task |-> Plain, result |-> FALSE, read |-> 0]
NoDevice == [fd |-> None, mapped |-> None, current |-> None]
NewTally == [good |-> 0, bad |-> 0, lock |-> None]
NewTool == [ready |-> FALSE, lock |-> None]
Prompting(n) == [pc |-> "prompt", cmd |-> NoCmd, next |-> 0, given |-> n]
NothingSeen == [took |-> {}, spoilt |-> 0]

TypeOK ==
    /\ made \subseteq Items
    /\ bound \subseteq Apps \X Items
    /\ main \in [Apps -> [pc : {"prompt", "batch", "single", "gone"}, cmd : Cmds \cup {NoCmd},
                          next : Nat, given : 0..MaxCmds]]
    /\ thread \in [Apps -> [Threads ->
          [pc : {"idle", "init", "wait", "load", "own", "call", "done", "tally"},
           task : Tasks \cup {Plain}, result : BOOLEAN, read : Nat]]]
    /\ tally \in [Apps -> [good : Nat, bad : Nat, lock : Threads \cup {None}]]
    /\ tool \in [Apps -> [ready : BOOLEAN, lock : Threads \cup {None}]]
    /\ dev \in [Apps -> [fd : Fds \cup {None}, mapped : Devices \cup {None},
                         current : Devices \cup {None}]]
    /\ open \in [Apps -> SUBSET Fds]
    /\ blocks \in [Apps -> SUBSET Nodes]
    /\ seen \in [Apps -> [took : SUBSET (Tasks \cup {Plain}), spoilt : Nat]]

Init ==
    /\ made = {}
    /\ bound = {}
    /\ main = [a \in Apps |-> Prompting(0)]
    /\ thread = [a \in Apps |-> [t \in Threads |-> IdleThread]]
    /\ tally = [a \in Apps |-> NewTally]
    /\ tool = [a \in Apps |-> NewTool]
    /\ dev = [a \in Apps |-> NoDevice]
    /\ open = [a \in Apps |-> {}]
    /\ blocks = [a \in Apps |-> {}]
    /\ seen = [a \in Apps |-> NothingSeen]

At(a, t, pc) == thread[a][t].pc = pc
Goto(a, t, pc) == thread' = [thread EXCEPT ![a][t].pc = pc]

---------------------------------------------------------------------------
(* cmdloop(): the commands that call the service.                          *)

Batch(c) == c.count > 1
Service == <<made, bound>>
Process == <<dev, open, blocks>>

\* Which thread function a task enters: the addr operations first make sure that
\* the tool library is loaded; a batch of fd_create_with_lender passes arguments
\* its operation does not take, and the decorator makes a failure of it.
Entry(c) ==
    IF c.form = "addr" THEN "init"
    ELSE IF Batch(c) /\ c.verb = "lend" /\ c.form = "fd" THEN "done"
    ELSE "call"

GiveCmd(a, c) ==
    /\ main[a].pc = "prompt"
    /\ main[a].given < MaxCmds
    /\ seen' = [seen EXCEPT ![a].took = {}]
    /\ main' = [main EXCEPT ![a] =
                   [pc |-> IF ~Batch(c) THEN "single"
                           ELSE IF c.verb = "lend" /\ c.form = "shm" THEN "prompt"
                           ELSE IF c.conc <= 0 THEN "prompt" ELSE "batch",
                    cmd |-> c, next |-> 0, given |-> @.given + 1]]
    /\ tally' = [tally EXCEPT ![a] = NewTally]
    /\ thread' = IF Batch(c) THEN thread
                 ELSE [thread EXCEPT ![a][Main] = [IdleThread EXCEPT !.pc = Entry(c)]]
    /\ UNCHANGED <<Service, tool, Process>>

\* Faulty variant of TakeTask: one task too many.
TakeTaskPast(a, t) ==
    /\ main[a].pc = "batch"
    /\ At(a, t, "idle")
    /\ main[a].next <= main[a].cmd.count
    /\ thread' = [thread EXCEPT ![a][t] =
                     [IdleThread EXCEPT !.pc = Entry(main[a].cmd), !.task = main[a].next]]
    /\ main' = [main EXCEPT ![a].next = @ + 1]
    /\ UNCHANGED <<Service, tally, tool, Process, seen>>

\* An idle thread of the pool takes the next task.
TakeTask(a, t) ==
    /\ main[a].pc = "batch"
    /\ t \in 1..main[a].cmd.conc
    /\ At(a, t, "idle")
    /\ main[a].next < main[a].cmd.count
    /\ thread' = [thread EXCEPT ![a][t] =
                     [IdleThread EXCEPT !.pc = Entry(main[a].cmd), !.task = main[a].next]]
    /\ main' = [main EXCEPT ![a].next = @ + 1]
    /\ UNCHANGED <<Service, tally, tool, Process, seen>>

\* Leaving the executor's block waits for every task; the counts are logged.
BatchEnds(a) ==
    /\ main[a].pc = "batch"
    /\ main[a].next = main[a].cmd.count
    /\ \A t \in Threads : At(a, t, "idle")
    /\ main' = [main EXCEPT ![a].pc = "prompt"]
    /\ UNCHANGED <<Service, thread, tally, tool, Process, seen>>

\* A single operation returns to the prompt; its result is logged at most.
SingleEnds(a) ==
    /\ main[a].pc = "single"
    /\ At(a, Main, "done")
    /\ main' = [main EXCEPT ![a].pc = "prompt"]
    /\ thread' = [thread EXCEPT ![a][Main] = IdleThread]
    /\ UNCHANGED <<Service, tally, tool, Process, seen>>

---------------------------------------------------------------------------
(* _initialize_dll_safely(): the flag is tested before and after the lock.  *)

CheckReady(a, t) ==
    /\ At(a, t, "init")
    /\ Goto(a, t, IF tool[a].ready THEN "own" ELSE "wait")
    /\ UNCHANGED <<Service, main, tally, tool, Process, seen>>

TakeInitLock(a, t) ==
    /\ At(a, t, "wait")
    /\ tool[a].lock = None
    /\ tool' = [tool EXCEPT ![a].lock = t]
    /\ Goto(a, t, "load")
    /\ UNCHANGED <<Service, main, tally, Process, seen>>

\* The library may fail to load: the operation ends with an exception, which the
\* decorator turns into a failed result.
LoadTool(a, t) ==
    /\ At(a, t, "load")
    /\ \/ /\ tool' = [tool EXCEPT ![a] = [ready |-> TRUE, lock |-> None]]
          /\ Goto(a, t, "own")
       \/ /\ ~tool[a].ready
          /\ tool' = [tool EXCEPT ![a].lock = None]
          /\ Goto(a, t, "done")
    /\ UNCHANGED <<Service, main, tally, Process, seen>>

\* The task loads the library once more, outside the lock, and calls this handle;
\* a library that does not load is a failed result.
OwnLoad(a, t) ==
    /\ At(a, t, "own")
    /\ Goto(a, t, "call") \/ Goto(a, t, "done")
    /\ UNCHANGED <<Service, main, tally, tool, Process, seen>>

---------------------------------------------------------------------------
(* The call of the service and what the task makes of its return code.     *)

Item(a, t) == [form |-> main[a].cmd.form, name |-> main[a].cmd.name, index |-> thread[a][t].task]

\* The service does what it is asked when that makes sense, or refuses.
Create(i) ==
    /\ i \notin made
    /\ made' = made \cup {i}
    /\ UNCHANGED bound

Delete(i) ==
    /\ i \in made
    /\ \A b \in Apps : <<b, i>> \notin bound
    /\ made' = made \ {i}
    /\ UNCHANGED bound

Attach(a, i) ==
    /\ i \in made
    /\ <<a, i>> \notin bound
    /\ bound' = bound \cup {<<a, i>>}
    /\ UNCHANGED made

Detach(a, i) ==
    /\ <<a, i>> \in bound
    /\ bound' = bound \ {<<a, i>>}
    /\ UNCHANGED made

Does(a, verb, i) ==
    \/ verb \in {"create", "lend"} /\ Create(i)
    \/ verb = "delete" /\ Delete(i)
    \/ verb = "attach" /\ Attach(a, i)
    \/ verb = "detach" /\ Detach(a, i)

CallDone(a, t) ==
    /\ At(a, t, "call")
    /\ Does(a, main[a].cmd.verb, Item(a, t))
    /\ thread' = [thread EXCEPT ![a][t].pc = "done", ![a][t].result = TRUE]
    /\ seen' = [seen EXCEPT ![a].took = @ \cup {thread[a][t].task}]
    /\ UNCHANGED <<main, tally, tool, Process>>

CallRefused(a, t) ==
    /\ At(a, t, "call")
    /\ Goto(a, t, "done")
    /\ UNCHANGED <<Service, main, tally, tool, Process, seen>>

\* wrapper(): under the lock the count is read, then written.
Counted(a, t) == IF thread[a][t].result THEN tally[a].good ELSE tally[a].bad

\* Faulty variant of TakeTallyLock: the counts are not locked.
ReadTally(a, t) ==
    /\ main[a].pc = "batch"
    /\ At(a, t, "done")
    /\ thread' = [thread EXCEPT ![a][t].pc = "tally", ![a][t].read = Counted(a, t)]
    /\ UNCHANGED <<Service, main, tally, tool, Process, seen>>

TakeTallyLock(a, t) ==
    /\ main[a].pc = "batch"
    /\ At(a, t, "done")
    /\ tally[a].lock = None
    /\ tally' = [tally EXCEPT ![a].lock = t]
    /\ thread' = [thread EXCEPT ![a][t].pc = "tally", ![a][t].read = Counted(a, t)]
    /\ UNCHANGED <<Service, main, tool, Process, seen>>

\* Faulty variant of Tally: a task that failed is not counted and keeps the lock.
TallySuccess(a, t) ==
    /\ At(a, t, "tally")
    /\ thread[a][t].result
    /\ tally' = [tally EXCEPT ![a].good = thread[a][t].read + 1, ![a].lock = None]
    /\ thread' = [thread EXCEPT ![a][t] = IdleThread]
    /\ UNCHANGED <<Service, main, tool, Process, seen>>

Tally(a, t) ==
    /\ At(a, t, "tally")
    /\ tally' = [tally EXCEPT ![a] =
                    IF thread[a][t].result
                    THEN [@ EXCEPT !.good = thread[a][t].read + 1, !.lock = None]
                    ELSE [@ EXCEPT !.bad = thread[a][t].read + 1, !.lock = None]]
    /\ thread' = [thread EXCEPT ![a][t] = IdleThread]
    /\ UNCHANGED <<Service, main, tool, Process, seen>>

---------------------------------------------------------------------------
(* Commands that do not call the service.                                  *)

Local(a) ==
    /\ main[a].pc = "prompt"
    /\ main[a].given < MaxCmds
    /\ main' = [main EXCEPT ![a].given = @ + 1]
    /\ UNCHANGED <<Service, thread, tally, tool>>

\* fd_mmap that fails before it closes the old device: a wrong argument or size.
FdMmapUsage(a) ==
    /\ Local(a)
    /\ dev' = [dev EXCEPT ![a] = NoDevice]
    /\ seen' = [seen EXCEPT ![a].spoilt = @ + 1]
    /\ UNCHANGED <<open, blocks>>

Closed(a) == open[a] \ {dev[a].fd}

FdMmapOpenFails(a) ==
    /\ Local(a)
    /\ dev' = [dev EXCEPT ![a] = NoDevice]
    /\ open' = [open EXCEPT ![a] = Closed(a)]
    /\ UNCHANGED <<blocks, seen>>

FdMmapMapFails(a) ==
    /\ Local(a)
    /\ \E f \in Fds \ Closed(a) : open' = [open EXCEPT ![a] = Closed(a) \cup {f}]
    /\ dev' = [dev EXCEPT ![a] = NoDevice]
    /\ seen' = [seen EXCEPT ![a].spoilt = @ + 1]
    /\ UNCHANGED blocks

\* Faulty variant of FdMmap: the old descriptor stays open.
FdMmapOver(a, d) ==
    /\ Local(a)
    /\ \E f \in Fds \ open[a] :
          /\ open' = [open EXCEPT ![a] = @ \cup {f}]
          /\ dev' = [dev EXCEPT ![a] = [fd |-> f, mapped |-> d, current |-> d]]
    /\ UNCHANGED <<blocks, seen>>

FdMmap(a, d) ==
    /\ Local(a)
    /\ \E f \in Fds \ Closed(a) :
          /\ open' = [open EXCEPT ![a] = Closed(a) \cup {f}]
          /\ dev' = [dev EXCEPT ![a] = [fd |-> f, mapped |-> d, current |-> d]]
    /\ UNCHANGED <<blocks, seen>>

FdClose(a) ==
    /\ Local(a)
    /\ open' = [open EXCEPT ![a] = Closed(a)]
    /\ dev' = [dev EXCEPT ![a] = NoDevice]
    /\ UNCHANGED <<blocks, seen>>

\* numa_alloc on a node that has a block already drops the old one; a block the
\* kernel does not bind is given back.
NumaAlloc(a, n) ==
    /\ Local(a)
    /\ blocks' \in {blocks, [blocks EXCEPT ![a] = @ \cup {n}]}
    /\ UNCHANGED <<dev, open, seen>>

NumaFree(a, n) ==
    /\ Local(a)
    /\ blocks' = [blocks EXCEPT ![a] = @ \ {n}]
    /\ UNCHANGED <<dev, open, seen>>

\* quit and exit, and a usage error of a command whose parser is argparse's own:
\* SystemExit is no Exception, nothing catches it, and the process ends.
Leave(a) ==
    /\ main[a].pc = "prompt"
    /\ main' = [main EXCEPT ![a].pc = "gone"]
    /\ dev' = [dev EXCEPT ![a] = NoDevice]
    /\ open' = [open EXCEPT ![a] = {}]
    /\ blocks' = [blocks EXCEPT ![a] = {}]
    /\ UNCHANGED <<Service, thread, tally, tool, seen>>

\* The app is started again: a new process, the same service.
Launch(a) ==
    /\ main[a].pc = "gone"
    /\ main[a].given < MaxCmds
    /\ main' = [main EXCEPT ![a] = Prompting(@.given)]
    /\ tally' = [tally EXCEPT ![a] = NewTally]
    /\ tool' = [tool EXCEPT ![a] = NewTool]
    /\ seen' = [seen EXCEPT ![a] = NothingSeen]
    /\ UNCHANGED <<Service, thread, Process>>

---------------------------------------------------------------------------
ThreadStep(a, t) ==
    \/ TakeTask(a, t)
    \/ CheckReady(a, t) \/ TakeInitLock(a, t) \/ LoadTool(a, t) \/ OwnLoad(a, t)
    \/ CallDone(a, t) \/ CallRefused(a, t)
    \/ TakeTallyLock(a, t) \/ Tally(a, t)

User(a) ==
    \/ \E c \in Cmds : GiveCmd(a, c)
    \/ FdMmapUsage(a) \/ FdMmapOpenFails(a) \/ FdMmapMapFails(a) \/ FdClose(a)
    \/ \E d \in Devices : FdMmap(a, d)
    \/ \E n \in Nodes : NumaAlloc(a, n) \/ NumaFree(a, n)
    \/ Leave(a) \/ Launch(a)

Next == \E a \in Apps :
    \/ User(a) \/ BatchEnds(a) \/ SingleEnds(a)
    \/ \E t \in Threads : ThreadStep(a, t)

Spec == Init /\ [][Next]_vars

\* The scheduler runs every thread and a call of the service returns; the user
\* need not type anything.
FairSpec ==
    /\ Spec
    /\ \A a \in Apps :
          /\ WF_vars(BatchEnds(a) \/ SingleEnds(a))
          /\ \A t \in Threads : WF_vars(ThreadStep(a, t))

---------------------------------------------------------------------------
InHand(a) == {t \in Threads : ~At(a, t, "idle")}

\* _concurrent_execute: whatever the order in which the threads of a batch finish,
\* no result is lost or counted twice: when no task is in hand the successes are
\* the calls the service carried out and the failures are all the others.
CountsAreTrue == \A a \in Apps :
    (main[a].pc = "batch" /\ InHand(a) = {}) =>
        /\ tally[a].good = Cardinality(seen[a].took)
        /\ tally[a].good + tally[a].bad = main[a].next

\* do_fd_mmap, do_fd_close: the mapping, its descriptor and the name of the device
\* come and go together, and a descriptor that is open and no longer known was
\* left behind by an fd_mmap that failed, one for each at the most.
DescriptorsAccounted == \A a \in Apps :
    /\ dev[a].mapped = dev[a].current
    /\ (dev[a].fd = None) = (dev[a].mapped = None)
    /\ dev[a].fd \in open[a] \cup {None}
    /\ Cardinality(open[a] \ {dev[a].fd}) <= seen[a].spoilt

\* A command that was given comes back to the prompt, refused calls, a library
\* that does not load and waiting for the two locks included.
CommandEnds == \A a \in Apps :
    main[a].pc \in {"batch", "single"} ~> main[a].pc = "prompt"
=============================================================================
