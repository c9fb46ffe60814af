---------------------------- MODULE MemApp_proofs ----------------------------
(***************************************************************************)
(* Proofs about the memory tool, for any number of apps, threads, tasks,   *)
(* descriptors and devices: the variables keep their types, the counts  *)
(* of a batch are true, and a descriptor that is open is the mapped        *)
(* device's or was left behind by a failed fd_mmap.                        *)
(***************************************************************************)
EXTENDS MemApp, FiniteSetTheorems, TLAPS

-----------------------------------------------------------------------------
(* Types *)

MainRec == [pc : {"prompt", "batch", "single", "gone"}, cmd : Cmds \cup {NoCmd},
            next : Nat, given : 0..MaxCmds]
ThreadRec == [pc : {"idle", "init", "wait", "load", "own", "call", "done", "tally"},
              task : Tasks \cup {Plain}, result : BOOLEAN, read : Nat]
TallyRec == [good : Nat, bad : Nat, lock : Threads \cup {None}]
ToolRec == [ready : BOOLEAN, lock : Threads \cup {None}]
DevRec == [fd : Fds \cup {None}, mapped : Devices \cup {None}, current : Devices \cup {None}]
SeenRec == [took : SUBSET (Tasks \cup {Plain}), spoilt : Nat]

Types ==
    /\ made \subseteq Items
    /\ bound \subseteq Apps \X Items
    /\ main \in [Apps -> MainRec]
    /\ thread \in [Apps -> [Threads -> ThreadRec]]
    /\ tally \in [Apps -> TallyRec]
    /\ tool \in [Apps -> ToolRec]
    /\ dev \in [Apps -> DevRec]
    /\ open \in [Apps -> SUBSET Fds]
    /\ blocks \in [Apps -> SUBSET Nodes]
    /\ seen \in [Apps -> SeenRec]

\* These are the types of TypeOK.
LEMMA SameTypes == Types <=> TypeOK
  BY DEF Types, TypeOK, MainRec, ThreadRec, TallyRec, ToolRec, DevRec, SeenRec

\* Threads and tasks are initial segments of the numbers.
LEMMA Numbers ==
  /\ \E n \in Nat : Threads = 0..n
  /\ \E n \in Nat : Tasks = 0..(n - 1) /\ \A m \in Counts : m <= n
  <1>1. \E n \in Nat : Threads = 0..n
    <2> DEFINE top == CHOOSE n \in Workers \cup {0} : \A m \in Workers : m <= n
    <2>1. \E n \in Workers \cup {0} : \A m \in Workers : m <= n
      BY MemAppAssumption
    <2>2. top \in Workers \cup {0}
      BY <2>1, Zenon
    <2>3. Threads = 0..top
      BY DEF Threads
    <2> HIDE DEF top
    <2>4. top \in Nat
      BY <2>2, MemAppAssumption DEF Workers
    <2> QED
      BY <2>3, <2>4
  <1>2. \E n \in Nat : Tasks = 0..(n - 1) /\ \A m \in Counts : m <= n
    <2> DEFINE top == CHOOSE n \in Sizes \cup {0} : \A m \in Sizes : m <= n
    <2>1. \E n \in Sizes \cup {0} : \A m \in Sizes : m <= n
      BY MemAppAssumption
    <2>2. top \in Sizes \cup {0} /\ \A m \in Sizes : m <= top
      BY <2>1, Zenon
    <2>3. Tasks = 0..(top - 1)
      BY DEF Tasks
    <2> HIDE DEF top
    <2>4. top \in Nat /\ \A m \in Counts : m <= top
      BY <2>2, MemAppAssumption DEF Sizes
    <2> QED
      BY <2>3, <2>4
  <1> QED
    BY <1>1, <1>2

\* What follows for the main thread and for the sets of threads.
LEMMA ThreadFacts ==
  /\ Main \in Threads
  /\ Threads \subseteq Nat
  /\ None \notin Threads
  /\ IsFiniteSet(Threads)
  /\ Tasks \subseteq Nat
  /\ IsFiniteSet(Tasks \cup {Plain})
  <1>1. PICK n \in Nat : Threads = 0..n
    BY Numbers
  <1>2. PICK m \in Nat : Tasks = 0..(m - 1)
    BY Numbers
  <1>3. IsFiniteSet(0..n) /\ IsFiniteSet(0..(m - 1))
    BY FS_Interval
  <1>4. IsFiniteSet(Tasks \cup {Plain})
    BY <1>2, <1>3, FS_AddElement
  <1>5. None \notin Nat
    BY MemAppAssumption
  <1> QED
    BY <1>1, <1>2, <1>3, <1>4, <1>5 DEF Main

\* The number of a task is below the count.
LEMMA TaskBelow ==
  ASSUME NEW n \in Nat, NEW k \in Counts, n < k
  PROVE  n \in Tasks
  <1>1. PICK m \in Nat : Tasks = 0..(m - 1) /\ \A i \in Counts : i <= m
    BY Numbers
  <1>2. k \in Int /\ k <= m
    BY <1>1, MemAppAssumption
  <1> QED
    BY <1>1, <1>2

-----------------------------------------------------------------------------
(* What a step of one app does to the variables *)

\* The others' variables stay.
Others(a) == \A b \in Apps \ {a} :
    /\ main'[b] = main[b] /\ thread'[b] = thread[b] /\ tally'[b] = tally[b]
    /\ tool'[b] = tool[b] /\ dev'[b] = dev[b] /\ open'[b] = open[b]
    /\ blocks'[b] = blocks[b] /\ seen'[b] = seen[b]

\* Of app a, thread t becomes r and the others stay.
ThreadTo(a, t, r) ==
    thread'[a][t] = r /\ \A u \in Threads \ {t} : thread'[a][u] = thread[a][u]

\* Assigning to one thread.
LEMMA SetThread ==
  ASSUME Types, NEW a \in Apps, NEW t \in Threads, NEW r \in ThreadRec,
         thread' = [thread EXCEPT ![a][t] = r]
  PROVE  /\ thread' \in [Apps -> [Threads -> ThreadRec]]
         /\ ThreadTo(a, t, r)
         /\ \A b \in Apps \ {a} : thread'[b] = thread[b]
  BY DEF Types, ThreadTo

\* Assigning to a part of one thread.
LEMMA GoThread ==
  ASSUME Types, NEW a \in Apps, NEW t \in Threads,
         NEW pc \in {"idle", "init", "wait", "load", "own", "call", "done", "tally"}, Goto(a, t, pc)
  PROVE  /\ thread' \in [Apps -> [Threads -> ThreadRec]]
         /\ ThreadTo(a, t, [thread[a][t] EXCEPT !.pc = pc])
         /\ \A b \in Apps \ {a} : thread'[b] = thread[b]
  <1>1. thread[a][t] \in ThreadRec
    BY DEF Types
  <1>2. [thread[a][t] EXCEPT !.pc = pc] \in ThreadRec
    BY <1>1 DEF ThreadRec
  <1>3. thread' = [thread EXCEPT ![a][t] = [thread[a][t] EXCEPT !.pc = pc]]
    BY DEF Goto
  <1> QED
    BY <1>2, <1>3, SetThread

\* The variables keep their types and the other apps are left alone.
Sound(a) == Types' /\ Others(a)

\* What the types say of one app.
LEMMA Rows ==
  ASSUME Types, NEW a \in Apps
  PROVE  /\ main[a] \in MainRec /\ tally[a] \in TallyRec /\ tool[a] \in ToolRec
         /\ dev[a] \in DevRec /\ open[a] \in SUBSET Fds /\ seen[a] \in SeenRec
         /\ \A t \in Threads : thread[a][t] \in ThreadRec
  BY DEF Types

\* A command is given.
LEMMA GiveCmdSound ==
  ASSUME Types, NEW a \in Apps, NEW c \in Cmds, GiveCmd(a, c)
  PROVE  /\ Sound(a)
         /\ Batch(c) => thread' = thread
         /\ ~Batch(c) => ThreadTo(a, Main, [IdleThread EXCEPT !.pc = Entry(c)])
         /\ main'[a].cmd = c /\ main'[a].next = 0
         /\ main'[a].pc = IF ~Batch(c) THEN "single"
                          ELSE IF c.verb = "lend" /\ c.form = "shm" THEN "prompt"
                          ELSE IF c.conc <= 0 THEN "prompt" ELSE "batch"
         /\ tally'[a] = NewTally /\ seen'[a].took = {} /\ seen'[a].spoilt = seen[a].spoilt
  <1> DEFINE pc == IF ~Batch(c) THEN "single"
                   ELSE IF c.verb = "lend" /\ c.form = "shm" THEN "prompt"
                   ELSE IF c.conc <= 0 THEN "prompt" ELSE "batch"
             m == [pc |-> pc, cmd |-> c, next |-> 0, given |-> main[a].given + 1]
  <1>1. pc \in {"prompt", "batch", "single", "gone"}
    OBVIOUS
  <1>2. main' = [main EXCEPT ![a] = m] /\ main[a].given < MaxCmds
    BY DEF GiveCmd
  <1> HIDE DEF pc
  <1>3. m \in MainRec
    BY <1>1, <1>2, Rows, MemAppAssumption DEF MainRec
  <1>4. main' \in [Apps -> MainRec] /\ main'[a] = m /\ \A b \in Apps \ {a} : main'[b] = main[b]
    <2> HIDE DEF m
    <2> QED
      BY <1>2, <1>3 DEF Types
  <1>5. [IdleThread EXCEPT !.pc = Entry(c)] \in ThreadRec
    BY DEF IdleThread, ThreadRec, Entry
  <1>6. /\ thread' \in [Apps -> [Threads -> ThreadRec]]
        /\ \A b \in Apps \ {a} : thread'[b] = thread[b]
        /\ ~Batch(c) => ThreadTo(a, Main, [IdleThread EXCEPT !.pc = Entry(c)])
    <2>1. CASE Batch(c)
      BY <2>1 DEF GiveCmd, Types
    <2>2. CASE ~Batch(c)
      BY <1>5, <2>2, SetThread, ThreadFacts DEF GiveCmd
    <2> QED
      BY <2>1, <2>2
  <1>7. tally' = [tally EXCEPT ![a] = NewTally] /\ NewTally \in TallyRec
    BY DEF GiveCmd, NewTally, TallyRec
  <1>8. /\ seen' \in [Apps -> SeenRec] /\ \A b \in Apps \ {a} : seen'[b] = seen[b]
        /\ seen'[a].took = {} /\ seen'[a].spoilt = seen[a].spoilt
    <2>1. seen' = [seen EXCEPT ![a] = [seen[a] EXCEPT !.took = {}]]
      BY DEF GiveCmd
    <2>2. [seen[a] EXCEPT !.took = {}] \in SeenRec
      BY Rows DEF SeenRec
    <2>3. seen'[a] = [seen[a] EXCEPT !.took = {}]
      BY <2>1 DEF Types
    <2> QED
      BY <2>1, <2>2, <2>3, Rows DEF Types, SeenRec
  <1>9. UNCHANGED <<made, bound, tool, dev, open, blocks>> /\ (Batch(c) => thread' = thread)
    BY DEF GiveCmd, Service, Process
  <1>10. /\ tally' \in [Apps -> TallyRec] /\ tally'[a] = NewTally
         /\ \A b \in Apps \ {a} : tally'[b] = tally[b]
    BY <1>7 DEF Types
  <1>11. Types'
    BY <1>4, <1>6, <1>8, <1>9, <1>10 DEF Types
  <1>12. Others(a)
    BY <1>4, <1>6, <1>8, <1>9, <1>10 DEF Others
  <1> QED
    BY <1>4, <1>6, <1>8, <1>9, <1>10, <1>11, <1>12 DEF Sound, pc

\* A thread takes a task.
LEMMA TakeTaskSound ==
  ASSUME Types, NEW a \in Apps, NEW t \in Threads, TakeTask(a, t)
  PROVE  /\ Sound(a)
         /\ ThreadTo(a, t, [IdleThread EXCEPT !.pc = Entry(main[a].cmd), !.task = main[a].next])
         /\ main'[a] = [main[a] EXCEPT !.next = @ + 1]
         /\ main[a].next \in Nat /\ main[a].next \in Tasks
  <1>1. /\ main[a].next \in Nat /\ main[a].next < main[a].cmd.count
        /\ main[a].cmd \in Cmds \cup {NoCmd} /\ main[a] \in MainRec
    BY Rows DEF TakeTask, MainRec
  <1>2. main[a].cmd.count \in Counts
    BY <1>1 DEF Cmds, NoCmd
  <1>3. main[a].next \in Tasks
    BY <1>1, <1>2, TaskBelow
  <1>4. [IdleThread EXCEPT !.pc = Entry(main[a].cmd), !.task = main[a].next] \in ThreadRec
    BY <1>3 DEF IdleThread, ThreadRec, Entry
  <1>5. thread' = [thread EXCEPT ![a][t] =
                     [IdleThread EXCEPT !.pc = Entry(main[a].cmd), !.task = main[a].next]]
    BY DEF TakeTask
  <1>6. /\ thread' \in [Apps -> [Threads -> ThreadRec]]
        /\ ThreadTo(a, t, [IdleThread EXCEPT !.pc = Entry(main[a].cmd), !.task = main[a].next])
        /\ \A b \in Apps \ {a} : thread'[b] = thread[b]
    BY <1>4, <1>5, SetThread
  <1>7. main' = [main EXCEPT ![a] = [main[a] EXCEPT !.next = @ + 1]]
    BY DEF TakeTask
  <1>8. [main[a] EXCEPT !.next = @ + 1] \in MainRec
    BY <1>1 DEF MainRec
  <1>9. /\ main' \in [Apps -> MainRec] /\ main'[a] = [main[a] EXCEPT !.next = @ + 1]
        /\ \A b \in Apps \ {a} : main'[b] = main[b]
    BY <1>7, <1>8 DEF Types
  <1>10. UNCHANGED <<made, bound, tally, tool, dev, open, blocks, seen>>
    BY DEF TakeTask, Service, Process
  <1>11. Types'
    BY <1>6, <1>9, <1>10 DEF Types
  <1>12. Others(a)
    BY <1>6, <1>9, <1>10 DEF Others
  <1> QED
    BY <1>1, <1>3, <1>6, <1>9, <1>11, <1>12 DEF Sound

\* A batch ends.
LEMMA BatchEndsSound ==
  ASSUME Types, NEW a \in Apps, BatchEnds(a)
  PROVE  /\ Sound(a) /\ main'[a] = [main[a] EXCEPT !.pc = "prompt"]
         /\ thread' = thread
  <1>1. main' = [main EXCEPT ![a] = [main[a] EXCEPT !.pc = "prompt"]]
        /\ UNCHANGED <<made, bound, thread, tally, tool, dev, open, blocks, seen>>
    BY DEF BatchEnds, Service, Process
  <1>2. [main[a] EXCEPT !.pc = "prompt"] \in MainRec
    BY Rows DEF MainRec
  <1>3. /\ main' \in [Apps -> MainRec] /\ main'[a] = [main[a] EXCEPT !.pc = "prompt"]
        /\ \A b \in Apps \ {a} : main'[b] = main[b]
    BY <1>1, <1>2 DEF Types
  <1> QED
    BY <1>1, <1>3 DEF Sound, Types, Others

\* A single operation ends.
LEMMA SingleEndsSound ==
  ASSUME Types, NEW a \in Apps, SingleEnds(a)
  PROVE  /\ Sound(a) /\ main'[a] = [main[a] EXCEPT !.pc = "prompt"]
         /\ ThreadTo(a, Main, IdleThread)
  <1>1. main' = [main EXCEPT ![a] = [main[a] EXCEPT !.pc = "prompt"]]
        /\ UNCHANGED <<made, bound, tally, tool, dev, open, blocks, seen>>
        /\ thread' = [thread EXCEPT ![a][Main] = IdleThread]
    BY DEF SingleEnds, Service, Process
  <1>2. [main[a] EXCEPT !.pc = "prompt"] \in MainRec
    BY Rows DEF MainRec
  <1>3. /\ main' \in [Apps -> MainRec] /\ main'[a] = [main[a] EXCEPT !.pc = "prompt"]
        /\ \A b \in Apps \ {a} : main'[b] = main[b]
    BY <1>1, <1>2 DEF Types
  <1>4. IdleThread \in ThreadRec
    BY DEF IdleThread, ThreadRec
  <1>5. /\ thread' \in [Apps -> [Threads -> ThreadRec]]
        /\ ThreadTo(a, Main, IdleThread)
        /\ \A b \in Apps \ {a} : thread'[b] = thread[b]
    BY <1>1, <1>4, SetThread, ThreadFacts
  <1> QED
    BY <1>1, <1>3, <1>5 DEF Sound, Types, Others

\* A step that moves one thread of one app, and perhaps the library, to a typed value.
LEMMA GoSound ==
  ASSUME Types, NEW a \in Apps, NEW t \in Threads,
         NEW pc \in {"idle", "init", "wait", "load", "own", "call", "done", "tally"}, Goto(a, t, pc),
         tool' \in [Apps -> ToolRec], \A b \in Apps \ {a} : tool'[b] = tool[b],
         UNCHANGED <<made, bound, main, tally, dev, open, blocks, seen>>
  PROVE  Sound(a) /\ ThreadTo(a, t, [thread[a][t] EXCEPT !.pc = pc])
  <1>1. /\ thread' \in [Apps -> [Threads -> ThreadRec]]
        /\ ThreadTo(a, t, [thread[a][t] EXCEPT !.pc = pc])
        /\ \A b \in Apps \ {a} : thread'[b] = thread[b]
    BY GoThread
  <1>2. Types'
    BY <1>1 DEF Types
  <1>3. Others(a)
    BY <1>1 DEF Others
  <1> QED
    BY <1>1, <1>2, <1>3 DEF Sound

\* The first test of the library's flag.
LEMMA CheckReadySound ==
  ASSUME Types, NEW a \in Apps, NEW t \in Threads, CheckReady(a, t)
  PROVE  /\ Sound(a)
         /\ ThreadTo(a, t, [thread[a][t] EXCEPT !.pc = IF tool[a].ready THEN "own" ELSE "wait"])
  <1> DEFINE pc == IF tool[a].ready THEN "own" ELSE "wait"
  <1>1. pc \in {"idle", "init", "wait", "load", "own", "call", "done", "tally"}
    OBVIOUS
  <1>2. Goto(a, t, pc) /\ UNCHANGED <<made, bound, main, tally, tool, dev, open, blocks, seen>>
    BY DEF CheckReady, Service, Process
  <1> HIDE DEF pc
  <1>3. tool' \in [Apps -> ToolRec] /\ \A b \in Apps \ {a} : tool'[b] = tool[b]
    BY <1>2 DEF Types
  <1>4. Sound(a) /\ ThreadTo(a, t, [thread[a][t] EXCEPT !.pc = pc])
    BY <1>1, <1>2, <1>3, GoSound
  <1> QED
    BY <1>4 DEF pc

\* The lock over the loading is taken.
LEMMA TakeInitLockSound ==
  ASSUME Types, NEW a \in Apps, NEW t \in Threads, TakeInitLock(a, t)
  PROVE  /\ Sound(a) /\ ThreadTo(a, t, [thread[a][t] EXCEPT !.pc = "load"])
         /\ tool'[a] = [tool[a] EXCEPT !.lock = t]
  <1>1. /\ Goto(a, t, "load") /\ tool' = [tool EXCEPT ![a] = [tool[a] EXCEPT !.lock = t]]
        /\ UNCHANGED <<made, bound, main, tally, dev, open, blocks, seen>>
    BY DEF TakeInitLock, Service, Process
  <1>2. [tool[a] EXCEPT !.lock = t] \in ToolRec
    BY Rows DEF ToolRec
  <1>3. /\ tool' \in [Apps -> ToolRec] /\ \A b \in Apps \ {a} : tool'[b] = tool[b]
        /\ tool'[a] = [tool[a] EXCEPT !.lock = t]
    BY <1>1, <1>2 DEF Types
  <1> QED
    BY <1>1, <1>3, GoSound

\* The library is found loaded, is loaded, or fails to load.
LEMMA LoadToolSound ==
  ASSUME Types, NEW a \in Apps, NEW t \in Threads, LoadTool(a, t)
  PROVE  /\ Sound(a)
         /\ \E pc \in {"own", "done"} : ThreadTo(a, t, [thread[a][t] EXCEPT !.pc = pc])
  <1>1. /\ UNCHANGED <<made, bound, main, tally, dev, open, blocks, seen>>
        /\ tool[a] \in ToolRec
    BY Rows DEF LoadTool, Service, Process
  <1>2. PICK pc \in {"own", "done"}, new \in ToolRec :
           Goto(a, t, pc) /\ tool' = [tool EXCEPT ![a] = new]
    <2>1. [tool[a] EXCEPT !.lock = None] \in ToolRec /\ [ready |-> TRUE, lock |-> None] \in ToolRec
      BY <1>1 DEF ToolRec
    <2> QED
      BY <2>1 DEF LoadTool
  <1>3. /\ tool' \in [Apps -> ToolRec] /\ \A b \in Apps \ {a} : tool'[b] = tool[b]
    BY <1>2 DEF Types
  <1> QED
    BY <1>1, <1>2, <1>3, GoSound

\* The task loads the library for itself, or fails to.
LEMMA OwnLoadSound ==
  ASSUME Types, NEW a \in Apps, NEW t \in Threads, OwnLoad(a, t)
  PROVE  /\ Sound(a)
         /\ \E pc \in {"call", "done"} : ThreadTo(a, t, [thread[a][t] EXCEPT !.pc = pc])
  <1>1. PICK pc \in {"call", "done"} : Goto(a, t, pc)
    BY DEF OwnLoad
  <1>2. UNCHANGED <<made, bound, main, tally, tool, dev, open, blocks, seen>>
    BY DEF OwnLoad, Service, Process
  <1>3. tool' \in [Apps -> ToolRec] /\ \A b \in Apps \ {a} : tool'[b] = tool[b]
    BY <1>2 DEF Types
  <1> QED
    BY <1>1, <1>2, <1>3, GoSound

\* The service refuses.
LEMMA CallRefusedSound ==
  ASSUME Types, NEW a \in Apps, NEW t \in Threads, CallRefused(a, t)
  PROVE  Sound(a) /\ ThreadTo(a, t, [thread[a][t] EXCEPT !.pc = "done"])
  <1>1. /\ Goto(a, t, "done")
        /\ UNCHANGED <<made, bound, main, tally, tool, dev, open, blocks, seen>>
    BY DEF CallRefused, Service, Process
  <1>2. tool' \in [Apps -> ToolRec] /\ \A b \in Apps \ {a} : tool'[b] = tool[b]
    BY <1>1 DEF Types
  <1> QED
    BY <1>1, <1>2, GoSound

\* What the service makes or drops is memory.
LEMMA DoesTypes ==
  ASSUME Types, NEW a \in Apps, NEW t \in Threads, Does(a, main[a].cmd.verb, Item(a, t))
  PROVE  made' \subseteq Items /\ bound' \subseteq Apps \X Items
  <1>1. main[a].cmd \in Cmds \cup {NoCmd} /\ thread[a][t].task \in Tasks \cup {Plain}
    BY Rows DEF MainRec, ThreadRec
  <1>2. main[a].cmd \in Cmds
    BY <1>1 DEF NoCmd, Does
  <1>3. main[a].cmd.form \in {"fd", "numa", "shm", "addr"} /\ main[a].cmd.name \in Names
    <2>1. PICK v \in Verbs, n \in Names, k \in Counts, c \in Concs :
             main[a].cmd = [verb |-> v[1], form |-> v[2], name |-> n, count |-> k, conc |-> c]
      BY <1>2 DEF Cmds
    <2>2. v[2] \in {"fd", "numa", "shm", "addr"}
      BY MemAppAssumption DEF Commands
    <2> QED
      BY <2>1, <2>2
  <1>4. Item(a, t) \in Items
    BY <1>1, <1>3 DEF Item, Items
  <1> HIDE DEF Item
  <1> QED
    BY <1>4 DEF Does, Create, Delete, Attach, Detach, Types

\* The service carries the call out.
LEMMA CallDoneSound ==
  ASSUME Types, NEW a \in Apps, NEW t \in Threads, CallDone(a, t)
  PROVE  /\ Sound(a)
         /\ ThreadTo(a, t, [thread[a][t] EXCEPT !.pc = "done", !.result = TRUE])
         /\ seen'[a].took = seen[a].took \cup {thread[a][t].task}
         /\ seen'[a].spoilt = seen[a].spoilt
  <1> DEFINE r == [thread[a][t] EXCEPT !.pc = "done", !.result = TRUE]
             n == [seen[a] EXCEPT !.took = @ \cup {thread[a][t].task}]
  <1>1. thread' = [thread EXCEPT ![a][t] = r]
    BY DEF CallDone, Types
  <1>2. r \in ThreadRec /\ thread[a][t].task \in Tasks \cup {Plain}
    BY Rows DEF ThreadRec
  <1>3. /\ thread' \in [Apps -> [Threads -> ThreadRec]] /\ ThreadTo(a, t, r)
        /\ \A b \in Apps \ {a} : thread'[b] = thread[b]
    <2> HIDE DEF r
    <2> QED
      BY <1>1, <1>2, SetThread
  <1>4. seen' = [seen EXCEPT ![a] = n]
    BY DEF CallDone
  <1>5. n \in SeenRec /\ n.took = seen[a].took \cup {thread[a][t].task} /\ n.spoilt = seen[a].spoilt
    BY <1>2, Rows DEF SeenRec
  <1>6. seen' \in [Apps -> SeenRec] /\ seen'[a] = n /\ \A b \in Apps \ {a} : seen'[b] = seen[b]
    <2> HIDE DEF n
    <2> QED
      BY <1>4, <1>5 DEF Types
  <1>7. made' \subseteq Items /\ bound' \subseteq Apps \X Items
    BY DoesTypes DEF CallDone
  <1>8. UNCHANGED <<main, tally, tool, dev, open, blocks>>
    BY DEF CallDone, Process
  <1>9. Types'
    BY <1>3, <1>6, <1>7, <1>8 DEF Types
  <1>10. Others(a)
    BY <1>3, <1>6, <1>8 DEF Others
  <1> QED
    BY <1>3, <1>5, <1>6, <1>9, <1>10 DEF Sound

\* A result is added up under the lock.
LEMMA TakeTallyLockSound ==
  ASSUME Types, NEW a \in Apps, NEW t \in Threads, TakeTallyLock(a, t)
  PROVE  /\ Sound(a)
         /\ ThreadTo(a, t, [thread[a][t] EXCEPT !.pc = "tally", !.read = Counted(a, t)])
         /\ tally'[a] = [tally[a] EXCEPT !.lock = t]
  <1> DEFINE r == [thread[a][t] EXCEPT !.pc = "tally", !.read = Counted(a, t)]
  <1>1. thread' = [thread EXCEPT ![a][t] = r]
    BY DEF TakeTallyLock, Types
  <1>2. Counted(a, t) \in Nat
    BY Rows DEF Counted, TallyRec
  <1>3. r \in ThreadRec
    BY <1>2, Rows DEF ThreadRec
  <1>4. /\ thread' \in [Apps -> [Threads -> ThreadRec]] /\ ThreadTo(a, t, r)
        /\ \A b \in Apps \ {a} : thread'[b] = thread[b]
    <2> HIDE DEF r
    <2> QED
      BY <1>1, <1>3, SetThread
  <1>5. tally' = [tally EXCEPT ![a] = [tally[a] EXCEPT !.lock = t]]
    BY DEF TakeTallyLock
  <1>6. [tally[a] EXCEPT !.lock = t] \in TallyRec
    BY Rows DEF TallyRec
  <1>7. /\ tally' \in [Apps -> TallyRec] /\ tally'[a] = [tally[a] EXCEPT !.lock = t]
        /\ \A b \in Apps \ {a} : tally'[b] = tally[b]
    BY <1>5, <1>6 DEF Types
  <1>8. UNCHANGED <<made, bound, main, tool, dev, open, blocks, seen>>
    BY DEF TakeTallyLock, Service, Process
  <1>9. Types'
    BY <1>4, <1>7, <1>8 DEF Types
  <1>10. Others(a)
    BY <1>4, <1>7, <1>8 DEF Others
  <1> QED
    BY <1>4, <1>7, <1>9, <1>10 DEF Sound

\* The sum is written back.
LEMMA TallySound ==
  ASSUME Types, NEW a \in Apps, NEW t \in Threads, Tally(a, t)
  PROVE  /\ Sound(a) /\ ThreadTo(a, t, IdleThread)
         /\ tally'[a] = IF thread[a][t].result
                        THEN [tally[a] EXCEPT !.good = thread[a][t].read + 1, !.lock = None]
                        ELSE [tally[a] EXCEPT !.bad = thread[a][t].read + 1, !.lock = None]
  <1> DEFINE n == IF thread[a][t].result
                  THEN [tally[a] EXCEPT !.good = thread[a][t].read + 1, !.lock = None]
                  ELSE [tally[a] EXCEPT !.bad = thread[a][t].read + 1, !.lock = None]
  <1>1. thread' = [thread EXCEPT ![a][t] = IdleThread] /\ tally' = [tally EXCEPT ![a] = n]
    BY DEF Tally
  <1>2. n \in TallyRec
    <2>1. thread[a][t].read + 1 \in Nat
      BY Rows DEF ThreadRec
    <2> QED
      BY <2>1, Rows DEF TallyRec
  <1>3. IdleThread \in ThreadRec
    BY DEF IdleThread, ThreadRec
  <1>4. /\ thread' \in [Apps -> [Threads -> ThreadRec]] /\ ThreadTo(a, t, IdleThread)
        /\ \A b \in Apps \ {a} : thread'[b] = thread[b]
    <2> HIDE DEF n
    <2> QED
      BY <1>1, <1>3, SetThread
  <1>5. /\ tally' \in [Apps -> TallyRec] /\ tally'[a] = n
        /\ \A b \in Apps \ {a} : tally'[b] = tally[b]
    <2> HIDE DEF n
    <2> QED
      BY <1>1, <1>2 DEF Types
  <1>6. UNCHANGED <<made, bound, main, tool, dev, open, blocks, seen>>
    BY DEF Tally, Service, Process
  <1>7. Types'
    BY <1>4, <1>5, <1>6 DEF Types
  <1>8. Others(a)
    BY <1>4, <1>5, <1>6 DEF Others
  <1> QED
    BY <1>4, <1>5, <1>7, <1>8 DEF Sound

\* The commands that do not call the service.
LocalStep(a) ==
    \/ FdMmapUsage(a) \/ FdMmapOpenFails(a) \/ FdMmapMapFails(a) \/ FdClose(a)
    \/ \E d \in Devices : FdMmap(a, d)
    \/ \E n \in Nodes : NumaAlloc(a, n) \/ NumaFree(a, n)

\* They keep the types and leave the threads, the counts and the library alone.
LEMMA LocalSound ==
  ASSUME Types, NEW a \in Apps, LocalStep(a)
  PROVE  /\ Sound(a) /\ thread' = thread /\ tally' = tally /\ tool' = tool
         /\ main[a].pc = "prompt" /\ main'[a].pc = "prompt"
         /\ main'[a].cmd = main[a].cmd
         /\ seen'[a].took = seen[a].took
  <1>1. Local(a)
    BY DEF LocalStep, FdMmapUsage, FdMmapOpenFails, FdMmapMapFails, FdClose, FdMmap, NumaAlloc,
           NumaFree
  <1> DEFINE m == [main[a] EXCEPT !.given = @ + 1]
  <1>2. /\ main' = [main EXCEPT ![a] = m] /\ main[a].pc = "prompt"
        /\ UNCHANGED <<made, bound, thread, tally, tool>> /\ main[a].given < MaxCmds
    BY <1>1 DEF Local, Service
  <1>3. m \in MainRec /\ m.pc = main[a].pc /\ m.cmd = main[a].cmd
    BY <1>2, Rows, MemAppAssumption DEF MainRec
  <1>4. /\ main' \in [Apps -> MainRec] /\ main'[a] = m /\ \A b \in Apps \ {a} : main'[b] = main[b]
    <2> HIDE DEF m
    <2> QED
      BY <1>2, <1>3 DEF Types
  <1>5. NoDevice \in DevRec
    BY DEF NoDevice, DevRec
  <1>6. \A f \in Fds, d \in Devices : [fd |-> f, mapped |-> d, current |-> d] \in DevRec
    BY DEF DevRec
  <1>7. dev' \in [Apps -> DevRec] /\ \A b \in Apps \ {a} : dev'[b] = dev[b]
    <2>1. CASE FdMmapUsage(a) \/ FdMmapOpenFails(a) \/ FdMmapMapFails(a) \/ FdClose(a)
      BY <1>5, <2>1 DEF Types, FdMmapUsage, FdMmapOpenFails, FdMmapMapFails, FdClose
    <2>2. CASE \E d \in Devices : FdMmap(a, d)
      <3>1. PICK d \in Devices, f \in Fds :
               dev' = [dev EXCEPT ![a] = [fd |-> f, mapped |-> d, current |-> d]]
        BY <2>2 DEF FdMmap
      <3>2. PICK r \in DevRec : r = [fd |-> f, mapped |-> d, current |-> d]
        BY <1>6
      <3> QED
        BY <3>1, <3>2 DEF Types
    <2>3. CASE \E n \in Nodes : NumaAlloc(a, n) \/ NumaFree(a, n)
      BY <2>3 DEF NumaAlloc, NumaFree, Types
    <2> QED
      BY <2>1, <2>2, <2>3 DEF LocalStep
  <1>8. open' \in [Apps -> SUBSET Fds] /\ \A b \in Apps \ {a} : open'[b] = open[b]
    <2>1. CASE FdMmapOpenFails(a) \/ FdClose(a)
      BY <2>1 DEF Types, FdMmapOpenFails, FdClose, Closed
    <2>2. CASE FdMmapMapFails(a) \/ \E d \in Devices : FdMmap(a, d)
      <3>1. PICK f \in Fds : open' = [open EXCEPT ![a] = Closed(a) \cup {f}]
        BY <2>2 DEF FdMmap, FdMmapMapFails
      <3>2. Closed(a) \cup {f} \in SUBSET Fds
        BY Rows DEF Closed
      <3> QED
        BY <3>1, <3>2 DEF Types
    <2>3. CASE open' = open
      BY <2>3 DEF Types
    <2> QED
      BY <2>1, <2>2, <2>3 DEF LocalStep, FdMmapUsage, NumaAlloc, NumaFree
  <1>9. blocks' \in [Apps -> SUBSET Nodes] /\ \A b \in Apps \ {a} : blocks'[b] = blocks[b]
    <2>1. CASE \E n \in Nodes : NumaAlloc(a, n) \/ NumaFree(a, n)
      BY <2>1 DEF NumaAlloc, NumaFree, Types
    <2>2. CASE blocks' = blocks
      BY <2>2 DEF Types
    <2> QED
      BY <2>1, <2>2 DEF LocalStep, FdMmapUsage, FdMmapOpenFails, FdMmapMapFails, FdClose, FdMmap
  <1>10. /\ seen' \in [Apps -> SeenRec] /\ \A b \in Apps \ {a} : seen'[b] = seen[b]
         /\ seen'[a].took = seen[a].took
    <2>1. CASE FdMmapUsage(a) \/ FdMmapMapFails(a)
      <3>1. seen' = [seen EXCEPT ![a] = [seen[a] EXCEPT !.spoilt = @ + 1]]
        BY <2>1 DEF FdMmapUsage, FdMmapMapFails
      <3> DEFINE r == [seen[a] EXCEPT !.spoilt = @ + 1]
      <3>2. r \in SeenRec
        BY Rows DEF SeenRec
      <3>3. r.took = seen[a].took
        BY Rows DEF SeenRec
      <3> HIDE DEF r
      <3>4. seen' = [seen EXCEPT ![a] = r]
        BY <3>1 DEF r
      <3> QED
        BY <3>2, <3>3, <3>4 DEF Types
    <2>2. CASE seen' = seen
      BY <2>2 DEF Types
    <2> QED
      BY <2>1, <2>2 DEF LocalStep, FdMmapOpenFails, FdClose, FdMmap, NumaAlloc, NumaFree
  <1>11. Types'
    BY <1>2, <1>4, <1>7, <1>8, <1>9, <1>10 DEF Types
  <1>12. Others(a)
    BY <1>2, <1>4, <1>7, <1>8, <1>9, <1>10 DEF Others
  <1> QED
    BY <1>2, <1>3, <1>4, <1>10, <1>11, <1>12 DEF Sound

\* The process ends.
LEMMA LeaveSound ==
  ASSUME Types, NEW a \in Apps, Leave(a)
  PROVE  /\ Sound(a) /\ UNCHANGED <<thread, tally, tool, seen>>
         /\ main'[a].pc = "gone" /\ dev'[a] = NoDevice /\ open'[a] = {}
  <1> DEFINE m == [main[a] EXCEPT !.pc = "gone"]
  <1>1. /\ main' = [main EXCEPT ![a] = m] /\ dev' = [dev EXCEPT ![a] = NoDevice]
        /\ open' = [open EXCEPT ![a] = {}] /\ blocks' = [blocks EXCEPT ![a] = {}]
        /\ UNCHANGED <<made, bound, thread, tally, tool, seen>>
    BY DEF Leave, Service
  <1>2. m \in MainRec /\ m.pc = "gone"
    BY Rows DEF MainRec
  <1>3. NoDevice \in DevRec
    BY DEF NoDevice, DevRec
  <1> HIDE DEF m
  <1>4. /\ main' \in [Apps -> MainRec] /\ main'[a] = m /\ \A b \in Apps \ {a} : main'[b] = main[b]
        /\ dev' \in [Apps -> DevRec] /\ dev'[a] = NoDevice
        /\ \A b \in Apps \ {a} : dev'[b] = dev[b]
    BY <1>1, <1>2, <1>3 DEF Types
  <1>5. /\ open' \in [Apps -> SUBSET Fds] /\ open'[a] = {}
        /\ \A b \in Apps \ {a} : open'[b] = open[b]
        /\ blocks' \in [Apps -> SUBSET Nodes] /\ \A b \in Apps \ {a} : blocks'[b] = blocks[b]
    BY <1>1 DEF Types
  <1>6. Types'
    BY <1>1, <1>4, <1>5 DEF Types
  <1>7. Others(a)
    BY <1>1, <1>4, <1>5 DEF Others
  <1> QED
    BY <1>1, <1>2, <1>4, <1>5, <1>6, <1>7 DEF Sound

\* A new process.
LEMMA LaunchSound ==
  ASSUME Types, NEW a \in Apps, Launch(a)
  PROVE  /\ Sound(a) /\ UNCHANGED <<thread, dev, open>>
         /\ main[a].pc = "gone" /\ main'[a].pc = "prompt"
         /\ tool'[a] = NewTool /\ seen'[a] = NothingSeen
  <1> DEFINE m == Prompting(main[a].given)
  <1>1. /\ main' = [main EXCEPT ![a] = m] /\ tally' = [tally EXCEPT ![a] = NewTally]
        /\ tool' = [tool EXCEPT ![a] = NewTool] /\ seen' = [seen EXCEPT ![a] = NothingSeen]
        /\ UNCHANGED <<made, bound, thread, dev, open, blocks>> /\ main[a].pc = "gone"
    BY DEF Launch, Service, Process
  <1>2. m \in MainRec /\ m.pc = "prompt"
    BY Rows DEF MainRec, Prompting
  <1>3. NewTally \in TallyRec /\ NewTool \in ToolRec /\ NothingSeen \in SeenRec
    BY DEF NewTally, TallyRec, NewTool, ToolRec, NothingSeen, SeenRec
  <1> HIDE DEF m
  <1>4. /\ main' \in [Apps -> MainRec] /\ main'[a] = m /\ \A b \in Apps \ {a} : main'[b] = main[b]
        /\ tally' \in [Apps -> TallyRec] /\ \A b \in Apps \ {a} : tally'[b] = tally[b]
    BY <1>1, <1>2, <1>3 DEF Types
  <1>5. /\ tool' \in [Apps -> ToolRec] /\ tool'[a] = NewTool
        /\ \A b \in Apps \ {a} : tool'[b] = tool[b]
        /\ seen' \in [Apps -> SeenRec] /\ seen'[a] = NothingSeen
        /\ \A b \in Apps \ {a} : seen'[b] = seen[b]
    BY <1>1, <1>3 DEF Types
  <1>6. Types'
    BY <1>1, <1>4, <1>5 DEF Types
  <1>7. Others(a)
    BY <1>1, <1>4, <1>5 DEF Others
  <1> QED
    BY <1>1, <1>2, <1>4, <1>5, <1>6, <1>7 DEF Sound

-----------------------------------------------------------------------------
(* The steps of one app, as the invariants see them *)

\* The steps of threads.
ThreadStepOf(a) == \E t \in Threads : ThreadStep(a, t)

AppStep(a) ==
    \/ \E c \in Cmds : GiveCmd(a, c)
    \/ LocalStep(a) \/ Leave(a) \/ Launch(a)
    \/ BatchEnds(a) \/ SingleEnds(a)
    \/ ThreadStepOf(a)

\* These are all the steps.
LEMMA Steps == Next <=> \E a \in Apps : AppStep(a)
  BY DEF Next, User, LocalStep, ThreadStepOf, AppStep

\* Each of them keeps the types.
LEMMA StepSound ==
  ASSUME Types, NEW a \in Apps, AppStep(a)
  PROVE  Sound(a)
  <1>1. ASSUME NEW t \in Threads, ThreadStep(a, t) PROVE Sound(a)
    BY <1>1, TakeTaskSound, CheckReadySound, TakeInitLockSound, LoadToolSound, OwnLoadSound, CallDoneSound,
       CallRefusedSound, TakeTallyLockSound, TallySound DEF ThreadStep
  <1> QED
    BY <1>1, GiveCmdSound, LocalSound, LeaveSound, LaunchSound, BatchEndsSound, SingleEndsSound
       DEF AppStep, ThreadStepOf

\* The types hold at the start.
LEMMA InitTypes == Init => Types
  <1> SUFFICES ASSUME Init PROVE Types
    OBVIOUS
  <1>1. Prompting(0) \in MainRec
    BY MemAppAssumption DEF Prompting, MainRec
  <1>2. IdleThread \in ThreadRec /\ NewTally \in TallyRec /\ NewTool \in ToolRec
        /\ NoDevice \in DevRec /\ NothingSeen \in SeenRec
    BY DEF IdleThread, ThreadRec, NewTally, TallyRec, NewTool, ToolRec, NoDevice, DevRec,
           NothingSeen, SeenRec
  <1> QED
    BY <1>1, <1>2 DEF Init, Types

\* Every variable keeps its type; the number of a task is one of the batch's, and a
\* descriptor, a device or a lock is what the code can put there.
\* (ubse_mem_app.py:580, ubse_mem_app.py:1970)
THEOREM TypeCorrect == Spec => []TypeOK
  <1>1. Types /\ [Next]_vars => Types'
    <2> SUFFICES ASSUME Types, [Next]_vars PROVE Types'
      OBVIOUS
    <2>1. CASE UNCHANGED vars
      BY <2>1 DEF Types, vars
    <2>2. CASE Next
      BY <2>2, Steps, StepSound DEF Sound
    <2> QED
      BY <2>1, <2>2
  <1> QED
    BY <1>1, InitTypes, SameTypes, PTL DEF Spec

-----------------------------------------------------------------------------
(* Where the threads are *)

Idle(a, t) == At(a, t, "idle")

\* At the prompt and after the end no thread works; a single operation is the main
\* thread's; what an ended process had is gone.
Rest(a) ==
    /\ main[a].pc \in {"prompt", "gone"} => \A t \in Threads : Idle(a, t)
    /\ main[a].pc = "single" => \A t \in Threads \ {Main} : Idle(a, t)
    /\ main[a].pc = "gone" => dev[a] = NoDevice /\ open[a] = {}

\* The device and the descriptors.
Descriptors(a) ==
    /\ dev[a].mapped = dev[a].current
    /\ (dev[a].fd = None) = (dev[a].mapped = None)
    /\ dev[a].fd \in open[a] \cup {None}
    /\ IsFiniteSet(open[a])
    /\ Cardinality(open[a] \ {dev[a].fd}) <= seen[a].spoilt

Plainly(a) == Rest(a) /\ Descriptors(a)

\* A thread step happens while a command is executed.
LEMMA Working ==
  ASSUME Types, NEW a \in Apps, Rest(a), NEW t \in Threads, ThreadStep(a, t)
  PROVE  main[a].pc \in {"batch", "single"} /\ (main[a].pc = "single" => t = Main)
  <1>1. CASE TakeTask(a, t)
    BY <1>1 DEF TakeTask
  <1>2. CASE ~TakeTask(a, t)
    <2>1. ~Idle(a, t)
      BY <1>2 DEF ThreadStep, CheckReady, TakeInitLock, LoadTool, OwnLoad, CallDone, CallRefused,
                  TakeTallyLock, Tally, Idle, At
    <2>2. main[a].pc \in {"prompt", "batch", "single", "gone"}
      BY Rows DEF MainRec
    <2> QED
      BY <2>1, <2>2 DEF Rest
  <1> QED
    BY <1>1, <1>2

\* What a thread step does, but for the counts.
LEMMA ThreadEffect ==
  ASSUME Types, NEW a \in Apps, NEW t \in Threads, ThreadStep(a, t)
  PROVE  /\ main'[a].pc = main[a].pc /\ main'[a].cmd = main[a].cmd
         /\ dev' = dev /\ open' = open /\ seen'[a].spoilt = seen[a].spoilt
         /\ \A u \in Threads \ {t} : thread'[a][u] = thread[a][u]
  <1>0. main[a] \in MainRec
    BY Rows
  <1>1. CASE TakeTask(a, t)
    <2>1. /\ ThreadTo(a, t, [IdleThread EXCEPT !.pc = Entry(main[a].cmd), !.task = main[a].next])
          /\ main'[a] = [main[a] EXCEPT !.next = @ + 1]
      BY <1>1, TakeTaskSound
    <2>2. main'[a].pc = main[a].pc /\ main'[a].cmd = main[a].cmd
      BY <1>0, <2>1 DEF MainRec
    <2>3. UNCHANGED <<dev, open, seen>>
      BY <1>1 DEF TakeTask, Process
    <2> QED
      BY <2>1, <2>2, <2>3 DEF ThreadTo
  <1>2. CASE CheckReady(a, t)
    BY <1>2, CheckReadySound DEF CheckReady, Process, ThreadTo
  <1>3. CASE TakeInitLock(a, t)
    BY <1>3, TakeInitLockSound DEF TakeInitLock, Process, ThreadTo
  <1>4. CASE LoadTool(a, t)
    <2>1. UNCHANGED <<main, dev, open, seen>>
      BY <1>4 DEF LoadTool, Process
    <2> QED
      BY <1>4, <2>1, LoadToolSound DEF ThreadTo
  <1>5. CASE OwnLoad(a, t)
    <2>1. UNCHANGED <<main, dev, open, seen>>
      BY <1>5 DEF OwnLoad, Process
    <2> QED
      BY <1>5, <2>1, OwnLoadSound DEF ThreadTo
  <1>6. CASE CallDone(a, t)
    BY <1>6, CallDoneSound DEF CallDone, Process, ThreadTo
  <1>7. CASE CallRefused(a, t)
    BY <1>7, CallRefusedSound DEF CallRefused, Process, ThreadTo
  <1>8. CASE TakeTallyLock(a, t)
    BY <1>8, TakeTallyLockSound DEF TakeTallyLock, Process, ThreadTo
  <1>9. CASE Tally(a, t)
    BY <1>9, TallySound DEF Tally, Process, ThreadTo
  <1> QED
    BY <1>1, <1>2, <1>3, <1>4, <1>5, <1>6, <1>7, <1>8, <1>9 DEF ThreadStep

\* Rest, for the app that moves.
LEMMA RestStep ==
  ASSUME Types, Types', NEW a \in Apps, Plainly(a), AppStep(a)
  PROVE  Rest(a)'
  <1>0. main[a] \in MainRec /\ main'[a] \in MainRec
    BY DEF Types
  <1>1. ASSUME NEW c \in Cmds, GiveCmd(a, c) PROVE Rest(a)'
    <2>1. /\ main[a].pc = "prompt"
          /\ main'[a].pc \in {"prompt", "batch", "single"}
          /\ main'[a].pc # "single" => thread' = thread
          /\ main'[a].pc = "single" => \A u \in Threads \ {Main} : thread'[a][u] = thread[a][u]
      <3>1. main[a].pc = "prompt"
        BY <1>1 DEF GiveCmd
      <3>2. CASE Batch(c)
        <4>1. thread' = thread /\ main'[a].pc \in {"prompt", "batch"}
          BY <1>1, <3>2, GiveCmdSound
        <4> QED
          BY <3>1, <4>1
      <3>3. CASE ~Batch(c)
        <4>1. main'[a].pc = "single" /\ ThreadTo(a, Main, [IdleThread EXCEPT !.pc = Entry(c)])
          BY <1>1, <3>3, GiveCmdSound
        <4> QED
          BY <3>1, <4>1 DEF ThreadTo
      <3> QED
        BY <3>2, <3>3
    <2> QED
      BY <2>1 DEF Plainly, Rest, Idle, At
  <1>2. CASE LocalStep(a)
    BY <1>2, LocalSound DEF Plainly, Rest, Idle, At
  <1>3. CASE Leave(a)
    <2>1. main[a].pc = "prompt"
      BY <1>3 DEF Leave
    <2> QED
      BY <1>3, <2>1, LeaveSound DEF Plainly, Rest, Idle, At
  <1>4. CASE Launch(a)
    BY <1>4, LaunchSound DEF Plainly, Rest, Idle, At
  <1>5. CASE BatchEnds(a)
    <2>1. main'[a] = [main[a] EXCEPT !.pc = "prompt"] /\ thread' = thread
      BY <1>5, BatchEndsSound
    <2>2. main'[a].pc = "prompt"
      BY <1>0, <2>1 DEF MainRec
    <2>3. \A t \in Threads : At(a, t, "idle")
      BY <1>5 DEF BatchEnds
    <2> QED
      BY <2>1, <2>2, <2>3 DEF Rest, Idle, At
  <1>6. CASE SingleEnds(a)
    <2>1. /\ main'[a] = [main[a] EXCEPT !.pc = "prompt"]
          /\ ThreadTo(a, Main, IdleThread) /\ main[a].pc = "single"
      BY <1>6, SingleEndsSound DEF SingleEnds
    <2>2. IdleThread.pc = "idle"
      BY DEF IdleThread
    <2>3. main'[a].pc = "prompt"
      BY <1>0, <2>1 DEF MainRec
    <2> QED
      BY <2>1, <2>2, <2>3 DEF Plainly, Rest, Idle, At, ThreadTo
  <1>7. ASSUME NEW t \in Threads, ThreadStep(a, t) PROVE Rest(a)'
    BY <1>7, Working, ThreadEffect DEF Plainly, Rest, Idle, At
  <1> QED
    BY <1>1, <1>2, <1>3, <1>4, <1>5, <1>6, <1>7 DEF AppStep, ThreadStepOf

\* Descriptors, for the app that moves.
LEMMA DescriptorsStep ==
  ASSUME Types, Types', NEW a \in Apps, Plainly(a), AppStep(a)
  PROVE  Descriptors(a)'
  <1>0. /\ dev[a] \in DevRec /\ open[a] \in SUBSET Fds /\ seen[a].spoilt \in Nat
        /\ None \notin Fds /\ None \notin Devices /\ seen[a] \in SeenRec
        /\ dev \in [Apps -> DevRec] /\ open \in [Apps -> SUBSET Fds] /\ seen \in [Apps -> SeenRec]
    BY Rows, MemAppAssumption DEF SeenRec, Types
  <1>a. /\ IsFiniteSet(open[a]) /\ IsFiniteSet(Closed(a))
        /\ Cardinality(Closed(a)) \in Nat /\ Cardinality(Closed(a)) <= seen[a].spoilt
        /\ Cardinality(open[a]) <= Cardinality(Closed(a)) + 1
        /\ Closed(a) \subseteq Fds
    <2>1. IsFiniteSet(open[a]) /\ Cardinality(open[a] \ {dev[a].fd}) <= seen[a].spoilt
      BY DEF Plainly, Descriptors
    <2>2. /\ IsFiniteSet(open[a] \ {dev[a].fd})
          /\ Cardinality(open[a] \ {dev[a].fd}) =
               IF dev[a].fd \in open[a] THEN Cardinality(open[a]) - 1 ELSE Cardinality(open[a])
      BY <2>1, FS_RemoveElement
    <2>3. Cardinality(open[a]) \in Nat /\ Cardinality(open[a] \ {dev[a].fd}) \in Nat
      BY <2>1, <2>2, FS_CardinalityType
    <2> QED
      BY <1>0, <2>1, <2>2, <2>3 DEF Closed
  <1>b. /\ NoDevice.fd = None /\ NoDevice.mapped = None /\ NoDevice.current = None
    BY DEF NoDevice
  <1>1. CASE UNCHANGED <<dev, open>> /\ seen'[a].spoilt = seen[a].spoilt
    BY <1>1 DEF Plainly, Descriptors
  <1>2. ASSUME NEW c \in Cmds, GiveCmd(a, c) PROVE Descriptors(a)'
    BY <1>1, <1>2, GiveCmdSound DEF GiveCmd, Process
  <1>3. CASE FdMmapUsage(a)
    <2>1. dev'[a] = NoDevice /\ open'[a] = open[a] /\ seen'[a].spoilt = seen[a].spoilt + 1
      <3>1. dev' = [dev EXCEPT ![a] = NoDevice] /\ open' = open
            /\ seen' = [seen EXCEPT ![a].spoilt = @ + 1]
        BY <1>3 DEF FdMmapUsage
      <3> QED
        BY <1>0, <3>1 DEF SeenRec
    <2>2. open[a] \ {None} = open[a]
      BY <1>0
    <2>3. open'[a] \ {dev'[a].fd} = open[a]
      BY <1>b, <2>1, <2>2
    <2>4. Cardinality(open[a]) \in Nat
      BY <1>a, FS_CardinalityType
    <2>5. Cardinality(open'[a] \ {dev'[a].fd}) <= seen'[a].spoilt
      BY <1>0, <1>a, <2>1, <2>3, <2>4
    <2> QED
      BY <1>a, <1>b, <2>1, <2>5 DEF Descriptors
  <1>4. CASE FdMmapOpenFails(a) \/ FdClose(a)
    <2>1. dev'[a] = NoDevice /\ open'[a] = Closed(a) /\ seen'[a] = seen[a]
      <3>1. dev' = [dev EXCEPT ![a] = NoDevice] /\ seen' = seen
            /\ open' = [open EXCEPT ![a] = Closed(a)]
        BY <1>4 DEF FdMmapOpenFails, FdClose
      <3> QED
        BY <1>0, <3>1
    <2>2. Closed(a) \ {None} = Closed(a)
      BY <1>0, <1>a
    <2> QED
      BY <1>a, <1>b, <2>1, <2>2 DEF Descriptors
  <1>5. CASE FdMmapMapFails(a)
    <2>1. PICK f \in Fds \ Closed(a) : open' = [open EXCEPT ![a] = Closed(a) \cup {f}]
      BY <1>5 DEF FdMmapMapFails
    <2>2. dev'[a] = NoDevice /\ open'[a] = Closed(a) \cup {f}
          /\ seen'[a].spoilt = seen[a].spoilt + 1
      <3>1. dev' = [dev EXCEPT ![a] = NoDevice] /\ seen' = [seen EXCEPT ![a].spoilt = @ + 1]
        BY <1>5 DEF FdMmapMapFails
      <3> QED
        BY <1>0, <2>1, <3>1 DEF SeenRec
    <2>3. (Closed(a) \cup {f}) \ {None} = Closed(a) \cup {f}
      BY <1>0, <1>a
    <2>4. /\ IsFiniteSet(Closed(a) \cup {f})
          /\ Cardinality(Closed(a) \cup {f}) =
               IF f \in Closed(a) THEN Cardinality(Closed(a)) ELSE Cardinality(Closed(a)) + 1
      <3> HIDE DEF Closed
      <3> QED
        BY <1>a, FS_AddElement
    <2>5. open'[a] \ {dev'[a].fd} = Closed(a) \cup {f}
      BY <1>b, <2>2, <2>3
    <2>6. Cardinality(open'[a] \ {dev'[a].fd}) <= seen'[a].spoilt
      <3>1. Cardinality(Closed(a) \cup {f}) = Cardinality(Closed(a)) + 1
        BY <2>1, <2>4
      <3>2. Cardinality(open'[a] \ {dev'[a].fd}) = Cardinality(Closed(a)) + 1
        BY <2>5, <3>1
      <3>3. Cardinality(Closed(a)) \in Nat /\ Cardinality(Closed(a)) <= seen[a].spoilt
            /\ seen[a].spoilt \in Nat
        BY <1>0, <1>a
      <3> QED
        BY <2>2, <3>2, <3>3
    <2> QED
      BY <1>b, <2>2, <2>4, <2>6 DEF Descriptors
  <1>6. ASSUME NEW d \in Devices, FdMmap(a, d) PROVE Descriptors(a)'
    <2>1. PICK f \in Fds \ Closed(a) :
             /\ open' = [open EXCEPT ![a] = Closed(a) \cup {f}]
             /\ dev' = [dev EXCEPT ![a] = [fd |-> f, mapped |-> d, current |-> d]]
      BY <1>6 DEF FdMmap
    <2>2. /\ open'[a] = Closed(a) \cup {f} /\ seen' = seen
          /\ dev'[a].fd = f /\ dev'[a].mapped = d /\ dev'[a].current = d
      <3>1. seen' = seen
        BY <1>6 DEF FdMmap
      <3>2. dev'[a] = [fd |-> f, mapped |-> d, current |-> d]
        BY <1>0, <2>1
      <3> QED
        BY <1>0, <2>1, <3>1, <3>2
    <2>3. (Closed(a) \cup {f}) \ {f} = Closed(a)
      OBVIOUS
    <2>4. IsFiniteSet(Closed(a) \cup {f})
      BY <1>a, FS_AddElement
    <2>5. open'[a] \ {dev'[a].fd} = Closed(a)
      BY <2>2, <2>3
    <2>6. Cardinality(open'[a] \ {dev'[a].fd}) <= seen'[a].spoilt
      BY <1>a, <2>2, <2>5
    <2>7. f # None /\ d # None
      BY <1>0
    <2> QED
      BY <2>2, <2>4, <2>6, <2>7 DEF Descriptors
  <1>7. ASSUME NEW n \in Nodes, NumaAlloc(a, n) \/ NumaFree(a, n) PROVE Descriptors(a)'
    BY <1>1, <1>7 DEF NumaAlloc, NumaFree
  <1>8. CASE Leave(a)
    <2>1. dev'[a] = NoDevice /\ open'[a] = {} /\ seen' = seen
      BY <1>8, LeaveSound
    <2>2. IsFiniteSet({}) /\ Cardinality({}) = 0 /\ {} \ {None} = {}
      BY FS_EmptySet
    <2> QED
      BY <1>0, <1>b, <2>1, <2>2 DEF Descriptors
  <1>9. CASE Launch(a)
    <2>1. dev'[a] = NoDevice /\ open'[a] = {} /\ seen'[a] = NothingSeen
      BY <1>9, LaunchSound DEF Plainly, Rest
    <2>2. IsFiniteSet({}) /\ Cardinality({}) = 0 /\ {} \ {None} = {} /\ NothingSeen.spoilt = 0
      BY FS_EmptySet DEF NothingSeen
    <2> QED
      BY <1>b, <2>1, <2>2 DEF Descriptors
  <1>10. CASE BatchEnds(a) \/ SingleEnds(a)
    BY <1>1, <1>10 DEF BatchEnds, SingleEnds, Process
  <1>11. ASSUME NEW t \in Threads, ThreadStep(a, t) PROVE Descriptors(a)'
    BY <1>1, <1>11, ThreadEffect
  <1> QED
    BY <1>2, <1>3, <1>4, <1>5, <1>6, <1>7, <1>8, <1>9, <1>10, <1>11
       DEF AppStep, LocalStep, ThreadStepOf

\* The invariant of the plain facts.
PInv == Types /\ \A a \in Apps : Plainly(a)

\* An app whose variables stay.
LEMMA Still ==
  ASSUME NEW b \in Apps, Plainly(b),
         main'[b] = main[b], thread'[b] = thread[b], dev'[b] = dev[b],
         open'[b] = open[b], seen'[b] = seen[b]
  PROVE  Plainly(b)'
  <1>1. Rest(b)'
    BY DEF Plainly, Rest, Idle, At
  <1>2. Descriptors(b)'
    BY DEF Plainly, Descriptors
  <1> QED
    BY <1>1, <1>2 DEF Plainly

\* It holds in every reachable state.
LEMMA PlainlyHolds == Spec => []PInv
  <1>1. Init => PInv
    <2> SUFFICES ASSUME Init, NEW a \in Apps PROVE Plainly(a)
      BY InitTypes DEF PInv
    <2>1. Rest(a)
      BY DEF Init, Rest, Idle, At, Prompting, IdleThread
    <2>2. /\ dev[a].fd = None /\ dev[a].mapped = None /\ dev[a].current = None
          /\ open[a] = {} /\ seen[a].spoilt = 0
      BY DEF Init, NoDevice, NothingSeen
    <2>3. Cardinality({}) = 0 /\ IsFiniteSet({}) /\ {} \ {None} = {}
      BY FS_EmptySet
    <2> QED
      BY <2>1, <2>2, <2>3 DEF Plainly, Descriptors
  <1>2. PInv /\ [Next]_vars => PInv'
    <2> SUFFICES ASSUME PInv, [Next]_vars PROVE PInv'
      OBVIOUS
    <2>1. CASE UNCHANGED vars
      <3>1. Types' /\ \A b \in Apps : Plainly(b)'
        BY <2>1, Still DEF PInv, Types, vars
      <3> QED
        BY <3>1 DEF PInv
    <2>2. ASSUME NEW a \in Apps, AppStep(a) PROVE PInv'
      <3>1. Types' /\ Others(a)
        BY <2>2, StepSound DEF PInv, Sound
      <3>2. Plainly(a)'
        BY <2>2, <3>1, RestStep, DescriptorsStep DEF PInv, Plainly
      <3>3. ASSUME NEW b \in Apps \ {a} PROVE Plainly(b)'
        BY <3>1, Still DEF PInv, Others
      <3> QED
        BY <3>1, <3>2, <3>3 DEF PInv
    <2> QED
      BY <2>1, <2>2, Steps
  <1> QED
    BY <1>1, <1>2, PTL DEF Spec

\* The mapping, its descriptor and the device's name come and go together, and no
\* more descriptors are left open than fd_mmap commands have failed.
\* (ubse_mem_app.py:1970)
THEOREM DescriptorsHeld == Spec => []DescriptorsAccounted
  <1>1. PInv => DescriptorsAccounted
    BY DEF PInv, Plainly, Descriptors, DescriptorsAccounted
  <1> QED
    BY <1>1, PlainlyHolds, PTL

-----------------------------------------------------------------------------
(* The counts of a batch *)

\* The tasks in hand that the service has carried out.
Winners(a) == {t \in InHand(a) : thread[a][t].result}

\* Each task is in one hand, and what it will add up is what it did.
Hands(a) ==
    /\ \A t \in Threads : ~Idle(a, t) => thread[a][t].task \in 0..(main[a].next - 1)
    /\ \A t, u \in Threads : ~Idle(a, t) /\ ~Idle(a, u) /\ t # u =>
          thread[a][t].task # thread[a][u].task
    /\ seen[a].took \subseteq 0..(main[a].next - 1)
    /\ \A t \in Threads : ~Idle(a, t) =>
          ((thread[a][t].task \in seen[a].took) <=> thread[a][t].result)
    /\ \A t \in Threads : thread[a][t].pc \in {"init", "wait", "load", "own", "call"} =>
          ~thread[a][t].result

\* The lock is held by the thread that adds up, and what it read is still true.
Locked(a) ==
    \A t \in Threads :
       /\ At(a, t, "tally") <=> tally[a].lock = t
       /\ At(a, t, "tally") => thread[a][t].read = Counted(a, t)

\* What is counted and what is in hand make up what was taken and what was done.
Sums(a) ==
    /\ Cardinality(seen[a].took) = tally[a].good + Cardinality(Winners(a))
    /\ tally[a].good + tally[a].bad + Cardinality(InHand(a)) = main[a].next

Counting(a) == main[a].pc = "batch" => Hands(a) /\ Locked(a) /\ Sums(a)

\* The sets counted are finite.
LEMMA HandsFinite ==
  ASSUME Types, NEW a \in Apps
  PROVE  /\ IsFiniteSet(InHand(a)) /\ Cardinality(InHand(a)) \in Nat
         /\ IsFiniteSet(Winners(a)) /\ Cardinality(Winners(a)) \in Nat
         /\ IsFiniteSet(seen[a].took) /\ Cardinality(seen[a].took) \in Nat
  <1>1. InHand(a) \in SUBSET Threads /\ Winners(a) \in SUBSET Threads
    BY DEF InHand, Winners
  <1>2. seen[a].took \in SUBSET (Tasks \cup {Plain})
    BY Rows DEF SeenRec
  <1>3. IsFiniteSet(InHand(a)) /\ IsFiniteSet(Winners(a)) /\ IsFiniteSet(seen[a].took)
    BY <1>1, <1>2, ThreadFacts, FS_Subset
  <1> QED
    BY <1>3, FS_CardinalityType

\* A finite set with one element more has one more.
LEMMA OneMore ==
  ASSUME NEW S, IsFiniteSet(S), NEW x, x \notin S
  PROVE  Cardinality(S \cup {x}) = Cardinality(S) + 1
  BY FS_AddElement

\* A finite set with one element less has one less.
LEMMA OneLess ==
  ASSUME NEW S, IsFiniteSet(S), NEW x \in S
  PROVE  Cardinality(S \ {x}) = Cardinality(S) - 1
  BY FS_RemoveElement

\* A batch begins with everything at zero.
LEMMA CountingBegins ==
  ASSUME Types, Types', NEW a \in Apps, Plainly(a), NEW c \in Cmds, GiveCmd(a, c)
  PROVE  Counting(a)'
  <1> SUFFICES ASSUME main'[a].pc = "batch" PROVE Hands(a)' /\ Locked(a)' /\ Sums(a)'
    BY DEF Counting
  <1>1. /\ Batch(c) /\ thread' = thread /\ main'[a].next = 0
        /\ tally'[a] = NewTally /\ seen'[a].took = {}
    BY GiveCmdSound
  <1>2. \A t \in Threads : thread'[a][t].pc = "idle"
    BY <1>1 DEF GiveCmd, Plainly, Rest, Idle, At
  <1>3. InHand(a)' = {} /\ Winners(a)' = {}
    BY <1>2 DEF InHand, Winners, At
  <1>4. NewTally.good = 0 /\ NewTally.bad = 0 /\ NewTally.lock = None
    BY DEF NewTally
  <1>5. Hands(a)'
    BY <1>1, <1>2 DEF Hands, Idle, At
  <1>6. Locked(a)'
    BY <1>1, <1>2, <1>4, ThreadFacts DEF Locked, At
  <1>7. Sums(a)'
    BY <1>1, <1>3, <1>4, FS_EmptySet DEF Sums
  <1> QED
    BY <1>5, <1>6, <1>7

\* A thread goes on with its task.
LEMMA CountingGoes ==
  ASSUME Types, NEW a \in Apps, Hands(a), Locked(a), Sums(a), NEW t \in Threads,
         NEW pc \in {"wait", "load", "own", "call", "done"},
         ThreadTo(a, t, [thread[a][t] EXCEPT !.pc = pc]),
         thread[a][t].pc \in {"init", "wait", "load", "own", "call"},
         main'[a] = main[a], tally'[a] = tally[a], seen'[a] = seen[a]
  PROVE  Hands(a)' /\ Locked(a)' /\ Sums(a)'
  <1>1. thread[a][t] \in ThreadRec
    BY Rows
  <1>2. /\ thread'[a][t].pc = pc /\ thread'[a][t].task = thread[a][t].task
        /\ thread'[a][t].result = thread[a][t].result
    BY <1>1 DEF ThreadTo, ThreadRec
  <1>3. \A u \in Threads \ {t} : thread'[a][u] = thread[a][u]
    BY DEF ThreadTo
  <1>4. InHand(a)' = InHand(a) /\ Winners(a)' = Winners(a)
    BY <1>2, <1>3 DEF InHand, Winners, At
  <1>5. Hands(a)'
    BY <1>2, <1>3 DEF Hands, Idle, At
  <1>6. Locked(a)'
    <2>1. ASSUME NEW u \in Threads
          PROVE  /\ At(a, u, "tally")' <=> tally'[a].lock = u
                 /\ At(a, u, "tally")' => thread'[a][u].read = Counted(a, u)'
      BY <1>2, <1>3 DEF Locked, At, Counted
    <2> QED
      BY <2>1 DEF Locked
  <1>7. Sums(a)'
    BY <1>4 DEF Sums
  <1> QED
    BY <1>5, <1>6, <1>7

\* A thread takes the next task.
LEMMA CountingTakes ==
  ASSUME Types, NEW a \in Apps, Hands(a), Locked(a), Sums(a), NEW t \in Threads, TakeTask(a, t)
  PROVE  Hands(a)' /\ Locked(a)' /\ Sums(a)'
  <1> DEFINE r == [IdleThread EXCEPT !.pc = Entry(main[a].cmd), !.task = main[a].next]
  <1>1. /\ ThreadTo(a, t, r) /\ main'[a] = [main[a] EXCEPT !.next = @ + 1]
        /\ main[a].next \in Nat
    BY TakeTaskSound
  <1>2. r.pc \in {"init", "call", "done"} /\ r.task = main[a].next /\ ~r.result
    BY DEF IdleThread, Entry
  <1> HIDE DEF r
  <1>3. /\ main'[a].next = main[a].next + 1 /\ tally'[a] = tally[a] /\ seen'[a] = seen[a]
    <2>1. main'[a].next = main[a].next + 1
      BY <1>1, Rows DEF MainRec
    <2> QED
      BY <2>1 DEF TakeTask
  <1>4. thread[a][t].pc = "idle"
    BY DEF TakeTask, At
  <1>5. thread'[a][t] = r /\ \A u \in Threads \ {t} : thread'[a][u] = thread[a][u]
    BY <1>1 DEF ThreadTo
  <1>6. InHand(a)' = InHand(a) \cup {t} /\ t \notin InHand(a)
    BY <1>2, <1>4, <1>5 DEF InHand, At
  <1>7. Winners(a)' = Winners(a)
    BY <1>2, <1>4, <1>5 DEF Winners, InHand, At
  <1>8. main[a].next \notin seen[a].took
        /\ \A u \in Threads : ~Idle(a, u) => thread[a][u].task # main[a].next
    BY <1>1 DEF Hands
  <1>9. \A k \in 0..(main[a].next - 1) : k \in 0..(main'[a].next - 1)
    BY <1>1, <1>3
  <1>10. main[a].next \in 0..(main'[a].next - 1)
    BY <1>1, <1>3
  <1>11. Hands(a)'
    <2>1. \A u \in Threads : ~Idle(a, u)' => thread'[a][u].task \in 0..(main'[a].next - 1)
      BY <1>2, <1>5, <1>9, <1>10 DEF Hands, Idle, At
    <2>2. \A u, v \in Threads : ~Idle(a, u)' /\ ~Idle(a, v)' /\ u # v =>
            thread'[a][u].task # thread'[a][v].task
      BY <1>2, <1>5, <1>8 DEF Hands, Idle, At
    <2>3. seen'[a].took \subseteq 0..(main'[a].next - 1)
      BY <1>3, <1>9 DEF Hands
    <2>4. \A u \in Threads : ~Idle(a, u)' =>
            ((thread'[a][u].task \in seen'[a].took) <=> thread'[a][u].result)
      BY <1>2, <1>3, <1>5, <1>8 DEF Hands, Idle, At
    <2>5. \A u \in Threads : thread'[a][u].pc \in {"init", "wait", "load", "own", "call"} =>
            ~thread'[a][u].result
      BY <1>2, <1>5 DEF Hands
    <2> QED
      BY <2>1, <2>2, <2>3, <2>4, <2>5 DEF Hands
  <1>12. Locked(a)'
    <2>1. ASSUME NEW u \in Threads
          PROVE  /\ At(a, u, "tally")' <=> tally'[a].lock = u
                 /\ At(a, u, "tally")' => thread'[a][u].read = Counted(a, u)'
      BY <1>2, <1>3, <1>4, <1>5 DEF Locked, At, Counted
    <2> QED
      BY <2>1 DEF Locked
  <1>13. Sums(a)'
    <2>1. Cardinality(InHand(a)') = Cardinality(InHand(a)) + 1
      BY <1>6, HandsFinite, OneMore
    <2>2. tally[a].good \in Nat /\ tally[a].bad \in Nat /\ Cardinality(InHand(a)) \in Nat
      BY HandsFinite, Rows DEF TallyRec
    <2> QED
      BY <1>1, <1>3, <1>7, <2>1, <2>2 DEF Sums
  <1> QED
    BY <1>11, <1>12, <1>13

\* The service carries a task out.
LEMMA CountingDone ==
  ASSUME Types, NEW a \in Apps, Hands(a), Locked(a), Sums(a), NEW t \in Threads, CallDone(a, t)
  PROVE  Hands(a)' /\ Locked(a)' /\ Sums(a)'
  <1> DEFINE r == [thread[a][t] EXCEPT !.pc = "done", !.result = TRUE]
             k == thread[a][t].task
  <1>1. /\ ThreadTo(a, t, r) /\ seen'[a].took = seen[a].took \cup {k}
        /\ main'[a] = main[a] /\ tally'[a] = tally[a]
    BY CallDoneSound DEF CallDone
  <1>2. r.pc = "done" /\ r.task = k /\ r.result /\ r.read = thread[a][t].read
    BY Rows DEF ThreadRec
  <1> HIDE DEF r
  <1>3. thread[a][t].pc = "call"
    BY DEF CallDone, At
  <1>4. ~thread[a][t].result /\ k \notin seen[a].took /\ k \in 0..(main[a].next - 1)
    BY <1>3 DEF Hands, Idle, At
  <1>5. thread'[a][t] = r /\ \A u \in Threads \ {t} : thread'[a][u] = thread[a][u]
    BY <1>1 DEF ThreadTo
  <1>6. InHand(a)' = InHand(a)
    BY <1>2, <1>3, <1>5 DEF InHand, At
  <1>7. Winners(a)' = Winners(a) \cup {t} /\ t \notin Winners(a)
    BY <1>2, <1>3, <1>4, <1>5 DEF Winners, InHand, At
  <1>8. Hands(a)'
    <2>1. \A u \in Threads : ~Idle(a, u)' => thread'[a][u].task \in 0..(main'[a].next - 1)
      BY <1>1, <1>2, <1>4, <1>5 DEF Hands, Idle, At
    <2>2. \A u, v \in Threads : ~Idle(a, u)' /\ ~Idle(a, v)' /\ u # v =>
            thread'[a][u].task # thread'[a][v].task
      BY <1>2, <1>3, <1>5 DEF Hands, Idle, At
    <2>3. seen'[a].took \subseteq 0..(main'[a].next - 1)
      BY <1>1, <1>4 DEF Hands
    <2>4. \A u \in Threads : ~Idle(a, u)' =>
            ((thread'[a][u].task \in seen'[a].took) <=> thread'[a][u].result)
      <3>1. \A u \in Threads \ {t} : ~Idle(a, u) => thread[a][u].task # k
        BY <1>3 DEF Hands, Idle, At
      <3> QED
        BY <1>1, <1>2, <1>5, <3>1 DEF Hands, Idle, At
    <2>5. \A u \in Threads : thread'[a][u].pc \in {"init", "wait", "load", "own", "call"} =>
            ~thread'[a][u].result
      BY <1>2, <1>5 DEF Hands
    <2> QED
      BY <2>1, <2>2, <2>3, <2>4, <2>5 DEF Hands
  <1>9. Locked(a)'
    <2>1. ASSUME NEW u \in Threads
          PROVE  /\ At(a, u, "tally")' <=> tally'[a].lock = u
                 /\ At(a, u, "tally")' => thread'[a][u].read = Counted(a, u)'
      BY <1>1, <1>2, <1>3, <1>5 DEF Locked, At, Counted
    <2> QED
      BY <2>1 DEF Locked
  <1>10. Sums(a)'
    <2>1. Cardinality(Winners(a)') = Cardinality(Winners(a)) + 1
      BY <1>7, HandsFinite, OneMore
    <2>2. Cardinality(seen'[a].took) = Cardinality(seen[a].took) + 1
      BY <1>1, <1>4, HandsFinite, OneMore
    <2>3. tally[a].good \in Nat /\ Cardinality(Winners(a)) \in Nat
      BY HandsFinite, Rows DEF TallyRec
    <2> QED
      BY <1>1, <1>6, <2>1, <2>2, <2>3 DEF Sums
  <1> QED
    BY <1>8, <1>9, <1>10

\* A thread takes the lock over the counts.
LEMMA CountingLocks ==
  ASSUME Types, NEW a \in Apps, Hands(a), Locked(a), Sums(a), NEW t \in Threads,
         TakeTallyLock(a, t)
  PROVE  Hands(a)' /\ Locked(a)' /\ Sums(a)'
  <1> DEFINE r == [thread[a][t] EXCEPT !.pc = "tally", !.read = Counted(a, t)]
  <1>1. /\ ThreadTo(a, t, r) /\ tally'[a] = [tally[a] EXCEPT !.lock = t]
        /\ main'[a] = main[a] /\ seen'[a] = seen[a]
    BY TakeTallyLockSound DEF TakeTallyLock
  <1>2. /\ r.pc = "tally" /\ r.task = thread[a][t].task /\ r.result = thread[a][t].result
        /\ r.read = Counted(a, t)
    BY Rows DEF ThreadRec
  <1> HIDE DEF r
  <1>3. tally'[a].lock = t /\ tally'[a].good = tally[a].good /\ tally'[a].bad = tally[a].bad
    BY <1>1, Rows DEF TallyRec
  <1>4. thread[a][t].pc = "done" /\ tally[a].lock = None
    BY DEF TakeTallyLock, At
  <1>5. thread'[a][t] = r /\ \A u \in Threads \ {t} : thread'[a][u] = thread[a][u]
    BY <1>1 DEF ThreadTo
  <1>6. InHand(a)' = InHand(a) /\ Winners(a)' = Winners(a)
    BY <1>2, <1>4, <1>5 DEF InHand, Winners, At
  <1>7. Hands(a)'
    BY <1>1, <1>2, <1>4, <1>5 DEF Hands, Idle, At
  <1>8. Locked(a)'
    <2>1. ASSUME NEW u \in Threads
          PROVE  /\ At(a, u, "tally")' <=> tally'[a].lock = u
                 /\ At(a, u, "tally")' => thread'[a][u].read = Counted(a, u)'
      <3>1. CASE u = t
        BY <1>2, <1>3, <1>5, <3>1 DEF At, Counted
      <3>2. CASE u # t
        BY <1>3, <1>4, <1>5, <3>2, ThreadFacts DEF Locked, At
      <3> QED
        BY <3>1, <3>2
    <2> QED
      BY <2>1 DEF Locked
  <1>9. Sums(a)'
    BY <1>1, <1>3, <1>6 DEF Sums
  <1> QED
    BY <1>7, <1>8, <1>9

\* A thread adds up and has its hands free.
LEMMA CountingTallies ==
  ASSUME Types, NEW a \in Apps, Hands(a), Locked(a), Sums(a), NEW t \in Threads, Tally(a, t)
  PROVE  Hands(a)' /\ Locked(a)' /\ Sums(a)'
  <1>1. /\ ThreadTo(a, t, IdleThread) /\ main'[a] = main[a] /\ seen'[a] = seen[a]
        /\ tally'[a] = IF thread[a][t].result
                       THEN [tally[a] EXCEPT !.good = thread[a][t].read + 1, !.lock = None]
                       ELSE [tally[a] EXCEPT !.bad = thread[a][t].read + 1, !.lock = None]
    BY TallySound DEF Tally
  <1>2. thread[a][t].pc = "tally"
    BY DEF Tally, At
  <1>3. tally[a].lock = t /\ thread[a][t].read = Counted(a, t)
    BY <1>2 DEF Locked, At
  <1>4. /\ tally'[a].lock = None
        /\ thread[a][t].result =>
             tally'[a].good = tally[a].good + 1 /\ tally'[a].bad = tally[a].bad
        /\ ~thread[a][t].result =>
             tally'[a].good = tally[a].good /\ tally'[a].bad = tally[a].bad + 1
    <2>1. CASE thread[a][t].result
      BY <1>1, <1>3, <2>1, Rows DEF TallyRec, Counted
    <2>2. CASE ~thread[a][t].result
      BY <1>1, <1>3, <2>2, Rows DEF TallyRec, Counted
    <2> QED
      BY <2>1, <2>2
  <1>5. thread'[a][t] = IdleThread /\ \A u \in Threads \ {t} : thread'[a][u] = thread[a][u]
    BY <1>1 DEF ThreadTo
  <1>6. IdleThread.pc = "idle"
    BY DEF IdleThread
  <1>7. InHand(a)' = InHand(a) \ {t} /\ t \in InHand(a)
    BY <1>2, <1>5, <1>6 DEF InHand, At
  <1>8. /\ thread[a][t].result => Winners(a)' = Winners(a) \ {t} /\ t \in Winners(a)
        /\ ~thread[a][t].result => Winners(a)' = Winners(a)
    BY <1>2, <1>5, <1>6 DEF Winners, InHand, At
  <1>9. Hands(a)'
    BY <1>1, <1>5, <1>6 DEF Hands, Idle, At
  <1>10. Locked(a)'
    <2>1. ASSUME NEW u \in Threads
          PROVE  /\ At(a, u, "tally")' <=> tally'[a].lock = u
                 /\ At(a, u, "tally")' => thread'[a][u].read = Counted(a, u)'
      <3>1. CASE u = t
        BY <1>4, <1>5, <1>6, <3>1, ThreadFacts DEF At
      <3>2. CASE u # t
        BY <1>3, <1>4, <1>5, <3>2, ThreadFacts DEF Locked, At
      <3> QED
        BY <3>1, <3>2
    <2> QED
      BY <2>1 DEF Locked
  <1>11. Sums(a)'
    <2>1. Cardinality(InHand(a)') = Cardinality(InHand(a)) - 1
      BY <1>7, HandsFinite, OneLess
    <2>2. tally[a].good \in Nat /\ tally[a].bad \in Nat
          /\ Cardinality(Winners(a)) \in Nat /\ Cardinality(InHand(a)) \in Nat
      BY HandsFinite, Rows DEF TallyRec
    <2>3. CASE thread[a][t].result
      <3>1. Cardinality(Winners(a)') = Cardinality(Winners(a)) - 1
        BY <1>8, <2>3, HandsFinite, OneLess
      <3> QED
        BY <1>1, <1>4, <2>1, <2>2, <2>3, <3>1 DEF Sums
    <2>4. CASE ~thread[a][t].result
      BY <1>1, <1>4, <1>8, <2>1, <2>2, <2>4 DEF Sums
    <2> QED
      BY <2>3, <2>4
  <1> QED
    BY <1>9, <1>10, <1>11

\* A step of one app keeps its counts right.
LEMMA CountingStep ==
  ASSUME Types, Types', NEW a \in Apps, Plainly(a), Counting(a), AppStep(a)
  PROVE  Counting(a)'
  <1>0. main[a] \in MainRec /\ main'[a] \in MainRec
    BY DEF Types
  <1>1. ASSUME NEW c \in Cmds, GiveCmd(a, c) PROVE Counting(a)'
    BY <1>1, CountingBegins
  <1>2. CASE LocalStep(a)
    BY <1>2, LocalSound DEF Counting
  <1>3. CASE Leave(a)
    BY <1>3, LeaveSound DEF Counting
  <1>4. CASE Launch(a)
    BY <1>4, LaunchSound DEF Counting
  <1>5. CASE BatchEnds(a) \/ SingleEnds(a)
    <2>1. main'[a] = [main[a] EXCEPT !.pc = "prompt"]
      BY <1>5, BatchEndsSound, SingleEndsSound
    <2>2. main'[a].pc = "prompt"
      BY <1>0, <2>1 DEF MainRec
    <2> QED
      BY <2>2 DEF Counting
  <1>6. ASSUME NEW t \in Threads, ThreadStep(a, t) PROVE Counting(a)'
    <2>1. SUFFICES ASSUME main[a].pc = "batch" PROVE Hands(a)' /\ Locked(a)' /\ Sums(a)'
      BY <1>6, ThreadEffect DEF Counting
    <2>2. Hands(a) /\ Locked(a) /\ Sums(a)
      BY <2>1 DEF Counting
    <2>3. CASE TakeTask(a, t)
      BY <2>2, <2>3, CountingTakes
    <2>4. CASE CheckReady(a, t)
      <3>1. PICK pc \in {"wait", "load", "own", "call", "done"} :
               ThreadTo(a, t, [thread[a][t] EXCEPT !.pc = pc])
        BY <2>4, CheckReadySound
      <3>2. thread[a][t].pc = "init" /\ UNCHANGED <<main, tally, seen>>
        BY <2>4 DEF CheckReady, At
      <3> QED
        BY <2>2, <3>1, <3>2, CountingGoes
    <2>5. CASE TakeInitLock(a, t)
      <3>1. ThreadTo(a, t, [thread[a][t] EXCEPT !.pc = "load"])
        BY <2>5, TakeInitLockSound
      <3>2. thread[a][t].pc = "wait" /\ UNCHANGED <<main, tally, seen>>
        BY <2>5 DEF TakeInitLock, At
      <3> QED
        BY <2>2, <3>1, <3>2, CountingGoes
    <2>6. CASE LoadTool(a, t)
      <3>1. PICK pc \in {"wait", "load", "own", "call", "done"} :
               ThreadTo(a, t, [thread[a][t] EXCEPT !.pc = pc])
        BY <2>6, LoadToolSound
      <3>2. thread[a][t].pc = "load" /\ UNCHANGED <<main, tally, seen>>
        BY <2>6 DEF LoadTool, At
      <3> QED
        BY <2>2, <3>1, <3>2, CountingGoes
    <2>11. CASE OwnLoad(a, t)
      <3>1. PICK pc \in {"wait", "load", "own", "call", "done"} :
               ThreadTo(a, t, [thread[a][t] EXCEPT !.pc = pc])
        BY <2>11, OwnLoadSound
      <3>2. thread[a][t].pc = "own" /\ UNCHANGED <<main, tally, seen>>
        BY <2>11 DEF OwnLoad, At
      <3> QED
        BY <2>2, <3>1, <3>2, CountingGoes
    <2>7. CASE CallDone(a, t)
      BY <2>2, <2>7, CountingDone
    <2>8. CASE CallRefused(a, t)
      <3>1. ThreadTo(a, t, [thread[a][t] EXCEPT !.pc = "done"])
        BY <2>8, CallRefusedSound
      <3>2. thread[a][t].pc = "call" /\ UNCHANGED <<main, tally, seen>>
        BY <2>8 DEF CallRefused, At
      <3> QED
        BY <2>2, <3>1, <3>2, CountingGoes
    <2>9. CASE TakeTallyLock(a, t)
      BY <2>2, <2>9, CountingLocks
    <2>10. CASE Tally(a, t)
      BY <2>2, <2>10, CountingTallies
    <2> QED
      BY <1>6, <2>3, <2>4, <2>5, <2>6, <2>7, <2>8, <2>9, <2>10, <2>11 DEF ThreadStep
  <1> QED
    BY <1>1, <1>2, <1>3, <1>4, <1>5, <1>6 DEF AppStep, ThreadStepOf

\* An app that does not move keeps its counts.
LEMMA CountingStill ==
  ASSUME NEW b \in Apps, Counting(b),
         main'[b] = main[b], thread'[b] = thread[b], tally'[b] = tally[b], seen'[b] = seen[b]
  PROVE  Counting(b)'
  <1>1. InHand(b)' = InHand(b) /\ Winners(b)' = Winners(b)
    BY DEF InHand, Winners, At
  <1>2. Hands(b) => Hands(b)'
    BY DEF Hands, Idle, At
  <1>3. Locked(b) => Locked(b)'
    BY DEF Locked, Counted, At
  <1>4. Sums(b) => Sums(b)'
    BY <1>1 DEF Sums
  <1> QED
    BY <1>2, <1>3, <1>4 DEF Counting

\* The counts of a batch are true, whatever the number of tasks and of threads and
\* the order in which they finish: no result is lost, none is counted twice.
\* (ubse_mem_app.py:580)
THEOREM TrueCounts == Spec => []CountsAreTrue
  <1> DEFINE CInv == \A a \in Apps : Counting(a)
  <1>1. Init => CInv
    BY DEF Init, Counting, Prompting
  <1>2. PInv /\ PInv' /\ CInv /\ [Next]_vars => CInv'
    <2> SUFFICES ASSUME PInv, PInv', CInv, [Next]_vars PROVE CInv'
      OBVIOUS
    <2>1. CASE UNCHANGED vars
      BY <2>1, CountingStill DEF vars
    <2>2. ASSUME NEW a \in Apps, AppStep(a) PROVE CInv'
      <3>1. Counting(a)'
        BY <2>2, CountingStep DEF PInv
      <3>2. ASSUME NEW b \in Apps \ {a} PROVE Counting(b)'
        BY <2>2, StepSound, CountingStill DEF PInv, Sound, Others
      <3> QED
        BY <3>1, <3>2
    <2> QED
      BY <2>1, <2>2, Steps
  <1>3. PInv /\ CInv => CountsAreTrue
    <2> SUFFICES ASSUME PInv, CInv, NEW a \in Apps, main[a].pc = "batch", InHand(a) = {}
                 PROVE  /\ tally[a].good = Cardinality(seen[a].took)
                        /\ tally[a].good + tally[a].bad = main[a].next
      BY DEF CountsAreTrue
    <2>1. Sums(a) /\ Winners(a) = {}
      BY DEF Counting, Winners
    <2>2. tally[a].good \in Nat /\ tally[a].bad \in Nat
      BY Rows DEF PInv, TallyRec
    <2>3. Cardinality(InHand(a)) = 0 /\ Cardinality(Winners(a)) = 0
      BY <2>1, FS_EmptySet
    <2> QED
      BY <2>1, <2>2, <2>3 DEF Sums
  <1> HIDE DEF CInv
  <1> QED
    BY <1>1, <1>2, <1>3, PlainlyHolds, PTL DEF Spec
=============================================================================
