-------------------------------- MODULE Pods --------------------------------
(***************************************************************************)
(* The pods of KubernetesBaseCase.  A test creates and deletes pods, keeps *)
(* pod_list, and stops and restarts the DaemonSet shm-csi-driver, each     *)
(* with kubectl on the master and a wait that looks a limited number of    *)
(* times; meanwhile the cluster starts pods, ends them and replaces the    *)
(* driver's in its own time.  A run() that failed has no stdout, which     *)
(* some callers take for an answer and others stumble over.                *)
(***************************************************************************)
EXTENDS Integers, Sequences, FiniteSets, SequencesExt

CONSTANTS PodNames,     \* the pods the tests use
          Matching,     \* for each name the names it matches, as a pattern
          Nodes,        \* the nodes on which the driver runs
          Looks,        \* how often a wait looks: 60 s, every 5 s
          MaxOps,       \* bound on the operations of a behaviour
          MaxFailures   \* bound on the commands that fail or time out

None == "none"

ASSUME PodsAssumption ==
    /\ Matching \in [PodNames -> SUBSET PodNames]
    /\ \A p \in PodNames : p \in Matching[p]
    /\ None \notin PodNames /\ IsFiniteSet(Nodes)
    /\ Looks \in Nat \ {0} /\ MaxOps \in Nat /\ MaxFailures \in Nat

Phases == {None, "Pending", "Running"}
Pod == [phase : Phases, ending : BOOLEAN]
NoPod == [phase |-> None, ending |-> FALSE]
NewPod == [phase |-> "Pending", ending |-> FALSE]
Exists(q) == q.phase # None
\* What --field-selector=status.phase==Running selects: a pod that ends keeps its phase.
InPhase(q) == q.phase = "Running"
\* What the STATUS column calls Running.
Runs(q) == q.phase = "Running" /\ ~q.ending

PodOps == {"create", "createWait", "delete", "deleteWait", "make", "drop"}
DriverOps == {"stop", "restart", "timer"}
Ops == PodOps \cup DriverOps \cup {"clear"}

VARIABLES pod,       \* the cluster's record of each pod
          driver,    \* the driver's pod on each node, and whether its template is an old one
          held,      \* does the DaemonSet ask for a node that does not exist?
          listed,    \* pod_list of the test
          test,      \* the operation under way
          last,      \* what the last one returned; read by the properties only
          ops,       \* the operations begun
          failures   \* the commands that failed or timed out

vars == <<pod, driver, held, listed, test, last, ops, failures>>

\* clean: no command of the operation failed; alone: no other pod matched the name;
\* fresh: the operation before waited for this pod to be deleted, and it was;
\* sound: clear finds each pod of the list once and there, the patch of restart finds
\* the driver's pods new and none on its way out.  goal: the pods clear is to delete.
Notes == [clean : BOOLEAN, alone : BOOLEAN, fresh : BOOLEAN, sound : BOOLEAN, made : BOOLEAN,
          goal : SUBSET PodNames]

NoNotes == [clean |-> TRUE, alone |-> TRUE, fresh |-> FALSE, sound |-> TRUE, made |-> FALSE,
            goal |-> {}]
NoTest == [pc |-> "idle", op |-> None, name |-> None, looks |-> 0, todo |-> <<>>, notes |-> NoNotes]
NoReturn == [op |-> None, name |-> None, verdict |-> None, notes |-> NoNotes]

TypeOK ==
    /\ pod \in [PodNames -> Pod]
    /\ driver \in [Nodes -> [phase : Phases, ending : BOOLEAN, old : BOOLEAN]]
    /\ held \in BOOLEAN
    /\ listed \in Seq(PodNames) /\ Len(listed) <= MaxOps
    /\ test \in [pc : {"idle", "apply", "look", "affinity", "check", "delete", "deleting",
                       "patch", "settle", "rollout"},
                 op : Ops \cup {None}, name : PodNames \cup {None}, looks : 0..(Looks - 1),
                 todo : Seq(PodNames), notes : Notes]
    /\ last \in [op : Ops \cup {None}, name : PodNames \cup {None}, notes : Notes,
                 verdict : {None, "true", "false", "raised", "done"}]
    /\ ops \in 0..MaxOps
    /\ failures \in 0..MaxFailures

NewDriver == [phase |-> "Pending", ending |-> FALSE, old |-> FALSE]
NoDriver == [phase |-> None, ending |-> FALSE, old |-> FALSE]

\* Tests begin with the driver on every node; a pod of an earlier test may be there.
Init ==
    /\ pod \in [PodNames -> {NoPod, [phase |-> "Running", ending |-> FALSE]}]
    /\ driver = [n \in Nodes |-> [phase |-> "Running", ending |-> FALSE, old |-> FALSE]]
    /\ held = FALSE
    /\ listed = <<>>
    /\ test = NoTest
    /\ last = NoReturn
    /\ ops = 0
    /\ failures = 0

---------------------------------------------------------------------------
(* The cluster.                                                            *)

OfPods == UNCHANGED <<driver, held, listed, test, last, ops, failures>>
OfDriver == UNCHANGED <<pod, held, listed, test, last, ops, failures>>

PodRuns(p) ==
    /\ pod[p] = NewPod
    /\ pod' = [pod EXCEPT ![p].phase = "Running"]
    /\ OfPods

PodGone(p) ==
    /\ pod[p].ending
    /\ pod' = [pod EXCEPT ![p] = NoPod]
    /\ OfPods

DriverCreated(n) ==
    /\ driver[n] = NoDriver /\ ~held
    /\ driver' = [driver EXCEPT ![n] = NewDriver]
    /\ OfDriver

DriverRuns(n) ==
    /\ driver[n].phase = "Pending" /\ ~driver[n].ending
    /\ driver' = [driver EXCEPT ![n].phase = "Running"]
    /\ OfDriver

\* All pods go when no node is eligible; a new template replaces them one by one.
DriverRetired(n) ==
    /\ Exists(driver[n]) /\ ~driver[n].ending
    /\ held \/ (driver[n].old /\ \A m \in Nodes \ {n} : Runs(driver[m]))
    /\ driver' = [driver EXCEPT ![n].ending = TRUE]
    /\ OfDriver

DriverGone(n) ==
    /\ driver[n].ending
    /\ driver' = [driver EXCEPT ![n] = NoDriver]
    /\ OfDriver

Cluster ==
    \/ \E p \in PodNames : PodRuns(p) \/ PodGone(p)
    \/ \E n \in Nodes : DriverCreated(n) \/ DriverRuns(n) \/ DriverRetired(n) \/ DriverGone(n)

---------------------------------------------------------------------------
(* The test.                                                               *)

At(pc) == test.pc = pc
Doing(S) == test.op \in S
Works == UNCHANGED failures
Fails == failures < MaxFailures /\ failures' = failures + 1
Kept == test.notes
Spoilt == [test.notes EXCEPT !.clean = FALSE]
Made == [test.notes EXCEPT !.made = TRUE]

Goto(pc, notes) ==
    /\ test' = [test EXCEPT !.pc = pc, !.looks = 0, !.notes = notes]
    /\ UNCHANGED last

Return(verdict, notes) ==
    /\ test' = NoTest
    /\ last' = [op |-> test.op, name |-> test.name, verdict |-> verdict, notes |-> notes]

FirstStep(op) ==
    CASE op \in {"create", "createWait", "make"} -> "apply"
      [] op \in {"delete", "deleteWait"} -> "delete"
      [] op \in {"drop", "clear"} -> "check"
      [] op \in DriverOps -> "patch"

Alone(p) == \A q \in Matching[p] \ {p} : ~Exists(pod[q])

AllThereOnce ==
    IsInjective(listed) /\ \A p \in ToSet(listed) : Exists(pod[p]) /\ ~pod[p].ending
AllStay == \A n \in Nodes : ~driver[n].ending /\ ~driver[n].old

\* A test drops a pod that create_pod() gave it; pod_list holds no other.
Give(op, p) ==
    /\ At("idle")
    /\ ops < MaxOps
    /\ op \in PodOps <=> p # None
    /\ op = "drop" => p \in ToSet(listed)
    /\ ops' = ops + 1
    /\ test' = [pc |-> FirstStep(op), op |-> op, name |-> p, looks |-> 0,
                todo |-> IF op = "clear" THEN listed ELSE <<>>,
                notes |-> [clean |-> TRUE, made |-> FALSE, sound |-> AllThereOnce,
                           alone |-> p # None => Alone(p),
                           fresh |-> last.op = "deleteWait" /\ last.name = p /\ last.verdict = "true",
                           goal |-> IF op = "clear" THEN ToSet(listed) ELSE {}]]
    /\ UNCHANGED <<pod, driver, held, listed, last, failures>>

OnPods == UNCHANGED <<driver, held, ops>>
Asks == UNCHANGED <<pod, driver, held, listed, ops>>

\* kubectl apply.
Created ==
    /\ At("apply") /\ ~Exists(pod[test.name])
    /\ pod' = [pod EXCEPT ![test.name] = NewPod]
    /\ IF Doing({"create"}) THEN Return("true", Made) ELSE Goto("look", Made)
    /\ Works /\ UNCHANGED listed /\ OnPods

\* What is there, be it on its way out, is "unchanged", which only create_pod() accepts.
Unchanged ==
    /\ At("apply") /\ Exists(pod[test.name])
    /\ IF Doing({"make"}) THEN Goto("look", Kept) ELSE Return("false", Kept)
    /\ Works /\ Asks

\* No stdout to split; create_pod() does not look.
ApplyFails ==
    /\ At("apply") /\ Fails
    /\ IF Doing({"make"}) THEN Goto("look", Spoilt) ELSE Return("raised", Spoilt)
    /\ Asks

\* clear_test_pod() goes through a copy of the list.
Subject == IF Doing({"clear"}) THEN Head(test.todo) ELSE test.name

Cleared ==
    /\ At("check") /\ Doing({"clear"}) /\ test.todo = <<>>
    /\ Return("done", Kept)
    /\ Works /\ Asks

\* delete_pod(): nothing comes back for a pod that is not there, and the assertion raises.
CheckPod ==
    /\ At("check") /\ ~(Doing({"clear"}) /\ test.todo = <<>>)
    /\ \/ Exists(pod[Subject]) /\ Goto("delete", Kept) /\ Works
       \/ ~Exists(pod[Subject]) /\ Return("raised", Kept) /\ Works
       \/ Return("raised", Spoilt) /\ Fails
    /\ Asks

\* Faulty variant of AfterDelete: clear goes through the list itself while it shrinks.
AfterDeleteInPlace(verdict, notes) ==
    \/ Doing({"delete"}) /\ Return(verdict, notes) /\ UNCHANGED listed
    \/ Doing({"deleteWait"}) /\ Goto("look", notes) /\ UNCHANGED listed
    \/ Doing({"drop"}) /\ Return("done", notes) /\ listed' = RemoveFirst(listed, test.name)
    \/ /\ Doing({"clear"})
       /\ listed' = RemoveFirst(listed, Subject)
       /\ test' = [test EXCEPT !.pc = "check", !.todo = SubSeq(@, 3, Len(@)), !.notes = notes]
       /\ UNCHANGED last

\* What follows kubectl delete: delete_pod() does not look at the answer.
AfterDelete(verdict, notes) ==
    \/ Doing({"delete"}) /\ Return(verdict, notes) /\ UNCHANGED listed
    \/ Doing({"deleteWait"}) /\ Goto("look", notes) /\ UNCHANGED listed
    \/ Doing({"drop"}) /\ Return("done", notes) /\ listed' = RemoveFirst(listed, test.name)
    \/ /\ Doing({"clear"})
       /\ listed' = RemoveFirst(listed, Subject)
       /\ test' = [test EXCEPT !.pc = "check", !.todo = Tail(@), !.notes = notes]
       /\ UNCHANGED last

DeleteBegins ==
    /\ At("delete") /\ Exists(pod[Subject])
    /\ pod' = [pod EXCEPT ![Subject].ending = TRUE]
    /\ Goto("deleting", Kept)
    /\ Works /\ UNCHANGED listed /\ OnPods

DeleteRefused ==
    /\ At("delete")
    /\ \/ ~Exists(pod[Subject]) /\ AfterDelete("false", Kept) /\ Works
       \/ AfterDelete("false", Spoilt) /\ Fails
    /\ UNCHANGED pod /\ OnPods

\* kubectl delete returns when the pod is gone.
Deleted ==
    /\ At("deleting") /\ ~Exists(pod[Subject])
    /\ AfterDelete("true", Kept)
    /\ Works /\ UNCHANGED pod /\ OnPods

DeleteTimesOut ==
    /\ At("deleting") /\ Exists(pod[Subject])
    /\ Return("raised", Spoilt)
    /\ Fails /\ Asks

---------------------------------------------------------------------------
(* The waits.                                                              *)

\* get_pod_list_by_name(): the pattern is searched in the names.
PodList(p, filter_running) ==
    {q \in Matching[p] : Exists(pod[q]) /\ (filter_running => InPhase(pod[q]))}

DriverList(filter_running) ==
    {n \in Nodes : Exists(driver[n]) /\ (filter_running => InPhase(driver[n]))}

wait_for_pod_running == Cardinality(PodList(test.name, TRUE)) = 1

\* Faulty variant of wait_for_pod_deleted: only the pods that run are counted.
WaitForNoneRunning == PodList(test.name, TRUE) = {}

wait_for_pod_deleted == PodList(test.name, FALSE) = {}

\* create_pod() looks at the STATUS of every line that has the name in it.
SomeRuns == \E q \in Matching[test.name] : Runs(pod[q])

Awaited ==
    CASE Doing({"createWait"}) -> wait_for_pod_running
      [] Doing({"deleteWait"}) -> wait_for_pod_deleted
      [] Doing({"make"}) -> SomeRuns
      [] Doing({"stop"}) -> DriverList(FALSE) = {}
      [] Doing({"restart"}) -> Cardinality(DriverList(TRUE)) = Cardinality(Nodes)

\* Faulty variant of LookAgain: one look too many.
LookOnceMore(notes) ==
    /\ test.looks < Looks
    /\ test' = [test EXCEPT !.looks = @ + 1, !.notes = notes]
    /\ UNCHANGED last

LookAgain(notes) ==
    /\ test.looks < Looks - 1
    /\ test' = [test EXCEPT !.looks = @ + 1, !.notes = notes]
    /\ UNCHANGED last

GiveUp(notes) ==
    /\ test.looks = Looks - 1
    /\ Return(IF Doing({"make"}) THEN "raised" ELSE "false", notes)

Seen ==
    /\ At("look") /\ Awaited
    /\ \/ Doing({"make"}) /\ Goto("affinity", Kept)
       \/ Doing({"restart"}) /\ Goto("settle", Kept)
       \/ Doing({"createWait", "deleteWait", "stop"}) /\ Return("true", Kept)
    /\ Works /\ Asks

NotSeen ==
    /\ At("look") /\ ~Awaited
    /\ LookAgain(Kept) \/ GiveUp(Kept)
    /\ Works /\ Asks

\* A query without stdout raises; an empty one, of a run() that could not log in, is
\* a status that is not Running.
LookFails ==
    /\ At("look") /\ Fails
    /\ Return("raised", Spoilt) \/ (Doing({"make"}) /\ LookAgain(Spoilt))
    /\ Asks

\* The pod's uid and its node's memory manager; then it is on the list.
Affinity ==
    /\ At("affinity")
    /\ \/ /\ Exists(pod[test.name])
          /\ listed' = Append(listed, test.name)
          /\ Return("done", Kept) /\ Works
       \/ ~Exists(pod[test.name]) /\ UNCHANGED listed /\ Return("raised", Kept) /\ Works
       \/ UNCHANGED listed /\ Return("raised", Spoilt) /\ Fails
    /\ UNCHANGED pod /\ OnPods

---------------------------------------------------------------------------
(* The driver.                                                             *)

OnDriver == UNCHANGED <<pod, listed, ops>>

\* A selector that is not there cannot be removed; neither caller looks.
Patch ==
    /\ At("patch") /\ Doing({"stop", "restart"})
    /\ held' = Doing({"stop"})
    /\ Goto("look", [Kept EXCEPT !.sound = AllStay])
    /\ Works /\ UNCHANGED driver /\ OnDriver

PatchFails ==
    /\ At("patch") /\ Fails
    /\ IF Doing({"timer"}) THEN Return("false", Spoilt) ELSE Goto("look", Spoilt)
    /\ Asks

\* change_shm_driver_timer(): a new value is a new template, the value it has is not.
PatchTimer ==
    /\ At("patch") /\ Doing({"timer"})
    /\ driver' \in {driver, [n \in Nodes |-> [driver[n] EXCEPT !.old = Exists(driver[n])]]}
    /\ Goto("rollout", Kept)
    /\ Works /\ UNCHANGED held /\ OnDriver

\* kubectl rollout status: the pods there should be have the template and run, or 60 s.
RolledOut == held \/ \A n \in Nodes : Runs(driver[n]) /\ ~driver[n].old

wait_ds_rollout ==
    /\ At("rollout")
    /\ \/ RolledOut /\ Return("true", Kept) /\ Works
       \/ ~RolledOut /\ Return("false", Spoilt) /\ Fails
    /\ Asks

\* restart_shm_pod() sleeps on.
Settle ==
    /\ At("settle")
    /\ Return("true", Kept)
    /\ Works /\ Asks

---------------------------------------------------------------------------
Test ==
    \/ \E op \in Ops, p \in PodNames \cup {None} : Give(op, p)
    \/ Created \/ Unchanged \/ ApplyFails
    \/ Cleared \/ CheckPod \/ DeleteBegins \/ DeleteRefused \/ Deleted \/ DeleteTimesOut
    \/ Seen \/ NotSeen \/ LookFails \/ Affinity
    \/ Patch \/ PatchFails \/ PatchTimer \/ wait_ds_rollout \/ Settle

Next == Cluster \/ Test

Spec == Init /\ [][Next]_vars

---------------------------------------------------------------------------
(* Properties.                                                             *)

Answered(op, verdict) == At("idle") /\ last.op = op /\ last.verdict = verdict

\* A pod for which create_pod_and_wait_running() said True runs and is the one it
\* created, as long as no other pod's name contains this one's.
\* (kubernetes_basecase.py:266)
CreateIsTrue ==
    Answered("createWait", "true") /\ last.notes.alone =>
        last.notes.made /\ Runs(pod[last.name])

\* A create that follows a delete_pod_and_wait() that said True does not find the old
\* pod: it answers "created".  (kubernetes_basecase.py:333)
FreshStart ==
    At("idle") /\ last.op \in {"create", "createWait"} /\ last.notes.fresh /\ last.notes.clean =>
        last.notes.made

\* Where stop_shm_pod() said True no driver is left, and none comes back before the
\* next restart.  (kubernetes_basecase.py:821)
StopIsTrue ==
    Answered("stop", "true") /\ last.notes.clean => \A n \in Nodes : ~Exists(driver[n])

\* Where restart_shm_pod() said True every node has a driver that runs and stays, if
\* none was on its way out when the selector was removed.  (kubernetes_basecase.py:842)
RestartIsTrue ==
    Answered("restart", "true") /\ last.notes.clean /\ last.notes.sound =>
        \A n \in Nodes : Runs(driver[n])

\* What the answers say of the cluster is true when they are given and stays true.
VerdictsAreTrue == CreateIsTrue /\ FreshStart /\ StopIsTrue /\ RestartIsTrue

\* clear_test_pod() goes through if each pod of the list is there and listed once, and
\* then nothing is left, on the list or in the cluster.  (kubernetes_basecase.py:1678)
ClearIsComplete ==
    At("idle") /\ last.op = "clear" /\ last.notes.clean =>
        /\ last.notes.sound => last.verdict = "done"
        /\ last.verdict = "done" =>
              listed = <<>> /\ \A p \in last.notes.goal : ~Exists(pod[p])
=============================================================================
