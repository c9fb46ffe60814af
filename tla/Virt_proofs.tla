---------------------------- MODULE Virt_proofs ----------------------------
(***************************************************************************)
(* UBS-Virt.  What KubernetesBaseCase says of pods and of the driver is    *)
(* true, and clearing is complete: the theorems behind the properties of   *)
(* Pods, for any pods, names, nodes, waits and bounds.  What               *)
(* OpenStackBaseCase creates a server with is free and of the right node:  *)
(* the theorems behind the properties of VmSetup.                          *)
(***************************************************************************)
EXTENDS Pods, VmSetup, FiniteSetTheorems, SequenceTheorems, WellFoundedInduction, TLAPS

\* Which operations can be at which statement.
Places ==
    /\ At("idle") => test = NoTest
    /\ At("apply") => Doing({"create", "createWait", "make"})
    /\ At("look") => Doing({"createWait", "deleteWait", "make", "stop", "restart"})
    /\ At("affinity") => Doing({"make"})
    /\ At("check") => Doing({"drop", "clear"})
    /\ At("delete") \/ At("deleting") => Doing({"delete", "deleteWait", "drop", "clear"})
    /\ At("patch") => Doing(DriverOps)
    /\ At("settle") => Doing({"restart"})
    /\ At("rollout") => Doing({"timer"})
    /\ Doing(PodOps) => test.name \in PodNames
    /\ Doing({"clear"}) /\ ~At("check") => test.todo # << >>

\* Every pod of the list took a create_pod() of its own.
OwnRoom == Len(listed) <= (IF Doing({"make"}) THEN ops - 1 ELSE ops)

Typed == TypeOK /\ Places /\ OwnRoom

-----------------------------------------------------------------------------
(* Types                                                                   *)


\* A list without the first of the pods that are e.
LEMMA RemoveIs ==
    ASSUME NEW S, NEW s \in Seq(S), NEW e
    PROVE  LET I == {i \in 1 .. Len(s) : s[i] = e}
           IN RemoveFirst(s, e) = IF I = {} THEN s ELSE RemoveAt(s, Min(I))
<1> DEFINE I == {i \in 1 .. Len(s) : s[i] = e}
           T(v) == v = e
<1>1. RemoveFirst(s, e) = IF \E i \in 1 .. Len(s) : s[i] = e
                          THEN RemoveAt(s, SelectInSeq(s, T)) ELSE s
  BY Zenon DEF RemoveFirst
<1>2. SelectInSeq(s, T) = IF I # {} THEN Min(I) ELSE 0 BY Zenon DEF SelectInSeq
<1>3. I = {} <=> ~\E i \in 1 .. Len(s) : s[i] = e OBVIOUS
<1> QED BY <1>1, <1>2, <1>3, Zenon

\* A set of natural numbers has a least one.
LEMMA MinIs ==
    ASSUME NEW I, I \subseteq Nat, I # {}
    PROVE  Min(I) \in I /\ \A y \in I : Min(I) <= y
<1> DEFINE Less == {ss \in Nat \X Nat : ss[1] < ss[2]}
<1>1. IsWellFoundedOn(Less, Nat)
  <2>1. OpToRel(<, Nat) = Less BY Zenon DEF OpToRel
  <2> QED BY <2>1, NatLessThanWellFounded, Zenon
<1> HIDE DEF Less
<1>2. \E x \in I : \A y \in I : <<y, x>> \notin Less BY <1>1, WFMin
<1>3. PICK x \in I : \A y \in I : <<y, x>> \notin Less BY <1>2
<1>4. ASSUME NEW y \in I PROVE x <= y
  <2>1. <<y, x>> \notin Less /\ x \in Nat /\ y \in Nat BY <1>3
  <2>2. ~(y < x) BY <2>1 DEF Less
  <2> QED BY <2>1, <2>2
<1> QED BY <1>3, <1>4 DEF Min

\* What removing an element leaves is no longer than the list.
LEMMA RemoveType ==
    ASSUME NEW S, NEW s \in Seq(S), NEW e
    PROVE  RemoveFirst(s, e) \in Seq(S) /\ Len(RemoveFirst(s, e)) <= Len(s)
<1> DEFINE I == {i \in 1 .. Len(s) : s[i] = e}
           k == Min(I)
           n == Len(s)
           a == SubSeq(s, 1, k - 1)
           b == SubSeq(s, k + 1, n)
<1>1. n \in Nat /\ \A i \in 1 .. n : s[i] \in S OBVIOUS
<1>r. RemoveFirst(s, e) = IF I = {} THEN s ELSE RemoveAt(s, k) BY RemoveIs
<1>2. CASE I = {} BY <1>1, <1>2, <1>r
<1>3. CASE I # {}
  <2>0. I \subseteq Nat OBVIOUS
  <2>1. k \in I BY <1>3, <2>0, MinIs
  <2>2. k \in 1 .. n BY <2>1
  <2>3. RemoveFirst(s, e) = a \o b BY <1>3, <1>r DEF RemoveAt
  <2> HIDE DEF k, n, I
  <2>4. a \in Seq(S) /\ Len(a) = k - 1
    <3>1. 1 \in Int /\ k - 1 \in Int /\ \A i \in 1 .. k - 1 : s[i] \in S BY <1>1, <2>2
    <3>2. a \in Seq(S) /\ Len(a) = IF 1 <= k - 1 THEN k - 1 - 1 + 1 ELSE 0
      BY <3>1, SubSeqProperties
    <3> QED BY <2>2, <1>1, <3>2
  <2>5. b \in Seq(S) /\ Len(b) = n - k
    <3>1. k + 1 \in Int /\ n \in Int /\ \A i \in k + 1 .. n : s[i] \in S BY <1>1, <2>2
    <3>2. b \in Seq(S) /\ Len(b) = IF k + 1 <= n THEN n - (k + 1) + 1 ELSE 0
      BY <3>1, SubSeqProperties
    <3> QED BY <2>2, <1>1, <3>2
  <2> HIDE DEF a, b
  <2>6. a \o b \in Seq(S) /\ Len(a \o b) = Len(a) + Len(b) BY <2>4, <2>5, ConcatProperties
  <2>7. Len(a \o b) <= n BY <1>1, <2>2, <2>4, <2>5, <2>6
  <2> QED BY <2>3, <2>6, <2>7 DEF n
<1> QED BY <1>2, <1>3

\* The first of a list is the one that is removed.
LEMMA RemoveHead ==
    ASSUME NEW S, NEW s \in Seq(S), s # << >>
    PROVE  RemoveFirst(s, Head(s)) = Tail(s)
<1> DEFINE I == {i \in 1 .. Len(s) : s[i] = Head(s)}
<1>1. Len(s) \in Nat /\ Len(s) # 0 /\ Head(s) = s[1] OBVIOUS
<1>2. 1 \in I /\ I \subseteq Nat BY <1>1
<1>3. Min(I) \in I /\ \A y \in I : Min(I) <= y BY <1>2, MinIs
<1>4. Min(I) = 1 BY <1>2, <1>3
<1>5. RemoveFirst(s, Head(s)) = RemoveAt(s, 1) BY <1>2, <1>4, RemoveIs
<1>6. SubSeq(s, 1, 1 - 1) = << >> BY SubSeqEmpty
<1>7. SubSeq(s, 1 + 1, Len(s)) = Tail(s) BY TailIsSubSeq
<1>8. Tail(s) \in Seq(S) BY HeadTailProperties
<1> QED BY <1>5, <1>6, <1>7, <1>8, ConcatEmptySeq DEF RemoveAt

PodPCs == {"idle", "apply", "look", "affinity", "check", "delete", "deleting",
            "patch", "settle", "rollout"}
Verdicts == {None, "true", "false", "raised", "done"}
Tests == [pc : PodPCs, op : Ops \cup {None}, name : PodNames \cup {None},
          looks : 0..(Looks - 1), todo : Seq(PodNames), notes : Notes]
Returns == [op : Ops \cup {None}, name : PodNames \cup {None}, notes : Notes,
            verdict : Verdicts]
Drivers == [phase : Phases, ending : BOOLEAN, old : BOOLEAN]

\* TypeOK with these names.
LEMMA TypeIs ==
    TypeOK <=> /\ pod \in [PodNames -> Pod]
               /\ driver \in [Nodes -> Drivers]
               /\ held \in BOOLEAN
               /\ listed \in Seq(PodNames) /\ Len(listed) <= MaxOps
               /\ test \in Tests
               /\ last \in Returns
               /\ ops \in 0..MaxOps
               /\ failures \in 0..MaxFailures
BY DEF TypeOK, Tests, Returns, Drivers, PodPCs, Verdicts

\* No operation.
LEMMA NoneType == NoNotes \in Notes /\ NoTest \in Tests /\ NoReturn \in Returns
<1>1. NoNotes \in Notes BY DEF NoNotes, Notes
<1>2. 0 \in 0..(Looks - 1) BY PodsAssumption
<1>3. << >> \in Seq(PodNames) OBVIOUS
<1> DEFINE e == << >>
<1> HIDE DEF e
<1>4. NoTest \in Tests BY <1>1, <1>2, <1>3 DEF NoTest, Tests, PodPCs
<1>5. NoReturn \in Returns BY <1>1 DEF NoReturn, Returns, Verdicts
<1> QED BY <1>1, <1>4, <1>5

\* What a step that goes on leaves of the operation.
LEMMA GotoIs ==
    ASSUME test \in Tests, NEW pc \in PodPCs, NEW notes \in Notes, Goto(pc, notes)
    PROVE  /\ test' \in Tests /\ last' = last
           /\ test'.pc = pc /\ test'.notes = notes
           /\ test'.op = test.op /\ test'.name = test.name /\ test'.todo = test.todo
<1>1. 0 \in 0..(Looks - 1) BY PodsAssumption
<1> QED BY <1>1 DEF Goto, Tests

\* What a step that ends the operation says of it.
LEMMA ReturnIs ==
    ASSUME test \in Tests, NEW verdict \in Verdicts, NEW notes \in Notes,
           Return(verdict, notes)
    PROVE  /\ test' = NoTest /\ test' \in Tests /\ last' \in Returns
           /\ last'.op = test.op /\ last'.name = test.name
           /\ last'.verdict = verdict /\ last'.notes = notes
BY NoneType DEF Return, Tests, Returns

\* Another look.
LEMMA LookAgainIs ==
    ASSUME test \in Tests, NEW notes \in Notes, LookAgain(notes)
    PROVE  /\ test' \in Tests /\ last' = last
           /\ test'.pc = test.pc /\ test'.notes = notes
           /\ test'.op = test.op /\ test'.name = test.name /\ test'.todo = test.todo
<1>1. test.looks + 1 \in 0..(Looks - 1) BY PodsAssumption DEF LookAgain, Tests
<1> QED BY <1>1 DEF LookAgain, Tests

\* The notes an operation goes on with.
LEMMA NotesAre ==
    ASSUME test \in Tests
    PROVE  /\ Kept \in Notes /\ Spoilt \in Notes /\ Made \in Notes
           /\ ~Spoilt.clean /\ Spoilt.made = Kept.made /\ Spoilt.alone = Kept.alone
           /\ Spoilt.fresh = Kept.fresh /\ Spoilt.sound = Kept.sound
           /\ Spoilt.goal = Kept.goal
           /\ Made.made /\ Made.clean = Kept.clean /\ Made.alone = Kept.alone
           /\ Made.fresh = Kept.fresh /\ Made.sound = Kept.sound /\ Made.goal = Kept.goal
BY DEF Tests, Kept, Spoilt, Made, Notes

\* An operation goes on or ends.
Goes ==
    \/ /\ test'.pc # "idle" /\ last' = last
       /\ test'.op = test.op /\ test'.name = test.name
    \/ test' = NoTest /\ last'.op = test.op /\ last'.name = test.name

\* The pod that is to be deleted.
LEMMA SubjectType ==
    ASSUME Typed, At("check") \/ At("delete") \/ At("deleting"),
           ~(Doing({"clear"}) /\ test.todo = << >>)
    PROVE  Subject \in PodNames /\ (Doing({"clear"}) => Subject = Head(test.todo))
<1>1. test \in Tests BY TypeIs DEF Typed
<1>2. test.todo \in Seq(PodNames) BY <1>1 DEF Tests
<1>3. CASE Doing({"clear"})
  <2>1. Head(test.todo) \in PodNames BY <1>2, <1>3
  <2> QED BY <1>3, <2>1 DEF Subject
<1>4. CASE ~Doing({"clear"})
  <2>1. Doing(PodOps) BY <1>4 DEF Typed, Places, Doing, At, PodOps
  <2> QED BY <1>4, <2>1 DEF Subject, Typed, Places
<1> QED BY <1>3, <1>4

\* kubectl delete has answered, or nothing came back.
LEMMA AfterDeleteIs ==
    ASSUME Typed, At("delete") \/ At("deleting"), NEW verdict \in Verdicts,
           NEW notes \in Notes, AfterDelete(verdict, notes)
    PROVE  /\ test' \in Tests /\ last' \in Returns /\ Goes
           /\ listed' \in Seq(PodNames) /\ Len(listed') <= Len(listed)
           /\ \/ Doing({"delete"}) /\ test' = NoTest
              \/ Doing({"deleteWait"}) /\ test'.pc = "look"
              \/ Doing({"drop"}) /\ test' = NoTest
              \/ /\ Doing({"clear"}) /\ test'.pc = "check" /\ test'.notes = notes
                 /\ test'.todo = Tail(test.todo) /\ listed' = RemoveFirst(listed, Head(test.todo))
           /\ test'.pc = "look" => test'.notes = notes
<1>1. /\ test \in Tests /\ last \in Returns /\ listed \in Seq(PodNames)
      /\ test.todo \in Seq(PodNames) /\ Len(listed) <= Len(listed)
  BY TypeIs DEF Typed, Tests
<1>2. CASE Doing({"delete"}) /\ Return(verdict, notes) /\ UNCHANGED listed
  BY <1>1, <1>2, ReturnIs DEF Goes, NoTest
<1>3. CASE Doing({"deleteWait"}) /\ Goto("look", notes) /\ UNCHANGED listed
  BY <1>1, <1>3, GotoIs DEF Goes, PodPCs
<1>4. CASE Doing({"drop"}) /\ Return("done", notes) /\ listed' = RemoveFirst(listed, test.name)
  <2>1. listed' \in Seq(PodNames) /\ Len(listed') <= Len(listed) BY <1>1, <1>4, RemoveType
  <2>2. "done" \in Verdicts BY DEF Verdicts
  <2> QED BY <1>1, <1>4, <2>1, <2>2, ReturnIs DEF Goes, NoTest
<1>5. CASE /\ Doing({"clear"})
           /\ listed' = RemoveFirst(listed, Subject)
           /\ test' = [test EXCEPT !.pc = "check", !.todo = Tail(@), !.notes = notes]
           /\ UNCHANGED last
  <2>1. test.todo # << >> BY <1>5 DEF Typed, Places, At
  <2>2. Tail(test.todo) \in Seq(PodNames) BY <1>1, <2>1, HeadTailProperties
  <2>3. Subject = Head(test.todo) BY <1>5 DEF Subject
  <2>4. listed' \in Seq(PodNames) /\ Len(listed') <= Len(listed) BY <1>1, <1>5, RemoveType
  <2> DEFINE rest == Tail(test.todo)
  <2>5. test' = [test EXCEPT !.pc = "check", !.todo = rest, !.notes = notes] BY <1>5
  <2>6. rest \in Seq(PodNames) BY <2>2
  <2> HIDE DEF rest
  <2>7. /\ test' \in Tests /\ test'.pc = "check" /\ test'.op = test.op /\ test'.name = test.name
        /\ test'.todo = rest /\ test'.notes = notes
    BY <1>1, <2>5, <2>6 DEF Tests, PodPCs
  <2> QED BY <1>1, <1>5, <2>3, <2>4, <2>7 DEF Goes, rest
<1> QED BY <1>2, <1>3, <1>4, <1>5 DEF AfterDelete

Gone(p) == ~Exists(pod[p])
Stays(p) == Exists(pod[p]) /\ ~pod[p].ending

\* The cluster by itself makes no pod and takes none away that may stay.
PodsGoOn == \A p \in PodNames :
    /\ Gone(p) => Gone(p)'
    /\ Stays(p) => Stays(p)'
    /\ Runs(pod[p]) => Runs(pod'[p])

\* Nor any of the driver's, unless they are to go or have an old template, and it makes
\* none while no node is eligible.
DriversGoOn ==
    /\ held' = held
    /\ held /\ (\A n \in Nodes : ~Exists(driver[n])) => \A n \in Nodes : ~Exists(driver'[n])
    /\ ~held => \A n \in Nodes :
         ~driver[n].ending /\ ~driver[n].old =>
            /\ ~driver'[n].ending /\ ~driver'[n].old
            /\ Runs(driver[n]) => Runs(driver'[n])

\* A pod that runs now.
LEMMA NowRuns ==
    /\ \A x \in Pod : [x EXCEPT !.phase = "Running"] = [phase |-> "Running", ending |-> x.ending]
    /\ \A x \in Drivers : [x EXCEPT !.phase = "Running"]
                              = [phase |-> "Running", ending |-> x.ending, old |-> x.old]
BY DEF Pod, Drivers

\* What the cluster does to pods and drivers.
LEMMA ClusterIs ==
    ASSUME Typed, Cluster
    PROVE  /\ pod' \in [PodNames -> Pod] /\ driver' \in [Nodes -> Drivers]
           /\ UNCHANGED <<held, listed, test, last, ops, failures>>
           /\ PodsGoOn /\ DriversGoOn
<1>0. pod \in [PodNames -> Pod] /\ driver \in [Nodes -> Drivers] BY TypeIs DEF Typed
<1>1. ASSUME NEW p \in PodNames, NEW q \in Pod, pod' = [pod EXCEPT ![p] = q], OfPods,
             \/ pod[p] = NewPod /\ q = [phase |-> "Running", ending |-> FALSE]
             \/ pod[p].ending /\ q = NoPod
      PROVE  /\ pod' \in [PodNames -> Pod] /\ driver' \in [Nodes -> Drivers]
             /\ UNCHANGED <<held, listed, test, last, ops, failures>>
             /\ PodsGoOn /\ DriversGoOn
  <2>1. pod' \in [PodNames -> Pod] /\ driver' = driver BY <1>0, <1>1 DEF OfPods
  <2>2. PodsGoOn
    <3> SUFFICES ASSUME NEW r \in PodNames
                 PROVE  /\ Gone(r) => Gone(r)'
                        /\ Stays(r) => Stays(r)'
                        /\ Runs(pod[r]) => Runs(pod'[r])
      BY DEF PodsGoOn
    <3>1. pod'[r] = IF r = p THEN q ELSE pod[r] BY <1>0, <1>1
    <3> QED BY <1>1, <3>1 DEF Gone, Stays, Runs, Exists, NewPod, NoPod, None
  <2> QED BY <1>0, <1>1, <2>1, <2>2 DEF OfPods, DriversGoOn
<1>2. ASSUME NEW n \in Nodes, NEW d \in Drivers, driver' = [driver EXCEPT ![n] = d], OfDriver,
             \/ driver[n] = NoDriver /\ ~held /\ d = NewDriver
             \/ /\ driver[n].phase = "Pending" /\ ~driver[n].ending
                /\ d = [phase |-> "Running", ending |-> FALSE, old |-> driver[n].old]
             \/ (held \/ driver[n].old) /\ Exists(driver[n])
             \/ driver[n].ending /\ d = NoDriver
      PROVE  /\ pod' \in [PodNames -> Pod] /\ driver' \in [Nodes -> Drivers]
             /\ UNCHANGED <<held, listed, test, last, ops, failures>>
             /\ PodsGoOn /\ DriversGoOn
  <2>1. driver' \in [Nodes -> Drivers] /\ pod' = pod /\ held' = held BY <1>0, <1>2 DEF OfDriver
  <2>2. \A m \in Nodes : driver'[m] = IF m = n THEN d ELSE driver[m] BY <1>0, <1>2
  <2>3. held /\ (\A m \in Nodes : ~Exists(driver[m])) => \A m \in Nodes : ~Exists(driver'[m])
    BY <1>2, <2>2 DEF Exists, NoDriver, None
  <2>4. ~held => \A m \in Nodes :
          ~driver[m].ending /\ ~driver[m].old =>
            /\ ~driver'[m].ending /\ ~driver'[m].old
            /\ Runs(driver[m]) => Runs(driver'[m])
    BY <1>2, <2>2 DEF Runs, NewDriver, NoDriver, None
  <2>5. PodsGoOn BY <2>1 DEF PodsGoOn, Gone, Stays
  <2> QED BY <1>0, <1>2, <2>1, <2>3, <2>4, <2>5 DEF OfDriver, DriversGoOn
<1>3. ASSUME NEW p \in PodNames, PodRuns(p) \/ PodGone(p)
      PROVE  \E q \in Pod : /\ pod' = [pod EXCEPT ![p] = q] /\ OfPods
                            /\ \/ pod[p] = NewPod /\ q = [phase |-> "Running", ending |-> FALSE]
                               \/ pod[p].ending /\ q = NoPod
  <2>1. CASE PodRuns(p)
    <3> DEFINE q == [phase |-> "Running", ending |-> FALSE]
    <3>1. q \in Pod BY DEF Pod, Phases
    <3>a. pod[p] = NewPod BY <2>1, Zenon DEF PodRuns
    <3>b. pod[p] \in Pod BY <1>0
    <3>c. NewPod.ending = FALSE BY DEF NewPod
    <3>0. pod[p].ending = FALSE BY <3>a, <3>c, Zenon
    <3>2. [pod[p] EXCEPT !.phase = "Running"] = q BY <3>0, <3>b, NowRuns
    <3>3. pod' = [pod EXCEPT ![p] = q] BY <1>0, <2>1, <3>2 DEF PodRuns
    <3> QED BY <2>1, <3>1, <3>3 DEF PodRuns
  <2>2. CASE PodGone(p)
    <3>1. NoPod \in Pod BY DEF NoPod, Pod, Phases
    <3> QED BY <2>2, <3>1 DEF PodGone
  <2> QED BY <1>3, <2>1, <2>2
<1>4. ASSUME NEW n \in Nodes,
             DriverCreated(n) \/ DriverRuns(n) \/ DriverRetired(n) \/ DriverGone(n)
      PROVE  \E d \in Drivers :
                /\ driver' = [driver EXCEPT ![n] = d] /\ OfDriver
                /\ \/ driver[n] = NoDriver /\ ~held /\ d = NewDriver
                   \/ /\ driver[n].phase = "Pending" /\ ~driver[n].ending
                      /\ d = [phase |-> "Running", ending |-> FALSE, old |-> driver[n].old]
                   \/ (held \/ driver[n].old) /\ Exists(driver[n])
                   \/ driver[n].ending /\ d = NoDriver
  <2>0. driver[n] \in Drivers BY <1>0
  <2>1. CASE DriverCreated(n)
    <3>1. NewDriver \in Drivers BY DEF NewDriver, Drivers, Phases
    <3> QED BY <2>1, <3>1 DEF DriverCreated
  <2>2. CASE DriverRuns(n)
    <3> DEFINE d == [phase |-> "Running", ending |-> FALSE, old |-> driver[n].old]
    <3>1. d \in Drivers BY <2>0 DEF Drivers, Phases
    <3>0. driver[n].ending = FALSE BY <2>0, <2>2 DEF DriverRuns, Drivers
    <3>2. [driver[n] EXCEPT !.phase = "Running"] = d BY <2>0, <3>0, NowRuns
    <3>3. driver' = [driver EXCEPT ![n] = d] BY <1>0, <2>2, <3>2 DEF DriverRuns
    <3> QED BY <2>2, <3>1, <3>3 DEF DriverRuns
  <2>3. CASE DriverRetired(n)
    <3> DEFINE d == [driver[n] EXCEPT !.ending = TRUE]
    <3>1. d \in Drivers BY <2>0 DEF Drivers
    <3>2. driver' = [driver EXCEPT ![n] = d] BY <1>0, <2>3 DEF DriverRetired
    <3> QED BY <2>3, <3>1, <3>2 DEF DriverRetired
  <2>4. CASE DriverGone(n)
    <3>1. NoDriver \in Drivers BY DEF NoDriver, Drivers, Phases
    <3> QED BY <2>4, <3>1 DEF DriverGone
  <2> QED BY <1>4, <2>1, <2>2, <2>3, <2>4
<1> QED BY <1>1, <1>2, <1>3, <1>4 DEF Cluster

\* The cluster keeps its records.
LEMMA ClusterTyped == ASSUME Typed, Cluster PROVE Typed'
<1>1. TypeOK' BY ClusterIs, TypeIs DEF Typed, TypeOK, Drivers
<1> QED BY <1>1, ClusterIs DEF Typed, Places, OwnRoom, At, Doing

\* A case calls an operation.
LEMMA GiveTyped ==
    ASSUME Typed, NEW op \in Ops, NEW p \in PodNames \cup {None}, Give(op, p)
    PROVE  Typed'
<1>1. /\ test \in Tests /\ last \in Returns /\ listed \in Seq(PodNames)
      /\ Len(listed) \in Nat /\ Len(listed) <= ops /\ ops \in 0 .. MaxOps /\ MaxOps \in Nat
  <2>1. ~Doing({"make"}) BY DEF Typed, Places, Give, NoTest, Doing, None, At
  <2> QED BY <2>1, TypeIs, PodsAssumption DEF Typed, OwnRoom
<1>2. op \in PodOps => p \in PodNames BY DEF Give, None
<1>3. ops' \in 0 .. MaxOps /\ ops' = ops + 1 BY <1>1 DEF Give
<1> DEFINE queue == IF op = "clear" THEN listed ELSE <<>>
           goal == IF op = "clear" THEN ToSet(listed) ELSE {}
           notes == [clean |-> TRUE, made |-> FALSE, sound |-> AllThereOnce,
                     alone |-> p # None => Alone(p),
                     fresh |-> last.op = "deleteWait" /\ last.name = p /\ last.verdict = "true",
                     goal |-> goal]
<1>4. queue \in Seq(PodNames) BY <1>1
<1>5. goal \in SUBSET PodNames BY <1>1 DEF ToSet
<1>6. notes \in Notes
  <2>1. AllThereOnce \in BOOLEAN /\ (p # None => Alone(p)) \in BOOLEAN
    BY DEF AllThereOnce, Alone, IsInjective
  <2> HIDE DEF goal
  <2> QED BY <1>5, <2>1 DEF Notes
<1>7. FirstStep(op) \in PodPCs \ {"idle", "look", "deleting", "affinity", "settle", "rollout"}
  BY DEF FirstStep, PodPCs, Ops, PodOps, DriverOps
<1>8. 0 \in 0 .. (Looks - 1) BY PodsAssumption
<1>9. test' = [pc |-> FirstStep(op), op |-> op, name |-> p, looks |-> 0,
               todo |-> queue, notes |-> notes]
  BY DEF Give
<1> HIDE DEF queue, notes
<1>10. /\ test' \in Tests /\ test'.pc = FirstStep(op) /\ test'.op = op /\ test'.name = p
  BY <1>4, <1>6, <1>7, <1>8, <1>9 DEF Tests
<1>11. TypeOK' BY <1>3, <1>10, TypeIs DEF Typed, TypeOK, Give, Tests, PodPCs, Verdicts, Returns
<1>12. Places'
  BY <1>2, <1>7, <1>10 DEF Places, At, Doing, FirstStep, Ops, PodOps, DriverOps
<1>13. OwnRoom' BY <1>1, <1>3, <1>10 DEF OwnRoom, Doing, Give
<1> QED BY <1>11, <1>12, <1>13 DEF Typed

\* A step of an operation keeps the types if what it writes has them.
LEMMA KeepsType ==
    ASSUME Typed, Goes, Places', test' \in Tests, last' \in Returns,
           pod' \in [PodNames -> Pod], driver' \in [Nodes -> Drivers], held' \in BOOLEAN,
           listed' \in Seq(PodNames), Len(listed') <= Len(listed), ops' = ops, Works \/ Fails
    PROVE  Typed'
<1>1. failures' \in 0..MaxFailures
  <2>1. failures \in 0..MaxFailures /\ MaxFailures \in Nat BY TypeIs, PodsAssumption DEF Typed
  <2> QED BY <2>1 DEF Works, Fails
<1>2. /\ Len(listed) \in Nat /\ Len(listed') \in Nat /\ ops \in 0..MaxOps /\ MaxOps \in Nat
      /\ Len(listed) <= MaxOps
  BY TypeIs, PodsAssumption DEF Typed
<1>3. OwnRoom'
  <2>0. NoTest.op # "make" BY DEF NoTest, None
  <2>1. test'.op = test.op \/ test'.op # "make" BY <2>0, Zenon DEF Goes
  <2>2. Len(listed) <= (IF test.op = "make" THEN ops - 1 ELSE ops)
    BY Zenon DEF Typed, OwnRoom, Doing
  <2>3. Len(listed') <= (IF test'.op = "make" THEN ops' - 1 ELSE ops') BY <1>2, <2>1, <2>2
  <2> QED BY <2>3, Zenon DEF OwnRoom, Doing
<1>4. TypeOK' BY <1>1, <1>2 DEF TypeOK, Tests, Returns, Drivers, PodPCs, Verdicts
<1> QED BY <1>3, <1>4 DEF Typed

\* Where an operation that goes on may be.
LEMMA PlacedAt ==
    ASSUME Typed, test'.op = test.op, test'.name = test.name, test'.todo = test.todo,
           \/ test'.pc = "look" /\ Doing({"createWait", "deleteWait", "make", "stop", "restart"})
           \/ test'.pc = "affinity" /\ Doing({"make"})
           \/ /\ test'.pc \in {"delete", "deleting"}
              /\ Doing({"delete", "deleteWait", "drop", "clear"})
              /\ Doing({"clear"}) => test.todo # << >>
           \/ test'.pc = "settle" /\ Doing({"restart"})
           \/ test'.pc = "rollout" /\ Doing({"timer"})
    PROVE  Places' /\ test'.pc # "idle"
BY DEF Typed, Places, At, Doing

\* Nothing is under way when an operation has ended.
LEMMA PlacedIdle == ASSUME test' = NoTest PROVE Places'
BY DEF Places, At, Doing, NoTest, None, PodOps

\* The steps of an operation.
Step ==
    \/ Created \/ Unchanged \/ ApplyFails
    \/ Cleared \/ CheckPod \/ DeleteBegins \/ DeleteRefused \/ Deleted \/ DeleteTimesOut
    \/ Seen \/ NotSeen \/ LookFails \/ Affinity
    \/ Patch \/ PatchFails \/ PatchTimer \/ wait_ds_rollout \/ Settle

\* What a step that asks, and goes on at pc or ends, keeps.
LEMMA AsksTyped ==
    ASSUME Typed, Asks, Works \/ Fails, NEW notes \in Notes,
           \/ \E v \in Verdicts : Return(v, notes)
           \/ \E pc \in PodPCs : Goto(pc, notes) /\ Places' /\ pc # "idle"
           \/ LookAgain(notes) /\ At("look")
    PROVE  Typed' /\ Goes
<1>1. /\ test \in Tests /\ last \in Returns /\ pod \in [PodNames -> Pod]
      /\ driver \in [Nodes -> Drivers] /\ held \in BOOLEAN /\ listed \in Seq(PodNames)
  BY TypeIs DEF Typed
<1>2. CASE \E v \in Verdicts : Return(v, notes)
  <2>1. PICK v \in Verdicts : Return(v, notes) BY <1>2
  <2>2. /\ test' = NoTest /\ test' \in Tests /\ last' \in Returns
        /\ last'.op = test.op /\ last'.name = test.name
    BY <1>1, <2>1, ReturnIs
  <2>3. Places' /\ Goes BY <2>2, PlacedIdle DEF Goes
  <2>4. Len(listed) <= Len(listed) BY <1>1
  <2> QED BY <1>1, <2>2, <2>3, <2>4, KeepsType DEF Asks
<1>3. CASE \E pc \in PodPCs : Goto(pc, notes) /\ Places' /\ pc # "idle"
  <2>1. PICK pc \in PodPCs : Goto(pc, notes) /\ Places' /\ pc # "idle" BY <1>3
  <2>2. /\ test' \in Tests /\ last' = last /\ test'.pc # "idle"
        /\ test'.op = test.op /\ test'.name = test.name
    BY <1>1, <2>1, GotoIs
  <2>3. Places' /\ Goes BY <2>1, <2>2 DEF Goes
  <2>4. Len(listed) <= Len(listed) BY <1>1
  <2> QED BY <1>1, <2>2, <2>3, <2>4, KeepsType DEF Asks
<1>4. CASE LookAgain(notes) /\ At("look")
  <2>1. /\ test' \in Tests /\ last' = last /\ test'.pc = "look"
        /\ test'.op = test.op /\ test'.name = test.name /\ test'.todo = test.todo
    BY <1>1, <1>4, LookAgainIs DEF At
  <2>2. Doing({"createWait", "deleteWait", "make", "stop", "restart"})
    BY <1>4 DEF Typed, Places
  <2>3. Places' /\ Goes BY <2>1, <2>2, PlacedAt DEF Goes
  <2>4. Len(listed) <= Len(listed) BY <1>1
  <2> QED BY <1>1, <2>1, <2>3, <2>4, KeepsType DEF Asks
<1> QED BY <1>2, <1>3, <1>4

\* kubectl apply has answered, or nothing came back.
LEMMA ApplyTyped == ASSUME Typed, Created \/ Unchanged \/ ApplyFails PROVE Typed' /\ Goes
<1>1. /\ test \in Tests /\ last \in Returns /\ pod \in [PodNames -> Pod]
      /\ driver \in [Nodes -> Drivers] /\ held \in BOOLEAN /\ listed \in Seq(PodNames)
      /\ Len(listed) <= Len(listed)
  BY TypeIs DEF Typed
<1>2. /\ Doing({"create", "createWait", "make"}) /\ test.name \in PodNames
      /\ Doing({"create"}) \/ Doing({"createWait", "make"})
  BY DEF Typed, Places, Created, Unchanged, ApplyFails, Doing, PodOps
<1>3. "true" \in Verdicts /\ "false" \in Verdicts /\ "raised" \in Verdicts /\ "look" \in PodPCs
  BY DEF Verdicts, PodPCs
<1>4. CASE Created
  <2>1. pod' \in [PodNames -> Pod]
    <3>1. NewPod \in Pod BY DEF NewPod, Pod, Phases
    <3> QED BY <1>1, <1>4, <3>1 DEF Created
  <2>2. test' \in Tests /\ last' \in Returns /\ Goes /\ Places'
    <3>1. CASE Doing({"create"}) /\ Return("true", Made)
      BY <1>1, <1>3, <3>1, ReturnIs, NotesAre, PlacedIdle DEF Goes
    <3>2. CASE Doing({"createWait", "make"}) /\ Goto("look", Made)
      <4>1. /\ test' \in Tests /\ last' = last /\ test'.pc = "look"
            /\ test'.op = test.op /\ test'.name = test.name /\ test'.todo = test.todo
        BY <1>1, <1>3, <3>2, GotoIs, NotesAre
      <4>2. Doing({"createWait", "deleteWait", "make", "stop", "restart"}) BY <3>2 DEF Doing
      <4> QED BY <1>1, <4>1, <4>2, PlacedAt DEF Goes
    <3> QED BY <1>2, <1>4, <3>1, <3>2, Zenon DEF Created
  <2>3. UNCHANGED <<driver, held, listed, ops>> /\ (Works \/ Fails) BY <1>4 DEF Created, OnPods
  <2> QED BY <1>1, <2>1, <2>2, <2>3, KeepsType
<1>5. CASE Unchanged \/ ApplyFails
  <2>1. PICK notes \in Notes :
           \/ \E v \in Verdicts : Return(v, notes)
           \/ Goto("look", notes) /\ Doing({"make"})
    <3>1. Kept \in Notes /\ Spoilt \in Notes BY <1>1, NotesAre
    <3> QED BY <1>3, <1>5, <3>1, Zenon DEF Unchanged, ApplyFails
  <2>2. ASSUME Goto("look", notes), Doing({"make"}) PROVE Places'
    <3>1. Doing({"createWait", "deleteWait", "make", "stop", "restart"}) BY <2>2 DEF Doing
    <3> QED BY <1>1, <1>3, <2>2, <3>1, GotoIs, PlacedAt
  <2>3. Asks /\ (Works \/ Fails) BY <1>5, Zenon DEF Unchanged, ApplyFails
  <2> QED BY <1>3, <2>1, <2>2, <2>3, AsksTyped
<1> QED BY <1>4, <1>5

\* A pod is to be deleted, and deleted.
LEMMA DeleteTyped ==
    ASSUME Typed, \/ Cleared \/ CheckPod \/ DeleteBegins \/ DeleteRefused \/ Deleted
                  \/ DeleteTimesOut
    PROVE  Typed' /\ Goes
<1>1. /\ test \in Tests /\ last \in Returns /\ pod \in [PodNames -> Pod]
      /\ driver \in [Nodes -> Drivers] /\ held \in BOOLEAN /\ listed \in Seq(PodNames)
      /\ Len(listed) <= Len(listed) /\ Kept \in Notes /\ Spoilt \in Notes
  BY TypeIs, NotesAre DEF Typed
<1>2. /\ "true" \in Verdicts /\ "false" \in Verdicts /\ "raised" \in Verdicts
      /\ "done" \in Verdicts /\ "delete" \in PodPCs /\ "deleting" \in PodPCs
  BY DEF Verdicts, PodPCs
<1>3. CASE Cleared \/ DeleteTimesOut
  <2>1. Asks /\ (Works \/ Fails) BY <1>3 DEF Cleared, DeleteTimesOut
  <2>2. \E notes \in Notes : \E v \in Verdicts : Return(v, notes)
    BY <1>1, <1>2, <1>3, Zenon DEF Cleared, DeleteTimesOut
  <2> QED BY <2>1, <2>2, AsksTyped
<1>4. CASE CheckPod
  <2>1. Asks /\ (Works \/ Fails) BY <1>4 DEF CheckPod
  <2>2. PICK notes \in Notes : Goto("delete", notes) \/ \E v \in Verdicts : Return(v, notes)
    BY <1>1, <1>2, <1>4, Zenon DEF CheckPod
  <2>3. ASSUME Goto("delete", notes) PROVE Places'
    <3>1. /\ Doing({"delete", "deleteWait", "drop", "clear"})
          /\ Doing({"clear"}) => test.todo # << >>
      BY <1>4 DEF CheckPod, Typed, Places, Doing
    <3>2. /\ test'.pc = "delete" /\ test'.op = test.op /\ test'.name = test.name
          /\ test'.todo = test.todo
      BY <1>1, <1>2, <2>3, GotoIs
    <3> QED BY <3>1, <3>2, PlacedAt
  <2> QED BY <1>2, <2>1, <2>2, <2>3, AsksTyped
<1>5. CASE DeleteBegins
  <2>1. Subject \in PodNames BY <1>5, SubjectType DEF DeleteBegins, Typed, Places, At
  <2>2. pod' \in [PodNames -> Pod]
    <3> DEFINE q == [pod[Subject] EXCEPT !.ending = TRUE]
    <3>1. q \in Pod
      <4>1. pod[Subject] \in Pod BY <1>1, <2>1
      <4> QED BY <4>1 DEF Pod
    <3>2. pod' = [pod EXCEPT ![Subject] = q] BY <1>5 DEF DeleteBegins
    <3> QED BY <1>1, <3>1, <3>2
  <2>3. /\ test' \in Tests /\ last' = last /\ test'.pc = "deleting"
        /\ test'.op = test.op /\ test'.name = test.name /\ test'.todo = test.todo
    BY <1>1, <1>2, <1>5, GotoIs DEF DeleteBegins
  <2>4. /\ Doing({"delete", "deleteWait", "drop", "clear"})
        /\ Doing({"clear"}) => test.todo # << >>
    BY <1>5 DEF DeleteBegins, Typed, Places, At
  <2>5. Places' /\ Goes BY <2>3, <2>4, PlacedAt DEF Goes
  <2> QED BY <1>1, <1>5, <2>2, <2>3, <2>5, KeepsType DEF DeleteBegins, OnPods
<1>6. CASE DeleteRefused \/ Deleted
  <2>1. At("delete") \/ At("deleting") BY <1>6 DEF DeleteRefused, Deleted
  <2>2. PICK verdict \in Verdicts, notes \in Notes : AfterDelete(verdict, notes)
    BY <1>1, <1>2, <1>6, Zenon DEF DeleteRefused, Deleted
  <2>3. /\ test' \in Tests /\ last' \in Returns /\ Goes
        /\ listed' \in Seq(PodNames) /\ Len(listed') <= Len(listed)
        /\ \/ test' = NoTest
           \/ Doing({"deleteWait"}) /\ test'.pc = "look"
           \/ Doing({"clear"}) /\ test'.pc = "check"
    BY <2>1, <2>2, AfterDeleteIs, Zenon
  <2>4. Places'
    <3>1. CASE test' = NoTest BY <3>1, PlacedIdle
    <3>2. CASE test' # NoTest
      BY <2>3, <3>2 DEF Goes, Places, Typed, At, Doing, PodOps
    <3> QED BY <3>1, <3>2
  <2> QED BY <1>1, <1>6, <2>3, <2>4, KeepsType DEF DeleteRefused, Deleted, OnPods
<1> QED BY <1>3, <1>4, <1>5, <1>6

\* A wait looks, and a pod gets on the list.
LEMMA LookTyped ==
    ASSUME Typed, Seen \/ NotSeen \/ LookFails \/ Affinity \/ Settle \/ wait_ds_rollout
    PROVE  Typed' /\ Goes
<1>1. /\ test \in Tests /\ last \in Returns /\ pod \in [PodNames -> Pod]
      /\ driver \in [Nodes -> Drivers] /\ held \in BOOLEAN /\ listed \in Seq(PodNames)
      /\ Kept \in Notes /\ Spoilt \in Notes
  BY TypeIs, NotesAre DEF Typed
<1>2. /\ "true" \in Verdicts /\ "false" \in Verdicts /\ "raised" \in Verdicts
      /\ "done" \in Verdicts /\ "affinity" \in PodPCs /\ "settle" \in PodPCs
  BY DEF Verdicts, PodPCs
<1>3. ASSUME NEW notes \in Notes, GiveUp(notes) PROVE \E v \in Verdicts : Return(v, notes)
  BY <1>2, <1>3, Zenon DEF GiveUp
<1>4. CASE Settle \/ wait_ds_rollout
  <2>1. Asks /\ (Works \/ Fails) BY <1>4 DEF Settle, wait_ds_rollout
  <2>2. \E notes \in Notes : \E v \in Verdicts : Return(v, notes)
    BY <1>1, <1>2, <1>4, Zenon DEF Settle, wait_ds_rollout
  <2> QED BY <2>1, <2>2, AsksTyped
<1>5. CASE NotSeen \/ LookFails
  <2>1. Asks /\ (Works \/ Fails) /\ At("look") BY <1>5 DEF NotSeen, LookFails
  <2>2. \E notes \in Notes : LookAgain(notes) \/ \E v \in Verdicts : Return(v, notes)
    BY <1>1, <1>2, <1>3, <1>5, Zenon DEF NotSeen, LookFails
  <2> QED BY <2>1, <2>2, AsksTyped
<1>6. CASE Seen
  <2>1. Asks /\ (Works \/ Fails) BY <1>6, Zenon DEF Seen
  <2>2. \/ Return("true", Kept)
        \/ Goto("affinity", Kept) /\ Doing({"make"})
        \/ Goto("settle", Kept) /\ Doing({"restart"})
    BY <1>6, Zenon DEF Seen
  <2>3. ASSUME Goto("affinity", Kept), Doing({"make"}) PROVE Places'
    BY <1>1, <1>2, <2>3, GotoIs, PlacedAt
  <2>4. ASSUME Goto("settle", Kept), Doing({"restart"}) PROVE Places'
    BY <1>1, <1>2, <2>4, GotoIs, PlacedAt
  <2> QED BY <1>1, <1>2, <2>1, <2>2, <2>3, <2>4, AsksTyped
<1>7. CASE Affinity
  <2>1. CASE Asks /\ (Works \/ Fails) /\ \E notes \in Notes : \E v \in Verdicts : Return(v, notes)
    BY <2>1, AsksTyped
  <2>2. CASE /\ listed' = Append(listed, test.name)
             /\ Return("done", Kept) /\ Works /\ UNCHANGED pod /\ OnPods
    <3>1. Doing({"make"}) /\ test.name \in PodNames
      BY <1>7 DEF Affinity, Typed, Places, Doing, PodOps
    <3>2. /\ test' = NoTest /\ test' \in Tests /\ last' \in Returns
          /\ last'.op = test.op /\ last'.name = test.name
      BY <1>1, <1>2, <2>2, ReturnIs
    <3>3. Places' BY <3>2, PlacedIdle
    <3>4. /\ Len(listed) \in Nat /\ ops \in 0..MaxOps /\ MaxOps \in Nat
          /\ Len(listed) <= ops - 1
      BY <3>1, TypeIs, PodsAssumption DEF Typed, OwnRoom
    <3>5. listed' \in Seq(PodNames) /\ Len(listed') = Len(listed) + 1 BY <1>1, <2>2, <3>1
    <3>6. /\ pod' \in [PodNames -> Pod] /\ driver' \in [Nodes -> Drivers] /\ held' \in BOOLEAN
          /\ ops' = ops /\ failures' = failures /\ failures \in 0..MaxFailures
      BY <1>1, <2>2, TypeIs DEF OnPods, Works, Typed
    <3>7. TypeOK' BY <3>2, <3>4, <3>5, <3>6 DEF TypeOK, Tests, Returns, Drivers, PodPCs, Verdicts
    <3>8. OwnRoom'
      <4>1. NoTest.op # "make" BY DEF NoTest, None
      <4>2. Len(listed') <= (IF test'.op = "make" THEN ops' - 1 ELSE ops')
        BY <3>2, <3>4, <3>5, <3>6, <4>1
      <4> QED BY <4>2, Zenon DEF OwnRoom, Doing
    <3> QED BY <3>2, <3>3, <3>7, <3>8 DEF Typed, Goes
  <2>3. \/ /\ listed' = Append(listed, test.name)
           /\ Return("done", Kept) /\ Works /\ UNCHANGED pod /\ OnPods
        \/ /\ UNCHANGED listed /\ UNCHANGED pod /\ OnPods /\ (Works \/ Fails)
           /\ Return("raised", Kept) \/ Return("raised", Spoilt)
    BY <1>7, Zenon DEF Affinity
  <2>4. UNCHANGED listed /\ UNCHANGED pod /\ OnPods => Asks BY DEF OnPods, Asks
  <2> QED BY <1>1, <1>2, <2>1, <2>2, <2>3, <2>4
<1> QED BY <1>4, <1>5, <1>6, <1>7

\* The DaemonSet is patched.
LEMMA PatchTyped ==
    ASSUME Typed, Patch \/ PatchFails \/ PatchTimer
    PROVE  Typed' /\ Goes
<1>1. /\ test \in Tests /\ last \in Returns /\ pod \in [PodNames -> Pod]
      /\ driver \in [Nodes -> Drivers] /\ held \in BOOLEAN /\ listed \in Seq(PodNames)
      /\ Len(listed) <= Len(listed) /\ Kept \in Notes /\ Spoilt \in Notes
  BY TypeIs, NotesAre DEF Typed
<1>2. "false" \in Verdicts /\ "look" \in PodPCs /\ "rollout" \in PodPCs BY DEF Verdicts, PodPCs
<1>3. CASE Patch
  <2> DEFINE notes == [Kept EXCEPT !.sound = AllStay]
  <2>1. notes \in Notes
    <3>1. AllStay \in BOOLEAN BY DEF AllStay
    <3> QED BY <1>1, <3>1 DEF Notes
  <2>2. Goto("look", notes) BY <1>3 DEF Patch
  <2> HIDE DEF notes
  <2>3. /\ test' \in Tests /\ last' = last /\ test'.pc = "look"
        /\ test'.op = test.op /\ test'.name = test.name /\ test'.todo = test.todo
    BY <1>1, <1>2, <2>1, <2>2, GotoIs
  <2>4. Doing({"createWait", "deleteWait", "make", "stop", "restart"}) BY <1>3 DEF Patch, Doing
  <2>5. Places' /\ Goes BY <2>3, <2>4, PlacedAt DEF Goes
  <2>6. held' \in BOOLEAN BY <1>3 DEF Patch, Doing
  <2>7. UNCHANGED <<pod, driver, listed, ops>> /\ Works BY <1>3 DEF Patch, OnDriver
  <2> QED BY <1>1, <2>3, <2>5, <2>6, <2>7, KeepsType
<1>4. CASE PatchFails
  <2>1. Asks /\ Fails BY <1>4 DEF PatchFails
  <2>2. Return("false", Spoilt) \/ (Goto("look", Spoilt) /\ ~Doing({"timer"}))
    BY <1>4, Zenon DEF PatchFails
  <2>3. ASSUME Goto("look", Spoilt), ~Doing({"timer"}) PROVE Places'
    <3>1. Doing({"createWait", "deleteWait", "make", "stop", "restart"})
      BY <1>4, <2>3 DEF PatchFails, Typed, Places, Doing, DriverOps
    <3> QED BY <1>1, <1>2, <2>3, <3>1, GotoIs, PlacedAt
  <2> QED BY <1>1, <1>2, <2>1, <2>2, <2>3, AsksTyped
<1>5. CASE PatchTimer
  <2>1. driver' \in [Nodes -> Drivers]
    <3>1. \A n \in Nodes : [driver[n] EXCEPT !.old = Exists(driver[n])] \in Drivers
      <4> SUFFICES ASSUME NEW n \in Nodes
                   PROVE  [driver[n] EXCEPT !.old = Exists(driver[n])] \in Drivers
        OBVIOUS
      <4>1. driver[n] \in Drivers /\ Exists(driver[n]) \in BOOLEAN BY <1>1 DEF Exists
      <4> QED BY <4>1 DEF Drivers
    <3> DEFINE f == [n \in Nodes |-> [driver[n] EXCEPT !.old = Exists(driver[n])]]
    <3>2. f \in [Nodes -> Drivers] BY <3>1
    <3>3. driver' = driver \/ driver' = f BY <1>5 DEF PatchTimer
    <3> QED BY <1>1, <3>2, <3>3
  <2>2. /\ test' \in Tests /\ last' = last /\ test'.pc = "rollout"
        /\ test'.op = test.op /\ test'.name = test.name /\ test'.todo = test.todo
    BY <1>1, <1>2, <1>5, GotoIs DEF PatchTimer
  <2>3. Doing({"timer"}) BY <1>5 DEF PatchTimer
  <2>4. Places' /\ Goes BY <2>2, <2>3, PlacedAt DEF Goes
  <2>5. UNCHANGED <<pod, held, listed, ops>> /\ Works BY <1>5 DEF PatchTimer, OnDriver
  <2> QED BY <1>1, <2>1, <2>2, <2>4, <2>5, KeepsType
<1> QED BY <1>3, <1>4, <1>5

\* Every step of an operation keeps the types.
LEMMA StepTyped == ASSUME Typed, Step PROVE Typed' /\ Goes
BY ApplyTyped, DeleteTyped, LookTyped, PatchTyped, Zenon DEF Step

\* The records are what they are said to be.
LEMMA AlwaysTyped == Spec => []Typed
<1>1. Init => Typed
  <2> SUFFICES ASSUME Init PROVE Typed
    OBVIOUS
  <2> DEFINE q == [phase |-> "Running", ending |-> FALSE]
             d == [phase |-> "Running", ending |-> FALSE, old |-> FALSE]
  <2>1. q \in Pod /\ NoPod \in Pod /\ d \in Drivers BY DEF Pod, NoPod, Drivers, Phases
  <2>2. pod \in [PodNames -> Pod]
    <3>1. pod \in [PodNames -> {NoPod, q}] BY DEF Init
    <3> HIDE DEF q
    <3> QED BY <2>1, <3>1
  <2>3. driver \in [Nodes -> Drivers]
    <3>1. driver = [n \in Nodes |-> d] BY DEF Init
    <3> HIDE DEF d
    <3> QED BY <2>1, <3>1
  <2>4. /\ held \in BOOLEAN /\ listed = << >> /\ test = NoTest /\ last = NoReturn
        /\ ops = 0 /\ failures = 0 /\ MaxOps \in Nat /\ MaxFailures \in Nat
    BY PodsAssumption DEF Init
  <2>5. listed \in Seq(PodNames) /\ Len(listed) = 0 BY <2>4
  <2>6. TypeOK BY <2>2, <2>3, <2>4, <2>5, TypeIs, NoneType
  <2>7. Places BY <2>4 DEF Places, At, Doing, NoTest, None, PodOps
  <2>8. OwnRoom
    <3>1. NoTest.op # "make" BY DEF NoTest, None
    <3>2. Len(listed) <= (IF test.op = "make" THEN ops - 1 ELSE ops) BY <2>4, <2>5, <3>1
    <3> QED BY <3>2, Zenon DEF OwnRoom, Doing
  <2> QED BY <2>6, <2>7, <2>8 DEF Typed
<1>2. Typed /\ [Next]_vars => Typed'
  <2> SUFFICES ASSUME Typed, [Next]_vars PROVE Typed'
    OBVIOUS
  <2>1. CASE UNCHANGED vars
    BY <2>1 DEF vars, Typed, TypeOK, Places, OwnRoom, At, Doing
  <2>2. CASE Cluster BY <2>2, ClusterTyped
  <2>3. ASSUME NEW op \in Ops, NEW p \in PodNames \cup {None}, Give(op, p) PROVE Typed'
    BY <2>3, GiveTyped
  <2>4. CASE Step BY <2>4, StepTyped
  <2>5. Cluster \/ (\E op \in Ops, p \in PodNames \cup {None} : Give(op, p)) \/ Step
        \/ UNCHANGED vars
    BY Zenon DEF Next, Test, Step
  <2> QED BY <2>1, <2>2, <2>3, <2>4, <2>5
<1> QED BY <1>1, <1>2, PTL DEF Spec

\* What the tests and the cluster keep of a pod, a driver, an operation and an answer has
\* its type, and the list its bound.
THEOREM TypeCorrect == Spec => []TypeOK
<1>1. Typed => TypeOK BY DEF Typed
<1> QED BY <1>1, AlwaysTyped, PTL

-----------------------------------------------------------------------------
(* What is said of a pod                                                   *)

\* What a pod operation may rely on.
Promised ==
    Doing(PodOps) =>
        /\ Kept.alone => Alone(test.name)
        /\ At("apply") /\ Kept.fresh => Gone(test.name)
        /\ At("look") /\ Doing({"createWait"}) => Kept.made /\ Stays(test.name)

\* What has been said of a pod.
Said ==
    At("idle") =>
        /\ last.op \in {"create", "createWait", "deleteWait"} => last.name \in PodNames
        /\ last.op = "deleteWait" /\ last.verdict = "true" => Gone(last.name)
        /\ CreateIsTrue /\ FreshStart

\* The same of a pod after a step.
AloneThen(p) == \A q \in Matching[p] \ {p} : ~Exists(pod'[q])
GoneThen(p) == ~Exists(pod'[p])
StaysThen(p) == Exists(pod'[p]) /\ ~pod'[p].ending

\* Other operations promise nothing of a pod.
LEMMA OthersSayNothing ==
    ASSUME Typed, Goes, test.op \notin PodOps
    PROVE  Promised' /\ Said'
<1>1. test'.op \notin PodOps
  <2>1. NoTest.op \notin PodOps BY DEF NoTest, None, PodOps
  <2> QED BY <2>1, Zenon DEF Goes
<1>2. Promised' BY <1>1, Zenon DEF Promised, Doing
<1>3. test'.pc = "idle" => last'.op \notin PodOps BY DEF Goes
<1> QED BY <1>2, <1>3 DEF Said, At, CreateIsTrue, FreshStart, Answered, PodOps

\* What a pod operation promises while it goes on.
LEMMA PromisesKept ==
    ASSUME test'.pc \notin {"idle", "apply"}, test'.op = test.op, test'.name = test.name,
           Doing(PodOps), Promised, test'.notes.alone = Kept.alone,
           Kept.alone /\ Alone(test.name) => AloneThen(test.name),
           test'.pc = "look" /\ Doing({"createWait"}) =>
              test'.notes.made /\ StaysThen(test.name)
    PROVE  Promised' /\ Said'
BY DEF Promised, Said, Doing, At, Kept, Alone, Stays, AloneThen, StaysThen

\* What a pod operation says in the end.
LEMMA SaidInTheEnd ==
    ASSUME Typed, test' = NoTest, last'.op = test.op, last'.name = test.name, Doing(PodOps),
           last'.verdict = "true" /\ Doing({"deleteWait"}) => GoneThen(test.name),
           last'.verdict = "true" /\ Doing({"createWait"}) =>
              (last'.notes.alone => last'.notes.made /\ Runs(pod'[test.name])),
           Doing({"create", "createWait"}) =>
              (last'.notes.fresh /\ last'.notes.clean => last'.notes.made)
    PROVE  Promised' /\ Said'
<1>1. NoTest.op \notin PodOps BY DEF NoTest, None, PodOps
<1>2. test.name \in PodNames BY DEF Typed, Places
<1>3. Promised' BY <1>1, Zenon DEF Promised, Doing
<1>4. Said'
  <2>1. last'.op = "deleteWait" /\ last'.verdict = "true" => ~Exists(pod'[last'.name])
    BY DEF Doing, GoneThen
  <2>2. last'.op = "createWait" /\ last'.verdict = "true" /\ last'.notes.alone
          => last'.notes.made /\ Runs(pod'[last'.name])
    BY DEF Doing
  <2>3. last'.op \in {"create", "createWait"} /\ last'.notes.fresh /\ last'.notes.clean
          => last'.notes.made
    BY DEF Doing
  <2>4. last'.name \in PodNames BY <1>2
  <2>5. CreateIsTrue' BY <2>2, Zenon DEF CreateIsTrue, Answered
  <2>6. FreshStart' BY <2>3, Zenon DEF FreshStart
  <2> QED BY <2>1, <2>4, <2>5, <2>6, Zenon DEF Said, Gone
<1> QED BY <1>3, <1>4

\* Other pods stay away when only this one changes.
LEMMA AloneStays ==
    ASSUME NEW p \in PodNames, NEW q, pod \in [PodNames -> Pod], pod' = [pod EXCEPT ![p] = q],
           Alone(p)
    PROVE  AloneThen(p)
<1> SUFFICES ASSUME NEW r \in Matching[p] \ {p} PROVE ~Exists(pod'[r])
  BY DEF AloneThen
<1>1. r \in PodNames /\ ~Exists(pod[r]) BY PodsAssumption DEF Alone
<1> QED BY <1>1

\* kubectl apply says "created" of a pod that was not there.
LEMMA ApplySays ==
    ASSUME Typed, Promised, Created \/ Unchanged \/ ApplyFails
    PROVE  Promised' /\ Said'
<1>1. /\ test \in Tests /\ pod \in [PodNames -> Pod] /\ Kept \in Notes /\ Spoilt \in Notes
      /\ Made \in Notes /\ ~Spoilt.clean /\ Spoilt.alone = Kept.alone
      /\ Made.made /\ Made.alone = Kept.alone
  BY TypeIs, NotesAre DEF Typed
<1>2. /\ "true" \in Verdicts /\ "false" \in Verdicts /\ "raised" \in Verdicts /\ "look" \in PodPCs
      /\ "true" # "false" /\ "true" # "raised"
  BY DEF Verdicts, PodPCs
<1>3. /\ Doing({"create", "createWait", "make"}) /\ Doing(PodOps) /\ test.name \in PodNames
      /\ At("apply")
  BY DEF Typed, Places, Created, Unchanged, ApplyFails, Doing, PodOps
<1>4. CASE Created
  <2>1. pod'[test.name] = NewPod /\ StaysThen(test.name)
    <3>1. pod'[test.name] = NewPod BY <1>1, <1>3, <1>4 DEF Created
    <3>2. Exists(NewPod) /\ ~NewPod.ending BY DEF Exists, NewPod, None
    <3> QED BY <3>1, <3>2, Zenon DEF StaysThen
  <2>2. Alone(test.name) => AloneThen(test.name)
    BY <1>1, <1>3, <1>4, AloneStays, Zenon DEF Created
  <2>3. CASE Doing({"create"}) /\ Return("true", Made)
    <3>1. /\ test' = NoTest /\ last'.op = test.op /\ last'.name = test.name
          /\ last'.verdict = "true" /\ last'.notes = Made
      BY <1>1, <1>2, <2>3, ReturnIs
    <3>2. ~Doing({"deleteWait"}) /\ ~Doing({"createWait"}) BY <2>3 DEF Doing
    <3> QED BY <1>1, <1>3, <3>1, <3>2, SaidInTheEnd
  <2>4. CASE Doing({"createWait", "make"}) /\ Goto("look", Made)
    <3>1. /\ test'.pc = "look" /\ test'.notes = Made
          /\ test'.op = test.op /\ test'.name = test.name
      BY <1>1, <1>2, <2>4, GotoIs
    <3> QED BY <1>1, <1>3, <2>1, <2>2, <3>1, PromisesKept
  <2>5. Doing({"create"}) \/ Doing({"createWait", "make"}) BY <1>3 DEF Doing
  <2> QED BY <1>4, <2>3, <2>4, <2>5, Zenon DEF Created
<1>5. CASE Unchanged \/ ApplyFails
  <2>0. pod' = pod BY <1>5 DEF Unchanged, ApplyFails, Asks
  <2>1. Alone(test.name) => AloneThen(test.name) BY <2>0 DEF Alone, AloneThen
  <2>2. CASE Doing({"make"}) /\ (Goto("look", Kept) \/ Goto("look", Spoilt))
    <3>1. /\ test'.pc = "look" /\ test'.notes.alone = Kept.alone
          /\ test'.op = test.op /\ test'.name = test.name
      BY <1>1, <1>2, <2>2, GotoIs
    <3>2. ~Doing({"createWait"}) BY <2>2 DEF Doing
    <3> QED BY <1>1, <1>3, <2>1, <3>1, <3>2, PromisesKept
  <2>3. CASE Unchanged /\ Return("false", Kept)
    <3>1. /\ test' = NoTest /\ last'.op = test.op /\ last'.name = test.name
          /\ last'.verdict = "false" /\ last'.notes = Kept
      BY <1>1, <1>2, <2>3, ReturnIs
    <3>2. ~Kept.fresh
      <4>1. Kept.fresh => Gone(test.name) BY <1>3 DEF Promised
      <4>2. Exists(pod[test.name]) BY <2>3 DEF Unchanged
      <4> QED BY <4>1, <4>2, Zenon DEF Gone
    <3> QED BY <1>2, <1>3, <3>1, <3>2, SaidInTheEnd
  <2>4. CASE Return("raised", Spoilt)
    <3>1. /\ test' = NoTest /\ last'.op = test.op /\ last'.name = test.name
          /\ last'.verdict = "raised" /\ last'.notes = Spoilt
      BY <1>1, <1>2, <2>4, ReturnIs
    <3> QED BY <1>1, <1>2, <1>3, <3>1, SaidInTheEnd
  <2> QED BY <1>5, <2>2, <2>3, <2>4, Zenon DEF Unchanged, ApplyFails
<1> QED BY <1>4, <1>5

\* What each wait awaits.
LEMMA AwaitedIs ==
    ASSUME Awaited
    PROVE  /\ Doing({"createWait"}) => wait_for_pod_running
           /\ Doing({"deleteWait"}) => wait_for_pod_deleted
           /\ Doing({"stop"}) => DriverList(FALSE) = {}
           /\ Doing({"restart"}) => Cardinality(DriverList(TRUE)) = Cardinality(Nodes)
<1>1. CASE test.op = "createWait" BY <1>1 DEF Awaited, Doing
<1>2. CASE test.op = "deleteWait" BY <1>2 DEF Awaited, Doing
<1>3. CASE test.op = "stop" BY <1>3 DEF Awaited, Doing
<1>4. CASE test.op = "restart" BY <1>4 DEF Awaited, Doing
<1> QED BY <1>1, <1>2, <1>3, <1>4 DEF Doing

\* kubectl delete promises nothing until the wait has seen the pod gone.
LEMMA DeleteSays ==
    ASSUME Typed, Promised, Doing(PodOps),
           Cleared \/ CheckPod \/ DeleteBegins \/ DeleteRefused \/ Deleted \/ DeleteTimesOut
    PROVE  Promised' /\ Said'
<1>1. /\ test \in Tests /\ pod \in [PodNames -> Pod] /\ Kept \in Notes /\ Spoilt \in Notes
      /\ Spoilt.alone = Kept.alone
  BY TypeIs, NotesAre DEF Typed
<1>2. /\ "true" \in Verdicts /\ "false" \in Verdicts /\ "raised" \in Verdicts
      /\ "done" \in Verdicts /\ "delete" \in PodPCs /\ "deleting" \in PodPCs /\ "look" \in PodPCs
  BY DEF Verdicts, PodPCs
<1>3. /\ test.name \in PodNames /\ Subject = test.name
      /\ Doing({"delete", "deleteWait", "drop"})
      /\ ~Doing({"clear"}) /\ ~Doing({"createWait"}) /\ ~Doing({"create", "createWait"})
  BY DEF Typed, Places, Cleared, CheckPod, DeleteBegins, DeleteRefused, Deleted, DeleteTimesOut,
         Doing, PodOps, Subject
<1>4. ASSUME NEW notes \in Notes, Goto("delete", notes) \/ Goto("deleting", notes),
             notes.alone = Kept.alone, Alone(test.name) => AloneThen(test.name)
      PROVE  Promised' /\ Said'
  <2>1. /\ test'.pc \in {"delete", "deleting"} /\ test'.notes.alone = Kept.alone
        /\ test'.op = test.op /\ test'.name = test.name
    BY <1>1, <1>2, <1>4, GotoIs
  <2> QED BY <1>3, <1>4, <2>1, PromisesKept
<1>5. ASSUME NEW notes \in Notes, NEW verdict \in Verdicts, Return(verdict, notes),
             verdict # "true" \/ ~Doing({"deleteWait"})
      PROVE  Promised' /\ Said'
  <2>1. /\ test' = NoTest /\ last'.op = test.op /\ last'.name = test.name
        /\ last'.verdict = verdict
    BY <1>1, <1>5, ReturnIs
  <2> QED BY <1>3, <1>5, <2>1, SaidInTheEnd
<1>6. CASE Cleared BY <1>3, <1>6 DEF Cleared
<1>7. CASE CheckPod
  <2>1. Alone(test.name) => AloneThen(test.name) BY <1>7 DEF CheckPod, Asks, Alone, AloneThen
  <2>2. Goto("delete", Kept) \/ Return("raised", Kept) \/ Return("raised", Spoilt)
    BY <1>7, Zenon DEF CheckPod
  <2>3. "raised" # "true" OBVIOUS
  <2> QED BY <1>1, <1>2, <1>4, <1>5, <2>1, <2>2, <2>3
<1>8. CASE DeleteBegins
  <2>1. Alone(test.name) => AloneThen(test.name)
    BY <1>1, <1>3, <1>8, AloneStays, Zenon DEF DeleteBegins
  <2> QED BY <1>1, <1>4, <1>8, <2>1 DEF DeleteBegins
<1>9. CASE DeleteTimesOut
  BY <1>1, <1>2, <1>5, <1>9 DEF DeleteTimesOut
<1>10. CASE DeleteRefused \/ Deleted
  <2>1. Alone(test.name) => AloneThen(test.name)
    BY <1>10 DEF DeleteRefused, Deleted, Alone, AloneThen
  <2>2. PICK verdict \in Verdicts, notes \in Notes :
           AfterDelete(verdict, notes) /\ notes.alone = Kept.alone
    BY <1>1, <1>2, <1>10, Zenon DEF DeleteRefused, Deleted
  <2>3. CASE Doing({"delete"}) /\ Return(verdict, notes)
    BY <1>5, <2>3 DEF Doing
  <2>4. CASE Doing({"drop"}) /\ Return("done", notes)
    BY <1>2, <1>5, <2>4 DEF Doing
  <2>5. CASE Doing({"deleteWait"}) /\ Goto("look", notes)
    <3>1. /\ test'.pc = "look" /\ test'.notes.alone = Kept.alone
          /\ test'.op = test.op /\ test'.name = test.name
      BY <1>1, <1>2, <2>2, <2>5, GotoIs
    <3> QED BY <1>3, <2>1, <3>1, PromisesKept
  <2> QED BY <1>3, <2>2, <2>3, <2>4, <2>5, Zenon DEF AfterDelete
<1> QED BY <1>6, <1>7, <1>8, <1>9, <1>10

\* A wait says what it has seen.
LEMMA LookSays ==
    ASSUME Typed, Promised, Doing(PodOps), Seen \/ NotSeen \/ LookFails \/ Affinity
    PROVE  Promised' /\ Said'
<1>1. /\ test \in Tests /\ pod \in [PodNames -> Pod] /\ Kept \in Notes /\ Spoilt \in Notes
      /\ Spoilt.alone = Kept.alone /\ Spoilt.made = Kept.made /\ ~Spoilt.clean
      /\ test.name \in PodNames
  BY TypeIs, NotesAre DEF Typed, Places
<1>2. /\ "true" \in Verdicts /\ "false" \in Verdicts /\ "raised" \in Verdicts
      /\ "done" \in Verdicts /\ "affinity" \in PodPCs
  BY DEF Verdicts, PodPCs
<1>3. pod' = pod BY DEF Seen, NotSeen, LookFails, Affinity, Asks
<1>4. Alone(test.name) => AloneThen(test.name) BY <1>3 DEF Alone, AloneThen
<1>5. ASSUME NEW notes \in Notes, NEW verdict \in Verdicts, Return(verdict, notes),
             verdict # "true", Doing({"create", "createWait"}) => notes.made
      PROVE  Promised' /\ Said'
  <2>1. /\ test' = NoTest /\ last'.op = test.op /\ last'.name = test.name
        /\ last'.verdict = verdict /\ last'.notes = notes
    BY <1>1, <1>5, ReturnIs
  <2> QED BY <1>1, <1>5, <2>1, SaidInTheEnd
<1>6. CASE Affinity
  <2>1. Doing({"make"}) BY <1>6 DEF Affinity, Typed, Places
  <2>2. ~Doing({"create", "createWait"}) BY <2>1 DEF Doing
  <2>3. Return("done", Kept) \/ Return("raised", Kept) \/ Return("raised", Spoilt)
    BY <1>6, Zenon DEF Affinity
  <2> QED BY <1>1, <1>2, <1>5, <2>2, <2>3
<1>7. ASSUME At("look")
      PROVE  /\ Doing({"create", "createWait"}) => Kept.made
             /\ Doing({"createWait"}) => Stays(test.name)
  BY <1>7 DEF Promised, Typed, Places, Doing
<1>8. CASE NotSeen \/ LookFails
  <2>1. At("look") BY <1>8 DEF NotSeen, LookFails
  <2>2. PICK notes \in Notes :
           /\ LookAgain(notes) \/ Return("raised", notes) \/ Return("false", notes)
           /\ notes.alone = Kept.alone /\ notes.made = Kept.made
    <3>1. \A notes \in Notes : GiveUp(notes) => Return("raised", notes) \/ Return("false", notes)
      BY Zenon DEF GiveUp
    <3> QED BY <1>1, <1>8, <3>1, Zenon DEF NotSeen, LookFails
  <2>3. CASE LookAgain(notes)
    <3>1. /\ test'.pc = "look" /\ test'.notes = notes
          /\ test'.op = test.op /\ test'.name = test.name
      BY <1>1, <2>1, <2>3, LookAgainIs DEF At
    <3>2. Doing({"createWait"}) => Kept.made /\ StaysThen(test.name)
      BY <1>3, <1>7, <2>1 DEF Stays, StaysThen, Doing
    <3> QED BY <1>1, <1>4, <2>2, <3>1, <3>2, PromisesKept
  <2>4. "raised" # "true" /\ "false" # "true" OBVIOUS
  <2> QED BY <1>2, <1>5, <1>7, <2>1, <2>2, <2>3, <2>4
<1>9. CASE Seen
  <2>1. At("look") /\ Awaited BY <1>9 DEF Seen
  <2>2. CASE Doing({"make"}) /\ Goto("affinity", Kept)
    <3>1. /\ test'.pc = "affinity" /\ test'.notes = Kept
          /\ test'.op = test.op /\ test'.name = test.name
      BY <1>1, <1>2, <2>2, GotoIs
    <3> QED BY <1>1, <1>4, <3>1, PromisesKept
  <2>3. CASE Doing({"createWait", "deleteWait", "stop"}) /\ Return("true", Kept)
    <3>1. /\ test' = NoTest /\ last'.op = test.op /\ last'.name = test.name
          /\ last'.verdict = "true" /\ last'.notes = Kept
      BY <1>1, <1>2, <2>3, ReturnIs
    <3>2. Doing({"deleteWait"}) => GoneThen(test.name)
      <4> SUFFICES ASSUME Doing({"deleteWait"}) PROVE ~Exists(pod[test.name])
        BY <1>3 DEF GoneThen
      <4>1. PodList(test.name, FALSE) = {} BY <2>1, AwaitedIs DEF wait_for_pod_deleted
      <4>2. test.name \in Matching[test.name] BY <1>1, PodsAssumption
      <4> QED BY <4>1, <4>2 DEF PodList
    <3>3. Doing({"createWait"}) /\ Kept.alone => Runs(pod'[test.name])
      <4> SUFFICES ASSUME Doing({"createWait"}), Kept.alone PROVE Runs(pod[test.name])
        BY <1>3
      <4>1. Cardinality(PodList(test.name, TRUE)) = 1
        BY <2>1, AwaitedIs DEF wait_for_pod_running
      <4>a. Cardinality({}) # 1
        <5>1. Cardinality({}) = 0 BY FS_EmptySet
        <5> QED BY <5>1
      <4>2. PodList(test.name, TRUE) # {} BY <4>1, <4>a, Zenon
      <4>3. Alone(test.name) BY DEF Promised
      <4>4. \A q \in PodList(test.name, TRUE) :
               q \in Matching[test.name] /\ Exists(pod[q]) /\ InPhase(pod[q])
        BY DEF PodList
      <4>5. InPhase(pod[test.name]) BY <4>2, <4>3, <4>4 DEF Alone
      <4>6. ~pod[test.name].ending BY <1>7, <2>1 DEF Stays
      <4> QED BY <4>5, <4>6 DEF InPhase, Runs
    <3>4. Doing({"create", "createWait"}) => Kept.made BY <1>7, <2>1
    <3>5. Doing({"createWait"}) => Kept.made BY <3>4 DEF Doing
    <3> QED BY <1>1, <3>1, <3>2, <3>3, <3>4, <3>5, SaidInTheEnd
  <2>4. ~Doing({"restart"}) BY DEF Doing, PodOps
  <2> QED BY <1>9, <2>2, <2>3, <2>4, Zenon DEF Seen
<1> QED BY <1>6, <1>8, <1>9

\* The cluster takes no answer back.
LEMMA ClusterSays == ASSUME Typed, Promised, Said, Cluster PROVE Promised' /\ Said'
<1>1. /\ UNCHANGED <<test, last>> /\ PodsGoOn BY ClusterIs
<1>2. \A p \in PodNames : Alone(p) => Alone(p)'
  <2> SUFFICES ASSUME NEW p \in PodNames, Alone(p), NEW q \in Matching[p] \ {p}
               PROVE  ~Exists(pod'[q])
    BY DEF Alone
  <2>1. q \in PodNames /\ Gone(q) BY PodsAssumption DEF Alone, Gone
  <2> QED BY <1>1, <2>1 DEF PodsGoOn, Gone
<1>3. Promised'
  <2>1. Doing(PodOps) => test.name \in PodNames BY DEF Typed, Places
  <2> QED BY <1>1, <1>2, <2>1 DEF Promised, Doing, At, Kept, PodsGoOn, Alone, Gone, Stays
<1>4. Said'
  <2> SUFFICES ASSUME At("idle") PROVE Said'
    BY <1>1 DEF Said, At
  <2>1. FreshStart' BY <1>1 DEF Said, FreshStart, At
  <2>2. CreateIsTrue'
    <3> SUFFICES ASSUME Answered("createWait", "true") /\ last.notes.alone
                 PROVE  last.notes.made /\ Runs(pod'[last.name])
      BY <1>1 DEF CreateIsTrue, Answered, At
    <3>1. /\ last.notes.made /\ Runs(pod[last.name]) /\ last.name \in PodNames
      BY DEF Said, CreateIsTrue, Answered
    <3> QED BY <1>1, <3>1 DEF PodsGoOn
  <2>3. last.op = "deleteWait" /\ last.verdict = "true" => ~Exists(pod'[last.name])
    BY <1>1 DEF Said, PodsGoOn, Gone
  <2> QED BY <1>1, <2>1, <2>2, <2>3 DEF Said, Gone
<1> QED BY <1>3, <1>4

\* A case that calls an operation starts with what it may rely on.
LEMMA GiveSays ==
    ASSUME Typed, Said, NEW op \in Ops, NEW p \in PodNames \cup {None}, Give(op, p)
    PROVE  Promised' /\ Said'
<1>1. /\ test'.pc = FirstStep(op) /\ test'.op = op /\ test'.name = p
      /\ test'.notes.alone = (p # None => Alone(p))
      /\ test'.notes.fresh = (last.op = "deleteWait" /\ last.name = p /\ last.verdict = "true")
  BY DEF Give
<1>2. FirstStep(op) # "idle" /\ FirstStep(op) # "look"
  BY DEF FirstStep, Ops, PodOps, DriverOps
<1>3. Said' BY <1>1, <1>2 DEF Said, At
<1>4. At("idle") /\ pod' = pod /\ (op \in PodOps => p # None) BY DEF Give
<1>5. ASSUME test'.notes.fresh PROVE Gone(p)
  BY <1>1, <1>4, <1>5 DEF Said
<1>6. op \in PodOps /\ test'.notes.alone => AloneThen(p)
  BY <1>1, <1>4 DEF Alone, AloneThen
<1>7. test'.notes.fresh => GoneThen(p) BY <1>4, <1>5 DEF Gone, GoneThen
<1>8. Promised'
  <2> SUFFICES ASSUME op \in PodOps
               PROVE  /\ test'.notes.alone => AloneThen(p)
                      /\ test'.notes.fresh => GoneThen(p)
    BY <1>1, <1>2, Zenon DEF Promised, Doing, At, Kept, Alone, AloneThen, Gone, GoneThen
  <2> QED BY <1>6, <1>7
<1> QED BY <1>3, <1>8

\* What is said of pods is always so.
LEMMA AlwaysSaid == Spec => [](Promised /\ Said)
<1>1. Init => Promised /\ Said
  <2> SUFFICES ASSUME Init PROVE Promised /\ Said
    OBVIOUS
  <2>1. test = NoTest /\ last = NoReturn BY DEF Init
  <2> QED BY <2>1 DEF Promised, Said, CreateIsTrue, FreshStart, Answered, At, Doing, NoTest,
                      NoReturn, None, PodOps
<1>2. Typed /\ Promised /\ Said /\ [Next]_vars => (Promised /\ Said)'
  <2> SUFFICES ASSUME Typed, Promised, Said, [Next]_vars PROVE Promised' /\ Said'
    OBVIOUS
  <2>1. CASE UNCHANGED vars
    BY <2>1 DEF vars, Promised, Said, CreateIsTrue, FreshStart, Answered, At, Doing, Kept, Alone,
                Gone, Stays
  <2>2. CASE Cluster BY <2>2, ClusterSays
  <2>3. ASSUME NEW op \in Ops, NEW p \in PodNames \cup {None}, Give(op, p)
        PROVE  Promised' /\ Said'
    BY <2>3, GiveSays
  <2>4. CASE Step
    <3>1. CASE test.op \notin PodOps BY <2>4, <3>1, StepTyped, OthersSayNothing
    <3>2. CASE Doing(PodOps)
      <4>1. ~(Patch \/ PatchFails \/ PatchTimer \/ wait_ds_rollout \/ Settle)
        BY <3>2 DEF Patch, PatchFails, PatchTimer, wait_ds_rollout, Settle, Typed, Places, Doing,
                    PodOps, DriverOps
      <4> QED BY <2>4, <3>2, <4>1, ApplySays, DeleteSays, LookSays, Zenon DEF Step
    <3> QED BY <3>1, <3>2 DEF Doing
  <2>5. Cluster \/ (\E op \in Ops, p \in PodNames \cup {None} : Give(op, p)) \/ Step
        \/ UNCHANGED vars
    BY Zenon DEF Next, Test, Step
  <2> QED BY <2>1, <2>2, <2>3, <2>4, <2>5
<1> QED BY <1>1, <1>2, AlwaysTyped, PTL DEF Spec

-----------------------------------------------------------------------------
(* What is said of the driver                                              *)

\* While the driver is stopped or restarted, and after.
DriverHolds ==
    /\ At("look") /\ Doing({"stop"}) => (Kept.clean => held)
    /\ (At("look") \/ At("settle")) /\ Doing({"restart"}) /\ Kept.clean /\ Kept.sound =>
         ~held /\ \A n \in Nodes : ~driver[n].ending /\ ~driver[n].old
    /\ At("settle") /\ Kept.clean /\ Kept.sound => \A n \in Nodes : Runs(driver[n])
    /\ Answered("stop", "true") /\ last.notes.clean =>
         held /\ \A n \in Nodes : ~Exists(driver[n])
    /\ Answered("restart", "true") /\ last.notes.clean /\ last.notes.sound =>
         ~held /\ \A n \in Nodes : Runs(driver[n]) /\ ~driver[n].old

\* Other operations say nothing of it.
LEMMA OthersHoldNothing ==
    ASSUME Typed, Typed', Goes, ~Doing({"stop", "restart"})
    PROVE  DriverHolds'
<1>1. ~Doing({"stop", "restart"})' /\ ~At("settle")'
  <2>1. ~Doing({"stop", "restart"})'
    <3>1. NoTest.op \notin {"stop", "restart"} BY DEF NoTest, None
    <3> QED BY <3>1, Zenon DEF Goes, Doing
  <2> QED BY <2>1 DEF Typed, Places, At, Doing
<1>2. test'.pc = "idle" => last'.op = test.op BY DEF Goes
<1>3. ~Answered("stop", "true")' /\ ~Answered("restart", "true")'
  BY <1>2 DEF Answered, At, Doing
<1>4. ~Doing({"stop"})' /\ ~Doing({"restart"})' BY <1>1 DEF Doing
<1> QED BY <1>1, <1>3, <1>4, Zenon DEF DriverHolds

\* The cluster leaves the driver as it was said to be.
LEMMA ClusterHolds == ASSUME Typed, DriverHolds, Cluster PROVE DriverHolds'
<1>1. UNCHANGED <<test, last>> /\ DriversGoOn BY ClusterIs
<1>2. At("settle") => Doing({"restart"}) BY DEF Typed, Places
<1>3. held' = held BY <1>1 DEF DriversGoOn
<1>4. /\ (At("look") \/ At("settle")) /\ Doing({"restart"}) /\ Kept.clean /\ Kept.sound =>
           \A n \in Nodes : ~driver'[n].ending /\ ~driver'[n].old
      /\ At("settle") /\ Kept.clean /\ Kept.sound => \A n \in Nodes : Runs(driver'[n])
  BY <1>1, <1>2 DEF DriverHolds, DriversGoOn
<1>5. Answered("stop", "true") /\ last.notes.clean => \A n \in Nodes : ~Exists(driver'[n])
  BY <1>1 DEF DriverHolds, DriversGoOn
<1>6. Answered("restart", "true") /\ last.notes.clean /\ last.notes.sound =>
         \A n \in Nodes : Runs(driver'[n]) /\ ~driver'[n].old
  <2> SUFFICES ASSUME Answered("restart", "true"), last.notes.clean, last.notes.sound,
                      NEW n \in Nodes
               PROVE  Runs(driver'[n]) /\ ~driver'[n].old
    OBVIOUS
  <2>1. ~held /\ Runs(driver[n]) /\ ~driver[n].old BY DEF DriverHolds
  <2>2. ~driver[n].ending BY <2>1, Zenon DEF Runs
  <2> QED BY <1>1, <2>1, <2>2, Zenon DEF DriversGoOn
<1> QED BY <1>1, <1>3, <1>4, <1>5, <1>6 DEF DriverHolds, Answered, At, Doing, Kept

\* A stop or a restart says what it has seen.
LEMMA StepHolds ==
    ASSUME Typed, DriverHolds, Doing({"stop", "restart"}), Step
    PROVE  DriverHolds'
<1>1. /\ test \in Tests /\ driver \in [Nodes -> Drivers] /\ Kept \in Notes /\ Spoilt \in Notes
      /\ ~Spoilt.clean
  BY TypeIs, NotesAre DEF Typed
<1>2. /\ "true" \in Verdicts /\ "false" \in Verdicts /\ "raised" \in Verdicts
      /\ "look" \in PodPCs /\ "settle" \in PodPCs
  BY DEF Verdicts, PodPCs
<1>3. Patch \/ PatchFails \/ Seen \/ NotSeen \/ LookFails \/ Settle
  BY DEF Step, Created, Unchanged, ApplyFails, Cleared, CheckPod, DeleteBegins, DeleteRefused,
         Deleted, DeleteTimesOut, Affinity, PatchTimer, wait_ds_rollout, Typed, Places, Doing
<1>4. ASSUME test' = NoTest, last'.op = test.op, last'.verdict # "true" PROVE DriverHolds'
  BY <1>4 DEF DriverHolds, Answered, At, Doing, NoTest, None
<1>5. CASE Patch
  <2> DEFINE notes == [Kept EXCEPT !.sound = AllStay]
  <2>1. notes \in Notes /\ notes.sound = AllStay
    <3>1. AllStay \in BOOLEAN BY DEF AllStay
    <3> QED BY <1>1, <3>1 DEF Notes
  <2>2. Goto("look", notes) BY <1>5 DEF Patch
  <2> HIDE DEF notes
  <2>3. /\ test'.pc = "look" /\ test'.notes.sound = AllStay
        /\ test'.op = test.op /\ test'.name = test.name
    BY <1>1, <1>2, <2>1, <2>2, GotoIs
  <2>4. held' = (test.op = "stop") /\ driver' = driver BY <1>5 DEF Patch, Doing
  <2> QED BY <2>3, <2>4 DEF DriverHolds, Answered, At, Doing, AllStay, Kept
<1>6. CASE PatchFails
  <2>1. Goto("look", Spoilt)
    <3>1. ~Doing({"timer"}) BY DEF Doing
    <3> QED BY <1>6, <3>1, Zenon DEF PatchFails
  <2>2. test'.pc = "look" /\ ~test'.notes.clean BY <1>1, <1>2, <2>1, GotoIs
  <2> QED BY <2>2 DEF DriverHolds, Answered, At, Kept
<1>7. CASE Seen
  <2>1. At("look") /\ Awaited /\ UNCHANGED <<driver, held>> BY <1>7 DEF Seen, Asks
  <2>2. CASE Doing({"stop"})
    <3>1. Return("true", Kept) BY <1>7, <2>2 DEF Seen, Doing
    <3>2. /\ test' = NoTest /\ last'.op = "stop" /\ last'.notes = Kept
      BY <1>1, <1>2, <2>2, <3>1, ReturnIs DEF Doing
    <3>3. \A n \in Nodes : ~Exists(driver[n]) BY <2>1, <2>2, AwaitedIs DEF DriverList
    <3>4. Kept.clean => held BY <2>1, <2>2 DEF DriverHolds
    <3>5. NoTest.pc = "idle" /\ NoTest.op = None BY DEF NoTest
    <3> QED BY <2>1, <3>2, <3>3, <3>4, <3>5 DEF DriverHolds, Answered, At, Doing, None
  <2>3. CASE Doing({"restart"})
    <3>1. Goto("settle", Kept) BY <1>7, <2>3 DEF Seen, Doing
    <3>2. test'.pc = "settle" /\ test'.op = "restart" /\ test'.notes = Kept
      BY <1>1, <1>2, <2>3, <3>1, GotoIs DEF Doing
    <3>3. DriverList(TRUE) = Nodes
      <4>1. Cardinality(DriverList(TRUE)) = Cardinality(Nodes) BY <2>1, <2>3, AwaitedIs
      <4>2. DriverList(TRUE) \subseteq Nodes BY DEF DriverList
      <4> QED BY <4>1, <4>2, FS_Subset, PodsAssumption
    <3>4. Kept.clean /\ Kept.sound =>
            ~held /\ \A n \in Nodes : ~driver[n].ending /\ ~driver[n].old
      BY <2>1, <2>3 DEF DriverHolds
    <3>5. \A n \in Nodes : InPhase(driver[n]) BY <3>3 DEF DriverList
    <3>6. Kept.clean /\ Kept.sound => \A n \in Nodes : Runs(driver[n])
      BY <3>4, <3>5 DEF InPhase, Runs
    <3> QED BY <2>1, <3>2, <3>4, <3>6 DEF DriverHolds, Answered, At, Doing, Kept
  <2> QED BY <2>2, <2>3 DEF Doing
<1>8. CASE NotSeen \/ LookFails
  <2>1. At("look") /\ UNCHANGED <<driver, held>> BY <1>8 DEF NotSeen, LookFails, Asks
  <2>2. LookAgain(Kept) \/ Return("false", Kept) \/ Return("raised", Spoilt)
    <3>1. ~Doing({"make"}) BY DEF Doing
    <3>2. GiveUp(Kept) => Return("false", Kept) BY <3>1, Zenon DEF GiveUp
    <3> QED BY <1>8, <3>1, <3>2, Zenon DEF NotSeen, LookFails
  <2>3. CASE LookAgain(Kept)
    <3>1. /\ test'.pc = "look" /\ test'.op = test.op /\ test'.notes = Kept
      BY <1>1, <2>1, <2>3, LookAgainIs DEF At
    <3> QED BY <2>1, <3>1 DEF DriverHolds, Answered, At, Doing, Kept
  <2>4. CASE Return("false", Kept) \/ Return("raised", Spoilt)
    <3>1. test' = NoTest /\ last'.op = test.op /\ last'.verdict # "true"
      BY <1>1, <1>2, <2>4, ReturnIs
    <3> QED BY <1>4, <3>1
  <2> QED BY <2>2, <2>3, <2>4
<1>9. CASE Settle
  <2>1. /\ At("settle") /\ Return("true", Kept) /\ UNCHANGED <<driver, held>>
    BY <1>9 DEF Settle, Asks
  <2>2. Doing({"restart"}) BY <2>1 DEF Typed, Places
  <2>3. test' = NoTest /\ last'.op = "restart" /\ last'.notes = Kept
    BY <1>1, <1>2, <2>1, <2>2, ReturnIs DEF Doing
  <2>4. Kept.clean /\ Kept.sound => ~held /\ \A n \in Nodes : Runs(driver[n]) /\ ~driver[n].old
    BY <2>1, <2>2 DEF DriverHolds
  <2>5. NoTest.pc = "idle" /\ NoTest.op = None BY DEF NoTest
  <2> QED BY <2>1, <2>3, <2>4, <2>5 DEF DriverHolds, Answered, At, Doing, None
<1> QED BY <1>3, <1>5, <1>6, <1>7, <1>8, <1>9

\* What is said of the driver is always so.
LEMMA AlwaysHolds == Spec => []DriverHolds
<1>1. Init => DriverHolds
  <2> SUFFICES ASSUME Init PROVE DriverHolds
    OBVIOUS
  <2>1. test = NoTest /\ last = NoReturn BY DEF Init
  <2> QED BY <2>1 DEF DriverHolds, Answered, At, Doing, NoTest, NoReturn, None
<1>2. Typed /\ Typed' /\ DriverHolds /\ [Next]_vars => DriverHolds'
  <2> SUFFICES ASSUME Typed, Typed', DriverHolds, [Next]_vars PROVE DriverHolds'
    OBVIOUS
  <2>1. CASE UNCHANGED vars
    BY <2>1 DEF vars, DriverHolds, Answered, At, Doing, Kept
  <2>2. CASE Cluster BY <2>2, ClusterHolds
  <2>3. ASSUME NEW op \in Ops, NEW p \in PodNames \cup {None}, Give(op, p) PROVE DriverHolds'
    <3>1. test'.pc = FirstStep(op) BY <2>3 DEF Give
    <3>2. FirstStep(op) \notin {"idle", "look", "settle"}
      BY DEF FirstStep, Ops, PodOps, DriverOps
    <3> QED BY <3>1, <3>2 DEF DriverHolds, Answered, At
  <2>4. CASE Step BY <2>4, StepTyped, OthersHoldNothing, StepHolds
  <2>5. Cluster \/ (\E op \in Ops, p \in PodNames \cup {None} : Give(op, p)) \/ Step
        \/ UNCHANGED vars
    BY Zenon DEF Next, Test, Step
  <2> QED BY <2>1, <2>2, <2>3, <2>4, <2>5
<1> QED BY <1>1, <1>2, AlwaysTyped, PTL DEF Spec

\* What create_pod_and_wait_running(), delete_pod_and_wait(), stop_shm_pod() and
\* restart_shm_pod() say of the cluster is true and stays true.
THEOREM TrueVerdicts == Spec => []VerdictsAreTrue
<1>1. Said /\ DriverHolds => VerdictsAreTrue
  BY DEF Said, DriverHolds, VerdictsAreTrue, CreateIsTrue, FreshStart, StopIsTrue, RestartIsTrue,
         Answered
<1> QED BY <1>1, AlwaysSaid, AlwaysHolds, PTL

-----------------------------------------------------------------------------
(* Clearing                                                                *)

\* What is left to clear is what is left on the list; what is not is gone.
Clearing ==
    /\ Doing({"clear"}) =>
        /\ At("check") \/ At("delete") \/ At("deleting")
        /\ listed = test.todo
        /\ Kept.clean => \A p \in Kept.goal : p \in ToSet(test.todo) \/ Gone(p)
        /\ Kept.clean /\ Kept.sound =>
            /\ IsInjective(test.todo)
            /\ \A i \in DOMAIN test.todo : Stays(test.todo[i]) \/ (i = 1 /\ At("deleting"))
    /\ ClearIsComplete

\* The rest of a list.
LEMMA RestIs ==
    ASSUME NEW S, NEW s \in Seq(S), s # << >>
    PROVE  /\ Tail(s) \in Seq(S)
           /\ \A p \in ToSet(s) : p = Head(s) \/ p \in ToSet(Tail(s))
           /\ \A i \in DOMAIN Tail(s) : i # 0 /\ i + 1 \in DOMAIN s /\ Tail(s)[i] = s[i + 1]
           /\ IsInjective(s) => IsInjective(Tail(s))
           /\ 1 \in DOMAIN s /\ s[1] = Head(s)
<1>1. /\ Len(s) \in Nat /\ Len(s) # 0 /\ DOMAIN s = 1..Len(s) /\ Head(s) = s[1]
  OBVIOUS
<1>2. /\ Tail(s) \in Seq(S) /\ Len(Tail(s)) = Len(s) - 1
      /\ \A i \in 1..Len(Tail(s)) : Tail(s)[i] = s[i + 1]
  BY HeadTailProperties
<1> DEFINE t == Tail(s)
<1>3. DOMAIN t = 1..(Len(s) - 1) BY <1>2
<1>4. \A i \in DOMAIN t : i \in 1..(Len(s) - 1) /\ t[i] = s[i + 1] BY <1>2, <1>3
<1> HIDE DEF t
<1>5. ASSUME NEW p \in ToSet(s) PROVE p = Head(s) \/ p \in ToSet(t)
  <2>1. PICK i \in DOMAIN s : p = s[i] BY DEF ToSet
  <2>2. CASE i = 1 BY <1>1, <2>1, <2>2
  <2>3. CASE i # 1
    <3>1. i - 1 \in DOMAIN t /\ t[i - 1] = s[(i - 1) + 1] BY <1>1, <1>3, <1>4, <2>3
    <3>2. (i - 1) + 1 = i BY <1>1
    <3> QED BY <2>1, <3>1, <3>2 DEF ToSet
  <2> QED BY <2>2, <2>3
<1>6. \A i \in DOMAIN t : i # 0 /\ i + 1 \in DOMAIN s /\ t[i] = s[i + 1]
  BY <1>1, <1>3, <1>4
<1>7. ASSUME IsInjective(s), NEW a \in DOMAIN t, NEW b \in DOMAIN t, t[a] = t[b] PROVE a = b
  <2>1. s[a + 1] = s[b + 1] /\ a + 1 \in DOMAIN s /\ b + 1 \in DOMAIN s BY <1>6, <1>7
  <2>2. a + 1 = b + 1 BY <1>7, <2>1 DEF IsInjective
  <2> QED BY <1>4, <1>7, <2>2
<1>8. IsInjective(s) => IsInjective(t) BY <1>7 DEF IsInjective
<1> QED BY <1>1, <1>2, <1>5, <1>6, <1>8 DEF t

\* Other operations clear nothing.
LEMMA OthersClearNothing ==
    ASSUME Typed, Goes, ~Doing({"clear"})
    PROVE  Clearing'
<1>1. ~Doing({"clear"})'
  <2>1. NoTest.op # "clear" BY DEF NoTest, None
  <2> QED BY <2>1, Zenon DEF Goes, Doing
<1>2. test'.pc = "idle" => last'.op # "clear" BY DEF Goes, Doing
<1> QED BY <1>1, <1>2 DEF Clearing, ClearIsComplete, At

\* The cluster brings back none of the pods that were cleared.
LEMMA ClusterClears == ASSUME Typed, Clearing, Cluster PROVE Clearing'
<1>1. UNCHANGED <<test, last, listed>> /\ PodsGoOn BY ClusterIs
<1>2. test \in Tests /\ last \in Returns BY TypeIs DEF Typed
<1>3. /\ test.todo \in Seq(PodNames) /\ Kept.goal \subseteq PodNames
      /\ last.notes.goal \subseteq PodNames
  BY <1>2 DEF Tests, Returns, Notes, Kept
<1>4. \A i \in DOMAIN test.todo : test.todo[i] \in PodNames BY <1>3
<1>5. \A p \in PodNames : (Gone(p) => GoneThen(p)) /\ (Stays(p) => StaysThen(p))
  BY <1>1 DEF PodsGoOn, Gone, GoneThen, Stays, StaysThen
<1>6. ClearIsComplete'
  BY <1>1, <1>3, <1>5 DEF Clearing, ClearIsComplete, At, Gone, GoneThen
<1>7. ASSUME Doing({"clear"})
      PROVE  /\ Kept.clean => \A p \in Kept.goal : p \in ToSet(test.todo) \/ GoneThen(p)
             /\ Kept.clean /\ Kept.sound =>
                 \A i \in DOMAIN test.todo : StaysThen(test.todo[i]) \/ (i = 1 /\ At("deleting"))
  BY <1>3, <1>4, <1>5, <1>7 DEF Clearing
<1> HIDE DEF IsInjective
<1> QED BY <1>1, <1>6, <1>7 DEF Clearing, Doing, At, Kept, Gone, GoneThen, Stays, StaysThen

\* A pod after the other is cleared.
LEMMA StepClears ==
    ASSUME Typed, Clearing, Doing({"clear"}), Step
    PROVE  Clearing'
<1>1. /\ test \in Tests /\ pod \in [PodNames -> Pod] /\ Kept \in Notes /\ Spoilt \in Notes
      /\ ~Spoilt.clean /\ listed \in Seq(PodNames) /\ test.todo \in Seq(PodNames)
      /\ test.op = "clear" /\ Kept.goal \subseteq PodNames
  BY TypeIs, NotesAre DEF Typed, Tests, Notes, Doing
<1>2. /\ "true" \in Verdicts /\ "false" \in Verdicts /\ "raised" \in Verdicts
      /\ "done" \in Verdicts /\ "delete" \in PodPCs /\ "deleting" \in PodPCs
  BY DEF Verdicts, PodPCs
<1>3. Cleared \/ CheckPod \/ DeleteBegins \/ DeleteRefused \/ Deleted \/ DeleteTimesOut
  BY DEF Step, Created, Unchanged, ApplyFails, Seen, NotSeen, LookFails, Affinity, Patch,
         PatchFails, PatchTimer, wait_ds_rollout, Settle, Clearing, At
<1>4. ASSUME test' = NoTest, last'.notes.clean =>
                /\ last'.notes.sound => last'.verdict = "done"
                /\ last'.verdict = "done" =>
                      listed' = << >> /\ \A p \in last'.notes.goal : GoneThen(p)
      PROVE  Clearing'
  <2>1. ~Doing({"clear"})' BY <1>4 DEF Doing, NoTest, None
  <2> QED BY <1>4, <2>1 DEF Clearing, ClearIsComplete, GoneThen
<1> DEFINE queue == test.todo
<1>5. ASSUME test'.pc \in {"check", "delete", "deleting"}, listed' = test'.todo,
             test'.notes.clean =>
                \A p \in test'.notes.goal : p \in ToSet(test'.todo) \/ GoneThen(p),
             test'.notes.clean /\ test'.notes.sound =>
                /\ IsInjective(test'.todo)
                /\ \A i \in DOMAIN test'.todo :
                      StaysThen(test'.todo[i]) \/ (i = 1 /\ test'.pc = "deleting")
      PROVE  Clearing'
  <2>1. ClearIsComplete' BY <1>5 DEF ClearIsComplete, At
  <2> HIDE DEF queue
  <2> QED BY <1>5, <2>1 DEF Clearing, At, Kept, Gone, Stays, GoneThen, StaysThen
<1>6. /\ listed = queue
      /\ Kept.clean => \A p \in Kept.goal : p \in ToSet(queue) \/ Gone(p)
      /\ Kept.clean /\ Kept.sound =>
          /\ IsInjective(queue)
          /\ \A i \in DOMAIN queue : Stays(queue[i]) \/ (i = 1 /\ At("deleting"))
  BY DEF Clearing
<1>7. ASSUME ~Cleared
      PROVE  queue # << >> /\ Subject = Head(queue) /\ Subject \in PodNames
  <2>1. /\ At("check") \/ At("delete") \/ At("deleting")
        /\ queue # << >>
    BY <1>3, <1>7 DEF CheckPod, DeleteBegins, DeleteRefused, Deleted, DeleteTimesOut, Typed,
                      Places, At
  <2> QED BY <2>1, SubjectType
<1> HIDE DEF queue
<1>8. CASE Cleared
  <2>1. /\ queue = << >> /\ Return("done", Kept) /\ pod' = pod /\ listed' = listed
    BY <1>8 DEF Cleared, Asks, queue
  <2>2. test' = NoTest /\ last'.verdict = "done" /\ last'.notes = Kept BY <1>1, <1>2, <2>1, ReturnIs
  <2>3. ToSet(queue) = {} BY <2>1 DEF ToSet
  <2>4. Kept.clean => \A p \in Kept.goal : GoneThen(p) BY <1>6, <2>1, <2>3 DEF Gone, GoneThen
  <2> QED BY <1>4, <1>6, <2>1, <2>2, <2>4
<1>9. ASSUME Return("raised", Spoilt) PROVE Clearing'
  <2>1. test' = NoTest /\ last'.notes = Spoilt BY <1>1, <1>2, <1>9, ReturnIs
  <2> QED BY <1>1, <1>4, <2>1
<1>10. CASE CheckPod
  <2>1. ~Cleared BY <1>10 DEF CheckPod, Cleared
  <2>2. /\ pod' = pod /\ listed' = listed /\ At("check") BY <1>10 DEF CheckPod, Asks
  <2>3. CASE Goto("delete", Kept)
    <3>1. test'.pc = "delete" /\ test'.notes = Kept /\ test'.todo = queue
      BY <1>1, <1>2, <2>3, GotoIs DEF queue
    <3>2. ~At("deleting") BY <2>2 DEF At
    <3> QED BY <1>5, <1>6, <2>2, <3>1, <3>2 DEF Gone, GoneThen, Stays, StaysThen
  <2>4. CASE ~Exists(pod[Subject]) /\ Return("raised", Kept)
    <3>1. test' = NoTest /\ last'.notes = Kept /\ last'.verdict = "raised"
      BY <1>1, <1>2, <2>4, ReturnIs
    <3>2. 1 \in DOMAIN queue /\ queue[1] = Subject BY <1>1, <1>7, <2>1, RestIs DEF queue
    <3>3. ~At("deleting") BY <2>2 DEF At
    <3>4. ~(Kept.clean /\ Kept.sound) BY <1>6, <2>4, <3>2, <3>3 DEF Stays
    <3> QED BY <1>4, <3>1, <3>4
  <2> QED BY <1>9, <1>10, <2>3, <2>4, Zenon DEF CheckPod
<1>11. CASE DeleteTimesOut BY <1>9, <1>11 DEF DeleteTimesOut
<1>12. CASE DeleteBegins
  <2>1. ~Cleared /\ ~At("deleting") BY <1>12 DEF DeleteBegins, Cleared, At
  <2>2. /\ Exists(pod[Subject]) /\ Goto("deleting", Kept) /\ listed' = listed
    BY <1>12 DEF DeleteBegins
  <2>3. test'.pc = "deleting" /\ test'.notes = Kept /\ test'.todo = queue
    BY <1>1, <1>2, <2>2, GotoIs DEF queue
  <2>4. \A p \in PodNames : p # Subject => pod'[p] = pod[p] BY <1>1, <1>12 DEF DeleteBegins
  <2>5. Kept.clean => \A p \in Kept.goal : p \in ToSet(queue) \/ GoneThen(p)
    BY <1>1, <1>6, <2>2, <2>4 DEF Gone, GoneThen
  <2>6. ASSUME Kept.clean, Kept.sound, NEW i \in DOMAIN queue, i # 1
        PROVE  StaysThen(queue[i])
    <3>1. 1 \in DOMAIN queue /\ queue[1] = Subject BY <1>1, <1>7, <2>1, RestIs DEF queue
    <3>2. queue[i] # queue[1] BY <1>6, <2>6, <3>1 DEF IsInjective
    <3>3. queue[i] \in PodNames BY <1>1 DEF queue
    <3>4. Stays(queue[i]) BY <1>6, <2>6
    <3> QED BY <2>4, <3>1, <3>2, <3>3, <3>4 DEF Stays, StaysThen
  <2> QED BY <1>5, <1>6, <2>2, <2>3, <2>5, <2>6
<1>13. CASE DeleteRefused \/ Deleted
  <2>1. ~Cleared /\ (At("delete") \/ At("deleting"))
    BY <1>13 DEF DeleteRefused, Deleted, Cleared, At
  <2>2. pod' = pod BY <1>13 DEF DeleteRefused, Deleted
  <2>3. PICK verdict \in Verdicts, notes \in Notes :
           /\ AfterDelete(verdict, notes)
           /\ (notes = Kept /\ ~Exists(pod[Subject])) \/ notes = Spoilt
    BY <1>1, <1>2, <1>13, Zenon DEF DeleteRefused, Deleted
  <2>4. /\ test'.pc = "check" /\ test'.notes = notes /\ test'.todo = Tail(queue)
        /\ listed' = Tail(queue)
    <3>1. RemoveFirst(listed, Head(queue)) = Tail(queue)
      BY <1>1, <1>6, <1>7, <2>1, RemoveHead
    <3>2. ~Doing({"delete"}) /\ ~Doing({"deleteWait"}) /\ ~Doing({"drop"}) BY DEF Doing
    <3> QED BY <2>1, <2>3, <3>1, <3>2, AfterDeleteIs, Zenon DEF queue
  <2>5. /\ \A p \in ToSet(queue) : p = Subject \/ p \in ToSet(Tail(queue))
        /\ \A i \in DOMAIN Tail(queue) :
              i # 0 /\ i + 1 \in DOMAIN queue /\ Tail(queue)[i] = queue[i + 1]
        /\ IsInjective(queue) => IsInjective(Tail(queue))
        /\ Tail(queue) \in Seq(PodNames)
    <3>1. queue # << >> /\ queue \in Seq(PodNames) /\ Subject = Head(queue)
      BY <1>1, <1>7, <2>1 DEF queue
    <3> QED BY <3>1, RestIs
  <2>6. CASE notes = Spoilt BY <1>1, <1>5, <2>4, <2>6
  <2>7. CASE notes = Kept /\ ~Exists(pod[Subject])
    <3>1. Kept.clean => \A p \in Kept.goal : p \in ToSet(Tail(queue)) \/ GoneThen(p)
      BY <1>6, <2>2, <2>5, <2>7 DEF Gone, GoneThen
    <3>2. ASSUME Kept.clean, Kept.sound, NEW i \in DOMAIN Tail(queue)
          PROVE  StaysThen(Tail(queue)[i])
      <4>1. i + 1 \in DOMAIN queue /\ Tail(queue)[i] = queue[i + 1] /\ i \in Int /\ i # 0 BY <2>5
      <4>2. i + 1 # 1 BY <4>1
      <4>3. Stays(queue[i + 1]) BY <1>6, <3>2, <4>1, <4>2
      <4> QED BY <2>2, <4>1, <4>3 DEF Stays, StaysThen
    <3> QED BY <1>5, <1>6, <2>4, <2>5, <2>7, <3>1, <3>2
  <2> QED BY <2>3, <2>6, <2>7
<1> QED BY <1>3, <1>8, <1>10, <1>11, <1>12, <1>13

\* A case that clears starts with the whole list.
LEMMA GiveClears ==
    ASSUME Typed, NEW op \in Ops, NEW p \in PodNames \cup {None}, Give(op, p)
    PROVE  Clearing'
<1>1. /\ test'.pc = FirstStep(op) /\ test'.op = op
      /\ op = "clear" => test'.todo = listed /\ test'.notes.goal = ToSet(listed)
      /\ test'.notes.sound = AllThereOnce
      /\ pod' = pod /\ listed' = listed
  BY DEF Give
<1>2. FirstStep(op) # "idle" /\ (op = "clear" => FirstStep(op) = "check")
  BY DEF FirstStep, Ops, PodOps, DriverOps
<1>3. ClearIsComplete' BY <1>1, <1>2 DEF ClearIsComplete, At
<1>4. ASSUME AllThereOnce
      PROVE  IsInjective(listed) /\ \A i \in DOMAIN listed : StaysThen(listed[i])
  BY <1>1, <1>4 DEF AllThereOnce, ToSet, StaysThen
<1> HIDE DEF IsInjective
<1> QED BY <1>1, <1>2, <1>3, <1>4, Zenon DEF Clearing, Doing, At, Kept, Stays, StaysThen

\* What clearing relies on and says is always so.
LEMMA AlwaysClears == Spec => []Clearing
<1>1. Init => Clearing
  <2> SUFFICES ASSUME Init PROVE Clearing
    OBVIOUS
  <2>1. test = NoTest /\ last = NoReturn BY DEF Init
  <2> QED BY <2>1 DEF Clearing, ClearIsComplete, At, Doing, NoTest, NoReturn, None
<1>2. Typed /\ Clearing /\ [Next]_vars => Clearing'
  <2> SUFFICES ASSUME Typed, Clearing, [Next]_vars PROVE Clearing'
    OBVIOUS
  <2>1. CASE UNCHANGED vars
    BY <2>1 DEF vars, Clearing, ClearIsComplete, At, Doing, Kept, Gone, Stays
  <2>2. CASE Cluster BY <2>2, ClusterClears
  <2>3. ASSUME NEW op \in Ops, NEW p \in PodNames \cup {None}, Give(op, p) PROVE Clearing'
    BY <2>3, GiveClears
  <2>4. CASE Step BY <2>4, StepTyped, OthersClearNothing, StepClears
  <2>5. Cluster \/ (\E op \in Ops, p \in PodNames \cup {None} : Give(op, p)) \/ Step
        \/ UNCHANGED vars
    BY Zenon DEF Next, Test, Step
  <2> QED BY <2>1, <2>2, <2>3, <2>4, <2>5
<1> QED BY <1>1, <1>2, AlwaysTyped, PTL DEF Spec

\* clear_test_pod() goes through where every pod of the list is there and listed once, and
\* leaves none of them on the list or in the cluster.
THEOREM ClearComplete == Spec => []ClearIsComplete
<1>1. Clearing => ClearIsComplete BY DEF Clearing
<1> QED BY <1>1, AlwaysClears, PTL

-----------------------------------------------------------------------------
(* The virtual machines: the theorems behind the properties of VmSetup,    *)
(* for any hosts, topology, machines, servers, volumes and bounds.         *)

\* Where a test can be.
VmPlaces == [pc : PCs, vm : Vms \cup {Missing}, volume : Volumes \cup {Missing}]

\* Types, with an aggregate's hosts as a function, and a volume to wait for.
VmTyped ==
    /\ VMTypeOK
    /\ aggregates \in [PlanNodes -> (SUBSET Hosts) \cup {Missing}]
    /\ at.pc = "volumeWait" => at.volume \in Volumes

\* A volume of the test's list that is not in volume_use_list is available, and so is
\* the one a server is about to be created with.
VmListed ==
    /\ at.pc \in {"clear", "prepare"} => known = Nothing
    /\ at.pc \notin {"out", "failed"} =>
          \A v \in known.volumes \ used : volumes[v] = "available"

VmChosen ==
    at.pc \in {"flavor", "aggregate", "update", "metadata", "server"} /\ at.volume # Missing =>
        at.volume \in used /\ volumes[at.volume] = "available"

VmFree == VmTyped /\ VmListed /\ VmChosen

\* What the cloud has as long as no command failed: an aggregate has one host, and a
\* flavor its properties, unless it is the one that is being made.
VmCloud ==
    /\ \A n \in PlanNodes : aggregates[n] # Missing => \E h \in Hosts : aggregates[n] = {h}
    /\ \A f \in Flavors :
          \/ flavors[f] \in {"none", "metadata"}
          \/ at.pc \in {"aggregate", "metadata"} /\ f = FlavorOf(at.vm)
    /\ at.pc # "out" => nodeDict \in [PlanNodes -> Hosts]

\* What the test knows of it is what there is.
VmCopies ==
    at.pc \notin {"out", "failed"} =>
        /\ known.aggregates \in {{}, {n \in PlanNodes : aggregates[n] # Missing}}
        /\ known.flavors \subseteq {f \in Flavors : flavors[f] = "metadata"}

\* Where the making of a bound virtual machine stands.
VmTurn ==
    /\ at.pc \in {"aggregate", "metadata"} => flavors[FlavorOf(at.vm)] # "none"
    /\ at.pc \in {"aggregate", "update"} => ~at.vm.removable
    /\ at.pc \in {"update", "server"} /\ ~at.vm.removable => flavors[at.vm.node] = "metadata"
    /\ at.pc \in {"metadata", "server"} /\ ~at.vm.removable =>
          aggregates[at.vm.node] = {nodeDict[at.vm.node]}

VmOrder == faults = 0 => VmCloud /\ VmCopies /\ VmTurn

\* The types at the start.
LEMMA VmTypedInit == ASSUME VMInit PROVE VmTyped
<1>1. 0 \in 0 .. MaxTests /\ 0 \in 0 .. MaxFaults BY VmSetupAssumption
<1>2. aggregates \in [PlanNodes -> (SUBSET Hosts) \cup {Missing}]
  <2>1. CASE aggregates = [n \in PlanNodes |-> Missing] BY <2>1
  <2>2. CASE aggregates \in [PlanNodes -> {{h} : h \in Hosts}]
    <3>1. \A n \in PlanNodes : aggregates[n] \in {{h} : h \in Hosts} BY <2>2
    <3>2. \A g \in {{h} : h \in Hosts} : g \in SUBSET Hosts OBVIOUS
    <3> QED BY <2>2, <3>1, <3>2
  <2> QED BY <2>1, <2>2 DEF VMInit
<1>3. \A n \in PlanNodes : aggregates[n] = Missing \/ aggregates[n] \subseteq Hosts BY <1>2
<1>4. flavors \in [Flavors -> {"none", "bare", "metadata"}] BY DEF VMInit
<1>5. volumes \in [Volumes -> {"none", "creating", "available", "in-use", "error"}] BY DEF VMInit
<1>6. servers \in [Servers -> Server \cup {Missing}] BY DEF VMInit
<1>7. nodeDict \in [PlanNodes -> Hosts \cup {Missing}] BY DEF VMInit
<1> QED BY <1>1, <1>2, <1>3, <1>4, <1>5, <1>6, <1>7
        DEF VMInit, VmTyped, VmPlaces, VMTypeOK, Nothing, Out, PCs

\* A test that holds no virtual machine.
LEMMA VmOut ==
    ASSUME NEW pc \in {"out", "clear", "prepare", "idle", "failed"}
    PROVE  /\ Out(pc) \in VmPlaces
           /\ Out(pc).pc = pc /\ Out(pc).vm = Missing /\ Out(pc).volume = Missing
  BY DEF Out, PCs, VmPlaces

\* The test goes on with another command, or with one and a volume.
LEMMA VmGoes ==
    ASSUME at \in VmPlaces, NEW pc \in PCs, NEW v \in Volumes \cup {Missing},
           \/ at' = [at EXCEPT !.pc = pc, !.volume = v]
           \/ at' = [at EXCEPT !.pc = pc] /\ v = at.volume
    PROVE  at' \in VmPlaces /\ at'.pc = pc /\ at'.vm = at.vm /\ at'.volume = v
<1> DEFINE P == PCs
<1>1. pc \in P OBVIOUS
<1> HIDE DEF P
<1>2. at \in [pc : P, vm : Vms \cup {Missing}, volume : Volumes \cup {Missing}] BY DEF VmPlaces, P
<1>3. /\ at' \in [pc : P, vm : Vms \cup {Missing}, volume : Volumes \cup {Missing}]
      /\ at'.pc = pc /\ at'.vm = at.vm /\ at'.volume = v
  <2>1. CASE at' = [at EXCEPT !.pc = pc, !.volume = v] BY <1>1, <1>2, <2>1
  <2>2. CASE at' = [at EXCEPT !.pc = pc] /\ v = at.volume BY <1>1, <1>2, <2>2
  <2> QED BY <2>1, <2>2
<1> QED BY <1>3 DEF VmPlaces, P

\* What a command adds to the failures stays within the bound; a command of which no
\* part failed leaves nothing.
LEMMA VmCount ==
    ASSUME faults \in 0 .. MaxFaults
    PROVE  /\ Working \/ Failing \/ Either => faults' \in 0 .. MaxFaults
           /\ \A S \in {Servers, Volumes, Hosts} : \A kept \in SUBSET S :
                 /\ Cardinality(kept) \in Nat
                 /\ Cardinality(kept) = 0 => kept = {}
<1>1. Working \/ Failing \/ Either => faults' \in 0 .. MaxFaults
  BY VmSetupAssumption DEF Working, Failing, Either
<1>2. \A S \in {Servers, Volumes, Hosts} : IsFiniteSet(S)
  BY VmSetupAssumption
<1>3. ASSUME NEW S \in {Servers, Volumes, Hosts}, NEW kept \in SUBSET S
      PROVE  Cardinality(kept) \in Nat /\ (Cardinality(kept) = 0 => kept = {})
  <2>1. IsFiniteSet(kept) BY <1>2, FS_Subset
  <2>2. Cardinality(kept) \in Nat BY <2>1, FS_CardinalityType
  <2>3. Cardinality(kept) = 0 => kept = {} BY <2>1, FS_EmptySet
  <2> QED BY <2>2, <2>3
<1> QED BY <1>1, <1>3

\* clear_server() keeps types.
LEMMA VmTypedClear ==
  ASSUME VmTyped, ClearFirst \/ ClearAgain \/ Teardown PROVE VmTyped'
<1>1. PICK next \in {"prepare", "idle", "out"}, late \in {"failed", "idle", "out"} :
         Clear(next, late)
  BY DEF ClearFirst, ClearAgain, Teardown
<1>2. \E pc \in {"prepare", "idle", "out", "failed"} : at' = Out(pc) BY <1>1 DEF Clear
<1>3. /\ at' \in VmPlaces /\ at'.pc # "volumeWait"
      /\ (at'.vm = Missing) <=> at'.pc \in {"out", "clear", "prepare", "idle", "failed"}
  BY <1>2, VmOut
<1>4. servers' \in [Servers -> Server \cup {Missing}] /\ faults' \in 0 .. MaxFaults
  <2>0. faults \in 0 .. MaxFaults /\ servers \in [Servers -> Server \cup {Missing}]
    BY DEF VmTyped, VmPlaces, VMTypeOK
  <2>1. ASSUME NEW kept \in SUBSET {s \in Servers : Present(s)},
               servers' = [s \in Servers |-> IF Present(s) /\ s \notin kept
                                             THEN [servers[s] EXCEPT !.deleted = TRUE] ELSE servers[s]],
               faults + Cardinality(kept) <= MaxFaults,
               faults' = faults + Cardinality(kept)
        PROVE servers' \in [Servers -> Server \cup {Missing}] /\ faults' \in 0 .. MaxFaults
    <3>1. \A r \in Server : [r EXCEPT !.deleted = TRUE] \in Server BY DEF Server
    <3>2. \A s \in Servers : Present(s) => servers[s] \in Server BY <2>0 DEF Present
    <3>3. servers' \in [Servers -> Server \cup {Missing}] BY <2>0, <2>1, <3>1, <3>2
    <3>4. kept \in SUBSET Servers BY <2>1
    <3>5. Cardinality(kept) \in Nat BY <2>0, <3>4, VmCount
    <3>6. faults' \in 0 .. MaxFaults BY <2>0, <2>1, <3>5
    <3> QED BY <3>3, <3>6
  <2>2. Failing /\ UNCHANGED servers =>
          /\ servers' \in [Servers -> Server \cup {Missing}]
          /\ faults' \in 0 .. MaxFaults
    BY <2>0, VmCount
  <2> QED BY <1>1, <2>1, <2>2 DEF Clear
<1>5. UNCHANGED <<volumes, flavors, aggregates, known, used, nodeDict, todo, made, tests>>
  BY <1>1 DEF Clear, session
<1> QED BY <1>3, <1>4, <1>5 DEF VmTyped, VmPlaces, VMTypeOK

\* A test that begins keeps types.
LEMMA VmTypedBegin ==
    ASSUME VmTyped, BeginTest PROVE VmTyped'
 BY VmSetupAssumption DEF VmTyped, VmPlaces, VMTypeOK, Nothing, Out, PCs,
        BeginTest, Working, Failing, cloud

\* The node's preparation and the ends of a test keep types.
LEMMA VmTypedPrepare ==
    ASSUME VmTyped, Prepare \/ EndTest \/ MoreServers
    PROVE  VmTyped'
 BY VmSetupAssumption DEF VmTyped, VmPlaces, VMTypeOK, Out, PCs, Prepare, EndTest,
        MoreServers, Working, Failing, cloud, session, Go, Raise

\* create_server() keeps types as it reads the volumes.
LEMMA VmTypedCreate ==
    ASSUME VmTyped, CreateServer PROVE VmTyped'
<1>0. faults \in 0 .. MaxFaults BY DEF VmTyped, VmPlaces, VMTypeOK
<1>1. PICK vm \in todo :
        /\ todo' = todo \ {vm} /\ made' = made \cup {vm}
        /\ at' = [pc |-> "volume", vm |-> vm, volume |-> Missing] \/ at' = Out("failed")
  BY DEF CreateServer, Raise
<1>2. vm \in Vms /\ vm # Missing BY VmSetupAssumption DEF VmTyped, VmPlaces, VMTypeOK
<1>3. /\ at' \in VmPlaces /\ at'.pc # "volumeWait"
      /\ (at'.vm = Missing) <=> at'.pc \in {"out", "clear", "prepare", "idle", "failed"}
  <2>1. CASE at' = Out("failed") BY <2>1, VmOut
  <2>2. CASE at' = [pc |-> "volume", vm |-> vm, volume |-> Missing]
    <3>1. /\ at' \in [pc : {"volume"}, vm : Vms \cup {Missing}, volume : Volumes \cup {Missing}]
          /\ at'.pc = "volume" /\ at'.vm = vm
      BY <1>2, <2>2
    <3> QED BY <1>2, <3>1 DEF PCs, VmPlaces
  <2> QED BY <1>1, <2>1, <2>2
<1>4. faults' \in 0 .. MaxFaults
  <2>1. ASSUME NEW unread \in SUBSET {v \in Volumes : volumes[v] = "available"},
               faults + Cardinality(unread) <= MaxFaults,
               faults' = faults + Cardinality(unread)
        PROVE  faults' \in 0 .. MaxFaults
    <3>1. unread \in SUBSET Volumes OBVIOUS
    <3>2. Cardinality(unread) \in Nat BY <1>0, <3>1, VmCount
    <3> QED BY <1>0, <2>1, <3>2
  <2> QED BY <1>0, <2>1, VmCount DEF CreateServer
<1>5. known' \in [volumes : SUBSET Volumes, listed : BOOLEAN, flavors : SUBSET Flavors,
                 aggregates : SUBSET PlanNodes]
  <2>1. \A V \in SUBSET Volumes, b \in BOOLEAN : [known EXCEPT !.volumes = V, !.listed = b] \in
            [volumes : SUBSET Volumes, listed : BOOLEAN, flavors : SUBSET Flavors,
                 aggregates : SUBSET PlanNodes]
    BY DEF VmTyped, VmPlaces, VMTypeOK
  <2>2. \/ known' = known
        \/ \E V \in SUBSET Volumes, b \in BOOLEAN : known' = [known EXCEPT !.volumes = V, !.listed = b]
    BY DEF CreateServer
  <2> QED BY <2>1, <2>2 DEF VmTyped, VmPlaces, VMTypeOK
<1>6. todo' \subseteq Vms /\ made' \subseteq Vms BY <1>1, <1>2 DEF VmTyped, VmPlaces, VMTypeOK
<1>7. UNCHANGED <<servers, volumes, flavors, aggregates, used, nodeDict, tests>>
  BY DEF CreateServer, cloud
<1> QED BY <1>3, <1>4, <1>5, <1>6, <1>7 DEF VmTyped, VmPlaces, VMTypeOK

\* The volume picked is one of the list.
LEMMA VmTypedPick ==
    ASSUME VmTyped, PickVolume PROVE VmTyped'
<1>1. PICK v \in Unused : used' = used \cup {v} /\ at' = [at EXCEPT !.pc = "flavor", !.volume = v]
  BY DEF PickVolume
<1>2. v \in Volumes /\ at \in VmPlaces /\ "flavor" \in PCs /\ at.vm # Missing
  BY DEF Unused, VmTyped, VMTypeOK, VmPlaces, PCs, PickVolume
<1>3. at' \in VmPlaces /\ at'.pc = "flavor" /\ at'.vm = at.vm BY <1>1, <1>2, VmGoes, Zenon
<1>4. used' \subseteq Volumes BY <1>1, <1>2 DEF VmTyped, VMTypeOK
<1>5. UNCHANGED <<servers, volumes, flavors, aggregates, known, nodeDict, todo, made, tests,
                  faults>>
  BY DEF PickVolume, cloud
<1> QED BY <1>2, <1>3, <1>4, <1>5 DEF VmTyped, VmPlaces, VMTypeOK

\* create_volume_with_image() keeps types.
LEMMA VmTypedNew ==
    ASSUME VmTyped, NewVolume PROVE VmTyped'
<1>0. /\ faults \in 0 .. MaxFaults /\ at \in VmPlaces /\ at.vm # Missing /\ at.pc = "volume"
      /\ volumes \in [Volumes -> {"none", "creating", "available", "in-use", "error"}]
  BY DEF VmTyped, VmPlaces, VMTypeOK, NewVolume
<1>1. faults' \in 0 .. MaxFaults
  BY <1>0, VmCount DEF NewVolume
<1>2. volumes' = volumes \/ \E v \in Volumes : volumes' = [volumes EXCEPT ![v] = "creating"]
  BY DEF NewVolume
<1>3. volumes' \in [Volumes -> {"none", "creating", "available", "in-use", "error"}]
  BY <1>0, <1>2
<1>4. \/ at' = Out("failed")
      \/ \E v \in Volumes : at' = [at EXCEPT !.pc = "volumeWait", !.volume = v]
  BY DEF NewVolume, Raise
<1>5. /\ at' \in VmPlaces
      /\ (at'.vm = Missing) <=> at'.pc \in {"out", "clear", "prepare", "idle", "failed"}
      /\ at'.pc = "volumeWait" => at'.volume \in Volumes
  <2>1. CASE at' = Out("failed") BY <2>1, VmOut
  <2>2. ASSUME NEW v \in Volumes, at' = [at EXCEPT !.pc = "volumeWait", !.volume = v]
        PROVE  at' \in VmPlaces /\ at'.pc = "volumeWait" /\ at'.vm = at.vm /\ at'.volume = v
    <3>1. "volumeWait" \in PCs BY DEF PCs
    <3> QED BY <1>0, <2>2, <3>1, VmGoes, Zenon
  <2> QED BY <1>0, <1>4, <2>1, <2>2
<1>6. UNCHANGED <<servers, flavors, aggregates, known, used, nodeDict, todo, made, tests>>
  BY DEF NewVolume, session
<1> QED BY <1>1, <1>3, <1>5, <1>6 DEF VmTyped, VmPlaces, VMTypeOK

\* The wait for a volume keeps types.
LEMMA VmTypedWait ==
    ASSUME VmTyped, VolumeWait PROVE VmTyped'
<1>0. /\ faults \in 0 .. MaxFaults /\ at \in VmPlaces /\ at.vm # Missing
      /\ at.volume \in Volumes /\ used \subseteq Volumes
      /\ known \in [volumes : SUBSET Volumes, listed : BOOLEAN, flavors : SUBSET Flavors,
                 aggregates : SUBSET PlanNodes]
  BY DEF VmTyped, VmPlaces, VMTypeOK, VolumeWait
<1>1. faults' \in 0 .. MaxFaults BY <1>0, VmCount DEF VolumeWait
<1>2. \/ at' = Out("failed")
      \/ at' = [at EXCEPT !.pc = "flavor"]
      \/ at' = [at EXCEPT !.pc = "flavor", !.volume = Missing]
  BY DEF VolumeWait, Raise, Go
<1>3. /\ at' \in VmPlaces /\ at'.pc # "volumeWait"
      /\ (at'.vm = Missing) <=> at'.pc \in {"out", "clear", "prepare", "idle", "failed"}
  <2>1. CASE at' = Out("failed") BY <2>1, VmOut
  <2>2. "flavor" \in PCs BY DEF PCs
  <2>3. CASE at' = [at EXCEPT !.pc = "flavor"] BY <1>0, <2>2, <2>3, VmGoes, Zenon
  <2>4. CASE at' = [at EXCEPT !.pc = "flavor", !.volume = Missing] BY <1>0, <2>2, <2>4, VmGoes, Zenon
  <2> QED BY <1>2, <2>1, <2>3, <2>4
<1>4. /\ known' \in [volumes : SUBSET Volumes, listed : BOOLEAN, flavors : SUBSET Flavors,
                 aggregates : SUBSET PlanNodes]
      /\ used' \subseteq Volumes
  <2>1. \/ known' = known /\ used' = used
        \/ known' = [known EXCEPT !.volumes = @ \cup {at.volume}, !.listed = TRUE] /\ used' = used \cup {at.volume}
    BY DEF VolumeWait
  <2> QED BY <1>0, <2>1
<1>5. UNCHANGED <<servers, volumes, flavors, aggregates, nodeDict, todo, made, tests>>
  BY DEF VolumeWait, cloud
<1> QED BY <1>1, <1>3, <1>4, <1>5 DEF VmTyped, VmPlaces, VMTypeOK

\* _get_flavor() keeps types.
LEMMA VmTypedFlavor ==
    ASSUME VmTyped, GetFlavor PROVE VmTyped'
<1> DEFINE f == FlavorOf(at.vm)
           created == [flavors EXCEPT ![f] = IF @ = "none" THEN "bare" ELSE @]
<1>0. /\ faults \in 0 .. MaxFaults /\ at \in VmPlaces /\ at.vm # Missing
      /\ flavors \in [Flavors -> {"none", "bare", "metadata"}]
      /\ known \in [volumes : SUBSET Volumes, listed : BOOLEAN, flavors : SUBSET Flavors,
                 aggregates : SUBSET PlanNodes]
  BY DEF VmTyped, VmPlaces, VMTypeOK, GetFlavor
<1>1. faults' \in 0 .. MaxFaults BY <1>0, VmCount DEF GetFlavor
<1>2. \/ at' = Out("failed")
      \/ \E pc \in {"server", "update", "metadata", "aggregate"} : at' = [at EXCEPT !.pc = pc]
  BY Zenon DEF GetFlavor, Raise, Go
<1>3. /\ at' \in VmPlaces /\ at'.pc # "volumeWait"
      /\ (at'.vm = Missing) <=> at'.pc \in {"out", "clear", "prepare", "idle", "failed"}
  <2>1. CASE at' = Out("failed") BY <2>1, VmOut
  <2>2. ASSUME NEW pc \in {"server", "update", "metadata", "aggregate"}, at' = [at EXCEPT !.pc = pc]
        PROVE  at' \in VmPlaces /\ at'.pc = pc /\ at'.vm = at.vm
    <3>1. pc \in PCs BY DEF PCs
    <3>2. at.volume \in Volumes \cup {Missing} BY <1>0 DEF VmPlaces
    <3> QED BY <1>0, <2>2, <3>1, <3>2, VmGoes, Zenon
  <2> QED BY <1>0, <1>2, <2>1, <2>2
<1>4. flavors' \in [Flavors -> {"none", "bare", "metadata"}]
  <2>1. flavors' = flavors \/ flavors' = created BY Zenon DEF GetFlavor
  <2>2. created \in [Flavors -> {"none", "bare", "metadata"}] BY <1>0
  <2> QED BY <1>0, <2>1, <2>2
<1>5. known' \in [volumes : SUBSET Volumes, listed : BOOLEAN, flavors : SUBSET Flavors,
                 aggregates : SUBSET PlanNodes]
  <2>1. known' = known \/ \E list \in SUBSET Flavors : known' = [known EXCEPT !.flavors = list]
    BY <1>0 DEF GetFlavor
  <2> QED BY <1>0, <2>1
<1>6. UNCHANGED <<servers, volumes, aggregates, used, nodeDict, todo, made, tests>>
  BY DEF GetFlavor
<1> QED BY <1>1, <1>3, <1>4, <1>5, <1>6 DEF VmTyped, VmPlaces, VMTypeOK

\* What the bind of an aggregate to its node does.
LEMMA VmBinds ==
    ASSUME VmTyped, NEW n \in PlanNodes, aggregates[n] # Missing,
           NEW pc, Bind(n, pc)
    PROVE  /\ at' = Out("failed") \/ at' = [at EXCEPT !.pc = pc]
           /\ faults' \in 0 .. MaxFaults
           /\ \E group \in SUBSET Hosts : aggregates' = [aggregates EXCEPT ![n] = group]
<1>0. /\ faults \in 0 .. MaxFaults
      /\ aggregates \in [PlanNodes -> (SUBSET Hosts) \cup {Missing}]
      /\ aggregates[n] \in SUBSET Hosts /\ nodeDict[n] \in Hosts \cup {Missing}
  BY DEF VmTyped, VMTypeOK
<1>1. at' = Out("failed") \/ at' = [at EXCEPT !.pc = pc] BY DEF Bind, Raise, Go
<1>2. aggregates = [aggregates EXCEPT ![n] = aggregates[n]] BY <1>0
<1>3. CASE Working /\ UNCHANGED aggregates BY <1>0, <1>1, <1>2, <1>3, VmCount
<1>4. CASE nodeDict[n] # Missing /\ Rebind(n)
  <2>1. PICK kept \in SUBSET aggregates[n], added \in BOOLEAN :
           /\ aggregates' = [aggregates EXCEPT ![n] = kept \cup IF added THEN {nodeDict[n]} ELSE {}]
           /\ faults' = faults + Cardinality(kept) + (IF added THEN 0 ELSE 1)
           /\ faults' <= MaxFaults
    BY <1>4 DEF Rebind
  <2>2. kept \in SUBSET Hosts /\ Cardinality(kept) \in Nat BY <1>0, VmCount
  <2>3. faults' \in 0 .. MaxFaults BY <1>0, <2>1, <2>2
  <2>4. (kept \cup IF added THEN {nodeDict[n]} ELSE {}) \in SUBSET Hosts BY <1>0, <1>4, <2>2
  <2> QED BY <1>1, <2>1, <2>3, <2>4
<1> QED BY <1>3, <1>4 DEF Bind

\* _get_aggregate() and _update_aggregate() change one aggregate, and what is known of
\* the aggregates.
LEMMA VmGroups ==
    ASSUME VmTyped, GetAggregate \/ UpdateAggregate
    PROVE  /\ at.vm # Missing
           /\ at' = Out("failed") \/ \E pc \in {"metadata", "server"} : at' = [at EXCEPT !.pc = pc]
           /\ faults' \in 0 .. MaxFaults
           /\ \/ aggregates' = aggregates
              \/ \E group \in SUBSET Hosts : aggregates' = [aggregates EXCEPT ![at.vm.node] = group]
           /\ known' = known \/ \E list \in SUBSET PlanNodes : known' = [known EXCEPT !.aggregates = list]
           /\ UNCHANGED <<servers, volumes, flavors, used, nodeDict, todo, made, tests>>
<1> DEFINE n == at.vm.node
           list == IF known.aggregates = {} THEN {m \in PlanNodes : aggregates[m] # Missing}
                   ELSE known.aggregates
<1>0. /\ faults \in 0 .. MaxFaults /\ at.vm \in Vms /\ at.vm # Missing /\ n \in PlanNodes
      /\ list \in SUBSET PlanNodes /\ list \cup {n} \in SUBSET PlanNodes
      /\ aggregates \in [PlanNodes -> (SUBSET Hosts) \cup {Missing}]
      /\ nodeDict[n] \in Hosts \cup {Missing}
  BY VmSetupAssumption DEF VmTyped, VMTypeOK, GetAggregate, UpdateAggregate
<1>1. UNCHANGED <<servers, volumes, flavors, used, nodeDict, todo, made, tests>>
  BY DEF GetAggregate, UpdateAggregate, session
<1>2. known' = known \/ \E l \in SUBSET PlanNodes : known' = [known EXCEPT !.aggregates = l]
  <2>1. CASE GetAggregate
    <3>1. \/ known' = known \/ known' = [known EXCEPT !.aggregates = list]
          \/ known' = [known EXCEPT !.aggregates = list \cup {n}]
      BY <2>1, Zenon DEF GetAggregate
    <3> QED BY <1>0, <3>1
  <2> QED BY <2>1 DEF UpdateAggregate, session
<1> HIDE DEF list
<1>3. ASSUME ShowFails \/ ShowRaises
      PROVE  at' = Out("failed") /\ faults' \in 0 .. MaxFaults /\ aggregates' = aggregates
  BY <1>0, <1>3, VmCount DEF ShowFails, ShowRaises, Raise
<1>4. ASSUME CreateAggregate(n)
      PROVE  /\ at' = [at EXCEPT !.pc = "metadata"] /\ faults' \in 0 .. MaxFaults
             /\ \/ aggregates' = aggregates
                \/ \E group \in SUBSET Hosts : aggregates' = [aggregates EXCEPT ![n] = group]
  <2>1. faults' \in 0 .. MaxFaults BY <1>0, <1>4, VmCount DEF CreateAggregate
  <2>2. {nodeDict[n]} \in SUBSET Hosts /\ {} \in SUBSET Hosts BY <1>0, <1>4 DEF CreateAggregate
  <2>3. \/ aggregates' = aggregates \/ aggregates' = [aggregates EXCEPT ![n] = {nodeDict[n]}]
        \/ aggregates' = [aggregates EXCEPT ![n] = {}]
    BY <1>4 DEF CreateAggregate
  <2> QED BY <1>4, <2>1, <2>2, <2>3 DEF CreateAggregate, Go
<1>5. ASSUME NEW pc \in {"metadata", "server"}, aggregates[n] # Missing, Bind(n, pc)
      PROVE  /\ at' = Out("failed") \/ at' = [at EXCEPT !.pc = pc]
             /\ faults' \in 0 .. MaxFaults
             /\ \E group \in SUBSET Hosts : aggregates' = [aggregates EXCEPT ![n] = group]
  BY <1>0, <1>5, VmBinds
<1>6. \/ ShowFails \/ ShowRaises \/ CreateAggregate(n)
      \/ aggregates[n] # Missing /\ (Bind(n, "metadata") \/ Bind(n, "server"))
      \/ Go("server") /\ Working /\ UNCHANGED aggregates
  BY Zenon DEF GetAggregate, UpdateAggregate
<1>7. Go("server") /\ Working /\ UNCHANGED aggregates =>
         at' = [at EXCEPT !.pc = "server"] /\ faults' \in 0 .. MaxFaults /\ aggregates' = aggregates
  BY <1>0, VmCount DEF Go
<1> QED BY <1>0, <1>1, <1>2, <1>3, <1>4, <1>5, <1>6, <1>7

\* The aggregates keep their types.
LEMMA VmTypedGroup ==
    ASSUME VmTyped, GetAggregate \/ UpdateAggregate PROVE VmTyped'
<1>0. /\ at \in VmPlaces /\ at.vm # Missing
      /\ aggregates \in [PlanNodes -> (SUBSET Hosts) \cup {Missing}]
      /\ known \in [volumes : SUBSET Volumes, listed : BOOLEAN, flavors : SUBSET Flavors,
                 aggregates : SUBSET PlanNodes]
  BY VmGroups DEF VmTyped, VmPlaces, VMTypeOK
<1>1. /\ at' \in VmPlaces /\ at'.pc # "volumeWait"
      /\ (at'.vm = Missing) <=> at'.pc \in {"out", "clear", "prepare", "idle", "failed"}
  <2>1. CASE at' = Out("failed") BY <2>1, VmOut
  <2>2. ASSUME NEW pc \in {"metadata", "server"}, at' = [at EXCEPT !.pc = pc]
        PROVE  at' \in VmPlaces /\ at'.pc = pc /\ at'.vm = at.vm
    <3>1. pc \in PCs BY DEF PCs
    <3>2. at.volume \in Volumes \cup {Missing} BY <1>0 DEF VmPlaces
    <3> QED BY <1>0, <2>2, <3>1, <3>2, VmGoes, Zenon
  <2> QED BY <1>0, <2>1, <2>2, VmGroups
<1>2. aggregates' \in [PlanNodes -> (SUBSET Hosts) \cup {Missing}] BY <1>0, VmGroups
<1>3. known' \in [volumes : SUBSET Volumes, listed : BOOLEAN, flavors : SUBSET Flavors,
                 aggregates : SUBSET PlanNodes]
  BY <1>0, VmGroups
<1>4. \A n \in PlanNodes : aggregates'[n] = Missing \/ aggregates'[n] \subseteq Hosts BY <1>2
<1> QED BY <1>1, <1>2, <1>3, <1>4, VmGroups DEF VmTyped, VmPlaces, VMTypeOK

\* add_metadata_to_flavor() keeps types.
LEMMA VmTypedMetadata ==
    ASSUME VmTyped, SetMetadata PROVE VmTyped'
<1> DEFINE f == FlavorOf(at.vm)
           set == [flavors EXCEPT ![f] = IF @ = "none" THEN @ ELSE "metadata"]
<1>0. /\ faults \in 0 .. MaxFaults /\ at \in VmPlaces /\ at.vm # Missing
      /\ f \in Flavors
      /\ flavors \in [Flavors -> {"none", "bare", "metadata"}]
      /\ known \in [volumes : SUBSET Volumes, listed : BOOLEAN, flavors : SUBSET Flavors,
                 aggregates : SUBSET PlanNodes]
  <2>1. at.vm \in Vms /\ at.vm # Missing BY DEF VmTyped, VMTypeOK, SetMetadata
  <2>2. f \in Flavors BY VmSetupAssumption, <2>1 DEF FlavorOf, Flavors
  <2> QED BY <2>1, <2>2 DEF VmTyped, VmPlaces, VMTypeOK
<1>1. faults' \in 0 .. MaxFaults BY <1>0, VmCount DEF SetMetadata
<1>2. at' \in VmPlaces /\ at'.pc = "server" /\ at'.vm = at.vm
  <2>1. at' = [at EXCEPT !.pc = "server"] BY DEF SetMetadata, Go
  <2>2. "server" \in PCs BY DEF PCs
  <2>3. at.volume \in Volumes \cup {Missing} BY <1>0 DEF VmPlaces
  <2> QED BY <1>0, <2>1, <2>2, <2>3, VmGoes, Zenon
<1>3. flavors' \in [Flavors -> {"none", "bare", "metadata"}]
  <2>1. flavors' = flavors \/ flavors' = set BY Zenon DEF SetMetadata
  <2> QED BY <1>0, <2>1
<1>4. known' \in [volumes : SUBSET Volumes, listed : BOOLEAN, flavors : SUBSET Flavors,
                 aggregates : SUBSET PlanNodes]
  <2>1. known' = [known EXCEPT !.flavors = @ \cup {f}] BY Zenon DEF SetMetadata
  <2> QED BY <1>0, <2>1
<1>5. UNCHANGED <<servers, volumes, aggregates, used, nodeDict, todo, made, tests>>
  BY DEF SetMetadata
<1> QED BY <1>0, <1>1, <1>2, <1>3, <1>4, <1>5 DEF VmTyped, VmPlaces, VMTypeOK

\* What OpenStack does with a server create command.
LEMMA VmAccepts ==
    ASSUME VmTyped, NEW vm \in Vms, NEW v \in Volumes, Accept(vm, v),
           vm.pinned => nodeDict[vm.node] # Missing
    PROVE  /\ servers' \in [Servers -> Server \cup {Missing}]
           /\ volumes' = volumes \/ volumes' = [volumes EXCEPT ![v] = "in-use"]
<1> DEFINE f == FlavorOf(vm)
           new == [vm |-> vm, volume |-> v, status |-> "BUILD", host |-> Missing,
                   target |-> IF vm.pinned THEN nodeDict[vm.node] ELSE Missing,
                   flavor |-> flavors[f], deleted |-> FALSE]
           free == {s \in Servers : ~Present(s)}
<1>0. /\ servers \in [Servers -> Server \cup {Missing}]
      /\ flavors \in [Flavors -> {"none", "bare", "metadata"}]
      /\ nodeDict \in [PlanNodes -> Hosts \cup {Missing}]
      /\ vm.node \in PlanNodes
  BY VmSetupAssumption DEF VmTyped, VMTypeOK
<1>1. f \in Flavors BY <1>0 DEF FlavorOf, Flavors
<1>2. CASE UNCHANGED <<servers, volumes>> BY <1>0, <1>2
<1>3. CASE /\ flavors[f] # "none" /\ free # {}
           /\ servers' = [servers EXCEPT ![CHOOSE s \in free : TRUE] = new]
           /\ volumes' = [volumes EXCEPT ![v] = "in-use"]
  <2>1. flavors[f] \in {"bare", "metadata"} BY <1>0, <1>1, <1>3
  <2>2. (IF vm.pinned THEN nodeDict[vm.node] ELSE Missing) \in Hosts \cup {Missing} BY <1>0
  <2>3. new \in Server
    <3>1. ASSUME NEW t \in Hosts \cup {Missing}, NEW g \in {"bare", "metadata"}
          PROVE  [vm |-> vm, volume |-> v, status |-> "BUILD", host |-> Missing, target |-> t,
                  flavor |-> g, deleted |-> FALSE] \in Server
      BY DEF Server, Status
    <3> QED BY <2>1, <2>2, <3>1
  <2> HIDE DEF new
  <2>4. (CHOOSE s \in free : TRUE) \in Servers BY <1>3
  <2> QED BY <1>0, <1>3, <2>3, <2>4
<1> QED BY <1>2, <1>3, Zenon DEF Accept

\* create_server_with_volume() keeps types.
LEMMA VmTypedServer ==
    ASSUME VmTyped, ServerCreate PROVE VmTyped'
<1>0. /\ faults \in 0 .. MaxFaults /\ at \in VmPlaces /\ at.vm # Missing /\ at.vm \in Vms
      /\ at.volume \in Volumes \cup {Missing}
      /\ volumes \in [Volumes -> {"none", "creating", "available", "in-use", "error"}]
      /\ servers \in [Servers -> Server \cup {Missing}]
  BY DEF VmTyped, VmPlaces, VMTypeOK, ServerCreate
<1>1. faults' \in 0 .. MaxFaults
  <2>1. Working \/ Failing \/ Either BY DEF ServerCreate
  <2> QED BY <1>0, <2>1, VmCount
<1>2. /\ at' \in VmPlaces /\ at'.pc # "volumeWait"
      /\ (at'.vm = Missing) <=> at'.pc \in {"out", "clear", "prepare", "idle", "failed"}
  <2>1. CASE at' = Out("failed") BY <2>1, VmOut
  <2>2. CASE at' = [at EXCEPT !.pc = "poll"]
    <3>1. "poll" \in PCs BY DEF PCs
    <3>2. at' \in VmPlaces /\ at'.pc = "poll" /\ at'.vm = at.vm BY <1>0, <2>2, <3>1, VmGoes, Zenon
    <3> QED BY <1>0, <3>2
  <2> QED BY <2>1, <2>2 DEF ServerCreate, Raise, Go
<1>3. /\ servers' \in [Servers -> Server \cup {Missing}]
      /\ volumes' \in [Volumes -> {"none", "creating", "available", "in-use", "error"}]
  <2>1. CASE UNCHANGED <<servers, volumes>> BY <1>0, <2>1
  <2>2. CASE /\ at.volume # Missing /\ Accept(at.vm, at.volume)
             /\ at.vm.pinned => nodeDict[at.vm.node] # Missing
    <3>1. at.volume \in Volumes BY <1>0, <2>2
    <3> QED BY <1>0, <2>2, <3>1, VmAccepts
  <2> QED BY <2>1, <2>2 DEF ServerCreate
<1>4. UNCHANGED <<flavors, aggregates, known, used, nodeDict, todo, made, tests>>
  BY DEF ServerCreate, session
<1> QED BY <1>1, <1>2, <1>3, <1>4 DEF VmTyped, VmPlaces, VMTypeOK

\* The fields of a server that change keep their types.
LEMMA VmServerIs ==
    ASSUME VmTyped, NEW s \in Servers, Present(s), NEW st \in Status,
           NEW h \in Hosts \cup {Missing}, NEW t \in Hosts \cup {Missing}
    PROVE  /\ servers[s] \in Server
           /\ [servers EXCEPT ![s].status = st, ![s].target = t] \in [Servers -> Server \cup {Missing}]
           /\ [servers EXCEPT ![s].status = st, ![s].host = h, ![s].target = t]
                \in [Servers -> Server \cup {Missing}]
<1>0. servers \in [Servers -> Server \cup {Missing}] BY DEF VmTyped, VMTypeOK
<1>1. servers[s] \in Server BY <1>0 DEF Present
<1>2. \A r \in Server : /\ [r EXCEPT !.status = st, !.target = t] \in Server
                        /\ [r EXCEPT !.status = st, !.host = h, !.target = t] \in Server
  BY DEF Server
<1>3. /\ [servers EXCEPT ![s].status = st, ![s].target = t]
           = [servers EXCEPT ![s] = [servers[s] EXCEPT !.status = st, !.target = t]]
      /\ [servers EXCEPT ![s].status = st, ![s].host = h, ![s].target = t]
           = [servers EXCEPT ![s] = [servers[s] EXCEPT !.status = st, !.host = h, !.target = t]]
  BY <1>0
<1> QED BY <1>0, <1>1, <1>2, <1>3

\* What the polls of a server do.
LEMMA VmPolls ==
    ASSUME VmTyped, Poll \/ Await
    PROVE  /\ at' \in {Out("failed"), Out("idle")} \/ at' = [at EXCEPT !.pc = "await"]
           /\ at.pc \in {"poll", "await"}
           /\ faults' \in 0 .. MaxFaults
           /\ servers' \in [Servers -> Server \cup {Missing}]
           /\ UNCHANGED <<volumes, flavors, aggregates, known, used, nodeDict, todo, made, tests>>
<1>0. /\ faults \in 0 .. MaxFaults /\ at.vm \in Vms
      /\ servers \in [Servers -> Server \cup {Missing}]
  BY DEF VmTyped, VMTypeOK, Poll, Await
<1> DEFINE Unmoved == Raise /\ (Failing \/ Working) /\ UNCHANGED servers
<1>1. UNCHANGED <<volumes, flavors, aggregates, known, used, nodeDict, todo, made, tests>>
      /\ at.pc \in {"poll", "await"}
  BY DEF Poll, Await, session
<1>2. CASE Unmoved BY <1>0, <1>1, <1>2, VmCount DEF Raise
<1>3. ASSUME NEW s \in Named(at.vm), Shown(s), ~Unmoved
      PROVE  /\ at' = Out("idle") \/ at' = [at EXCEPT !.pc = "await"]
             /\ faults' \in 0 .. MaxFaults
             /\ servers' \in [Servers -> Server \cup {Missing}]
  <2> DEFINE want == nodeDict[at.vm.node]
             moving == [servers EXCEPT ![s].status = "MIGRATING", ![s].target = want]
  <2>1. Built(s) BY <1>3 DEF Shown
  <2>2. /\ at' = Out("idle") \/ at' = [at EXCEPT !.pc = "await"]
        /\ Working \/ Failing
        /\ servers' = servers \/ servers' = moving
    BY <1>3, <2>1, Zenon DEF Built, Done, Go
  <2>3. s \in Servers /\ Present(s) BY DEF Named
  <2>4. want \in Hosts \cup {Missing} BY VmSetupAssumption, <1>0 DEF VmTyped, VMTypeOK
  <2>5. "MIGRATING" \in Status BY DEF Status
  <2> HIDE DEF want
  <2>6. moving \in [Servers -> Server \cup {Missing}] BY <2>3, <2>4, <2>5, VmServerIs, Zenon
  <2> QED BY <1>0, <2>2, <2>6, VmCount
<1>4. ASSUME NEW s \in Named(at.vm), Arrived(s), ~Unmoved
      PROVE  /\ at' = Out("idle")
             /\ faults' \in 0 .. MaxFaults
             /\ servers' \in [Servers -> Server \cup {Missing}]
  BY <1>0, <1>4, VmCount DEF Arrived, Done
<1>5. Unmoved \/ \E s \in Named(at.vm) : Shown(s) \/ Arrived(s)
  BY Zenon DEF Poll, Await, Detail
<1> QED BY <1>1, <1>2, <1>3, <1>4, <1>5

\* The polls keep types.
LEMMA VmTypedPoll ==
    ASSUME VmTyped, Poll \/ Await PROVE VmTyped'
<1>0. at \in VmPlaces /\ at.vm # Missing /\ at.volume \in Volumes \cup {Missing}
  BY VmPolls DEF VmTyped, VmPlaces, VMTypeOK
<1>1. /\ at' \in VmPlaces /\ at'.pc # "volumeWait"
      /\ (at'.vm = Missing) <=> at'.pc \in {"out", "clear", "prepare", "idle", "failed"}
  <2>1. CASE at' \in {Out("failed"), Out("idle")} BY <2>1, VmOut
  <2>2. CASE at' = [at EXCEPT !.pc = "await"]
    <3>1. "await" \in PCs BY DEF PCs
    <3>2. at' \in VmPlaces /\ at'.pc = "await" /\ at'.vm = at.vm BY <1>0, <2>2, <3>1, VmGoes, Zenon
    <3> QED BY <1>0, <3>2
  <2> QED BY <2>1, <2>2, VmPolls
<1> QED BY <1>1, VmPolls DEF VmTyped, VmPlaces, VMTypeOK

\* OpenStack's own steps: a volume or a server becomes what was made for, a server goes.
LEMMA VmOpenStack ==
    ASSUME VmTyped, OpenStack
    PROVE  /\ servers' \in [Servers -> Server \cup {Missing}]
           /\ \/ volumes' = volumes
              \/ \E v \in Volumes : volumes[v] = "creating" /\ volumes' = [volumes EXCEPT ![v] = "error"]
              \/ \E v \in Volumes : volumes' = [volumes EXCEPT ![v] = "available"]
           /\ UNCHANGED <<flavors, aggregates, known, used, nodeDict, at, todo, made, tests, faults>>
<1>0. servers \in [Servers -> Server \cup {Missing}] BY DEF VmTyped, VMTypeOK
<1>1. UNCHANGED <<flavors, aggregates, known, used, nodeDict, at, todo, made, tests, faults>>
  BY DEF OpenStack, session, VolumeMade, Schedule, Escape, Migrated, Removed
<1>2. ASSUME NEW v \in Volumes, VolumeMade(v)
      PROVE  /\ servers' = servers
             /\ \/ volumes[v] = "creating" /\ volumes' = [volumes EXCEPT ![v] = "error"]
                \/ volumes' = [volumes EXCEPT ![v] = "available"]
  BY <1>2 DEF VolumeMade
<1>3. ASSUME NEW s \in Servers, Schedule(s) \/ Escape(s) \/ Migrated(s)
      PROVE  servers' \in [Servers -> Server \cup {Missing}] /\ volumes' = volumes
  <2>1. Present(s) /\ volumes' = volumes BY <1>3 DEF Schedule, Escape, Migrated
  <2>2. {"ACTIVE", "ERROR", "MIGRATING"} \subseteq Status BY DEF Status
  <2>3. servers[s].host \in Hosts \cup {Missing} /\ servers[s].target \in Hosts \cup {Missing}
    BY <1>0, <2>1 DEF Present, Server
  <2>4. \/ \E st \in Status, t \in Hosts \cup {Missing} :
              servers' = [servers EXCEPT ![s].status = st, ![s].target = t]
        \/ \E st \in Status, h \in Hosts \cup {Missing} :
              servers' = [servers EXCEPT ![s].status = st, ![s].host = h, ![s].target = Missing]
    <3>1. CASE Schedule(s) BY <2>2, <3>1 DEF Schedule, Room
    <3>2. CASE Escape(s) BY <2>2, <3>2 DEF Escape
    <3>3. CASE Migrated(s)
      <4>1. PICK h \in {servers[s].host, servers[s].target} :
              servers' = [servers EXCEPT ![s].status = "ACTIVE", ![s].host = h, ![s].target = Missing]
        BY <3>3 DEF Migrated
      <4> QED BY <2>2, <2>3, <4>1
    <3> QED BY <1>3, <3>1, <3>2, <3>3
  <2>5. ASSUME NEW st \in Status, NEW h \in Hosts \cup {Missing}, NEW t \in Hosts \cup {Missing}
        PROVE  /\ [servers EXCEPT ![s].status = st, ![s].target = t] \in [Servers -> Server \cup {Missing}]
               /\ [servers EXCEPT ![s].status = st, ![s].host = h, ![s].target = t]
                    \in [Servers -> Server \cup {Missing}]
    BY <2>1, VmServerIs, Zenon
  <2>6. Missing \in Hosts \cup {Missing} OBVIOUS
  <2>7. ASSUME NEW st \in Status, NEW t \in Hosts \cup {Missing},
               servers' = [servers EXCEPT ![s].status = st, ![s].target = t]
        PROVE  servers' \in [Servers -> Server \cup {Missing}]
    BY <2>5, <2>6, <2>7, Zenon
  <2>8. ASSUME NEW st \in Status, NEW h \in Hosts \cup {Missing},
               servers' = [servers EXCEPT ![s].status = st, ![s].host = h, ![s].target = Missing]
        PROVE  servers' \in [Servers -> Server \cup {Missing}]
    BY <2>5, <2>6, <2>8, Zenon
  <2> QED BY <2>1, <2>4, <2>7, <2>8, Zenon
<1>4. ASSUME NEW s \in Servers, Removed(s)
      PROVE  /\ servers' \in [Servers -> Server \cup {Missing}]
             /\ \E v \in Volumes : volumes' = [volumes EXCEPT ![v] = "available"]
  <2>1. servers[s].volume \in Volumes BY <1>0, <1>4 DEF Removed, Present, Server
  <2> QED BY <1>0, <1>4, <2>1 DEF Removed
<1> QED BY <1>0, <1>1, <1>2, <1>3, <1>4 DEF OpenStack

\* OpenStack keeps types.
LEMMA VmTypedOpenStack ==
    ASSUME VmTyped, OpenStack PROVE VmTyped'
<1>1. volumes \in [Volumes -> {"none", "creating", "available", "in-use", "error"}]
  BY DEF VmTyped, VMTypeOK
<1>2. volumes' \in [Volumes -> {"none", "creating", "available", "in-use", "error"}]
  BY <1>1, VmOpenStack
<1> QED BY <1>2, VmOpenStack DEF VmTyped, VMTypeOK

\* Types are inductive.
LEMMA VmTypedNext ==
    ASSUME VmTyped, [VMNext]_vmVars PROVE VmTyped'
<1>1. CASE UNCHANGED vmVars BY <1>1 DEF VmTyped, VMTypeOK, vmVars, cloud, session
<1> QED BY <1>1, VmTypedBegin, VmTypedClear, VmTypedPrepare, VmTypedCreate, VmTypedPick,
           VmTypedNew, VmTypedWait, VmTypedFlavor, VmTypedGroup, VmTypedMetadata, VmTypedServer,
           VmTypedPoll, VmTypedOpenStack, Zenon DEF VMNext, Operation

\* Which volume the test holds.
LEMMA VmFreeInit == ASSUME VMInit PROVE VmListed /\ VmChosen
  BY DEF VMInit, VmListed, VmChosen, Out, Nothing

\* The steps before the first volume.
LEMMA VmFreeCalls ==
    ASSUME VmFree,
           BeginTest \/ ClearFirst \/ ClearAgain \/ Teardown \/ Prepare \/ EndTest
             \/ MoreServers
    PROVE  VmListed' /\ VmChosen'
<1>1. CASE BeginTest
  BY <1>1 DEF BeginTest, Out, Nothing, VmListed, VmChosen
<1>2. CASE ClearFirst \/ ClearAgain \/ Teardown
  <2>1. UNCHANGED <<volumes, known, used>> BY <1>2 DEF ClearFirst, ClearAgain, Teardown, Clear, session
  <2>2. \/ at.pc \in {"clear", "idle"} /\ at'.pc \in {"prepare", "idle", "failed"}
           /\ (at'.pc = "prepare" => at.pc = "clear")
        \/ at'.pc \in {"out", "failed"}
    <3>1. CASE ClearFirst
      <4>1. at' \in {Out("prepare"), Out("failed")} /\ at.pc = "clear"
        BY <3>1 DEF ClearFirst, Clear
      <4> QED BY <4>1, VmOut
    <3>2. CASE ClearAgain
      <4>1. at' \in {Out("idle"), Out("failed")} /\ at.pc = "idle"
        BY <3>2 DEF ClearAgain, Clear
      <4> QED BY <4>1, VmOut
    <3>3. CASE Teardown
      <4>1. at' = Out("out") BY <3>3 DEF Teardown, Clear
      <4> QED BY <4>1, VmOut
    <3> QED BY <1>2, <3>1, <3>2, <3>3
  <2> QED BY <2>1, <2>2 DEF VmFree, VmListed, VmChosen
<1>3. CASE Prepare
  <2>1. /\ at.pc = "prepare" /\ UNCHANGED <<volumes, known>>
        /\ at' = [at EXCEPT !.pc = "idle"] \/ at' = Out("failed")
    BY <1>3 DEF Prepare, cloud, Go, Raise
  <2>2. at'.pc \in {"idle", "failed"}
    BY <2>1, VmOut DEF VmFree, VmTyped, VMTypeOK
  <2> QED BY <2>1, <2>2 DEF VmFree, VmListed, VmChosen, Nothing
<1>4. CASE EndTest
  <2>1. at'.pc = "failed" BY <1>4 DEF EndTest, Out
  <2> QED BY <2>1 DEF VmListed, VmChosen
<1>5. CASE MoreServers BY <1>5 DEF MoreServers, cloud, VmFree, VmListed, VmChosen
<1> QED BY <1>1, <1>2, <1>3, <1>4, <1>5

\* The volume of a server is picked from the list that was read, or is made.
LEMMA VmFreeVolume ==
    ASSUME VmFree,
           CreateServer \/ PickVolume \/ NewVolume \/ VolumeWait
    PROVE  VmListed' /\ VmChosen'
<1>0. at'.pc = "failed" => VmListed' /\ VmChosen' BY DEF VmListed, VmChosen
<1>9. at' = Out("failed") => at'.pc = "failed" BY VmOut
<1>1. CASE CreateServer
  <2>1. CASE Raise BY <1>0, <1>9, <2>1 DEF Raise
  <2>2. ASSUME at'.pc = "volume",
               \/ known.listed /\ UNCHANGED known
               \/ \E V \in SUBSET {v \in Volumes : volumes[v] = "available"}, b \in BOOLEAN :
                     known' = [known EXCEPT !.volumes = V, !.listed = b]
        PROVE  VmListed' /\ VmChosen'
    <3>1. UNCHANGED <<volumes, used>> /\ at.pc = "idle" BY <1>1 DEF CreateServer, cloud
    <3>2. \A v \in known'.volumes \ used' : volumes'[v] = "available"
      <4>1. CASE UNCHANGED known BY <3>1, <4>1 DEF VmFree, VmListed
      <4>2. ASSUME NEW V \in SUBSET {v \in Volumes : volumes[v] = "available"}, NEW b \in BOOLEAN,
                   known' = [known EXCEPT !.volumes = V, !.listed = b]
            PROVE  \A v \in known'.volumes \ used' : volumes'[v] = "available"
        <5>1. known'.volumes = V BY <4>2 DEF VmFree, VmTyped, VMTypeOK
        <5> QED BY <3>1, <5>1
      <4> QED BY <2>2, <4>1, <4>2
    <3> QED BY <2>2, <3>2 DEF VmListed, VmChosen
  <2>3. \/ Raise
        \/ /\ at'.pc = "volume"
           /\ \/ known.listed /\ UNCHANGED known
              \/ \E V \in SUBSET {v \in Volumes : volumes[v] = "available"}, b \in BOOLEAN :
                     known' = [known EXCEPT !.volumes = V, !.listed = b]
    <3> DEFINE there == {v \in Volumes : volumes[v] = "available"}
               some == \E v \in Volumes : volumes[v] = "available"
    <3>1. \/ Raise
          \/ /\ \E vm : at' = [pc |-> "volume", vm |-> vm, volume |-> Missing]
             /\ \/ known.listed /\ UNCHANGED known
                \/ \E unread \in SUBSET there :
                      known' = [known EXCEPT !.volumes = there \ unread, !.listed = some]
      BY <1>1, Zenon DEF CreateServer
    <3>2. some \in BOOLEAN OBVIOUS
    <3> HIDE DEF there, some
    <3>3. ASSUME NEW unread \in SUBSET there,
                 known' = [known EXCEPT !.volumes = there \ unread, !.listed = some]
          PROVE  \E V \in SUBSET there, b \in BOOLEAN :
                    known' = [known EXCEPT !.volumes = V, !.listed = b]
      BY <3>2, <3>3
    <3>4. ASSUME NEW vm, at' = [pc |-> "volume", vm |-> vm, volume |-> Missing]
          PROVE  at'.pc = "volume"
      BY <3>4
    <3> QED BY <3>1, <3>3, <3>4, Zenon DEF there
  <2> QED BY <2>1, <2>2, <2>3
<1>2. CASE PickVolume
  <2>1. PICK v \in Unused : used' = used \cup {v} /\ at' = [at EXCEPT !.pc = "flavor", !.volume = v]
    BY <1>2 DEF PickVolume
  <2>2. UNCHANGED <<volumes, known>> /\ at.pc = "volume" BY <1>2 DEF PickVolume, cloud
  <2>3. v \in Volumes /\ at \in VmPlaces /\ "flavor" \in PCs
    BY DEF VmFree, Unused, VmTyped, VMTypeOK, VmPlaces, PCs
  <2>4. at'.pc = "flavor" /\ at'.volume = v BY <2>1, <2>3, VmGoes, Zenon
  <2>5. volumes[v] = "available" BY <2>2 DEF VmFree, VmListed, Unused
  <2> QED BY <2>1, <2>2, <2>4, <2>5 DEF VmFree, VmListed, VmChosen
<1>3. CASE NewVolume
  <2>1. CASE Raise BY <1>0, <1>9, <2>1 DEF Raise
  <2>2. CASE \E v \in Volumes : at' = [at EXCEPT !.pc = "volumeWait", !.volume = v]
    <3>1. PICK v \in Volumes : at' = [at EXCEPT !.pc = "volumeWait", !.volume = v] BY <2>2
    <3>2. at \in VmPlaces /\ "volumeWait" \in PCs BY DEF VmFree, VmTyped, VMTypeOK, VmPlaces, PCs
    <3>3. at'.pc = "volumeWait" BY <3>1, <3>2, VmGoes, Zenon
    <3>4. Unused = {} /\ UNCHANGED <<known, used>> BY <1>3 DEF NewVolume, session
    <3> QED BY <3>3, <3>4 DEF VmListed, VmChosen, Unused
  <2> QED BY <1>3, <2>1, <2>2 DEF NewVolume
<1>4. CASE VolumeWait
  <2>0. at \in VmPlaces /\ "flavor" \in PCs /\ at.pc = "volumeWait" /\ at.volume \in Volumes
        /\ UNCHANGED volumes
    BY <1>4 DEF VmFree, VmTyped, VMTypeOK, VmPlaces, PCs, VolumeWait, cloud
  <2>1. CASE Raise BY <1>0, <1>9, <2>1 DEF Raise
  <2>2. CASE /\ volumes[at.volume] = "available"
             /\ known' = [known EXCEPT !.volumes = @ \cup {at.volume}, !.listed = TRUE]
             /\ used' = used \cup {at.volume}
             /\ at' = [at EXCEPT !.pc = "flavor"]
    <3>1. at'.pc = "flavor" /\ at'.volume = at.volume BY <2>0, <2>2, VmGoes, Zenon
    <3>2. known'.volumes = known.volumes \cup {at.volume}
      BY <2>2 DEF VmFree, VmTyped, VMTypeOK
    <3> QED BY <2>0, <2>2, <3>1, <3>2 DEF VmFree, VmListed, VmChosen
  <2>3. CASE /\ at' = [at EXCEPT !.pc = "flavor", !.volume = Missing]
             /\ UNCHANGED <<known, used>>
    <3>1. at'.pc = "flavor" /\ at'.volume = Missing BY <2>0, <2>3, VmGoes, Zenon
    <3> QED BY <2>0, <2>3, <3>1 DEF VmFree, VmListed, VmChosen
  <2> QED BY <1>4, <2>1, <2>2, <2>3 DEF VolumeWait, Go
<1> QED BY <1>1, <1>2, <1>3, <1>4

\* The steps after that leave the list and, until the server is made, the volume.
LEMMA VmFreeServer ==
    ASSUME VmFree,
           GetFlavor \/ GetAggregate \/ UpdateAggregate \/ SetMetadata \/ ServerCreate
             \/ Poll \/ Await
    PROVE  VmListed' /\ VmChosen'
<1>0. /\ at \in VmPlaces /\ at.volume \in Volumes \cup {Missing}
      /\ at.pc \in {"flavor", "aggregate", "update", "metadata", "server", "poll", "await"}
  BY DEF VmFree, VmTyped, VMTypeOK, VmPlaces, GetFlavor, GetAggregate, UpdateAggregate,
         SetMetadata, ServerCreate, Poll, Await
<1>1. \/ at' \in {Out("failed"), Out("idle")}
      \/ \E pc \in {"aggregate", "update", "metadata", "server", "poll", "await"} :
            at' = [at EXCEPT !.pc = pc] /\ (pc \in {"aggregate", "update", "metadata", "server"} =>
                     at.pc \in {"flavor", "aggregate", "update", "metadata"})
  <2>1. CASE GetFlavor BY <2>1, Zenon DEF GetFlavor, Raise, Go
  <2>2. CASE GetAggregate \/ UpdateAggregate
    <3>1. at.pc \in {"aggregate", "update"} BY <2>2 DEF GetAggregate, UpdateAggregate
    <3> QED BY <2>2, <3>1, VmGroups DEF VmFree
  <2>3. CASE SetMetadata BY <2>3, Zenon DEF SetMetadata, Go
  <2>4. CASE ServerCreate BY <2>4 DEF ServerCreate, Go, Raise
  <2>5. CASE Poll \/ Await BY <2>5, VmPolls DEF VmFree
  <2> QED BY <2>1, <2>2, <2>3, <2>4, <2>5
<1>2. \/ at'.pc = "failed" \/ at'.pc = "idle"
      \/ /\ at'.volume = at.volume /\ at'.pc \in {"aggregate", "update", "metadata", "server", "poll", "await"}
         /\ at'.pc \in {"aggregate", "update", "metadata", "server"} =>
                     at.pc \in {"flavor", "aggregate", "update", "metadata"}
  <2>1. CASE at' \in {Out("failed"), Out("idle")} BY <2>1, VmOut
  <2>2. ASSUME NEW pc \in {"aggregate", "update", "metadata", "server", "poll", "await"},
               at' = [at EXCEPT !.pc = pc]
        PROVE  at'.volume = at.volume /\ at'.pc = pc
    <3>1. pc \in PCs BY DEF PCs
    <3> QED BY <1>0, <2>2, <3>1, VmGoes, Zenon
  <2> QED BY <1>1, <2>1, <2>2
<1>3. /\ used' = used /\ known'.volumes = known.volumes
  <2>1. used' = used
    BY DEF GetFlavor, GetAggregate, UpdateAggregate, SetMetadata, ServerCreate, Poll,
           Await, session
  <2>2. \/ known' = known \/ \E l : known' = [known EXCEPT !.flavors = l]
        \/ \E l : known' = [known EXCEPT !.aggregates = l]
    <3>1. CASE GetFlavor \/ SetMetadata BY <3>1, Zenon DEF GetFlavor, SetMetadata
    <3>2. CASE GetAggregate \/ UpdateAggregate BY <3>2, VmGroups DEF VmFree
    <3>3. CASE ServerCreate \/ Poll \/ Await BY <3>3 DEF ServerCreate, Poll, Await, session
    <3> QED BY <3>1, <3>2, <3>3
  <2> QED BY <2>1, <2>2 DEF VmFree, VmTyped, VMTypeOK
<1>4. \/ volumes' = volumes
      \/ /\ at.pc = "server" /\ at.volume # Missing /\ at'.pc \notin {"aggregate", "update", "metadata", "server"}
         /\ volumes' = [volumes EXCEPT ![at.volume] = "in-use"]
  <2>1. CASE ~ServerCreate
    BY <2>1 DEF GetFlavor, GetAggregate, UpdateAggregate, SetMetadata, Poll, Await
  <2>2. CASE ServerCreate
    <3>1. at.pc = "server" BY <2>2 DEF ServerCreate
    <3>2. \/ volumes' = volumes
          \/ at.volume # Missing /\ volumes' = [volumes EXCEPT ![at.volume] = "in-use"]
      BY <2>2, Zenon DEF ServerCreate, Accept
    <3> QED BY <1>2, <3>1, <3>2
  <2> QED BY <2>1, <2>2
<1>5. CASE volumes' = volumes BY <1>0, <1>2, <1>3, <1>5 DEF VmFree, VmListed, VmChosen
<1>6. ASSUME at.pc = "server", at.volume # Missing, at'.pc \notin {"aggregate", "update", "metadata", "server"},
             volumes' = [volumes EXCEPT ![at.volume] = "in-use"]
      PROVE  VmListed' /\ VmChosen'
  <2>1. at.volume \in used BY <1>6 DEF VmFree, VmChosen
  <2>2. \A v \in Volumes : v # at.volume => volumes'[v] = volumes[v]
    BY <1>6 DEF VmFree, VmTyped, VMTypeOK
  <2>3. known.volumes \subseteq Volumes BY DEF VmFree, VmTyped, VMTypeOK
  <2> QED BY <1>2, <1>3, <1>6, <2>1, <2>2, <2>3 DEF VmFree, VmListed, VmChosen
<1> QED BY <1>4, <1>5, <1>6

\* OpenStack takes no volume that is available.
LEMMA VmFreeOpenStack ==
    ASSUME VmFree, OpenStack PROVE VmListed' /\ VmChosen'
<1>1. /\ volumes \in [Volumes -> {"none", "creating", "available", "in-use", "error"}]
      /\ known.volumes \subseteq Volumes /\ at.volume \in Volumes \cup {Missing}
  BY DEF VmFree, VmTyped, VMTypeOK
<1>2. \A v \in Volumes : volumes[v] = "available" => volumes'[v] = "available"
  BY <1>1, VmOpenStack DEF VmFree
<1>3. UNCHANGED <<known, used, at>> BY VmOpenStack DEF VmFree
<1> QED BY <1>1, <1>2, <1>3 DEF VmFree, VmListed, VmChosen

\* VmFree is inductive.
LEMMA VmFreeNext ==
    ASSUME VmFree, [VMNext]_vmVars PROVE VmFree'
<1>1. VmTyped' BY VmTypedNext DEF VmFree
<1>2. CASE UNCHANGED vmVars
  BY <1>1, <1>2 DEF VmFree, VmListed, VmChosen, vmVars, cloud, session
<1>3. CASE VMNext
  <2>1. VmListed' /\ VmChosen'
    BY <1>3, VmFreeCalls, VmFreeVolume, VmFreeServer, VmFreeOpenStack, Zenon DEF VMNext, Operation
  <2> QED BY <1>1, <2>1 DEF VmFree
<1> QED BY <1>2, <1>3

\* prepare_topo() and create_server() keep the types of OpenStack's records and of the
\* test's copies, whatever commands fail.
THEOREM MachineTypes == VMSpec => []VMTypeOK
<1>1. VMInit => VmTyped BY VmTypedInit
<1>2. VmTyped /\ [VMNext]_vmVars => VmTyped' BY VmTypedNext
<1>3. VmTyped => VMTypeOK BY DEF VmTyped
<1> QED BY <1>1, <1>2, <1>3, PTL DEF VMSpec

\* The volume create_server() is about to create a server with is free, although the
\* test read the list of volumes once.
THEOREM VolumesFree == VMSpec => []VolumeIsFree
<1>1. VMInit => VmFree BY VmTypedInit, VmFreeInit DEF VmFree
<1>2. VmFree /\ [VMNext]_vmVars => VmFree' BY VmFreeNext
<1>3. VmFree => VolumeIsFree BY DEF VmFree, VmChosen, VolumeIsFree
<1> QED BY <1>1, <1>2, <1>3, PTL DEF VMSpec

\* Steps that leave what the virtual machines are bound by.
LEMMA VmQuiet ==
    ASSUME VmOrder, faults' = 0 => faults = 0,
           UNCHANGED <<flavors, aggregates, nodeDict>>,
           at'.pc \notin {"out", "failed"} =>
              /\ at.pc \notin {"out", "failed"}
              /\ known'.aggregates = known.aggregates /\ known'.flavors = known.flavors,
           at.pc \notin {"aggregate", "metadata"},
           at'.pc \notin {"aggregate", "update", "metadata", "server"},
           at'.pc # "out" => at.pc # "out"
    PROVE  VmOrder'
<1> SUFFICES ASSUME faults' = 0 PROVE VmCloud' /\ VmCopies' /\ VmTurn' BY DEF VmOrder
<1>1. VmCloud /\ VmCopies BY DEF VmOrder
<1>2. VmCloud' BY <1>1 DEF VmCloud, Flavors
<1>3. VmCopies' BY <1>1 DEF VmCopies, Flavors
<1>4. VmTurn' BY DEF VmTurn
<1> QED BY <1>2, <1>3, <1>4

\* Nothing failed before when nothing has failed after.
LEMMA VmNoFailure ==
    ASSUME VmTyped, faults' = 0
    PROVE  /\ ~Failing
           /\ Working => faults = 0
           /\ \A S \in {Servers, Volumes, Hosts} : \A kept \in SUBSET S :
                 faults' = faults + Cardinality(kept) => faults = 0 /\ kept = {}
<1>1. faults \in Nat BY DEF VmTyped, VMTypeOK
<1>2. ~Failing /\ (Working => faults = 0) BY <1>1 DEF Failing, Working
<1>3. ASSUME NEW S \in {Servers, Volumes, Hosts}, NEW kept \in SUBSET S,
             faults' = faults + Cardinality(kept)
      PROVE  faults = 0 /\ kept = {}
  <2>1. faults \in 0 .. MaxFaults BY DEF VmTyped, VMTypeOK
  <2>2. Cardinality(kept) \in Nat /\ (Cardinality(kept) = 0 => kept = {}) BY <2>1, VmCount
  <2> QED BY <1>1, <1>3, <2>2
<1> QED BY <1>2, <1>3

\* The order at the start.
LEMMA VmOrderInit == ASSUME VMInit PROVE VmOrder
<1>1. at.pc = "out" BY DEF VMInit, Out
<1>2. \A f \in Flavors : flavors[f] \in {"none", "metadata"} BY DEF VMInit
<1>3. ASSUME NEW n \in PlanNodes, aggregates[n] # Missing PROVE \E h \in Hosts : aggregates[n] = {h}
  <2>1. aggregates \in [PlanNodes -> {{h} : h \in Hosts}] BY <1>3 DEF VMInit
  <2>2. aggregates[n] \in {{h} : h \in Hosts} BY <2>1
  <2> QED BY <2>2
<1> QED BY <1>1, <1>2, <1>3 DEF VmOrder, VmCloud, VmCopies, VmTurn

\* A new test.
LEMMA VmOrderBegin ==
    ASSUME VmTyped, VmOrder, BeginTest PROVE VmOrder'
<1> SUFFICES ASSUME faults' = 0 PROVE VmCloud' /\ VmCopies' /\ VmTurn' BY DEF VmOrder
<1>1. PICK hosts \in [PlanNodes -> Hosts] :
         \/ nodeDict' = hosts /\ Working
         \/ nodeDict' = [hosts EXCEPT ![MasterNode] = Missing] /\ Failing
  BY DEF BeginTest
<1>2. nodeDict' \in [PlanNodes -> Hosts] /\ faults = 0 BY <1>1, VmNoFailure
<1>3. VmCloud BY <1>2 DEF VmOrder
<1>4. at.pc = "out" /\ at'.pc = "clear" /\ UNCHANGED <<flavors, aggregates>>
      /\ known'.aggregates = {} /\ known'.flavors = {}
  BY DEF BeginTest, Out, cloud, Nothing
<1>5. VmCloud' BY <1>2, <1>3, <1>4 DEF VmCloud, Flavors
<1>6. VmCopies' BY <1>4 DEF VmCopies
<1>7. VmTurn' BY <1>4 DEF VmTurn
<1> QED BY <1>5, <1>6, <1>7

\* What is known of flavors and aggregates outlasts what is read of the volumes.
LEMMA VmKnown ==
    ASSUME VmTyped, NEW V, NEW b, known' = [known EXCEPT !.volumes = V, !.listed = b]
    PROVE  known'.aggregates = known.aggregates /\ known'.flavors = known.flavors
BY DEF VmTyped, VMTypeOK

\* The steps around a test and those that find a volume.
LEMMA VmOrderCalls ==
    ASSUME VmTyped, VmOrder,
           ClearFirst \/ ClearAgain \/ Teardown \/ Prepare \/ EndTest \/ MoreServers
             \/ CreateServer \/ PickVolume \/ NewVolume \/ VolumeWait
    PROVE  VmOrder'
<1> DEFINE Early == {"clear", "prepare", "idle", "volume", "volumeWait", "flavor"}
<1>0. at \in VmPlaces BY DEF VmTyped, VMTypeOK, VmPlaces
<1>1. /\ UNCHANGED <<flavors, aggregates, nodeDict>>
      /\ at.pc \in {"clear", "prepare", "idle", "volume", "volumeWait", "failed"}
  BY DEF ClearFirst, ClearAgain, Teardown, Clear, Prepare, EndTest, MoreServers,
         CreateServer, PickVolume, NewVolume, VolumeWait, cloud, session
<1>2. \/ at' = at /\ at.pc = "idle"
      \/ at' \in {Out("failed"), Out("out")}
      \/ at.pc # "failed" /\ at' \in {Out("prepare"), Out("idle")}
      \/ at.pc # "failed" /\ at'.pc = "volume"
      \/ at.pc # "failed" /\ \E pc \in Early, v \in Volumes \cup {Missing} :
            \/ at' = [at EXCEPT !.pc = pc, !.volume = v]
            \/ at' = [at EXCEPT !.pc = pc] /\ v = at.volume
  <2>1. CASE ClearFirst \/ ClearAgain \/ Teardown
    BY <2>1 DEF ClearFirst, ClearAgain, Teardown, Clear
  <2>2. at.volume \in Volumes \cup {Missing} BY <1>0 DEF VmPlaces
  <2>3. CASE Prepare \/ EndTest \/ MoreServers
    BY <2>2, <2>3 DEF Prepare, EndTest, MoreServers, Raise, Go
  <2>4. CASE CreateServer
    <3>1. \/ at' = Out("failed")
          \/ \E vm : at' = [pc |-> "volume", vm |-> vm, volume |-> Missing]
      BY <2>4 DEF CreateServer, Raise
    <3>2. at.pc = "idle" BY <2>4 DEF CreateServer
    <3>3. ASSUME NEW vm, at' = [pc |-> "volume", vm |-> vm, volume |-> Missing]
          PROVE  at'.pc = "volume"
      BY <3>3
    <3> QED BY <3>1, <3>2, <3>3
  <2>5. CASE PickVolume
    <3>1. PICK v \in Unused : at' = [at EXCEPT !.pc = "flavor", !.volume = v] BY <2>5 DEF PickVolume
    <3>2. v \in Volumes /\ at.pc = "volume" BY <2>5 DEF PickVolume, Unused, VmTyped, VMTypeOK
    <3> QED BY <3>1, <3>2
  <2>6. CASE NewVolume BY <2>6 DEF NewVolume, Raise
  <2>7. CASE VolumeWait BY <2>2, <2>7 DEF VolumeWait, Raise, Go
  <2> QED BY <2>1, <2>3, <2>4, <2>5, <2>6, <2>7
<1>3. \/ at'.pc \in {"out", "failed"}
      \/ at.pc # "failed" /\ at'.pc \in Early
  <2>1. CASE at' \in {Out("failed"), Out("out"), Out("prepare"), Out("idle")}
    BY <1>2, <2>1, VmOut
  <2>2. ASSUME NEW pc \in Early, NEW v \in Volumes \cup {Missing},
            \/ at' = [at EXCEPT !.pc = pc, !.volume = v]
            \/ at' = [at EXCEPT !.pc = pc] /\ v = at.volume
        PROVE at'.pc = pc
    <3>1. pc \in PCs BY DEF PCs
    <3> QED BY <1>0, <2>2, <3>1, VmGoes, Zenon
  <2> QED BY <1>2, <2>1, <2>2
<1>4. at'.pc # "out" => at.pc # "out" BY <1>1
<1>5. known'.aggregates = known.aggregates /\ known'.flavors = known.flavors
  <2>1. known' = known \/ \E V, b : known' = [known EXCEPT !.volumes = V, !.listed = b]
    BY DEF ClearFirst, ClearAgain, Teardown, Clear, Prepare, EndTest, MoreServers,
         CreateServer, PickVolume, NewVolume, VolumeWait, cloud, session
  <2> QED BY <2>1, VmKnown
<1>6. ASSUME faults' = 0 PROVE faults = 0
  <2>1. CASE Working \/ Failing BY <1>6, <2>1, VmNoFailure
  <2>2. CASE \E kept \in SUBSET {s \in Servers : Present(s)} :
                faults' = faults + Cardinality(kept)
    BY <1>6, <2>2, VmNoFailure
  <2>3. CASE \E unread \in SUBSET {v \in Volumes : volumes[v] = "available"} :
                faults' = faults + Cardinality(unread)
    BY <1>6, <2>3, VmNoFailure
  <2>4. \/ Working \/ Failing
        \/ \E kept \in SUBSET {s \in Servers : Present(s)} :
                faults' = faults + Cardinality(kept)
        \/ \E unread \in SUBSET {v \in Volumes : volumes[v] = "available"} :
                faults' = faults + Cardinality(unread)
    BY DEF ClearFirst, ClearAgain, Teardown, Clear, Prepare, EndTest, MoreServers,
         CreateServer, PickVolume, NewVolume, VolumeWait, Working
  <2> QED BY <2>1, <2>2, <2>3, <2>4
<1> QED BY <1>1, <1>3, <1>4, <1>5, <1>6, VmQuiet

\* A flavor that is not known is made, one that is known is whole.
LEMMA VmOrderFlavor ==
    ASSUME VmTyped, VmOrder, GetFlavor PROVE VmOrder'
<1> SUFFICES ASSUME faults' = 0 PROVE VmCloud' /\ VmCopies' /\ VmTurn' BY DEF VmOrder
<1> DEFINE f == FlavorOf(at.vm)
           list == IF known.flavors = {} THEN {g \in Flavors : flavors[g] # "none"}
                   ELSE known.flavors
           created == [flavors EXCEPT ![f] = IF @ = "none" THEN "bare" ELSE @]
           next == IF at.vm.removable THEN "metadata" ELSE "aggregate"
<1>1. ~Failing BY VmNoFailure
<1>2. /\ at.pc = "flavor" /\ UNCHANGED <<aggregates, nodeDict>>
      /\ known' = [known EXCEPT !.flavors = list]
      /\ Working
      /\ \/ f \in list /\ Go(IF at.vm.removable THEN "server" ELSE "update") /\ flavors' = flavors
         \/ f \notin list /\ Go(next) /\ flavors' = created
  BY <1>1, Zenon DEF GetFlavor
<1>3. faults = 0 BY <1>2, VmNoFailure
<1>4. VmCloud /\ VmCopies BY <1>3 DEF VmOrder
<1>5. /\ at \in VmPlaces /\ at.vm \in Vms /\ at.vm.removable \in BOOLEAN /\ at.volume \in Volumes \cup {Missing}
      /\ known \in [volumes : SUBSET Volumes, listed : BOOLEAN, flavors : SUBSET Flavors,
                 aggregates : SUBSET PlanNodes]
      /\ flavors \in [Flavors -> {"none", "bare", "metadata"}]
  BY VmSetupAssumption, <1>2 DEF VmTyped, VMTypeOK, VmPlaces
<1>6. f \in Flavors /\ (~at.vm.removable => f = at.vm.node)
  BY VmSetupAssumption, <1>5 DEF FlavorOf, Flavors
<1>7. \A g \in Flavors : flavors[g] \in {"none", "metadata"} BY <1>2, <1>4 DEF VmCloud
<1>8. list \in SUBSET Flavors /\ \A g \in list : flavors[g] = "metadata"
  BY <1>2, <1>4, <1>5, <1>7 DEF VmCopies
<1>9. known'.flavors = list /\ known'.aggregates = known.aggregates BY <1>2, <1>5
<1> HIDE DEF f, list, VmPlaces
<1>10. ASSUME NEW pc \in PCs, Go(pc) PROVE at'.pc = pc /\ at'.vm = at.vm
  BY <1>5, <1>10, VmGoes, Zenon DEF Go
<1>11. {"server", "update", "metadata", "aggregate"} \subseteq PCs BY DEF PCs
<1>12. CASE f \in list /\ Go(IF at.vm.removable THEN "server" ELSE "update") /\ flavors' = flavors
  <2>1. at'.pc = (IF at.vm.removable THEN "server" ELSE "update") /\ at'.vm = at.vm
    BY <1>10, <1>11, <1>12, <1>5
  <2>2. VmCloud' BY <1>2, <1>4, <1>7, <1>12, <2>1 DEF VmCloud, Flavors
  <2>3. VmCopies' BY <1>2, <1>4, <1>8, <1>9, <1>12, <2>1 DEF VmCopies, Flavors
  <2>4. VmTurn' BY <1>2, <1>6, <1>8, <1>12, <2>1 DEF VmTurn
  <2> QED BY <2>2, <2>3, <2>4
<1>13. CASE f \notin list /\ Go(next) /\ flavors' = created
  <2>1. at'.pc = next /\ at'.vm = at.vm BY <1>10, <1>11, <1>13, <1>5
  <2>2. /\ \A g \in Flavors : g # f => flavors'[g] = flavors[g]
        /\ flavors'[f] # "none"
    BY <1>5, <1>6, <1>13
  <2> HIDE DEF created
  <2>3. f = FlavorOf(at'.vm) BY <2>1 DEF f
  <2>4. VmCloud'
    <3>1. \A n \in PlanNodes : aggregates'[n] # Missing => \E h \in Hosts : aggregates'[n] = {h}
      BY <1>2, <1>4 DEF VmCloud
    <3>2. \A g \in Flavors : flavors'[g] \in {"none", "metadata"} \/ g = f BY <1>7, <2>2
    <3>3. at'.pc \in {"aggregate", "metadata"} BY <2>1
    <3>4. nodeDict' \in [PlanNodes -> Hosts] BY <1>2, <1>4 DEF VmCloud
    <3> QED BY <2>3, <3>1, <3>2, <3>3, <3>4 DEF VmCloud, Flavors
  <2>5. VmCopies'
    <3>1. \A g \in list : g # f /\ flavors'[g] = "metadata" BY <1>8, <1>13, <2>2
    <3> QED BY <1>2, <1>4, <1>8, <1>9, <3>1 DEF VmCopies, Flavors
  <2>6. VmTurn' BY <2>1, <2>2, <2>3 DEF VmTurn
  <2> QED BY <2>4, <2>5, <2>6
<1> QED BY <1>2, <1>12, <1>13

\* Bound to its node: the one host of an aggregate is the node's host, or becomes it.
LEMMA VmRebinds ==
    ASSUME VmTyped, VmCloud, faults' = 0, at.pc # "out",
           NEW n \in PlanNodes, NEW pc, aggregates[n] # Missing, Bind(n, pc)
    PROVE  /\ at' = [at EXCEPT !.pc = pc]
           /\ faults = 0
           /\ nodeDict[n] \in Hosts
           /\ aggregates' = [aggregates EXCEPT ![n] = {nodeDict[n]}]
<1>1. nodeDict[n] \in Hosts /\ nodeDict[n] # Missing
  BY VmSetupAssumption DEF VmCloud
<1>2. PICK first \in aggregates[n] :
         /\ Go(pc)
         /\ IF first = nodeDict[n] THEN Working /\ UNCHANGED aggregates ELSE Rebind(n)
  BY <1>1 DEF Bind
<1>3. aggregates \in [PlanNodes -> (SUBSET Hosts) \cup {Missing}] BY DEF VmTyped
<1>4. PICK h \in Hosts : aggregates[n] = {h} BY DEF VmCloud
<1>5. CASE first = nodeDict[n]
  <2>1. aggregates[n] = {nodeDict[n]} BY <1>2, <1>4, <1>5
  <2>2. aggregates = [aggregates EXCEPT ![n] = {nodeDict[n]}] BY <1>3, <2>1
  <2> QED BY <1>1, <1>2, <1>5, <2>2, VmNoFailure DEF Go
<1>6. CASE first # nodeDict[n]
  <2>1. PICK kept \in SUBSET aggregates[n], added \in BOOLEAN :
           /\ aggregates' = [aggregates EXCEPT ![n] = kept \cup IF added THEN {nodeDict[n]} ELSE {}]
           /\ faults' = faults + Cardinality(kept) + (IF added THEN 0 ELSE 1)
    BY <1>2, <1>6 DEF Rebind
  <2>2. kept \in SUBSET Hosts BY <1>4
  <2>3. faults \in Nat /\ faults \in 0 .. MaxFaults BY DEF VmTyped, VMTypeOK
  <2>4. Cardinality(kept) \in Nat /\ (Cardinality(kept) = 0 => kept = {})
    BY <2>2, <2>3, VmCount
  <2>5. added /\ faults = 0 /\ Cardinality(kept) = 0 BY <2>1, <2>3, <2>4
  <2>6. kept = {} BY <2>4, <2>5
  <2>7. (kept \cup IF added THEN {nodeDict[n]} ELSE {}) = {nodeDict[n]} BY <2>5, <2>6
  <2> QED BY <1>1, <1>2, <2>1, <2>5, <2>7 DEF Go
<1> QED BY <1>5, <1>6

\* A bind of which no part failed follows commands that all worked.
LEMMA VmNoFailureBound ==
    ASSUME VmTyped, faults' = 0, NEW n \in PlanNodes,
           aggregates[n] # Missing, NEW pc, Bind(n, pc)
    PROVE  faults = 0
<1>1. CASE Working BY <1>1, VmNoFailure
<1>2. CASE Rebind(n)
  <2>1. PICK kept \in SUBSET aggregates[n], added \in BOOLEAN :
           faults' = faults + Cardinality(kept) + (IF added THEN 0 ELSE 1)
    BY <1>2 DEF Rebind
  <2>2. faults \in Nat /\ faults \in 0 .. MaxFaults /\ aggregates[n] \subseteq Hosts
    BY DEF VmTyped, VMTypeOK
  <2>3. kept \in SUBSET Hosts BY <2>2
  <2>4. Cardinality(kept) \in Nat BY <2>2, <2>3, VmCount
  <2> QED BY <2>1, <2>2, <2>4
<1> QED BY <1>1, <1>2 DEF Bind

\* After the aggregate has its node's host.
LEMMA VmBoundIs ==
    ASSUME VmTyped, VmCloud, VmTurn, at.pc \in {"aggregate", "update"},
           UNCHANGED <<flavors, nodeDict>>,
           NEW pc \in {"metadata", "server"}, pc = IF at.pc = "update" THEN "server" ELSE "metadata",
           at' = [at EXCEPT !.pc = pc],
           aggregates' = [aggregates EXCEPT ![at.vm.node] = {nodeDict[at.vm.node]}],
           nodeDict[at.vm.node] \in Hosts
    PROVE  /\ VmCloud' /\ VmTurn' /\ at.vm.node \in PlanNodes
           /\ {m \in PlanNodes : aggregates'[m] # Missing}
                = {m \in PlanNodes : aggregates[m] # Missing} \cup {at.vm.node}
<1> DEFINE n == at.vm.node
<1>1. /\ at \in VmPlaces /\ at.vm \in Vms /\ n \in PlanNodes /\ at.volume \in Volumes \cup {Missing}
      /\ aggregates \in [PlanNodes -> (SUBSET Hosts) \cup {Missing}]
      /\ flavors \in [Flavors -> {"none", "bare", "metadata"}]
  BY VmSetupAssumption DEF VmTyped, VMTypeOK, VmPlaces
<1>2. at'.pc = pc /\ at'.vm = at.vm
  <2>1. pc \in PCs BY DEF PCs
  <2> QED BY <1>1, <2>1, VmGoes, Zenon
<1>3. aggregates'[n] = {nodeDict[n]} /\ \A m \in PlanNodes : m # n => aggregates'[m] = aggregates[m]
  BY <1>1
<1>4. {nodeDict[n]} # Missing
  <2>1. {nodeDict[n]} \in SUBSET Hosts OBVIOUS
  <2> QED BY VmSetupAssumption, <2>1
<1>5. VmCloud'
  <2>1. \A m \in PlanNodes : aggregates'[m] # Missing => \E h \in Hosts : aggregates'[m] = {h}
    BY <1>3 DEF VmCloud
  <2>2. \A g \in Flavors : \/ flavors'[g] \in {"none", "metadata"}
                           \/ at'.pc \in {"aggregate", "metadata"} /\ g = FlavorOf(at'.vm)
    <3>1. CASE at.pc = "aggregate" BY <1>2, <3>1 DEF VmCloud
    <3>2. CASE at.pc = "update" BY <3>2 DEF VmCloud
    <3> QED BY <3>1, <3>2
  <2>3. nodeDict' \in [PlanNodes -> Hosts] BY DEF VmCloud
  <2> QED BY <2>1, <2>2, <2>3 DEF VmCloud, Flavors
<1>6. VmTurn'
  <2>1. CASE at.pc = "aggregate" BY <1>2, <1>3, <2>1 DEF VmTurn
  <2>2. CASE at.pc = "update" BY <1>2, <1>3, <2>2 DEF VmTurn
  <2> QED BY <2>1, <2>2
<1> QED BY <1>1, <1>3, <1>4, <1>5, <1>6

\* The aggregate of a flavor that is new, and of one that exists.
LEMMA VmOrderGroup ==
    ASSUME VmTyped, VmOrder, GetAggregate \/ UpdateAggregate
    PROVE  VmOrder'
<1> SUFFICES ASSUME faults' = 0 PROVE VmCloud' /\ VmCopies' /\ VmTurn' BY DEF VmOrder
<1> DEFINE n == at.vm.node
           list == IF known.aggregates = {} THEN {m \in PlanNodes : aggregates[m] # Missing}
                   ELSE known.aggregates
           there == {m \in PlanNodes : aggregates[m] # Missing}
<1>1. ~Failing BY VmNoFailure
<1>2. /\ at.pc \in {"aggregate", "update"} /\ UNCHANGED <<flavors, nodeDict>>
      /\ at \in VmPlaces /\ at.vm \in Vms /\ n \in PlanNodes
      /\ known \in [volumes : SUBSET Volumes, listed : BOOLEAN, flavors : SUBSET Flavors,
                 aggregates : SUBSET PlanNodes]
  BY VmSetupAssumption, VmGroups DEF GetAggregate, UpdateAggregate, VmTyped, VMTypeOK, VmPlaces
<1>3. ~ShowFails BY <1>1 DEF ShowFails
<1>4. faults = 0
  <2>1. CASE Working BY <2>1, VmNoFailure
  <2>2. CASE aggregates[n] # Missing /\ \E pc : Bind(n, pc) BY <1>2, <2>2, VmNoFailureBound
  <2>3. Working \/ (aggregates[n] # Missing /\ \E pc : Bind(n, pc))
    BY <1>1, <1>3, Zenon DEF GetAggregate, UpdateAggregate, ShowRaises, CreateAggregate
  <2> QED BY <2>1, <2>2, <2>3
<1>5. VmCloud /\ VmCopies /\ VmTurn BY <1>4 DEF VmOrder
<1>6. /\ nodeDict[n] \in Hosts /\ nodeDict[n] # Missing
      /\ aggregates[n] # Missing => aggregates[n] # {}
      /\ {} # Missing
  BY VmSetupAssumption, <1>2, <1>5 DEF VmCloud
<1>7. known.aggregates \in {{}, there} /\ known.flavors \subseteq {f \in Flavors : flavors[f] = "metadata"}
  BY <1>2, <1>5 DEF VmCopies
<1>8. list = there BY <1>7
<1> HIDE DEF list
<1>9. CASE UpdateAggregate
  <2>1. at.pc = "update" /\ known' = known BY <1>9 DEF UpdateAggregate, session
  <2>2. CASE ShowRaises
    <3>1. at'.pc = "failed" /\ aggregates' = aggregates BY <2>2, VmOut DEF ShowRaises, Raise
    <3>2. VmOrder' BY <1>2, <1>4, <2>1, <3>1, VmQuiet
    <3> QED BY <3>2 DEF VmOrder
  <2>3. CASE aggregates[n] # Missing /\ Bind(n, "server")
    <3>1. /\ at' = [at EXCEPT !.pc = "server"]
          /\ aggregates' = [aggregates EXCEPT ![n] = {nodeDict[n]}]
      BY <1>2, <1>5, <2>3, VmRebinds
    <3>2. VmCloud' /\ VmTurn' /\ {m \in PlanNodes : aggregates'[m] # Missing} = there \cup {n}
      BY <1>2, <1>5, <1>6, <2>1, <3>1, VmBoundIs
    <3>3. n \in there BY <1>2, <2>3
    <3>4. VmCopies' BY <1>2, <1>7, <2>1, <3>2, <3>3 DEF VmCopies, Flavors
    <3> QED BY <3>2, <3>4
  <2> QED BY <1>3, <1>6, <1>9, <2>2, <2>3 DEF UpdateAggregate
<1>10. CASE GetAggregate
  <2>1. at.pc = "aggregate" BY <1>10 DEF GetAggregate
  <2>2. ASSUME NEW l \in SUBSET PlanNodes, l = there \cup {n}, known' = [known EXCEPT !.aggregates = l],
               at' = [at EXCEPT !.pc = "metadata"],
               aggregates' = [aggregates EXCEPT ![n] = {nodeDict[n]}]
        PROVE  VmCloud' /\ VmCopies' /\ VmTurn'
    <3>1. VmCloud' /\ VmTurn' /\ {m \in PlanNodes : aggregates'[m] # Missing} = there \cup {n}
      BY <1>2, <1>5, <1>6, <2>1, <2>2, VmBoundIs
    <3>2. known'.aggregates = l /\ known'.flavors = known.flavors BY <1>2, <2>2
    <3>3. VmCopies' BY <1>2, <1>7, <2>2, <3>1, <3>2 DEF VmCopies, Flavors
    <3> QED BY <3>1, <3>3
  <2>3. CASE /\ n \notin list /\ known' = [known EXCEPT !.aggregates = list \cup {n}]
             /\ CreateAggregate(n)
    <3>1. /\ at' = [at EXCEPT !.pc = "metadata"]
          /\ aggregates' = [aggregates EXCEPT ![n] = {nodeDict[n]}]
      BY <1>1, <2>3, Zenon DEF CreateAggregate, Go
    <3>2. list \cup {n} \in SUBSET PlanNodes BY <1>2, <1>8
    <3> QED BY <1>8, <2>2, <2>3, <3>1, <3>2
  <2>4. CASE /\ n \in list /\ known' = [known EXCEPT !.aggregates = list]
             /\ aggregates[n] # Missing /\ Bind(n, "metadata")
    <3>1. /\ at' = [at EXCEPT !.pc = "metadata"]
          /\ aggregates' = [aggregates EXCEPT ![n] = {nodeDict[n]}]
      BY <1>2, <1>5, <2>4, VmRebinds
    <3>2. list \in SUBSET PlanNodes /\ list = there \cup {n} BY <1>8, <2>4
    <3> QED BY <2>2, <2>4, <3>1, <3>2
  <2>5. ~(n \in list /\ aggregates[n] \in {Missing, {}})
    BY <1>6, <1>8
  <2>6. \/ ShowFails
        \/ /\ n \notin list /\ known' = [known EXCEPT !.aggregates = list \cup {n}]
           /\ CreateAggregate(n)
        \/ nodeDict[n] = Missing
        \/ n \in list /\ aggregates[n] \in {Missing, {}}
        \/ /\ n \in list /\ known' = [known EXCEPT !.aggregates = list]
           /\ aggregates[n] # Missing /\ Bind(n, "metadata")
    BY <1>10, Zenon DEF GetAggregate, list
  <2> QED BY <1>3, <1>6, <2>3, <2>4, <2>5, <2>6
<1> QED BY <1>9, <1>10

\* The flavor gets its properties.
LEMMA VmOrderMetadata ==
    ASSUME VmTyped, VmOrder, SetMetadata PROVE VmOrder'
<1> SUFFICES ASSUME faults' = 0 PROVE VmCloud' /\ VmCopies' /\ VmTurn' BY DEF VmOrder
<1> DEFINE f == FlavorOf(at.vm)
           set == [flavors EXCEPT ![f] = IF @ = "none" THEN @ ELSE "metadata"]
<1>1. ~Failing BY VmNoFailure
<1>2. /\ at.pc = "metadata" /\ UNCHANGED <<aggregates, nodeDict>> /\ Working
      /\ at' = [at EXCEPT !.pc = "server"]
      /\ known' = [known EXCEPT !.flavors = @ \cup {f}]
      /\ flavors' = set
  BY <1>1, Zenon DEF SetMetadata, Go
<1>3. VmCloud /\ VmCopies /\ VmTurn BY <1>2, VmNoFailure DEF VmOrder
<1>4. /\ at \in VmPlaces /\ at.vm \in Vms /\ at.volume \in Volumes \cup {Missing}
      /\ known \in [volumes : SUBSET Volumes, listed : BOOLEAN, flavors : SUBSET Flavors,
                 aggregates : SUBSET PlanNodes]
      /\ flavors \in [Flavors -> {"none", "bare", "metadata"}]
  BY <1>2 DEF VmTyped, VMTypeOK, VmPlaces
<1>5. f \in Flavors /\ (~at.vm.removable => f = at.vm.node)
  BY VmSetupAssumption, <1>4 DEF FlavorOf, Flavors
<1>6. flavors[f] # "none" BY <1>2, <1>3 DEF VmTurn
<1>7. flavors'[f] = "metadata" /\ \A g \in Flavors : g # f => flavors'[g] = flavors[g]
  BY <1>2, <1>4, <1>5, <1>6
<1>8. known'.flavors = known.flavors \cup {f} /\ known'.aggregates = known.aggregates BY <1>2, <1>4
<1>9. at'.pc = "server" /\ at'.vm = at.vm
  <2>1. "server" \in PCs BY DEF PCs
  <2> QED BY <1>2, <1>4, <2>1, VmGoes, Zenon
<1>10. \A g \in Flavors : flavors'[g] \in {"none", "metadata"} BY <1>3, <1>7 DEF VmCloud
<1>11. VmCloud' BY <1>2, <1>3, <1>9, <1>10 DEF VmCloud, Flavors
<1>12. \A g \in known'.flavors : g \in Flavors /\ flavors'[g] = "metadata"
  BY <1>2, <1>3, <1>5, <1>7, <1>8 DEF VmCopies
<1>13. VmCopies' BY <1>2, <1>3, <1>8, <1>12 DEF VmCopies, Flavors
<1>14. VmTurn' BY <1>2, <1>3, <1>5, <1>7, <1>9 DEF VmTurn
<1> QED BY <1>11, <1>13, <1>14

\* The server and its polls.
LEMMA VmOrderServer ==
    ASSUME VmTyped, VmOrder, ServerCreate \/ Poll \/ Await
    PROVE  VmOrder'
<1>0. at \in VmPlaces /\ at.volume \in Volumes \cup {Missing} BY DEF VmTyped, VMTypeOK, VmPlaces
<1>1. /\ UNCHANGED <<flavors, aggregates, nodeDict, known>>
      /\ at.pc \in {"server", "poll", "await"}
  BY DEF ServerCreate, Poll, Await, session
<1>2. \/ at' \in {Out("failed"), Out("idle")}
      \/ \E pc \in {"poll", "await"} : at' = [at EXCEPT !.pc = pc]
  <2>1. CASE ServerCreate BY <2>1 DEF ServerCreate, Raise, Go
  <2> QED BY <2>1, VmPolls
<1>3. at'.pc \in {"failed", "idle", "poll", "await"}
  <2>1. CASE at' \in {Out("failed"), Out("idle")} BY <2>1, VmOut
  <2>2. ASSUME NEW pc \in {"poll", "await"}, at' = [at EXCEPT !.pc = pc] PROVE at'.pc = pc
    <3>1. pc \in PCs BY DEF PCs
    <3> QED BY <1>0, <2>2, <3>1, VmGoes, Zenon
  <2> QED BY <1>2, <2>1, <2>2
<1>4. ASSUME faults' = 0 PROVE faults = 0
  <2>1. Working \/ Failing
    BY Zenon DEF ServerCreate, Either, Poll, Await, Detail, Shown, Built, Arrived
  <2> QED BY <1>4, <2>1, VmNoFailure
<1> QED BY <1>1, <1>3, <1>4, VmQuiet

\* OpenStack changes neither a flavor nor an aggregate.
LEMMA VmOrderOpenStack ==
    ASSUME VmTyped, VmOrder, OpenStack PROVE VmOrder'
<1>1. UNCHANGED <<flavors, aggregates, known, nodeDict, at, faults>> BY VmOpenStack
<1> QED BY <1>1 DEF VmOrder, VmCloud, VmCopies, VmTurn, Flavors, FlavorOf

\* VmOrder is inductive.
LEMMA VmOrderNext ==
    ASSUME VmTyped, VmOrder, [VMNext]_vmVars PROVE VmOrder'
<1>1. CASE UNCHANGED vmVars
  <2>1. UNCHANGED <<flavors, aggregates, known, nodeDict, at, faults>>
    BY <1>1 DEF vmVars, cloud, session
  <2> QED BY <2>1 DEF VmOrder, VmCloud, VmCopies, VmTurn, Flavors, FlavorOf
<1> QED BY <1>1, VmOrderBegin, VmOrderCalls, VmOrderFlavor, VmOrderGroup, VmOrderMetadata,
           VmOrderServer, VmOrderOpenStack, Zenon DEF VMNext, Operation

\* As long as no command failed, create_server() creates a bound virtual machine with a
\* flavor that carries its node's aggregate, and the aggregate has that node's host only.
THEOREM MachinesBound == VMSpec => []BoundToItsNode
<1>1. VMInit => VmTyped /\ VmOrder BY VmTypedInit, VmOrderInit
<1>2. (VmTyped /\ VmOrder) /\ [VMNext]_vmVars => (VmTyped /\ VmOrder)' BY VmTypedNext, VmOrderNext
<1>3. VmTyped /\ VmOrder => BoundToItsNode BY DEF VmOrder, VmTurn, BoundToItsNode
<1> QED BY <1>1, <1>2, <1>3, PTL DEF VMSpec
============================================================================
