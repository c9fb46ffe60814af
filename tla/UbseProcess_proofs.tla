-------------------------- MODULE UbseProcess_proofs --------------------------
(***************************************************************************)
(* What stopping, starting and restarting the ubse service say is true:    *)
(* the theorems behind the properties of UbseProcess, for any number of    *)
(* nodes, rounds of polling and calls, and whatever may go wrong.          *)
(*                                                                         *)
(* A call is judged by its record c: what the test has read is related to  *)
(* what systemd has done since, node by node, as long as nothing was lost  *)
(* and no process of the nodes called for crashed.                         *)
(***************************************************************************)
EXTENDS UbseProcess, FiniteSetTheorems, WellFoundedInduction, TLAPS

Stops == {"stop", "stop_all"}
Singles == {"stop", "start", "restart"}
Restarts == {"restart", "restart_all"}
Starts == {"start_all", "restart", "restart_all"}

-----------------------------------------------------------------------------
(* The shape of a call                                                     *)

\* The dates still to be read before the command, and those that are read.
KeysBefore(op) ==
    CASE op = "stop" -> {<<"timeout", "core">>, <<"core">>}
      [] op = "start_all" -> {<<"started">>}
      [] OTHER -> {<<"timeout", "core", "started">>, <<"core", "started">>, <<"started">>}
ReadBy(op) == CASE op = "stop" -> {"timeout", "core"}
                [] op = "start_all" -> {"started"}
                [] OTHER -> Keywords

\* The functions that have the given kind of step.
OpsAt(pc) == CASE pc = "pid" -> {"stop", "start", "ensure", "stop_all"}
               [] pc = "before" -> {"stop"} \cup Starts
               [] pc = "wait" -> {"stop", "start", "ensure"}
               [] pc = "poll" -> Starts \cup {"stop_all"}
               [] pc = "after" -> {"stop"} \cup Restarts
               [] OTHER -> OpNames

Shape(c) ==
    /\ c.left \subseteq c.all
    /\ c.pc # "idle" =>
         /\ c.op \in OpsAt(c.pc) /\ c.op # "none"
         /\ c.i \in c.left
         /\ c.op \in Singles => c.all = {c.i}
         /\ c.op # "stop_all" => c.left = c.all
    /\ c.pc = "poll" => c.round \in 1 .. Polls /\ c.count < c.i
    /\ c.pc = "before" => c.keys \in KeysBefore(c.op)
    /\ c.pc = "after" => c.keys \in {AfterKeys, <<"core">>}

\* What was read is not ahead of the journal, nor the journal of the clock.
Dates(c) == \A n \in Nodes, k \in Keywords :
    c.before[n][k] <= journal[n][k] /\ journal[n][k] <= now

-----------------------------------------------------------------------------
(* The nodes of a call that nothing disturbed                              *)

Good(c) == c.settled /\ ~c.lost /\ ~c.crashed

\* The command of the call was given to node n.
Asked(c, n) == CASE c.pc = "pid" -> c.op = "start"
                 [] c.pc \in {"before", "issue"} -> n < c.i
                 [] OTHER -> TRUE

Changed(c, n) == journal[n]["started"] # c.before[n]["started"]
Late(c, n) == journal[n]["timeout"] # c.before[n]["timeout"]
Gone(n) == unit[n] = "down" /\ job[n] \in {"none", "stop"}
Runs(n) == unit[n] = "up" /\ job[n] = "none"
Did(c, n) == IF c.op = "stop_all" THEN Gone(n) ELSE Changed(c, n)

\* Before its command a node is at rest, or on its way up before a stop; then it
\* is on its way down, or up, and its date has changed only when it is up again.
Calm(c, n) == /\ job[n] = "none"
              /\ unit[n] \in {"up", "down"} \/ (c.op \in Stops /\ unit[n] = "starting")
Halting(n) == \/ job[n] = "stop" /\ unit[n] # "stopping"
              \/ job[n] = "none" /\ unit[n] \in {"stopping", "down"}
Rising(c, n) == /\ Changed(c, n) => Runs(n) /\ n \in c.fresh
                /\ unit[n] = "starting" => job[n] = "none" /\ n \in c.fresh
Under(c, n) == CASE c.op \in Stops -> Halting(n)
                 [] c.op = "start" -> job[n] \in {"none", "start"} /\ unit[n] # "stopping"
                 [] OTHER -> Rising(c, n)

\* A call in progress: the nodes, and the dates read of the present one.
Nodewise(c) == Good(c) /\ c.pc # "idle" /\ c.op # "ensure" =>
    /\ \A n \in c.left : IF Asked(c, n) THEN Under(c, n) ELSE Calm(c, n)
    /\ \A n \in c.all \ c.left : Gone(n)
    /\ (c.pc = "pid" /\ c.op = "start") \/ (c.pc = "after" /\ c.op = "stop") => Settled(c.i)
    /\ c.pc = "issue" /\ c.op \in {"stop"} \cup Starts =>
         \A k \in ReadBy(c.op) : c.before[c.i][k] = journal[c.i][k]
    /\ c.pc = "before" =>
         \A k \in ReadBy(c.op) :
            (\A j \in 1 .. Len(c.keys) : c.keys[j] # k) => c.before[c.i][k] = journal[c.i][k]

\* A stop that timed out shows in the journal of a node that was asked.
Timeouts(c) == Good(c) /\ c.pc # "idle" =>
    /\ c.op \in {"stop"} \cup Restarts /\ c.hung => \E n \in c.all : Asked(c, n) /\ Late(c, n)
    /\ c.op = "stop" => \A n \in c.all : Asked(c, n) =>
         /\ Late(c, n) => c.hung
         /\ journal[n]["core"] = c.before[n]["core"]

\* What the call has made of it: a count is of nodes that did, and so is an ok.
Verdicts(c) == Good(c) /\ c.pc # "idle" =>
    /\ c.pc \in {"pid", "before", "issue", "wait"} => c.ok
    /\ c.pc = "poll" =>
         /\ c.count <= Cardinality({n \in c.left : n < c.i /\ Did(c, n)})
         /\ c.round < Polls => c.ok
         /\ c.round = Polls /\ c.ok => \A n \in c.left : n < c.i => Did(c, n)
    /\ c.pc = "after" /\ c.op = "stop" =>
         IF c.keys = AfterKeys THEN c.ok ELSE c.ok <=> ~Late(c, c.i)
    /\ c.pc = "after" /\ c.op \in Restarts /\ c.ok =>
         /\ \A n \in c.left : Changed(c, n)
         /\ \A n \in c.left : n < c.i \/ (n = c.i /\ c.keys # AfterKeys) => ~Late(c, n)

\* What a result says of the nodes called for.
Fits(c, result) ==
    /\ result = "true" /\ c.op \in Stops => \A n \in c.all : Gone(n)
    /\ result = "true" /\ c.op = "stop" => ~c.hung
    /\ result = "false" /\ c.op = "stop" => c.hung
    /\ result = "true" /\ c.op = "start" => \A n \in c.all : Runs(n)
    /\ result = "true" /\ c.op \in Starts => \A n \in c.all : Runs(n) /\ n \in c.fresh
    /\ result = "true" /\ c.op \in Restarts => ~c.hung
Results(c) == Good(c) /\ c.pc = "idle" => Fits(c, c.result)

All(c) == Shape(c) /\ Dates(c) /\ Nodewise(c) /\ Timeouts(c) /\ Verdicts(c) /\ Results(c)

Typed == TypeOK /\ All(ctl)

-----------------------------------------------------------------------------
(* Constants, the order of the nodes, records                              *)

\* The parameters and the nodes.
LEMMA Params ==
    /\ N \in Nat /\ N >= 1 /\ Polls \in Nat /\ Polls >= 1 /\ MaxOps \in Nat
    /\ MaxTime \in Nat /\ MaxTime >= 1
    /\ Nodes = 1 .. N /\ Nodes \subseteq Nat /\ IsFiniteSet(Nodes)
    /\ Keywords = {"timeout", "core", "started"}
<1>1. IsFiniteSet(1 .. N) BY FS_Interval, ProcessAssumption
<1> QED BY <1>1, ProcessAssumption DEF Nodes, Keywords

\* The first of some nodes.
LEMMA FirstIs ==
    ASSUME NEW S, S \subseteq Nodes
    PROVE  /\ S = {} => FirstOf(S) = 0
           /\ S # {} => FirstOf(S) \in S /\ \A m \in S : FirstOf(S) <= m
<1>0. S = {} => FirstOf(S) = 0 BY DEF FirstOf
<1>1. CASE S # {}
  <2> DEFINE Less == {ss \in Nat \X Nat : ss[1] < ss[2]}
  <2>1. IsWellFoundedOn(Less, Nat)
    <3>1. OpToRel(<, Nat) = Less BY Zenon DEF OpToRel
    <3> QED BY <3>1, NatLessThanWellFounded, Zenon
  <2> HIDE DEF Less
  <2>2. S \subseteq Nat BY Params
  <2>3. \E x \in S : \A y \in S : <<y, x>> \notin Less BY <1>1, <2>1, <2>2, WFMin
  <2>4. PICK x \in S : \A y \in S : <<y, x>> \notin Less BY <2>3
  <2>5. ASSUME NEW y \in S PROVE x <= y
    <3>1. <<y, x>> \notin Less /\ x \in Nat /\ y \in Nat BY <2>2, <2>4
    <3>2. ~(y < x) BY <3>1 DEF Less
    <3> QED BY <3>1, <3>2
  <2>6. FirstOf(S) = CHOOSE n \in S : \A m \in S : n <= m BY <1>1 DEF FirstOf
  <2> QED BY <1>1, <2>4, <2>5, <2>6
<1> QED BY <1>0, <1>1

\* The next of some nodes.
LEMMA NextIs ==
    ASSUME NEW S, S \subseteq Nodes, NEW i \in Nat
    PROVE  /\ NextOf(S, i) = 0 => \A n \in S : n <= i
           /\ NextOf(S, i) # 0 => /\ NextOf(S, i) \in S /\ i < NextOf(S, i)
                                  /\ \A n \in S : n < NextOf(S, i) <=> n <= i
<1> DEFINE T == {n \in S : n > i}
<1>1. T \subseteq Nodes /\ NextOf(S, i) = FirstOf(T) BY DEF NextOf
<1>2. S \subseteq Nat /\ 0 \notin Nodes BY Params
<1>3. CASE T = {}
  <2>1. FirstOf(T) = 0 BY <1>1, <1>3, FirstIs
  <2> QED BY <1>1, <1>2, <1>3, <2>1
<1>4. CASE T # {}
  <2>1. FirstOf(T) \in T /\ \A m \in T : FirstOf(T) <= m BY <1>1, <1>4, FirstIs
  <2>2. PICK f \in S : f = FirstOf(T) BY <2>1
  <2>3. f \in Nat /\ f > i /\ f # 0 /\ \A m \in S : m > i => f <= m BY <1>2, <2>1, <2>2
  <2>4. \A n \in S : n < f <=> n <= i BY <1>2, <2>3
  <2> QED BY <1>1, <2>2, <2>3, <2>4
<1> QED BY <1>3, <1>4

\* The fields of a call.
LEMMA Fields ==
    ASSUME NEW c \in Control
    PROVE  /\ c.op \in OpNames \cup {"none"}
           /\ c.pc \in {"idle", "pid", "before", "issue", "wait", "poll", "after"}
           /\ c.left \in SUBSET Nodes /\ c.i \in 0 .. N /\ c.keys \in Seq(Keywords)
           /\ c.before \in [Nodes -> [Keywords -> 0 .. MaxTime]]
           /\ c.round \in 0 .. Polls /\ c.count \in 0 .. N /\ c.ok \in BOOLEAN
           /\ c.result \in {"none", "true", "false", "raised"}
           /\ c.all \in SUBSET Nodes /\ c.settled \in BOOLEAN /\ c.lost \in BOOLEAN
           /\ c.crashed \in BOOLEAN /\ c.hung \in BOOLEAN /\ c.fresh \in SUBSET Nodes
BY DEF Control

\* NoCall is a call.
LEMMA NoCallType == NoCall \in Control
<1>1. NoDates \in [Keywords -> 0 .. MaxTime] BY Params DEF NoDates
<1>2. [n \in Nodes |-> NoDates] \in [Nodes -> [Keywords -> 0 .. MaxTime]] BY <1>1
<1>3. 0 \in 0 .. N /\ 0 \in 0 .. Polls BY Params
<1>4. << >> \in Seq(Keywords) OBVIOUS
<1> QED BY <1>2, <1>3, <1>4 DEF NoCall, Control

\* The parts of the state.
LEMMA TypedIs ==
    ASSUME Typed
    PROVE  /\ unit \in [Nodes -> {"down", "starting", "up", "stopping"}]
           /\ job \in [Nodes -> {"none", "start", "stop", "restart"}]
           /\ journal \in [Nodes -> [Keywords -> 0 .. MaxTime]]
           /\ now \in 1 .. MaxTime /\ ctl \in Control /\ calls \in 0 .. MaxOps
           /\ All(ctl)
BY DEF Typed, TypeOK

-----------------------------------------------------------------------------
(* Steps of the test: how a call goes on                                   *)

\* A record that says the same of the same nodes says it after the step.
LEMMA SameNodes ==
    ASSUME NEW d, ctl' = d, UNCHANGED systemd, All(d)
    PROVE  All(ctl)'
<1>1. UNCHANGED <<unit, job, journal, now>> BY DEF systemd
<1>2. Shape(ctl)' BY DEF All, Shape
<1>3. Dates(ctl)' BY <1>1 DEF All, Dates
<1>4. Nodewise(ctl)'
  BY <1>1 DEF All, Nodewise, Good, Asked, Under, Calm, Halting, Rising, Gone, Runs, Changed, Settled
<1>5. Timeouts(ctl)' BY <1>1 DEF All, Timeouts, Good, Asked, Late
<1>6. Verdicts(ctl)' BY <1>1 DEF All, Verdicts, Good, Did, Gone, Changed, Late
<1>7. Results(ctl)' BY <1>1 DEF All, Results, Good, Fits, Gone, Runs
<1> QED BY <1>2, <1>3, <1>4, <1>5, <1>6, <1>7 DEF All

\* What the test keeps of a command that may be lost.
LEMMA Losing ==
    ASSUME Typed, NEW l \in BOOLEAN
    PROVE  \E c \in Control :
             /\ c = [ctl EXCEPT !.lost = @ \/ l] /\ All(c)
             /\ Good(c) => Good(ctl) /\ ~l
             /\ /\ c.op = ctl.op /\ c.pc = ctl.pc /\ c.left = ctl.left /\ c.i = ctl.i
                /\ c.keys = ctl.keys /\ c.before = ctl.before /\ c.round = ctl.round
                /\ c.count = ctl.count /\ c.ok = ctl.ok /\ c.result = ctl.result
                /\ c.all = ctl.all /\ c.settled = ctl.settled /\ c.lost = (ctl.lost \/ l)
                /\ c.crashed = ctl.crashed /\ c.hung = ctl.hung /\ c.fresh = ctl.fresh
<1> DEFINE c == [ctl EXCEPT !.lost = @ \/ l]
<1>1. ctl \in Control /\ All(ctl) BY TypedIs
<1>2. c \in Control BY <1>1 DEF Control
<1>3. /\ c.op = ctl.op /\ c.pc = ctl.pc /\ c.left = ctl.left /\ c.i = ctl.i
      /\ c.keys = ctl.keys /\ c.before = ctl.before /\ c.round = ctl.round
      /\ c.count = ctl.count /\ c.ok = ctl.ok /\ c.result = ctl.result
      /\ c.all = ctl.all /\ c.settled = ctl.settled /\ c.lost = (ctl.lost \/ l)
      /\ c.crashed = ctl.crashed /\ c.hung = ctl.hung /\ c.fresh = ctl.fresh
  BY <1>1 DEF Control
<1>4. Good(c) => Good(ctl) /\ ~l BY <1>3 DEF Good
<1>5. All(c)
  <2>1. CASE ctl.lost \/ l
    <3>1. ~Good(c) BY <1>3, <2>1 DEF Good
    <3>2. Shape(c) BY <1>1, <1>3 DEF All, Shape
    <3>3. Dates(c) BY <1>1, <1>3 DEF All, Dates
    <3> HIDE DEF c
    <3> QED BY <3>1, <3>2, <3>3 DEF All, Nodewise, Timeouts, Verdicts, Results
  <2>2. CASE ~(ctl.lost \/ l)
    <3>1. c = ctl BY <1>1, <2>2 DEF Control
    <3> QED BY <1>1, <3>1
  <2> QED BY <2>1, <2>2
<1> QED BY <1>2, <1>3, <1>4, <1>5

\* A call that returns: its result is true of the nodes.
LEMMA Ending ==
    ASSUME Typed, NEW c \in Control, NEW result \in {"true", "false", "raised"},
           End(c, result), Good(c) => Fits(c, result)
    PROVE  ctl' \in Control /\ \E d : ctl' = d /\ All(d)
<1> DEFINE d == [c EXCEPT !.pc = "idle", !.left = {}, !.i = 0, !.keys = << >>,
                          !.before = NoCall.before, !.round = 0, !.count = 0,
                          !.ok = TRUE, !.result = result]
<1>0. ctl' = d BY DEF End
<1>1. NoCall.before \in [Nodes -> [Keywords -> 0 .. MaxTime]]
      /\ \A n \in Nodes, k \in Keywords : NoCall.before[n][k] = 0
  <2>1. NoCall.before = [n \in Nodes |-> NoDates] BY DEF NoCall
  <2> QED BY <2>1, Params DEF NoDates
<1>2. 0 \in 0 .. N /\ 0 \in 0 .. Polls /\ << >> \in Seq(Keywords) BY Params
<1>3. d \in Control BY <1>1, <1>2 DEF Control
<1>4. /\ d.op = c.op /\ d.pc = "idle" /\ d.left = {} /\ d.before = NoCall.before
      /\ d.result = result /\ d.all = c.all /\ d.settled = c.settled /\ d.lost = c.lost
      /\ d.crashed = c.crashed /\ d.hung = c.hung /\ d.fresh = c.fresh
  BY DEF Control
<1> HIDE DEF d
<1>5. Shape(d) BY <1>4 DEF Shape
<1>6. Dates(d)
  <2> SUFFICES ASSUME NEW n \in Nodes, NEW k \in Keywords
               PROVE  d.before[n][k] <= journal[n][k] /\ journal[n][k] <= now
    BY DEF Dates
  <2>1. journal[n][k] \in 0 .. MaxTime /\ journal[n][k] <= now BY TypedIs DEF All, Dates
  <2>2. d.before[n][k] = 0 BY <1>1, <1>4
  <2>3. journal[n][k] >= 0 BY <2>1, Params
  <2> QED BY <2>1, <2>2, <2>3
<1>7. Nodewise(d) /\ Timeouts(d) /\ Verdicts(d) BY <1>4 DEF Nodewise, Timeouts, Verdicts
<1>8. Results(d)
  <2>1. Good(d) <=> Good(c) BY <1>4 DEF Good
  <2>2. Fits(c, result) => Fits(d, result) BY <1>4 DEF Fits
  <2> QED BY <1>4, <2>1, <2>2 DEF Results
<1> QED BY <1>0, <1>3, <1>5, <1>6, <1>7, <1>8 DEF All

\* The ways out of a loop over the nodes: past the last of them, or on.
LEMMA Onwards ==
    ASSUME NEW c \in Control, c.i \in c.left \/ c.i \in Nodes
    PROVE  /\ NextOf(c.left, c.i) = 0 => \A n \in c.left : n <= c.i
           /\ NextOf(c.left, c.i) # 0 =>
                /\ NextOf(c.left, c.i) \in c.left /\ c.i < NextOf(c.left, c.i)
                /\ \A n \in c.left : n < NextOf(c.left, c.i) <=> n <= c.i
<1>1. c.left \subseteq Nodes /\ c.i \in Nat BY Fields, Params
<1> QED BY <1>1, NextIs

-----------------------------------------------------------------------------
(* get_process_pid() and what the caller makes of it                       *)

\* A node whose process has been looked for.
LEMMA PidStep == ASSUME Typed, CheckPid PROVE ctl' \in Control /\ All(ctl)'
<1> DEFINE pcs == {"idle", "pid", "before", "issue", "wait", "poll", "after"}
<1>1. PICK pid \in Answers(HasProcess(ctl.i), FALSE) :
         LET c == [ctl EXCEPT !.lost = @ \/ pid # HasProcess(ctl.i)] IN
           CASE c.op = "start" -> Return([c EXCEPT !.ok = pid])
             [] c.op = "stop" /\ ~pid -> Return(c)
             [] c.op = "stop" /\ pid ->
                  ctl' = [c EXCEPT !.pc = "before", !.keys = BeforeKeys("stop")]
             [] c.op = "ensure" /\ ~pid -> ctl' = [c EXCEPT !.pc = "issue"]
             [] c.op = "ensure" /\ pid -> Onward(c, "pid", << >>, Return)
             [] c.op = "stop_all" ->
                  Onward([c EXCEPT !.left = IF pid THEN @ ELSE @ \ {c.i}],
                         "pid", << >>, StartStopping)
  BY DEF CheckPid
<1>2. UNCHANGED systemd BY DEF CheckPid
<1>3. PICK l \in BOOLEAN : l = (pid # HasProcess(ctl.i)) OBVIOUS
<1>4. PICK c \in Control :
             /\ c = [ctl EXCEPT !.lost = @ \/ l] /\ All(c)
             /\ Good(c) => Good(ctl) /\ ~l
             /\ /\ c.op = ctl.op /\ c.pc = ctl.pc /\ c.left = ctl.left /\ c.i = ctl.i
                /\ c.keys = ctl.keys /\ c.before = ctl.before /\ c.round = ctl.round
                /\ c.count = ctl.count /\ c.ok = ctl.ok /\ c.result = ctl.result
                /\ c.all = ctl.all /\ c.settled = ctl.settled /\ c.lost = (ctl.lost \/ l)
                /\ c.crashed = ctl.crashed /\ c.hung = ctl.hung /\ c.fresh = ctl.fresh
  BY Losing
<1>5. /\ c.pc = "pid" /\ c.op \in {"stop", "start", "ensure", "stop_all"}
      /\ c.i \in c.left /\ c.left \subseteq c.all /\ c.all \subseteq Nodes /\ pid \in BOOLEAN
      /\ c.op \in Singles => c.all = {c.i}
      /\ c.op # "stop_all" => c.left = c.all
      /\ c.i \in Nodes
  <2>1. c.pc = "pid" BY <1>4 DEF CheckPid
  <2>2. c.op \in OpsAt("pid") BY <1>4, <2>1 DEF All, Shape
  <2>3. pid \in BOOLEAN BY DEF Answers, HasProcess
  <2> QED BY <1>4, <2>1, <2>2, <2>3, Fields DEF All, Shape, OpsAt
<1>6. \/ c.op = "start" /\ Return([c EXCEPT !.ok = pid])
      \/ c.op = "stop" /\ ~pid /\ Return(c)
      \/ c.op = "stop" /\ pid /\ ctl' = [c EXCEPT !.pc = "before", !.keys = BeforeKeys("stop")]
      \/ c.op = "ensure" /\ ~pid /\ ctl' = [c EXCEPT !.pc = "issue"]
      \/ c.op = "ensure" /\ pid /\ Onward(c, "pid", << >>, Return)
      \/ c.op = "stop_all" /\ Onward([c EXCEPT !.left = IF pid THEN @ ELSE @ \ {c.i}],
                                     "pid", << >>, StartStopping)
  <2>1. c = [ctl EXCEPT !.lost = @ \/ pid # HasProcess(ctl.i)] BY <1>3, <1>4
  <2>2. c.op = "start" => Return([c EXCEPT !.ok = pid]) BY <1>1, <2>1
  <2>3. c.op = "stop" /\ ~pid => Return(c) BY <1>1, <2>1
  <2>4. c.op = "stop" /\ pid => ctl' = [c EXCEPT !.pc = "before", !.keys = BeforeKeys("stop")]
    BY <1>1, <2>1
  <2>5. c.op = "ensure" /\ ~pid => ctl' = [c EXCEPT !.pc = "issue"] BY <1>1, <2>1
  <2>6. c.op = "ensure" /\ pid => Onward(c, "pid", << >>, Return) BY <1>1, <2>1
  <2>7. c.op = "stop_all" => Onward([c EXCEPT !.left = IF pid THEN @ ELSE @ \ {c.i}],
                                     "pid", << >>, StartStopping)
    BY <1>1, <2>1
  <2> QED BY <1>5, <2>2, <2>3, <2>4, <2>5, <2>6, <2>7
\* In a call that nothing disturbed the answer is true, and the node at rest.
<1>7. Good(c) => /\ pid = HasProcess(c.i) /\ c.ok
                 /\ c.op \in Stops => Calm(c, c.i) /\ (\A n \in c.left : Calm(c, n))
                                      /\ \A n \in c.all \ c.left : Gone(n)
                 /\ c.op = "start" => Settled(c.i)
                 /\ c.op = "stop" => ~c.hung
  <2> SUFFICES ASSUME Good(c)
               PROVE /\ pid = HasProcess(c.i) /\ c.ok
                     /\ c.op \in Stops => Calm(c, c.i) /\ (\A n \in c.left : Calm(c, n))
                                          /\ \A n \in c.all \ c.left : Gone(n)
                     /\ c.op = "start" => Settled(c.i)
                     /\ c.op = "stop" => ~c.hung
    OBVIOUS
  <2>1. pid = HasProcess(c.i) BY <1>3, <1>4
  <2>2. c.ok BY <1>4, <1>5 DEF All, Verdicts
  <2>3. c.op \in Stops => c.op # "ensure" /\ c.op # "start" BY DEF Stops
  <2>4. c.op \in Stops => (\A n \in c.left : Calm(c, n)) /\ \A n \in c.all \ c.left : Gone(n)
    BY <1>4, <1>5, <2>3 DEF All, Nodewise, Asked
  <2>5. c.op = "start" => Settled(c.i) BY <1>4, <1>5 DEF All, Nodewise
  <2>6. c.op = "stop" => ~c.hung BY <1>4, <1>5 DEF All, Timeouts, Asked
  <2> QED BY <1>5, <2>1, <2>2, <2>4, <2>5, <2>6
<1> HIDE DEF pcs
<1> SUFFICES ctl' \in Control /\ \E d : ctl' = d /\ All(d) BY <1>2, SameNodes
<1>8. CASE c.op = "start" /\ Return([c EXCEPT !.ok = pid])
  <2>1. PICK e \in Control : /\ e = [c EXCEPT !.ok = pid] /\ e.ok = pid /\ e.op = c.op
                             /\ e.all = c.all /\ e.settled = c.settled /\ e.lost = c.lost
                             /\ e.crashed = c.crashed
    <3>1. [c EXCEPT !.ok = pid] \in Control BY <1>5 DEF Control
    <3> QED BY <3>1 DEF Control
  <2>2. End(e, IF pid THEN "true" ELSE "false") BY <1>8, <2>1 DEF Return
  <2>3. PICK result \in {"true", "false", "raised"} : result = IF pid THEN "true" ELSE "false"
    OBVIOUS
  <2>4. Good(e) => Fits(e, result)
    <3> SUFFICES ASSUME Good(e), result = "true" PROVE \A n \in e.all : Runs(n)
      BY <1>8, <2>1, <2>3 DEF Fits, Stops, Starts, Restarts
    <3>1. Good(c) BY <2>1 DEF Good
    <3>2. Settled(c.i) /\ HasProcess(c.i) BY <1>7, <1>8, <2>3, <3>1
    <3>3. c.all = {c.i} BY <1>5, <1>8 DEF Singles
    <3> QED BY <2>1, <3>2, <3>3 DEF Runs, Settled, HasProcess
  <2> QED BY <2>2, <2>3, <2>4, Ending
<1>9. CASE c.op = "stop" /\ ~pid /\ Return(c)
  <2>2. End(c, IF c.ok THEN "true" ELSE "false") BY <1>9 DEF Return
  <2>3. PICK result \in {"true", "false", "raised"} : result = IF c.ok THEN "true" ELSE "false"
    OBVIOUS
  <2>4. Good(c) => Fits(c, result)
    <3> SUFFICES ASSUME Good(c) PROVE Fits(c, result) OBVIOUS
    <3>1. ~HasProcess(c.i) /\ c.ok /\ Calm(c, c.i) /\ ~c.hung BY <1>7, <1>9 DEF Stops
    <3>2. Gone(c.i) BY <3>1 DEF Gone, HasProcess, Calm
    <3>3. c.all = {c.i} BY <1>5, <1>9 DEF Singles
    <3> QED BY <1>9, <2>3, <3>1, <3>2, <3>3 DEF Fits, Stops, Starts, Restarts
  <2> QED BY <2>2, <2>3, <2>4, Ending
<1>10. CASE c.op = "stop" /\ pid /\ ctl' = [c EXCEPT !.pc = "before", !.keys = BeforeKeys("stop")]
  <2>0. BeforeKeys("stop") = <<"timeout", "core">> BY DEF BeforeKeys
  <2>1. PICK d \in Control :
          /\ ctl' = d /\ d.op = "stop" /\ d.pc = "before" /\ d.keys = <<"timeout", "core">>
          /\ d.left = c.left /\ d.i = c.i /\ d.all = c.all /\ d.before = c.before
          /\ d.ok = c.ok /\ d.settled = c.settled /\ d.lost = c.lost
          /\ d.crashed = c.crashed /\ d.hung = c.hung
    <3>1. <<"timeout", "core">> \in Seq(Keywords) BY Params
    <3>2. [c EXCEPT !.pc = "before", !.keys = <<"timeout", "core">>] \in Control
      BY <3>1 DEF Control
    <3> QED BY <1>10, <2>0, <3>2 DEF Control
  <2>2. Good(d) => Good(c) BY <2>1 DEF Good
  <2>3. Shape(d) BY <1>5, <1>10, <2>1 DEF Shape, OpsAt, Singles, KeysBefore
  <2>4. Dates(d) BY <1>4, <2>1 DEF All, Dates
  <2>5. c.left = {c.i} /\ c.all = {c.i} /\ c.i \in Nat BY <1>5, <1>10, Params DEF Singles
  <2>6. Nodewise(d)
    <3> SUFFICES ASSUME Good(d) PROVE
           /\ \A n \in d.left : IF Asked(d, n) THEN Under(d, n) ELSE Calm(d, n)
           /\ \A n \in d.all \ d.left : Gone(n)
           /\ \A k \in ReadBy(d.op) : \E j \in 1 .. Len(d.keys) : d.keys[j] = k
      BY <2>1 DEF Nodewise
    <3>1. \A n \in d.left : ~Asked(d, n) /\ Calm(d, n)
      BY <1>7, <1>10, <2>1, <2>2, <2>5 DEF Asked, Calm, Stops
    <3>2. 1 \in 1 .. Len(d.keys) /\ 2 \in 1 .. Len(d.keys) /\ d.keys[1] = "timeout" /\ d.keys[2] = "core"
      BY <2>1
    <3>3. ReadBy(d.op) = {"timeout", "core"} BY <2>1 DEF ReadBy
    <3> QED BY <2>1, <2>5, <3>1, <3>2, <3>3
  <2>7. Timeouts(d) BY <1>7, <1>10, <2>1, <2>2, <2>5 DEF Timeouts, Asked
  <2>8. Verdicts(d) BY <1>7, <2>1, <2>2 DEF Verdicts
  <2>9. Results(d) BY <2>1 DEF Results
  <2> QED BY <2>1, <2>3, <2>4, <2>6, <2>7, <2>8, <2>9 DEF All
<1>11. CASE c.op = "ensure" /\ ~pid /\ ctl' = [c EXCEPT !.pc = "issue"]
  <2>1. PICK d \in Control :
          /\ ctl' = d /\ d.op = "ensure" /\ d.pc = "issue" /\ d.left = c.left /\ d.i = c.i
          /\ d.all = c.all /\ d.before = c.before /\ d.ok = c.ok /\ d.settled = c.settled
          /\ d.lost = c.lost /\ d.crashed = c.crashed
    <3>1. [c EXCEPT !.pc = "issue"] \in Control BY DEF Control
    <3> QED BY <1>11, <3>1 DEF Control
  <2>2. Good(d) => Good(c) BY <2>1 DEF Good
  <2>3. Shape(d) BY <1>5, <1>11, <2>1 DEF Shape, OpsAt, Singles, OpNames
  <2>4. Dates(d) BY <1>4, <2>1 DEF All, Dates
  <2>5. Nodewise(d) /\ Timeouts(d) /\ Results(d)
    BY <2>1 DEF Nodewise, Timeouts, Results, Restarts
  <2>6. Verdicts(d) BY <1>7, <2>1, <2>2 DEF Verdicts
  <2> QED BY <2>1, <2>3, <2>4, <2>5, <2>6 DEF All
<1>12. CASE c.op = "ensure" /\ pid /\ Onward(c, "pid", << >>, Return)
  <2>1. CASE NextOf(c.left, c.i) = 0
    <3>1. End(c, IF c.ok THEN "true" ELSE "false") BY <1>12, <2>1 DEF Onward, Return
    <3>2. PICK result \in {"true", "false", "raised"} : result = IF c.ok THEN "true" ELSE "false"
      OBVIOUS
    <3>3. Fits(c, result) BY <1>12 DEF Fits, Stops, Starts, Restarts
    <3> QED BY <3>1, <3>2, <3>3, Ending
  <2>2. CASE NextOf(c.left, c.i) # 0
    <3>0. PICK k : k = NextOf(c.left, c.i) OBVIOUS
    <3>1. k \in c.left /\ k \in Nodes /\ k \in 0 .. N BY <1>5, <2>2, <3>0, Onwards, Params
    <3>2. PICK d \in Control :
            /\ ctl' = d /\ d.op = "ensure" /\ d.pc = "pid" /\ d.left = c.left /\ d.i = k
            /\ d.all = c.all /\ d.before = c.before /\ d.ok = c.ok /\ d.settled = c.settled
            /\ d.lost = c.lost /\ d.crashed = c.crashed
      <4>0. << >> \in Seq(Keywords) OBVIOUS
      <4>1. [c EXCEPT !.i = k, !.pc = "pid", !.keys = << >>] \in Control BY <3>1, <4>0 DEF Control
      <4>2. ctl' = [c EXCEPT !.i = k, !.pc = "pid", !.keys = << >>]
        BY <1>12, <2>2, <3>0 DEF Onward
      <4> QED BY <1>12, <4>1, <4>2 DEF Control
    <3>3. Good(d) => Good(c) BY <3>2 DEF Good
    <3>4. Shape(d) BY <1>5, <1>12, <3>1, <3>2 DEF Shape, OpsAt, Singles
    <3>5. Dates(d) BY <1>4, <3>2 DEF All, Dates
    <3>6. Nodewise(d) /\ Timeouts(d) /\ Results(d) BY <3>2 DEF Nodewise, Timeouts, Results, Restarts
    <3>7. Verdicts(d) BY <1>7, <3>2, <3>3 DEF Verdicts
    <3> QED BY <3>2, <3>4, <3>5, <3>6, <3>7 DEF All
  <2> QED BY <2>1, <2>2
<1>13. CASE c.op = "stop_all" /\ Onward([c EXCEPT !.left = IF pid THEN @ ELSE @ \ {c.i}],
                                        "pid", << >>, StartStopping)
  <2>1. PICK e \in Control :
          /\ e = [c EXCEPT !.left = IF pid THEN @ ELSE @ \ {c.i}]
          /\ e.op = "stop_all" /\ e.pc = "pid" /\ e.left = (IF pid THEN c.left ELSE c.left \ {c.i})
          /\ e.i = c.i /\ e.all = c.all /\ e.before = c.before /\ e.ok = c.ok
          /\ e.settled = c.settled /\ e.lost = c.lost /\ e.crashed = c.crashed
    <3>0. PICK left \in SUBSET Nodes : left = IF pid THEN c.left ELSE c.left \ {c.i} BY <1>5
    <3>1. [c EXCEPT !.left = IF pid THEN @ ELSE @ \ {c.i}] = [c EXCEPT !.left = left] BY <3>0
    <3>2. PICK e \in Control : e = [c EXCEPT !.left = left] BY DEF Control
    <3>3. /\ e.op = c.op /\ e.pc = c.pc /\ e.left = left /\ e.i = c.i /\ e.all = c.all
          /\ e.before = c.before /\ e.ok = c.ok /\ e.settled = c.settled /\ e.lost = c.lost
          /\ e.crashed = c.crashed
      BY <3>2 DEF Control
    <3> QED BY <1>13, <1>5, <3>0, <3>1, <3>2, <3>3
  <2>2. e.left \subseteq e.all BY <1>5, <2>1
  <2>3. Good(e) => Good(c) BY <2>1 DEF Good
  <2>4. Good(e) => /\ \A n \in e.left : Calm(c, n)
                   /\ \A n \in e.all \ e.left : Gone(n)
    <3> SUFFICES ASSUME Good(e) PROVE /\ \A n \in e.left : Calm(c, n)
                                      /\ \A n \in e.all \ e.left : Gone(n)
      OBVIOUS
    <3>1. /\ \A n \in c.left : Calm(c, n)
          /\ \A n \in c.all \ c.left : Gone(n)
          /\ pid = HasProcess(c.i) /\ Calm(c, c.i)
      BY <1>7, <1>13, <2>3 DEF Stops
    <3>2. ~pid => Gone(c.i) BY <3>1 DEF Gone, HasProcess, Calm
    <3> QED BY <2>1, <3>1, <3>2
  <2>5. Onward(e, "pid", << >>, StartStopping) BY <1>13, <2>1
  <2>6. CASE NextOf(e.left, e.i) = 0 /\ e.left = {}
    <3>1. End(e, IF e.ok THEN "true" ELSE "false")
      BY <2>5, <2>6 DEF Onward, StartStopping, Return
    <3>2. PICK result \in {"true", "false", "raised"} : result = IF e.ok THEN "true" ELSE "false"
      OBVIOUS
    <3>3. Good(e) => Fits(e, result) BY <2>1, <2>4, <2>6 DEF Fits, Stops, Starts, Restarts
    <3> QED BY <3>1, <3>2, <3>3, Ending
  <2>7. ASSUME NEW pc \in {"pid", "issue"}, NEW k \in e.left, NEW keys \in Seq(Keywords),
               ctl' = [e EXCEPT !.pc = pc, !.i = k, !.keys = keys],
               pc = "issue" => \A n \in e.left : k <= n
        PROVE  ctl' \in Control /\ \E d : ctl' = d /\ All(d)
    <3>1. k \in Nodes /\ k \in 0 .. N /\ e.left \subseteq Nat BY <2>1, Fields, Params
    <3>2. PICK d \in Control :
            /\ ctl' = d /\ d.op = "stop_all" /\ d.pc = pc /\ d.left = e.left /\ d.i = k
            /\ d.all = e.all /\ d.before = c.before /\ d.ok = c.ok /\ d.settled = c.settled
            /\ d.lost = c.lost /\ d.crashed = c.crashed
      <4>1. PICK d \in Control : d = [e EXCEPT !.pc = pc, !.i = k, !.keys = keys]
        BY <3>1 DEF Control
      <4>2. /\ d.op = e.op /\ d.pc = pc /\ d.left = e.left /\ d.i = k /\ d.all = e.all
            /\ d.before = e.before /\ d.ok = e.ok /\ d.settled = e.settled /\ d.lost = e.lost
            /\ d.crashed = e.crashed
        BY <4>1 DEF Control
      <4>3. ctl' = d BY <2>7, <4>1
      <4> QED BY <2>1, <4>2, <4>3
    <3>3. Good(d) => Good(c) /\ Good(e) BY <2>1, <3>2 DEF Good
    <3>4. Shape(d) BY <1>5, <2>2, <3>2 DEF Shape, OpsAt, Singles, OpNames
    <3>5. Dates(d) BY <1>4, <3>2 DEF All, Dates
    <3>6. Nodewise(d)
      <4> SUFFICES ASSUME Good(d) PROVE
             /\ \A n \in d.left : IF Asked(d, n) THEN Under(d, n) ELSE Calm(d, n)
             /\ \A n \in d.all \ d.left : Gone(n)
        BY <3>2 DEF Nodewise, Starts
      <4>1. \A n \in d.left : ~Asked(d, n) BY <2>7, <3>1, <3>2 DEF Asked
      <4>2. \A n \in d.left : Calm(d, n) BY <1>13, <2>4, <3>2, <3>3 DEF Calm
      <4> QED BY <2>4, <3>2, <3>3, <4>1, <4>2
    <3>7. Timeouts(d) /\ Results(d) BY <3>2 DEF Timeouts, Results, Restarts
    <3>8. Verdicts(d) BY <1>7, <3>2, <3>3 DEF Verdicts
    <3> QED BY <3>2, <3>4, <3>5, <3>6, <3>7, <3>8 DEF All
  <2>8. CASE NextOf(e.left, e.i) = 0 /\ e.left # {}
    <3>0. PICK k : k = FirstOf(e.left) OBVIOUS
    <3>1. k \in e.left /\ \A n \in e.left : k <= n BY <2>8, <3>0, Fields, FirstIs
    <3>2. ctl' = [e EXCEPT !.pc = "issue", !.i = k]
      BY <2>5, <2>8, <3>0 DEF Onward, StartStopping
    <3>3. e.keys \in Seq(Keywords) BY Fields
    <3>4. [e EXCEPT !.pc = "issue", !.i = k] = [e EXCEPT !.pc = "issue", !.i = k, !.keys = e.keys]
      BY DEF Control
    <3> QED BY <2>7, <3>1, <3>2, <3>3, <3>4
  <2>9. CASE NextOf(e.left, e.i) # 0
    <3>0. PICK k : k = NextOf(e.left, e.i) OBVIOUS
    <3>1. k \in e.left BY <1>5, <2>1, <2>9, <3>0, Onwards
    <3>2. ctl' = [e EXCEPT !.i = k, !.pc = "pid", !.keys = << >>] BY <2>5, <2>9, <3>0 DEF Onward
    <3>3. << >> \in Seq(Keywords) OBVIOUS
    <3>4. [e EXCEPT !.i = k, !.pc = "pid", !.keys = << >>]
            = [e EXCEPT !.pc = "pid", !.i = k, !.keys = << >>]
      BY DEF Control
    <3> QED BY <2>7, <3>1, <3>2, <3>3, <3>4
  <2> QED BY <2>6, <2>8, <2>9
<1> QED BY <1>6, <1>8, <1>9, <1>10, <1>11, <1>12, <1>13

-----------------------------------------------------------------------------
(* Dates read before the command                                           *)

\* The lists of dates to read.
LEMMA KeysAre ==
    ASSUME NEW op \in OpsAt("before"), NEW keys \in KeysBefore(op)
    PROVE  /\ keys \in Seq(Keywords) /\ Len(keys) \in 1 .. 3 /\ Head(keys) \in Keywords
           /\ Tail(keys) \in Seq(Keywords)
           /\ Tail(keys) = << >> \/ Tail(keys) \in KeysBefore(op)
           /\ \A k : (\A j \in 1 .. Len(Tail(keys)) : Tail(keys)[j] # k)
                        => k = Head(keys) \/ \A j \in 1 .. Len(keys) : keys[j] # k
<1>1. keys \in {<<"timeout", "core">>, <<"core">>, <<"started">>,
                <<"timeout", "core", "started">>, <<"core", "started">>}
  BY DEF KeysBefore, OpsAt, Starts
<1>k. "timeout" \in Keywords /\ "core" \in Keywords /\ "started" \in Keywords BY Params
<1>2. keys \in Seq(Keywords) /\ Len(keys) \in 1 .. 3 /\ Head(keys) \in Keywords
      /\ Tail(keys) \in Seq(Keywords)
  <2>1. CASE keys = <<"timeout", "core">> BY <1>k, <2>1
  <2>2. CASE keys = <<"core">> BY <1>k, <2>2
  <2>3. CASE keys = <<"started">> BY <1>k, <2>3
  <2>4. CASE keys = <<"timeout", "core", "started">> BY <1>k, <2>4
  <2>5. CASE keys = <<"core", "started">> BY <1>k, <2>5
  <2> QED BY <1>1, <2>1, <2>2, <2>3, <2>4, <2>5
<1>3. Tail(keys) = << >> \/ Tail(keys) \in KeysBefore(op)
  <2>1. CASE op = "stop"
    <3>1. KeysBefore(op) = {<<"timeout", "core">>, <<"core">>} BY <2>1 DEF KeysBefore
    <3>2. Tail(<<"timeout", "core">>) = <<"core">> /\ Tail(<<"core">>) = << >> OBVIOUS
    <3> QED BY <3>1, <3>2
  <2>2. CASE op = "start_all"
    <3>1. KeysBefore(op) = {<<"started">>} BY <2>2 DEF KeysBefore
    <3>2. Tail(<<"started">>) = << >> OBVIOUS
    <3> QED BY <3>1, <3>2
  <2>3. CASE op \in Restarts
    <3>1. KeysBefore(op) = {<<"timeout", "core", "started">>, <<"core", "started">>, <<"started">>}
      BY <2>3 DEF KeysBefore, Restarts
    <3>2. /\ Tail(<<"timeout", "core", "started">>) = <<"core", "started">>
          /\ Tail(<<"core", "started">>) = <<"started">> /\ Tail(<<"started">>) = << >>
      OBVIOUS
    <3> QED BY <3>1, <3>2
  <2> QED BY <2>1, <2>2, <2>3 DEF OpsAt, Starts, Restarts
<1>4. ASSUME NEW k, \A j \in 1 .. Len(Tail(keys)) : Tail(keys)[j] # k, k # Head(keys),
             NEW j \in 1 .. Len(keys)
      PROVE  keys[j] # k
  <2>1. CASE j = 1 BY <1>2, <1>4, <2>1
  <2>2. CASE j # 1
    <3>1. j - 1 \in 1 .. Len(Tail(keys)) /\ Tail(keys)[j - 1] = keys[j] BY <1>2, <2>2
    <3> QED BY <1>4, <3>1
  <2> QED BY <2>1, <2>2
<1> QED BY <1>2, <1>3, <1>4

\* A date that was read is the journal's, or zero.
LEMMA BeforeStep == ASSUME Typed, ReadBefore PROVE ctl' \in Control /\ All(ctl)'
<1>1. PICK n, k : n = ctl.i /\ k = Head(ctl.keys) OBVIOUS
<1>2. PICK date \in Answers(journal[n][k], 0) :
            ctl' = [ctl EXCEPT
                      !.before[n][k] = date,
                      !.keys = Tail(@),
                      !.pc = IF Tail(ctl.keys) = << >> THEN "issue" ELSE "before",
                      !.lost = @ \/ date # journal[n][k]]
  BY <1>1 DEF ReadBefore
<1>3. /\ ctl.pc = "before" /\ ctl.op \in OpsAt("before") /\ ctl \in Control /\ All(ctl)
      /\ ctl.i \in ctl.left /\ ctl.left \subseteq ctl.all /\ ctl.all \subseteq Nodes
      /\ n \in Nodes /\ ctl.keys \in KeysBefore(ctl.op)
      /\ ctl.op \in Singles => ctl.all = {ctl.i}
      /\ ctl.op # "stop_all" => ctl.left = ctl.all
      /\ UNCHANGED systemd
  BY <1>1, TypedIs, Fields DEF ReadBefore, All, Shape
<1>4. ctl.op \in {"stop", "start_all", "restart", "restart_all"} BY <1>3 DEF OpsAt, Starts
<1>5. k \in Keywords /\ Tail(ctl.keys) \in Seq(Keywords) BY <1>1, <1>3, KeysAre
<1>6. /\ journal[n][k] \in 0 .. MaxTime /\ date \in {journal[n][k], 0}
      /\ date \in 0 .. MaxTime /\ date <= journal[n][k]
  <2>1. journal[n][k] \in 0 .. MaxTime BY <1>3, <1>5, TypedIs
  <2>2. date \in {journal[n][k], 0} BY DEF Answers
  <2> QED BY <2>1, <2>2, Params
<1>7. PICK keys \in Seq(Keywords) : keys = Tail(ctl.keys) BY <1>5
<1>8. PICK pc \in {"issue", "before"} : pc = IF keys = << >> THEN "issue" ELSE "before" OBVIOUS
<1>9. PICK l \in BOOLEAN : l = (ctl.lost \/ date # journal[n][k]) BY <1>3, Fields
<1>10. PICK before \in [Nodes -> [Keywords -> 0 .. MaxTime]] :
         /\ before = [ctl.before EXCEPT ![n][k] = date]
         /\ before[n][k] = date
         /\ \A m \in Nodes : m # n => before[m] = ctl.before[m]
         /\ \A a \in Keywords : a # k => before[n][a] = ctl.before[n][a]
  <2>1. PICK b \in [Nodes -> [Keywords -> 0 .. MaxTime]] : b = ctl.before BY <1>3, Fields
  <2>2. PICK row \in [Keywords -> 0 .. MaxTime] : row = [b[n] EXCEPT ![k] = date]
    BY <1>3, <1>5, <1>6
  <2>3. PICK before \in [Nodes -> [Keywords -> 0 .. MaxTime]] : before = [b EXCEPT ![n] = row]
    BY <1>3
  <2>4. before[n] = row /\ \A m \in Nodes : m # n => before[m] = b[m] BY <1>3, <2>3
  <2>5. row[k] = date /\ \A a \in Keywords : a # k => row[a] = b[n][a]
    BY <1>3, <1>5, <2>2
  <2>6. before = [ctl.before EXCEPT ![n][k] = date] BY <2>1, <2>2, <2>3
  <2> QED BY <2>1, <2>4, <2>5, <2>6
<1>11. ctl' = [ctl EXCEPT !.before = before, !.keys = keys, !.pc = pc, !.lost = l]
  BY <1>2, <1>3, <1>7, <1>8, <1>9, <1>10 DEF Control
<1>12. PICK d \in Control :
         /\ ctl' = d /\ d.before = before /\ d.keys = keys /\ d.pc = pc /\ d.lost = l
         /\ d.op = ctl.op /\ d.left = ctl.left /\ d.i = ctl.i /\ d.all = ctl.all /\ d.ok = ctl.ok
         /\ d.settled = ctl.settled /\ d.crashed = ctl.crashed /\ d.hung = ctl.hung
         /\ d.fresh = ctl.fresh
  <2>1. PICK c \in Control : c = ctl BY <1>3
  <2>2. PICK d \in Control : d = [c EXCEPT !.before = before, !.keys = keys, !.pc = pc, !.lost = l]
    BY DEF Control
  <2>3. /\ d.before = before /\ d.keys = keys /\ d.pc = pc /\ d.lost = l
        /\ d.op = c.op /\ d.left = c.left /\ d.i = c.i /\ d.all = c.all /\ d.ok = c.ok
        /\ d.settled = c.settled /\ d.crashed = c.crashed /\ d.hung = c.hung
        /\ d.fresh = c.fresh
    BY <2>2 DEF Control
  <2> QED BY <1>11, <2>1, <2>2, <2>3
<1>13. Good(d) => Good(ctl) /\ date = journal[n][k] BY <1>3, <1>9, <1>12, Fields DEF Good
<1>14. Shape(d)
  <2>1. keys # << >> => keys \in KeysBefore(ctl.op) BY <1>3, <1>7, KeysAre
  <2>2. ctl.op \in OpsAt("issue") /\ ctl.op # "none" BY <1>4 DEF OpsAt, OpNames
  <2> QED BY <1>3, <1>8, <1>12, <2>1, <2>2 DEF Shape
<1>15. Dates(d)
  <2> SUFFICES ASSUME NEW m \in Nodes, NEW a \in Keywords
               PROVE  d.before[m][a] <= journal[m][a] /\ journal[m][a] <= now
    BY DEF Dates
  <2>1. ctl.before[m][a] <= journal[m][a] /\ journal[m][a] <= now BY <1>3 DEF All, Dates
  <2>2. CASE m = n /\ a = k BY <1>6, <1>10, <1>12, <2>1, <2>2
  <2>3. CASE ~(m = n /\ a = k)
    <3>1. before[m][a] = ctl.before[m][a] BY <1>10, <2>3
    <3> QED BY <1>12, <2>1, <3>1
  <2> QED BY <2>2, <2>3
<1>16. \A m : Asked(d, m) <=> (Asked(ctl, m) /\ m < ctl.i)
  BY <1>3, <1>8, <1>12 DEF Asked
<1>17. \A m \in Nodes : Asked(d, m) => m # n /\ d.before[m] = ctl.before[m]
  <2>1. \A m \in Nodes : m < ctl.i => m # n BY <1>1, <1>3, Params
  <2> QED BY <1>10, <1>12, <1>16, <2>1
<1>18. Nodewise(d)
  <2> SUFFICES ASSUME Good(d) PROVE
         /\ \A m \in d.left : IF Asked(d, m) THEN Under(d, m) ELSE Calm(d, m)
         /\ \A m \in d.all \ d.left : Gone(m)
         /\ pc = "issue" => \A a \in ReadBy(d.op) : d.before[n][a] = journal[n][a]
         /\ pc = "before" => \A a \in ReadBy(d.op) :
              (\A j \in 1 .. Len(keys) : keys[j] # a) => d.before[n][a] = journal[n][a]
    BY <1>1, <1>8, <1>12 DEF Nodewise
  <2>1. Good(ctl) /\ date = journal[n][k] BY <1>13
  <2>2. /\ \A m \in ctl.left : IF Asked(ctl, m) THEN Under(ctl, m) ELSE Calm(ctl, m)
        /\ \A m \in ctl.all \ ctl.left : Gone(m)
        /\ \A a \in ReadBy(ctl.op) :
              (\A j \in 1 .. Len(ctl.keys) : ctl.keys[j] # a) => ctl.before[n][a] = journal[n][a]
    BY <1>1, <1>3, <1>4, <2>1 DEF All, Nodewise
  <2>3. \A m \in d.left : Asked(d, m) => Under(d, m)
    <3> SUFFICES ASSUME NEW m \in d.left, Asked(d, m) PROVE Under(d, m) OBVIOUS
    <3>1. Under(ctl, m) /\ m \in Nodes /\ d.before[m] = ctl.before[m]
      BY <1>3, <1>12, <1>16, <1>17, <2>2
    <3> QED BY <1>12, <3>1 DEF Under, Rising, Changed
  <2>4. \A m \in d.left : ~Asked(d, m) => Calm(d, m)
    <3>1. \A m \in d.left : ~Asked(d, m) => ~Asked(ctl, m) BY <1>3, <1>12, <1>16 DEF Asked
    <3> QED BY <1>12, <2>2, <3>1 DEF Calm
  <2>5. ReadBy(ctl.op) \subseteq Keywords BY Params DEF ReadBy
  <2>6. ASSUME NEW a \in ReadBy(d.op), \A j \in 1 .. Len(keys) : keys[j] # a
        PROVE  d.before[n][a] = journal[n][a]
    <3>1. a = k \/ \A j \in 1 .. Len(ctl.keys) : ctl.keys[j] # a
      BY <1>1, <1>3, <1>7, <2>6, KeysAre
    <3>2. CASE a = k BY <1>10, <1>12, <2>1, <3>2
    <3>3. CASE a # k
      <4>1. ctl.before[n][a] = journal[n][a] BY <1>12, <2>2, <3>1, <3>3
      <4> QED BY <1>10, <1>12, <2>5, <3>3, <4>1
    <3> QED BY <3>2, <3>3
  <2>7. pc = "issue" => Len(keys) = 0 BY <1>8
  <2>8. pc = "issue" => \A a \in ReadBy(d.op) : d.before[n][a] = journal[n][a] BY <2>6, <2>7
  <2> QED BY <1>12, <2>2, <2>3, <2>4, <2>6, <2>8
<1>19. Timeouts(d)
  <2> SUFFICES ASSUME Good(d) PROVE
         /\ d.op \in {"stop"} \cup Restarts /\ d.hung => \E m \in d.all : Asked(d, m) /\ Late(d, m)
         /\ d.op = "stop" => \A m \in d.all : ~Asked(d, m)
    BY DEF Timeouts
  <2>1. d.op = "stop" => \A m \in d.all : ~Asked(d, m)
    BY <1>1, <1>3, <1>12, <1>17 DEF Singles
  <2>2. ASSUME d.op \in {"stop"} \cup Restarts, d.hung
        PROVE  \E m \in d.all : Asked(d, m) /\ Late(d, m)
    <3>1. PICK m \in ctl.all : Asked(ctl, m) /\ Late(ctl, m)
      BY <1>3, <1>12, <1>13, <2>2 DEF All, Timeouts
    <3>2. m < ctl.i BY <1>3, <3>1 DEF Asked
    <3>3. Asked(d, m) /\ m \in Nodes BY <1>3, <1>16, <3>1, <3>2
    <3>4. d.before[m] = ctl.before[m] BY <1>17, <3>3
    <3> QED BY <1>12, <3>1, <3>3, <3>4 DEF Late
  <2> QED BY <2>1, <2>2
<1>20. Verdicts(d) BY <1>3, <1>8, <1>12, <1>13 DEF All, Verdicts
<1>21. Results(d) BY <1>8, <1>12 DEF Results
<1>22. All(d) BY <1>14, <1>15, <1>18, <1>19, <1>20, <1>21 DEF All
<1> QED BY <1>3, <1>12, <1>22, SameNodes

-----------------------------------------------------------------------------
(* systemctl                                                               *)

\* The call's record after the step, under a name.
LEMMA Renamed ==
    ASSUME NEW d, ctl' = d, All(d)'
    PROVE  All(ctl)'
<1>2. Shape(ctl)' BY DEF All, Shape
<1>3. Dates(ctl)' BY DEF All, Dates
<1>4. Nodewise(ctl)'
  BY DEF All, Nodewise, Good, Asked, Under, Calm, Halting, Rising, Gone, Runs, Changed, Settled
<1>5. Timeouts(ctl)' BY DEF All, Timeouts, Good, Asked, Late
<1>6. Verdicts(ctl)' BY DEF All, Verdicts, Good, Did, Gone, Changed, Late
<1>7. Results(ctl)' BY DEF All, Results, Good, Fits, Gone, Runs
<1> QED BY <1>2, <1>3, <1>4, <1>5, <1>6, <1>7 DEF All

\* A call that is not followed because it was disturbed.
LEMMA Unfollowed ==
    ASSUME NEW d, Shape(d), Dates(d), ~Good(d)
    PROVE  All(d)
BY DEF All, Nodewise, Timeouts, Verdicts, Results

\* The loop over all nodes after a command: on to the next node, or to the polls.
LEMMA Onto ==
    ASSUME Typed, NEW c \in Control, Shape(c), Dates(c), c.pc = "issue",
           c.op \in {"stop_all"} \cup Starts, Returned(c)
    PROVE  \E d \in Control :
             /\ ctl' = d /\ Shape(d) /\ Dates(d)
             /\ /\ d.op = c.op /\ d.left = c.left /\ d.before = c.before /\ d.ok = c.ok
                /\ d.all = c.all /\ d.settled = c.settled /\ d.lost = c.lost
                /\ d.crashed = c.crashed /\ d.hung = c.hung /\ d.fresh = c.fresh
             /\ \/ /\ d.pc = (IF c.op = "stop_all" THEN "issue" ELSE "before")
                   /\ d.pc = "before" => d.keys = BeforeKeys(c.op)
                   /\ \A n \in c.left : n < d.i <=> n <= c.i
                \/ /\ d.pc = "poll" /\ d.round = 1 /\ d.count = 0
                   /\ \A n \in c.left : n <= c.i /\ ~(n < d.i)
<1>1. /\ c.i \in c.left /\ c.left \subseteq c.all /\ c.all \subseteq Nodes
      /\ c.op # "stop_all" => c.left = c.all
      /\ c.op \in Singles => c.all = {c.i}
      /\ c.left \subseteq Nat
  BY Fields, Params DEF Shape
<1>2. PICK keys \in Seq(Keywords) :
         keys = IF c.op = "stop_all" THEN << >> ELSE BeforeKeys(c.op)
  <2>1. << >> \in Seq(Keywords) /\ <<"started">> \in Seq(Keywords)
        /\ <<"timeout", "core", "started">> \in Seq(Keywords)
    BY Params
  <2> QED BY <2>1 DEF BeforeKeys, Starts
<1>3. PICK pc \in {"issue", "before"} : pc = IF c.op = "stop_all" THEN "issue" ELSE "before"
  OBVIOUS
<1>4. Onward(c, pc, keys, StartPolling)
  <2>1. CASE c.op = "stop_all" BY <1>2, <1>3, <2>1 DEF Returned
  <2>2. CASE c.op \in Starts
    BY <1>2, <1>3, <2>2 DEF Returned, Starts
  <2> QED BY <2>1, <2>2
<1>5. \E p \in {"issue", "before", "poll"}, i \in c.left, r \in 0 .. Polls, t \in 0 .. N,
         ks \in Seq(Keywords) :
        /\ ctl' = [c EXCEPT !.pc = p, !.i = i, !.round = r, !.count = t, !.keys = ks]
        /\ \/ p = pc /\ ks = keys /\ \A n \in c.left : n < i <=> n <= c.i
           \/ p = "poll" /\ r = 1 /\ t = 0 /\ \A n \in c.left : n <= c.i /\ ~(n < i)
  <2>1. CASE NextOf(c.left, c.i) # 0
    <3>0. PICK k : k = NextOf(c.left, c.i) OBVIOUS
    <3>1. k \in c.left /\ \A n \in c.left : n < k <=> n <= c.i BY <1>1, <2>1, <3>0, Onwards
    <3>2. ctl' = [c EXCEPT !.i = k, !.pc = pc, !.keys = keys] BY <1>4, <2>1, <3>0 DEF Onward
    <3>3. PICK r \in 0 .. Polls, t \in 0 .. N : r = c.round /\ t = c.count BY Fields
    <3>4. ctl' = [c EXCEPT !.pc = pc, !.i = k, !.round = r, !.count = t, !.keys = keys]
      BY <3>2, <3>3 DEF Control
    <3> QED BY <3>1, <3>4
  <2>2. CASE NextOf(c.left, c.i) = 0
    <3>1. \A n \in c.left : n <= c.i BY <1>1, <2>2, Onwards
    <3>2. PICK k : k = FirstOf(c.left) OBVIOUS
    <3>3. k \in c.left /\ \A n \in c.left : k <= n BY <1>1, <3>2, FirstIs
    <3>4. ctl' = [c EXCEPT !.pc = "poll", !.i = k, !.round = 1, !.count = 0, !.keys = << >>]
      BY <1>1, <1>4, <2>2, <3>2 DEF Onward, StartPolling
    <3>5. << >> \in Seq(Keywords) /\ 1 \in 0 .. Polls /\ 0 \in 0 .. N BY Params
    <3>6. \A n \in c.left : n <= c.i /\ ~(n < k) BY <1>1, <3>1, <3>3
    <3> QED BY <3>3, <3>4, <3>5, <3>6
  <2> QED BY <2>1, <2>2
<1>6. PICK p \in {"issue", "before", "poll"}, i \in c.left, r \in 0 .. Polls, t \in 0 .. N,
         ks \in Seq(Keywords) :
        /\ ctl' = [c EXCEPT !.pc = p, !.i = i, !.round = r, !.count = t, !.keys = ks]
        /\ \/ p = pc /\ ks = keys /\ \A n \in c.left : n < i <=> n <= c.i
           \/ p = "poll" /\ r = 1 /\ t = 0 /\ \A n \in c.left : n <= c.i /\ ~(n < i)
  BY <1>5
<1>7. i \in 0 .. N /\ i \in Nat /\ i >= 1 /\ 1 \in 1 .. Polls BY <1>1, Params
<1>8. PICK d \in Control :
         d = [c EXCEPT !.pc = p, !.i = i, !.round = r, !.count = t, !.keys = ks]
  BY <1>7 DEF Control
<1>9. /\ d.op = c.op /\ d.left = c.left /\ d.before = c.before /\ d.ok = c.ok
      /\ d.all = c.all /\ d.settled = c.settled /\ d.lost = c.lost
      /\ d.crashed = c.crashed /\ d.hung = c.hung /\ d.fresh = c.fresh
      /\ d.pc = p /\ d.keys = ks /\ d.i = i /\ d.round = r /\ d.count = t
  BY <1>8 DEF Control
<1>10. c.op \in OpsAt(p) /\ c.op # "none"
  BY <1>3, <1>6 DEF OpsAt, Starts, OpNames
<1>11. p = "before" => ks = BeforeKeys(c.op) /\ ks \in KeysBefore(c.op)
  BY <1>2, <1>3, <1>6 DEF BeforeKeys, KeysBefore, Starts
<1>12. c.op \in Singles => c.all = {i} BY <1>1
<1>13. p = "poll" => r = 1 /\ t = 0 BY <1>3, <1>6
<1>14. Shape(d) BY <1>1, <1>7, <1>9, <1>10, <1>11, <1>12, <1>13 DEF Shape
<1>15. Dates(d) BY <1>9 DEF Dates
<1>16. ctl' = d BY <1>6, <1>8
<1>17. \/ /\ d.pc = (IF c.op = "stop_all" THEN "issue" ELSE "before")
          /\ d.pc = "before" => d.keys = BeforeKeys(c.op)
          /\ \A n \in c.left : n < d.i <=> n <= c.i
       \/ /\ d.pc = "poll" /\ d.round = 1 /\ d.count = 0
          /\ \A n \in c.left : n <= c.i /\ ~(n < d.i)
  <2>1. CASE p = pc /\ ks = keys /\ \A n \in c.left : n < i <=> n <= c.i
    BY <1>3, <1>9, <1>11, <2>1
  <2>2. CASE p = "poll" /\ r = 1 /\ t = 0 /\ \A n \in c.left : n <= c.i /\ ~(n < i)
    BY <1>9, <2>2
  <2> QED BY <1>6, <2>1, <2>2
<1> QED BY <1>9, <1>14, <1>15, <1>16, <1>17

\* A command that returned, or that was lost.
LEMMA Back ==
    ASSUME Typed, UNCHANGED systemd, NEW c \in Control, All(c), c.pc \in {"issue", "wait"},
           Returned(c), Good(c) => c.pc = "wait" /\ Settled(c.i)
    PROVE  ctl' \in Control /\ All(ctl)'
<1>1. /\ Shape(c) /\ Dates(c) /\ c.i \in c.left /\ c.left \subseteq c.all
      /\ c.all \subseteq Nodes /\ c.op \in OpNames
      /\ c.op # "stop_all" => c.left = c.all
      /\ c.op \in Singles => c.all = {c.i}
  BY Fields DEF All, Shape, OpsAt
<1>2. c.op \in {"stop", "start", "ensure"} \/ c.op \in {"stop_all"} \cup Starts
  BY <1>1 DEF OpNames, Starts
<1>3. c.pc = "wait" => c.op \in {"stop", "start", "ensure"}
  BY DEF All, Shape, OpsAt
<1>4. Good(c) => c.ok BY DEF All, Verdicts
<1> SUFFICES ctl' \in Control /\ \E d : ctl' = d /\ All(d) BY SameNodes
<1>5. CASE c.op \in {"stop_all"} \cup Starts
  <2>1. ~Good(c) /\ c.pc = "issue" BY <1>3, <1>5 DEF Starts
  <2>2. PICK d \in Control :
          /\ ctl' = d /\ Shape(d) /\ Dates(d)
          /\ d.settled = c.settled /\ d.lost = c.lost /\ d.crashed = c.crashed
    BY <1>1, <1>5, <2>1, Onto
  <2>3. ~Good(d) BY <2>1, <2>2 DEF Good
  <2> QED BY <2>2, <2>3, Unfollowed
<1>6. CASE c.op \in {"stop", "start"}
  <2>1. PICK pc, keys : pc = (IF c.op = "stop" THEN "after" ELSE "pid")
                        /\ keys = IF c.op = "stop" THEN AfterKeys ELSE c.keys
    OBVIOUS
  <2>2. pc \in {"after", "pid"} /\ keys \in Seq(Keywords)
    <3>1. AfterKeys \in Seq(Keywords) BY Params DEF AfterKeys
    <3> QED BY <2>1, <3>1, Fields
  <2>3. ctl' = [c EXCEPT !.pc = pc, !.keys = keys]
    <3>1. CASE c.op = "stop" BY <2>1, <3>1 DEF Returned
    <3>2. CASE c.op = "start"
      <4>1. ctl' = [c EXCEPT !.pc = pc] /\ keys = c.keys BY <2>1, <3>2 DEF Returned
      <4> QED BY <4>1 DEF Control
    <3> QED BY <1>6, <3>1, <3>2
  <2>4. PICK d \in Control : d = [c EXCEPT !.pc = pc, !.keys = keys] BY <2>2 DEF Control
  <2>5. /\ d.op = c.op /\ d.left = c.left /\ d.before = c.before /\ d.ok = c.ok
        /\ d.all = c.all /\ d.settled = c.settled /\ d.lost = c.lost /\ d.i = c.i
        /\ d.crashed = c.crashed /\ d.hung = c.hung /\ d.fresh = c.fresh
        /\ d.pc = pc /\ d.keys = keys
    BY <2>4 DEF Control
  <2>6. c.op \in OpsAt(pc) /\ (pc = "after" => keys = AfterKeys) BY <1>6, <2>1 DEF OpsAt
  <2>7. Shape(d) BY <1>1, <1>6, <2>2, <2>5, <2>6 DEF Shape
  <2>8. Dates(d) BY <1>1, <2>5 DEF Dates
  <2>9. CASE ~Good(c)
    <3>1. ~Good(d) BY <2>5, <2>9 DEF Good
    <3> QED BY <2>3, <2>4, <2>7, <2>8, <3>1, Unfollowed
  <2>10. CASE Good(c)
    <3>1. c.pc = "wait" /\ Settled(c.i) /\ c.ok /\ c.left = {c.i} /\ c.all = {c.i}
      BY <1>1, <1>4, <1>6, <2>10 DEF Singles
    <3>2. Under(c, c.i) BY <1>6, <2>10, <3>1 DEF All, Nodewise, Asked
    <3>3. \A n : Asked(c, n) /\ Asked(d, n) BY <1>6, <2>1, <2>5, <3>1 DEF Asked
    <3>4. Nodewise(d)
      <4>1. Under(d, d.i) BY <1>6, <2>5, <3>2 DEF Under, Stops
      <4> QED BY <2>1, <2>2, <2>5, <3>1, <3>3, <4>1 DEF Nodewise
    <3>5. Timeouts(d)
      <4>1. Timeouts(c) BY DEF All
      <4> QED BY <1>6, <2>5, <2>10, <3>1, <3>3, <4>1 DEF Timeouts, Late, Restarts
    <3>6. Verdicts(d)
      BY <1>6, <2>1, <2>2, <2>5, <2>6, <3>1 DEF Verdicts, Restarts
    <3>7. Results(d) BY <2>2, <2>5 DEF Results
    <3> QED BY <2>3, <2>4, <2>7, <2>8, <3>4, <3>5, <3>6, <3>7 DEF All
  <2> QED BY <2>9, <2>10
<1>7. CASE c.op = "ensure"
  <2>0. Onward(c, "pid", << >>, Return) BY <1>7 DEF Returned
  <2>1. CASE NextOf(c.left, c.i) = 0
    <3>1. End(c, IF c.ok THEN "true" ELSE "false") BY <2>0, <2>1 DEF Onward, Return
    <3>2. PICK result \in {"true", "false", "raised"} : result = IF c.ok THEN "true" ELSE "false"
      OBVIOUS
    <3>3. Fits(c, result) BY <1>7 DEF Fits, Stops, Starts, Restarts
    <3> QED BY <3>1, <3>2, <3>3, Ending
  <2>2. CASE NextOf(c.left, c.i) # 0
    <3>0. PICK k : k = NextOf(c.left, c.i) OBVIOUS
    <3>1. k \in c.left /\ k \in Nodes /\ k \in 0 .. N BY <1>1, <2>2, <3>0, Onwards, Params
    <3>2. << >> \in Seq(Keywords) OBVIOUS
    <3>3. ctl' = [c EXCEPT !.i = k, !.pc = "pid", !.keys = << >>] BY <2>0, <2>2, <3>0 DEF Onward
    <3>4. PICK d \in Control : d = [c EXCEPT !.i = k, !.pc = "pid", !.keys = << >>]
      BY <3>1, <3>2 DEF Control
    <3>5. /\ d.op = "ensure" /\ d.pc = "pid" /\ d.left = c.left /\ d.i = k
          /\ d.all = c.all /\ d.before = c.before /\ d.ok = c.ok /\ d.settled = c.settled
          /\ d.lost = c.lost /\ d.crashed = c.crashed
      BY <1>7, <3>4 DEF Control
    <3>6. Good(d) => Good(c) BY <3>5 DEF Good
    <3>7. Shape(d) BY <1>1, <1>7, <3>1, <3>5 DEF Shape, OpsAt, Singles
    <3>8. Dates(d) BY <1>1, <3>5 DEF Dates
    <3>9. Nodewise(d) /\ Timeouts(d) /\ Results(d) BY <3>5 DEF Nodewise, Timeouts, Results, Restarts
    <3>10. Verdicts(d) BY <1>4, <3>5, <3>6 DEF Verdicts
    <3> QED BY <3>3, <3>4, <3>7, <3>8, <3>9, <3>10 DEF All
  <2> QED BY <2>1, <2>2
<1> QED BY <1>2, <1>5, <1>6, <1>7

\* systemctl has returned.
LEMMA WaitStep == ASSUME Typed, Wait PROVE ctl' \in Control /\ All(ctl)'
<1>1. /\ ctl \in Control /\ All(ctl) /\ ctl.pc = "wait" /\ Settled(ctl.i) /\ Returned(ctl)
      /\ UNCHANGED systemd
  BY TypedIs DEF Wait
<1> QED BY <1>1, Back

\* run() has given up on it.
LEMMA WaitTimeoutStep == ASSUME Typed, WaitTimeout PROVE ctl' \in Control /\ All(ctl)'
<1>1. ctl \in Control /\ End(ctl, "raised") /\ UNCHANGED systemd BY TypedIs DEF WaitTimeout
<1>2. Fits(ctl, "raised") BY DEF Fits
<1> QED BY <1>1, <1>2, Ending, SameNodes

\* A command that is given to a node at rest.
LEMMA IssueStep == ASSUME Typed, Issue PROVE ctl' \in Control /\ All(ctl)'
<1>1. /\ ctl.pc = "issue" /\ ctl \in Control /\ All(ctl) /\ Shape(ctl) /\ Dates(ctl)
      /\ ctl.i \in ctl.left /\ ctl.left \subseteq ctl.all /\ ctl.all \subseteq Nodes
      /\ ctl.op \in OpNames /\ ctl.i \in Nodes /\ Nodes \subseteq Nat
      /\ ctl.op # "stop_all" => ctl.left = ctl.all
      /\ ctl.op \in Singles => ctl.all = {ctl.i}
  BY TypedIs, Fields, Params DEF Issue, All, Shape, OpsAt
<1>i. PICK i \in Nat : i = ctl.i BY <1>1
<1>2. UNCHANGED <<unit, journal, now>> BY DEF Issue
<1>3. CASE Returned([ctl EXCEPT !.lost = TRUE]) /\ UNCHANGED job
  <2>1. PICK c \in Control : c = [ctl EXCEPT !.lost = @ \/ TRUE] /\ All(c)
                             /\ ~Good(c) /\ c.pc = ctl.pc
    BY Losing
  <2>2. c = [ctl EXCEPT !.lost = TRUE] BY <2>1
  <2>3. Returned(c) /\ UNCHANGED systemd BY <1>2, <1>3, <2>2 DEF systemd
  <2> QED BY <1>1, <2>1, <2>3, Back
<1>4. CASE job' = [job EXCEPT ![ctl.i] = Verb(ctl.op)] /\ Waits(ctl.op)
           /\ ctl' = [ctl EXCEPT !.pc = "wait"]
  <2>1. PICK d \in Control : /\ ctl' = d
          /\ d.op = ctl.op /\ d.left = ctl.left /\ d.before = ctl.before /\ d.ok = ctl.ok
          /\ d.all = ctl.all /\ d.settled = ctl.settled /\ d.lost = ctl.lost /\ d.i = ctl.i
          /\ d.crashed = ctl.crashed /\ d.hung = ctl.hung /\ d.fresh = ctl.fresh
          /\ d.pc = "wait"
    <3>1. PICK c \in Control : c = ctl BY <1>1
    <3>2. PICK d \in Control : d = [c EXCEPT !.pc = "wait"] BY DEF Control
    <3>3. /\ d.op = c.op /\ d.left = c.left /\ d.before = c.before /\ d.ok = c.ok
          /\ d.all = c.all /\ d.settled = c.settled /\ d.lost = c.lost /\ d.i = c.i
          /\ d.crashed = c.crashed /\ d.hung = c.hung /\ d.fresh = c.fresh
          /\ d.pc = "wait"
      BY <3>2 DEF Control
    <3> QED BY <1>4, <3>1, <3>2, <3>3
  <2>2. ctl.op \in {"stop", "start", "ensure"} BY <1>4 DEF Waits
  <2>3. Shape(d) BY <1>1, <2>1, <2>2 DEF Shape, OpsAt
  <2>4. Dates(d)' BY <1>1, <1>2, <2>1 DEF Dates
  <2>5. Good(d) <=> Good(ctl) BY <2>1 DEF Good
  <2>6. job'[i] = Verb(ctl.op) BY <1>1, <1>i, <1>4, TypedIs
  <2>7. Nodewise(d)'
    <3> SUFFICES ASSUME Good(d), d.op # "ensure"
                 PROVE  /\ \A n \in d.left : Under(d, n)'
                        /\ \A n \in d.all \ d.left : Gone(n)'
      BY <2>1 DEF Nodewise, Good, Asked
    <3>1. d.left = {ctl.i} /\ d.all = {ctl.i} BY <1>1, <2>1, <2>2 DEF Singles
    <3>2. ~Asked(ctl, ctl.i) BY <1>1 DEF Asked
    <3>3. Calm(ctl, ctl.i) BY <1>1, <2>1, <2>5, <3>1, <3>2 DEF All, Nodewise
    <3>4. Under(d, i)'
      <4>1. CASE ctl.op = "stop"
        <5>1. job'[i] = "stop" /\ unit'[i] # "stopping"
          BY <1>2, <1>i, <2>6, <3>3, <4>1 DEF Calm, Verb
        <5> QED BY <2>1, <4>1, <5>1 DEF Under, Halting, Stops
      <4>2. CASE ctl.op = "start"
        <5>1. job'[i] = "start" /\ unit'[i] # "stopping"
          BY <1>2, <1>i, <2>6, <3>3, <4>2 DEF Calm, Verb, Stops
        <5> QED BY <2>1, <4>2, <5>1 DEF Under, Stops
      <4> QED BY <2>1, <2>2, <4>1, <4>2
    <3> QED BY <1>i, <3>1, <3>4
  <2>8. Timeouts(d)'
    <3> SUFFICES ASSUME Good(d), d.op = "stop"
                 PROVE  /\ ~d.hung
                        /\ \A n \in d.all : ~Late(d, n)' /\ journal'[n]["core"] = d.before[n]["core"]
      BY <2>1, <2>2 DEF Timeouts, Good, Restarts
    <3>1. d.all = {ctl.i} BY <1>1, <2>1 DEF Singles
    <3>2. ~Asked(ctl, ctl.i) BY <1>1 DEF Asked
    <3>3. ~d.hung BY <1>1, <2>1, <2>5, <3>1, <3>2 DEF All, Timeouts
    <3>4. \A k \in ReadBy("stop") : ctl.before[ctl.i][k] = journal[ctl.i][k]
      BY <1>1, <2>1, <2>5 DEF All, Nodewise
    <3>5. ReadBy("stop") = {"timeout", "core"} BY DEF ReadBy
    <3> QED BY <1>2, <2>1, <3>1, <3>3, <3>4, <3>5 DEF Late
  <2>9. Verdicts(d)' BY <1>1, <2>1, <2>5 DEF All, Verdicts, Good
  <2>10. Results(d)' BY <2>1 DEF Results
  <2>11. Shape(d)' BY <2>3 DEF Shape
  <2> QED BY <2>1, <2>4, <2>7, <2>8, <2>9, <2>10, <2>11, Renamed DEF All
<1>5. CASE job' = [job EXCEPT ![ctl.i] = Verb(ctl.op)] /\ ~Waits(ctl.op) /\ Returned(ctl)
  <2>1. ctl.op \in {"stop_all"} \cup Starts BY <1>1, <1>5 DEF Waits, OpNames, Starts
  <2>2. PICK d \in Control :
             /\ ctl' = d /\ Shape(d) /\ Dates(d)
             /\ /\ d.op = ctl.op /\ d.left = ctl.left /\ d.before = ctl.before /\ d.ok = ctl.ok
                /\ d.all = ctl.all /\ d.settled = ctl.settled /\ d.lost = ctl.lost
                /\ d.crashed = ctl.crashed /\ d.hung = ctl.hung /\ d.fresh = ctl.fresh
             /\ \/ /\ d.pc = (IF ctl.op = "stop_all" THEN "issue" ELSE "before")
                   /\ d.pc = "before" => d.keys = BeforeKeys(ctl.op)
                   /\ \A n \in ctl.left : n < d.i <=> n <= ctl.i
                \/ /\ d.pc = "poll" /\ d.round = 1 /\ d.count = 0
                   /\ \A n \in ctl.left : n <= ctl.i /\ ~(n < d.i)
    BY <1>1, <1>5, <2>1, Onto
  <2>3. d.pc \in {"issue", "before", "poll"} BY <2>2
  <2>4. \A n \in ctl.left : Asked(d, n) <=> n <= ctl.i BY <2>2, <2>3 DEF Asked
  <2>5. \A n \in ctl.left : Asked(ctl, n) <=> n < ctl.i BY <1>1 DEF Asked
  <2>6. Good(d) <=> Good(ctl) BY <2>2 DEF Good
  <2>7. /\ job'[i] = Verb(ctl.op)
        /\ \A n \in Nodes : n # i => job'[n] = job[n]
    BY <1>1, <1>i, <1>5, TypedIs
  <2>8. Nodewise(d)'
    <3> SUFFICES ASSUME Good(d)
                 PROVE  /\ \A n \in d.left : IF Asked(d, n) THEN Under(d, n)' ELSE Calm(d, n)'
                        /\ \A n \in d.all \ d.left : Gone(n)'
                        /\ d.pc = "issue" => d.op \notin {"stop"} \cup Starts
                        /\ d.pc = "before" =>
                             \A k \in ReadBy(d.op) : \E j \in 1 .. Len(d.keys) : d.keys[j] = k
      BY <2>3 DEF Nodewise, Good, Asked
    <3>1. /\ \A n \in ctl.left : IF Asked(ctl, n) THEN Under(ctl, n) ELSE Calm(ctl, n)
          /\ \A n \in ctl.all \ ctl.left : Gone(n)
          /\ ctl.op \in Starts => \A k \in ReadBy(ctl.op) : ctl.before[ctl.i][k] = journal[ctl.i][k]
      BY <1>1, <2>1, <2>6 DEF All, Nodewise, Starts
    <3>2. Calm(ctl, i) /\ i \in ctl.left
      <4>1. ~(i < i) OBVIOUS
      <4> QED BY <1>1, <1>i, <2>5, <3>1, <4>1
    <3>3. Under(d, i)'
      <4>1. CASE ctl.op = "stop_all"
        <5>1. job'[i] = "stop" /\ unit'[i] # "stopping"
          BY <1>2, <2>7, <3>2, <4>1 DEF Calm, Verb
        <5> QED BY <2>2, <4>1, <5>1 DEF Under, Halting, Stops
      <4>2. CASE ctl.op \in Starts
        <5>1. "started" \in ReadBy(ctl.op) BY <4>2, Params DEF ReadBy, Starts
        <5>2. d.before[i]["started"] = journal[i]["started"] BY <1>i, <2>2, <3>1, <4>2, <5>1
        <5>3. ctl.op \notin Stops /\ ctl.op # "start" BY <4>2 DEF Starts, Stops
        <5>4. unit[i] # "starting" BY <3>2, <5>3 DEF Calm
        <5>5. Rising(d, i)' BY <1>2, <5>2, <5>4 DEF Rising, Changed
        <5> QED BY <2>2, <5>3, <5>5 DEF Under
      <4> QED BY <2>1, <4>1, <4>2
    <3>4. ASSUME NEW n \in d.left PROVE IF Asked(d, n) THEN Under(d, n)' ELSE Calm(d, n)'
      <4>0. n \in ctl.left /\ n \in Nodes /\ n \in Nat BY <1>1, <2>2, <3>4
      <4>1. CASE n = i
        <5>1. Asked(d, n) BY <1>i, <2>4, <4>0, <4>1
        <5> QED BY <3>3, <4>1, <5>1
      <4>2. CASE n # i
        <5>1. Asked(d, n) <=> Asked(ctl, n) BY <1>i, <2>4, <2>5, <4>0, <4>2
        <5>2. job'[n] = job[n] /\ unit'[n] = unit[n] /\ journal'[n] = journal[n]
          BY <1>2, <2>7, <4>0, <4>2
        <5>3. Under(ctl, n) => Under(d, n)'
          BY <2>2, <5>2 DEF Under, Halting, Rising, Changed, Runs
        <5>4. Calm(ctl, n) => Calm(d, n)' BY <2>2, <5>2 DEF Calm
        <5> QED BY <3>1, <4>0, <5>1, <5>3, <5>4
      <4> QED BY <4>1, <4>2
    <3>5. \A n \in d.all \ d.left : Gone(n)'
      <4> SUFFICES ASSUME NEW n \in d.all \ d.left PROVE Gone(n)' OBVIOUS
      <4>1. n # i /\ n \in Nodes /\ Gone(n) BY <1>1, <1>i, <2>2, <3>1
      <4> QED BY <1>2, <2>7, <4>1 DEF Gone
    <3>6. d.pc = "issue" => d.op \notin {"stop"} \cup Starts
      BY <2>1, <2>2 DEF Starts
    <3>7. ASSUME d.pc = "before", NEW k \in ReadBy(d.op)
          PROVE  \E j \in 1 .. Len(d.keys) : d.keys[j] = k
      <4>1. d.keys = BeforeKeys(d.op) /\ d.op \in Starts BY <2>1, <2>2, <3>7
      <4>2. CASE d.op = "start_all"
        <5>1. d.keys = <<"started">> /\ k = "started" BY <3>7, <4>1, <4>2 DEF BeforeKeys, ReadBy
        <5> QED BY <5>1
      <4>3. CASE d.op \in Restarts
        <5>1. d.keys = <<"timeout", "core", "started">> BY <4>1, <4>3 DEF BeforeKeys, Restarts
        <5>2. k \in {"timeout", "core", "started"}
          BY <3>7, <4>3, Params DEF ReadBy, Restarts
        <5>3. /\ 1 \in 1 .. Len(d.keys) /\ 2 \in 1 .. Len(d.keys) /\ 3 \in 1 .. Len(d.keys)
              /\ d.keys[1] = "timeout" /\ d.keys[2] = "core" /\ d.keys[3] = "started"
          BY <5>1
        <5> QED BY <5>2, <5>3
      <4> QED BY <4>1, <4>2, <4>3 DEF Starts, Restarts
    <3> QED BY <3>4, <3>5, <3>6, <3>7
  <2>9. Timeouts(d)'
    <3> SUFFICES ASSUME Good(d), d.op \in Restarts, d.hung
                 PROVE  \E n \in d.all : Asked(d, n) /\ Late(d, n)'
      BY <2>1, <2>2 DEF Timeouts, Good, Asked, Starts
    <3>1. PICK n \in ctl.all : Asked(ctl, n) /\ Late(ctl, n)
      BY <1>1, <2>2, <2>6 DEF All, Timeouts
    <3>2. n \in ctl.left BY <1>1, <2>2, <3>1 DEF Restarts
    <3>3. Asked(d, n)
      <4>1. n < i /\ n \in Nat BY <1>1, <1>i, <2>5, <3>1, <3>2
      <4> QED BY <1>i, <2>4, <3>2, <4>1
    <3>4. Late(d, n)' BY <1>2, <2>2, <3>1 DEF Late
    <3> QED BY <2>2, <3>1, <3>3, <3>4
  <2>10. Verdicts(d)'
    <3> SUFFICES ASSUME Good(d)
                 PROVE  /\ d.ok
                        /\ d.pc = "poll" =>
                             /\ d.count <= Cardinality({n \in d.left : n < d.i /\ Did(d, n)'})
                             /\ \A n \in d.left : ~(n < d.i)
      BY <2>3 DEF Verdicts, Good
    <3>1. d.ok BY <1>1, <2>2, <2>6 DEF All, Verdicts
    <3>2. ASSUME d.pc = "poll"
          PROVE  /\ d.count <= Cardinality({n \in d.left : n < d.i /\ Did(d, n)'})
                 /\ \A n \in d.left : ~(n < d.i)
      <4> DEFINE S == {n \in d.left : n < d.i /\ Did(d, n)'}
      <4>1. \A n \in d.left : ~(n < d.i) BY <2>2, <3>2
      <4>2. S = {} BY <4>1
      <4>3. Cardinality(S) = 0 BY <4>2, FS_EmptySet
      <4>4. d.count = 0 BY <2>2, <3>2
      <4> QED BY <4>1, <4>3, <4>4
    <3> QED BY <3>1, <3>2
  <2>11. Results(d)' BY <2>3 DEF Results
  <2>12. Shape(d)' BY <2>2 DEF Shape
  <2>13. Dates(d)' BY <1>2, <2>2 DEF Dates
  <2> QED BY <2>2, <2>8, <2>9, <2>10, <2>11, <2>12, <2>13, Renamed DEF All
<1> QED BY <1>3, <1>4, <1>5 DEF Issue

-----------------------------------------------------------------------------
(* Polling                                                                 *)

\* What a poll of a node makes of the call: one more of those that did is counted.
LEMMA Polled ==
    ASSUME Typed, Poll
    PROVE  \E c \in Control :
             /\ Onward(c, "poll", << >>, EndRound)
             /\ /\ c.op = ctl.op /\ c.pc = "poll" /\ c.left = ctl.left /\ c.i = ctl.i
                /\ c.before = ctl.before /\ c.round = ctl.round /\ c.all = ctl.all
                /\ c.settled = ctl.settled /\ c.crashed = ctl.crashed /\ c.hung = ctl.hung
                /\ c.fresh = ctl.fresh
             /\ c.count <= c.i
             /\ Good(c) =>
                  /\ Good(ctl)
                  /\ c.count <= Cardinality({n \in c.left : n <= c.i /\ Did(c, n)})
                  /\ c.round < Polls => c.ok
                  /\ c.round = Polls /\ c.ok => \A n \in c.left : n <= c.i => Did(c, n)
<1>1. PICK seen \in Seen(ctl.i) :
         Onward([ctl EXCEPT !.count = IF seen THEN @ + 1 ELSE @,
                            !.ok = @ /\ (seen \/ ctl.round < Polls),
                            !.lost = @ \/ seen # Truth(ctl.i)],
                "poll", << >>, EndRound)
  BY DEF Poll
<1>2. /\ ctl.pc = "poll" /\ ctl \in Control /\ All(ctl) /\ Shape(ctl)
      /\ ctl.i \in ctl.left /\ ctl.left \subseteq Nodes /\ ctl.i \in 1 .. N /\ ctl.count < ctl.i
      /\ ctl.round \in 1 .. Polls /\ ctl.op \in Starts \cup {"stop_all"}
      /\ ctl.count \in Nat /\ ctl.ok \in BOOLEAN /\ ctl.lost \in BOOLEAN
  BY TypedIs, Fields, Params DEF Poll, All, Shape, OpsAt
<1>3. PICK s \in BOOLEAN : s = seen
  BY DEF Seen, Answers, HasProcess
<1>4. PICK count \in 0 .. N : count = (IF s THEN ctl.count + 1 ELSE ctl.count) /\ count <= ctl.i
  BY <1>2, Params
<1>5. PICK ok \in BOOLEAN : ok = (ctl.ok /\ (s \/ ctl.round < Polls)) BY <1>2
<1>6. PICK l \in BOOLEAN : l = (ctl.lost \/ s # Truth(ctl.i)) BY <1>2
<1>7. Onward([ctl EXCEPT !.count = count, !.ok = ok, !.lost = l], "poll", << >>, EndRound)
  <2>1. [ctl EXCEPT !.count = IF seen THEN @ + 1 ELSE @,
                    !.ok = @ /\ (seen \/ ctl.round < Polls),
                    !.lost = @ \/ seen # Truth(ctl.i)]
          = [ctl EXCEPT !.count = count, !.ok = ok, !.lost = l]
    BY <1>3, <1>4, <1>5, <1>6
  <2> QED BY <1>1, <2>1
<1>8. PICK b \in Control : b = ctl BY <1>2
<1>9. PICK c \in Control : c = [b EXCEPT !.count = count, !.ok = ok, !.lost = l]
  BY DEF Control
<1>10. /\ c.op = b.op /\ c.pc = b.pc /\ c.left = b.left /\ c.i = b.i
       /\ c.before = b.before /\ c.round = b.round /\ c.all = b.all
       /\ c.settled = b.settled /\ c.crashed = b.crashed /\ c.hung = b.hung
       /\ c.fresh = b.fresh /\ c.count = count /\ c.ok = ok /\ c.lost = l
  BY <1>9 DEF Control
<1>11. Good(c) => Good(ctl) /\ s = Truth(ctl.i) BY <1>6, <1>8, <1>10 DEF Good
<1>12. \A n : Did(c, n) <=> Did(ctl, n) BY <1>8, <1>10 DEF Did, Changed
<1>13. ASSUME Good(c)
       PROVE  /\ c.count <= Cardinality({n \in c.left : n <= c.i /\ Did(c, n)})
              /\ c.round < Polls => c.ok
              /\ c.round = Polls /\ c.ok => \A n \in c.left : n <= c.i => Did(c, n)
  <2> DEFINE S == {n \in ctl.left : n < ctl.i /\ Did(ctl, n)}
             T == {n \in c.left : n <= c.i /\ Did(c, n)}
  <2>1. s => Did(ctl, ctl.i)
    <3>1. CASE ctl.op = "stop_all"
      <4>1. Under(ctl, ctl.i) BY <1>2, <1>11, <1>13, <3>1 DEF All, Nodewise, Asked
      <4>2. s => unit[ctl.i] = "down" BY <1>11, <1>13, <3>1 DEF Truth, HasProcess
      <4> QED BY <3>1, <4>1, <4>2 DEF Did, Gone, Under, Halting, Stops
    <3>2. CASE ctl.op # "stop_all" BY <1>11, <1>13, <3>2 DEF Truth, Did, Changed
    <3> QED BY <3>1, <3>2
  <2>2. /\ ctl.count <= Cardinality(S)
        /\ ctl.round < Polls => ctl.ok
        /\ ctl.round = Polls /\ ctl.ok => \A n \in ctl.left : n < ctl.i => Did(ctl, n)
    BY <1>2, <1>11, <1>13 DEF All, Verdicts
  <2>3. ctl.left \subseteq Nat /\ ctl.i \in Nat BY <1>2, Params
  <2>4. S \subseteq Nodes /\ T \subseteq Nodes /\ S \subseteq T
    BY <1>2, <1>8, <1>10, <1>12, <2>3
  <2>5. IsFiniteSet(S) /\ IsFiniteSet(T) BY <2>4, Params, FS_Subset
  <2>6. Cardinality(S) \in Nat /\ Cardinality(T) \in Nat BY <2>5, FS_CardinalityType
  <2>7. ctl.i \notin S BY <2>3
  <2>8. s => T = S \cup {ctl.i}
    <3> SUFFICES ASSUME s PROVE T = S \cup {ctl.i} OBVIOUS
    <3>1. \A n \in ctl.left : n <= ctl.i <=> (n < ctl.i \/ n = ctl.i) BY <2>3
    <3> QED BY <1>2, <1>8, <1>10, <1>12, <2>1, <3>1
  <2>9. s => Cardinality(T) = Cardinality(S) + 1 BY <2>5, <2>7, <2>8, FS_AddElement
  <2>10. Cardinality(S) <= Cardinality(T) BY <2>4, <2>5, FS_Subset
  <2>11. c.count <= Cardinality(T)
    <3> HIDE DEF S, T
    <3> QED BY <1>2, <1>4, <1>10, <2>2, <2>6, <2>9, <2>10
  <2>12. c.round < Polls => c.ok BY <1>5, <1>8, <1>10, <2>2
  <2>13. ASSUME c.round = Polls, c.ok, NEW n \in c.left, n <= c.i PROVE Did(c, n)
    <3>1. ~(Polls < Polls) BY Params
    <3>2. ctl.ok /\ s BY <1>5, <1>8, <1>10, <2>13, <3>1
    <3>3. n < ctl.i \/ n = ctl.i BY <1>8, <1>10, <2>3, <2>13
    <3> QED BY <1>8, <1>10, <1>12, <2>1, <2>2, <2>13, <3>2, <3>3
  <2> QED BY <2>11, <2>12, <2>13
<1>14. c = [ctl EXCEPT !.count = count, !.ok = ok, !.lost = l] BY <1>8, <1>9
<1>15. Onward(c, "poll", << >>, EndRound) BY <1>7, <1>14
<1>16. /\ c.op = ctl.op /\ c.pc = "poll" /\ c.left = ctl.left /\ c.i = ctl.i
       /\ c.before = ctl.before /\ c.round = ctl.round /\ c.all = ctl.all
       /\ c.settled = ctl.settled /\ c.crashed = ctl.crashed /\ c.hung = ctl.hung
       /\ c.fresh = ctl.fresh
  BY <1>2, <1>8, <1>10
<1>17. c.count <= c.i BY <1>4, <1>10, <1>16
<1>18. Good(c) => Good(ctl) BY <1>11
<1> QED BY <1>13, <1>15, <1>16, <1>17, <1>18

\* A node was polled.
LEMMA PollStep == ASSUME Typed, Poll PROVE ctl' \in Control /\ All(ctl)'
<1>1. /\ ctl.pc = "poll" /\ ctl \in Control /\ All(ctl) /\ Shape(ctl) /\ Dates(ctl)
      /\ UNCHANGED systemd
  BY TypedIs DEF Poll, All
<1>2. PICK c \in Control :
             /\ Onward(c, "poll", << >>, EndRound)
             /\ /\ c.op = ctl.op /\ c.pc = "poll" /\ c.left = ctl.left /\ c.i = ctl.i
                /\ c.before = ctl.before /\ c.round = ctl.round /\ c.all = ctl.all
                /\ c.settled = ctl.settled /\ c.crashed = ctl.crashed /\ c.hung = ctl.hung
                /\ c.fresh = ctl.fresh
             /\ c.count <= c.i
             /\ Good(c) =>
                  /\ Good(ctl)
                  /\ c.count <= Cardinality({n \in c.left : n <= c.i /\ Did(c, n)})
                  /\ c.round < Polls => c.ok
                  /\ c.round = Polls /\ c.ok => \A n \in c.left : n <= c.i => Did(c, n)
  BY Polled
<1>3. /\ c.i \in c.left /\ c.left \subseteq c.all /\ c.all \subseteq Nodes
      /\ c.op \in Starts \cup {"stop_all"} /\ c.round \in 1 .. Polls
      /\ c.op # "stop_all" => c.left = c.all
      /\ c.op \in Singles => c.all = {c.i}
      /\ c.left \subseteq Nat /\ c.i \in Nat /\ c.count \in Nat
  BY <1>1, <1>2, Fields, Params DEF Shape, OpsAt
\* The nodes of a call that nothing disturbed so far.
<1>4. Good(c) => /\ \A n \in c.left : Under(c, n)
                 /\ \A n \in c.all \ c.left : Gone(n)
                 /\ c.op \in Restarts /\ c.hung => \E n \in c.all : Late(c, n)
  <2> SUFFICES ASSUME Good(c)
               PROVE /\ \A n \in c.left : Under(c, n)
                     /\ \A n \in c.all \ c.left : Gone(n)
                     /\ c.op \in Restarts /\ c.hung => \E n \in c.all : Late(c, n)
    OBVIOUS
  <2>1. \A n : Asked(ctl, n) BY <1>1 DEF Asked
  <2>2. ctl.op # "ensure" BY <1>2, <1>3 DEF Starts
  <2>3. \A n \in ctl.left : Under(ctl, n) BY <1>1, <1>2, <2>1, <2>2 DEF All, Nodewise
  <2>4. \A n : Under(ctl, n) => Under(c, n) BY <1>2 DEF Under, Rising, Changed
  <2>5. \A n \in c.all \ c.left : Gone(n) BY <1>1, <1>2, <2>2 DEF All, Nodewise
  <2>6. ctl.op \in Restarts /\ ctl.hung => \E n \in ctl.all : Late(ctl, n)
    BY <1>1, <1>2 DEF All, Timeouts
  <2>7. \A n : Late(ctl, n) => Late(c, n) BY <1>2 DEF Late
  <2> QED BY <1>2, <2>3, <2>4, <2>5, <2>6, <2>7
<1> SUFFICES ctl' \in Control /\ \E d : ctl' = d /\ All(d) BY <1>1, SameNodes
<1>5. CASE NextOf(c.left, c.i) # 0
  <2>0. PICK k : k = NextOf(c.left, c.i) OBVIOUS
  <2>1. /\ k \in c.left /\ c.i < k /\ \A n \in c.left : n < k <=> n <= c.i
        /\ k \in 0 .. N /\ k \in Nat
    BY <1>3, <1>5, <2>0, Onwards, Params
  <2>2. << >> \in Seq(Keywords) OBVIOUS
  <2>3. ctl' = [c EXCEPT !.i = k, !.pc = "poll", !.keys = << >>] BY <1>2, <1>5, <2>0 DEF Onward
  <2>4. PICK d \in Control : d = [c EXCEPT !.i = k, !.pc = "poll", !.keys = << >>]
    BY <2>1, <2>2 DEF Control
  <2>5. /\ d.op = c.op /\ d.pc = "poll" /\ d.left = c.left /\ d.i = k
        /\ d.before = c.before /\ d.round = c.round /\ d.all = c.all
        /\ d.settled = c.settled /\ d.crashed = c.crashed /\ d.hung = c.hung
        /\ d.fresh = c.fresh /\ d.count = c.count /\ d.ok = c.ok /\ d.lost = c.lost
    BY <2>4 DEF Control
  <2>6. Good(d) <=> Good(c) BY <2>5 DEF Good
  <2>7. c.count < k BY <1>2, <1>3, <2>1
  <2>8. c.op \in OpsAt("poll") /\ c.op # "none" BY <1>3 DEF OpsAt, Starts
  <2>9. Shape(d) BY <1>3, <2>1, <2>5, <2>7, <2>8 DEF Shape
  <2>10. Dates(d) BY <1>1, <1>2, <2>5 DEF Dates
  <2>11. Nodewise(d)
    <3> SUFFICES ASSUME Good(d) PROVE /\ \A n \in d.left : Under(d, n)
                                      /\ \A n \in d.all \ d.left : Gone(n)
      BY <2>5 DEF Nodewise, Asked
    <3>1. \A n : Under(c, n) => Under(d, n) BY <2>5 DEF Under, Rising, Changed
    <3> QED BY <1>4, <2>5, <2>6, <3>1
  <2>12. Timeouts(d)
    <3>1. d.op # "stop" BY <1>3, <2>5 DEF Starts
    <3>2. \A n : Asked(d, n) BY <2>5 DEF Asked
    <3>3. \A n : Late(c, n) => Late(d, n) BY <2>5 DEF Late
    <3> QED BY <1>4, <2>5, <2>6, <3>1, <3>2, <3>3 DEF Timeouts
  <2>13. Verdicts(d)
    <3> SUFFICES ASSUME Good(d)
                 PROVE  /\ d.count <= Cardinality({n \in d.left : n < d.i /\ Did(d, n)})
                        /\ d.round < Polls => d.ok
                        /\ d.round = Polls /\ d.ok => \A n \in d.left : n < d.i => Did(d, n)
      BY <2>5 DEF Verdicts
    <3>1. \A n : Did(c, n) <=> Did(d, n) BY <2>5 DEF Did, Changed
    <3>2. {n \in d.left : n < d.i /\ Did(d, n)} = {n \in c.left : n <= c.i /\ Did(c, n)}
      BY <2>1, <2>5, <3>1
    <3>3. /\ c.count <= Cardinality({n \in c.left : n <= c.i /\ Did(c, n)})
          /\ c.round < Polls => c.ok
          /\ c.round = Polls /\ c.ok => \A n \in c.left : n <= c.i => Did(c, n)
      BY <1>2, <2>6
    <3>4. d.count <= Cardinality({n \in d.left : n < d.i /\ Did(d, n)})
      BY <2>5, <3>2, <3>3
    <3> QED BY <2>1, <2>5, <3>1, <3>3, <3>4
  <2>14. Results(d) BY <2>5 DEF Results
  <2> QED BY <2>3, <2>4, <2>9, <2>10, <2>11, <2>12, <2>13, <2>14 DEF All
<1>6. CASE NextOf(c.left, c.i) = 0
  <2>1. EndRound(c) BY <1>2, <1>6 DEF Onward
  <2>2. \A n \in c.left : n <= c.i BY <1>3, <1>6, Onwards
  <2>3. PICK k : k = FirstOf(c.left) OBVIOUS
  <2>4. /\ k \in c.left /\ \A n \in c.left : ~(n < k)
        /\ k \in 0 .. N /\ k \in Nat /\ k >= 1
    <3>1. k \in c.left /\ \A n \in c.left : k <= n BY <1>3, <2>3, FirstIs
    <3> QED BY <1>3, <3>1, Params
  <2>5. PICK size \in Nat : size = Cardinality(c.left)
    BY <1>3, Params, FS_Subset, FS_CardinalityType
  \* When the polls are over and all is well, every node was seen.
  <2>6. Good(c) /\ c.ok /\ ~(c.count < size /\ c.round < Polls) => \A n \in c.left : Did(c, n)
    <3> SUFFICES ASSUME Good(c), c.ok, ~(c.count < size /\ c.round < Polls)
                 PROVE  \A n \in c.left : Did(c, n)
      OBVIOUS
    <3>1. CASE c.round = Polls BY <1>2, <2>2, <3>1
    <3>2. CASE c.round # Polls
      <4> DEFINE T == {n \in c.left : n <= c.i /\ Did(c, n)}
      <4>1. c.round < Polls BY <1>3, <3>2, Params
      <4>2. T \subseteq c.left /\ IsFiniteSet(c.left) BY <1>3, Params, FS_Subset
      <4>3. IsFiniteSet(T) /\ Cardinality(T) <= size /\ (size = Cardinality(T) => c.left = T)
        BY <2>5, <4>2, FS_Subset
      <4>4. Cardinality(T) \in Nat /\ c.count <= Cardinality(T)
        BY <1>2, <4>3, FS_CardinalityType
      <4>5. c.left = T
        <5> HIDE DEF T
        <5> QED BY <1>3, <4>1, <4>3, <4>4
      <4> QED BY <4>5
    <3> QED BY <3>1, <3>2
  <2>7. CASE c.count < size /\ c.round < Polls
    <3>1. ctl' = [c EXCEPT !.i = k, !.round = @ + 1, !.count = 0]
      BY <2>1, <2>3, <2>5, <2>7 DEF EndRound
    <3>2. PICK r \in 1 .. Polls : r = c.round + 1 BY <1>3, <2>7, Params
    <3>3. 0 \in 0 .. N /\ r \in 0 .. Polls BY <3>2, Params
    <3>4. PICK d \in Control : d = [c EXCEPT !.i = k, !.round = r, !.count = 0]
      BY <2>4, <3>3 DEF Control
    <3>5. /\ d.op = c.op /\ d.pc = c.pc /\ d.left = c.left /\ d.i = k
          /\ d.before = c.before /\ d.round = r /\ d.all = c.all
          /\ d.settled = c.settled /\ d.crashed = c.crashed /\ d.hung = c.hung
          /\ d.fresh = c.fresh /\ d.count = 0 /\ d.ok = c.ok /\ d.lost = c.lost
      BY <3>4 DEF Control
    <3>6. Good(d) <=> Good(c) BY <3>5 DEF Good
    <3>7. c.op \in OpsAt("poll") /\ c.op # "none" BY <1>3 DEF OpsAt, Starts
    <3>8. Shape(d) BY <1>2, <1>3, <2>4, <3>5, <3>7 DEF Shape
    <3>9. Dates(d) BY <1>1, <1>2, <3>5 DEF Dates
    <3>10. Nodewise(d)
      <4> SUFFICES ASSUME Good(d) PROVE /\ \A n \in d.left : Under(d, n)
                                        /\ \A n \in d.all \ d.left : Gone(n)
        BY <1>2, <3>5 DEF Nodewise, Asked
      <4>1. \A n : Under(c, n) => Under(d, n) BY <3>5 DEF Under, Rising, Changed
      <4> QED BY <1>4, <3>5, <3>6, <4>1
    <3>11. Timeouts(d)
      <4>1. d.op # "stop" BY <1>3, <3>5 DEF Starts
      <4>2. \A n : Asked(d, n) BY <1>2, <3>5 DEF Asked
      <4>3. \A n : Late(c, n) => Late(d, n) BY <3>5 DEF Late
      <4> QED BY <1>4, <3>5, <3>6, <4>1, <4>2, <4>3 DEF Timeouts
    <3>12. Verdicts(d)
      <4> SUFFICES ASSUME Good(d)
                   PROVE  /\ 0 <= Cardinality({n \in d.left : n < d.i /\ Did(d, n)})
                          /\ d.ok
                          /\ \A n \in d.left : ~(n < d.i)
        BY <1>2, <3>5 DEF Verdicts
      <4>1. \A n \in d.left : ~(n < d.i) BY <2>4, <3>5
      <4>2. {n \in d.left : n < d.i /\ Did(d, n)} = {} BY <4>1
      <4>3. Cardinality({n \in d.left : n < d.i /\ Did(d, n)}) = 0 BY <4>2, FS_EmptySet
      <4> QED BY <1>2, <2>7, <3>5, <3>6, <4>1, <4>3
    <3>13. Results(d) BY <1>2, <3>5 DEF Results
    <3>14. ctl' = d BY <3>1, <3>2, <3>4
    <3> QED BY <3>8, <3>9, <3>10, <3>11, <3>12, <3>13, <3>14 DEF All
  <2>8. CASE /\ ~(c.count < size /\ c.round < Polls)
             /\ c.op = "restart_all" \/ (c.op = "restart" /\ c.ok)
    <3>1. ctl' = [c EXCEPT !.i = k, !.pc = "after", !.keys = AfterKeys]
      BY <2>1, <2>3, <2>5, <2>8 DEF EndRound
    <3>2. AfterKeys \in Seq(Keywords) BY Params DEF AfterKeys
    <3>3. PICK d \in Control : d = [c EXCEPT !.i = k, !.pc = "after", !.keys = AfterKeys]
      BY <2>4, <3>2 DEF Control
    <3>4. /\ d.op = c.op /\ d.pc = "after" /\ d.left = c.left /\ d.i = k
          /\ d.before = c.before /\ d.all = c.all /\ d.keys = AfterKeys
          /\ d.settled = c.settled /\ d.crashed = c.crashed /\ d.hung = c.hung
          /\ d.fresh = c.fresh /\ d.ok = c.ok /\ d.lost = c.lost
      BY <3>3 DEF Control
    <3>5. Good(d) <=> Good(c) BY <3>4 DEF Good
    <3>6. c.op \in OpsAt("after") /\ c.op # "none" /\ c.op \in Restarts /\ c.op \notin {"stop", "stop_all"}
      BY <2>8 DEF OpsAt, Restarts
    <3>7. Shape(d) BY <1>3, <2>4, <3>4, <3>6 DEF Shape
    <3>8. Dates(d) BY <1>1, <1>2, <3>4 DEF Dates
    <3>9. Nodewise(d)
      <4> SUFFICES ASSUME Good(d) PROVE /\ \A n \in d.left : Under(d, n)
                                        /\ \A n \in d.all \ d.left : Gone(n)
        BY <3>4, <3>6 DEF Nodewise, Asked
      <4>1. \A n : Under(c, n) => Under(d, n) BY <3>4 DEF Under, Rising, Changed
      <4> QED BY <1>4, <3>4, <3>5, <4>1
    <3>10. Timeouts(d)
      <4>2. \A n : Asked(d, n) BY <3>4 DEF Asked
      <4>3. \A n : Late(c, n) => Late(d, n) BY <3>4 DEF Late
      <4> QED BY <1>4, <3>4, <3>5, <3>6, <4>2, <4>3 DEF Timeouts
    <3>11. Verdicts(d)
      <4> SUFFICES ASSUME Good(d), d.ok
                   PROVE  /\ \A n \in d.left : Changed(d, n)
                          /\ \A n \in d.left : ~(n < d.i)
        BY <3>4, <3>6 DEF Verdicts
      <4>1. \A n \in c.left : Did(c, n) BY <2>6, <2>8, <3>4, <3>5
      <4>2. \A n : Did(c, n) => Changed(d, n) BY <3>4, <3>6 DEF Did, Changed
      <4> QED BY <2>4, <3>4, <4>1, <4>2
    <3>12. Results(d) BY <3>4 DEF Results
    <3> QED BY <3>1, <3>3, <3>7, <3>8, <3>9, <3>10, <3>11, <3>12 DEF All
  <2>9. CASE /\ ~(c.count < size /\ c.round < Polls)
             /\ ~(c.op = "restart_all" \/ (c.op = "restart" /\ c.ok))
    <3>1. End(c, IF c.ok THEN "true" ELSE "false") BY <2>1, <2>5, <2>9 DEF EndRound, Return
    <3>2. PICK result \in {"true", "false", "raised"} : result = IF c.ok THEN "true" ELSE "false"
      OBVIOUS
    <3>3. ASSUME Good(c) PROVE Fits(c, result)
      <4>1. CASE ~c.ok BY <1>3, <3>2, <4>1 DEF Fits, Starts
      <4>2. CASE c.ok
        <5>1. \A n \in c.left : Did(c, n) BY <2>6, <2>9, <3>3, <4>2
        <5>2. CASE c.op = "stop_all"
          <6>1. \A n \in c.all : Gone(n) BY <1>4, <3>3, <5>1, <5>2 DEF Did
          <6> QED BY <5>2, <6>1 DEF Fits, Starts, Restarts
        <5>3. CASE c.op = "start_all"
          <6>1. \A n \in c.all : Changed(c, n) /\ Rising(c, n)
            BY <1>3, <1>4, <3>3, <5>1, <5>3 DEF Did, Under, Stops
          <6>2. \A n \in c.all : Runs(n) /\ n \in c.fresh BY <6>1 DEF Rising
          <6> QED BY <5>3, <6>2 DEF Fits, Stops, Restarts
        <5> QED BY <1>3, <2>9, <4>2, <5>2, <5>3 DEF Starts
      <4> QED BY <4>1, <4>2
    <3> QED BY <3>1, <3>2, <3>3, Ending
  <2> QED BY <2>7, <2>8, <2>9
<1> QED BY <1>5, <1>6

-----------------------------------------------------------------------------
(* Dates read after the command                                            *)

\* A date read after the command is compared with the one before.
LEMMA ReadAfterStep == ASSUME Typed, ReadAfter PROVE ctl' \in Control /\ All(ctl)'
<1> DEFINE n == ctl.i
           k == Head(ctl.keys)
<1>1. n = ctl.i /\ k = Head(ctl.keys) OBVIOUS
<1>2. PICK date \in Answers(journal[n][k], 0) :
         LET c == [ctl EXCEPT !.ok = @ /\ date = ctl.before[n][k],
                              !.keys = Tail(@),
                              !.lost = @ \/ date # journal[n][k]]
         IN IF c.keys # << >> THEN ctl' = c
            ELSE Onward(c, "after", AfterKeys, Return)
  BY DEF ReadAfter
<1> HIDE DEF n, k
<1>3. /\ ctl.pc = "after" /\ ctl \in Control /\ All(ctl) /\ Shape(ctl) /\ Dates(ctl)
      /\ ctl.op \in {"stop"} \cup Restarts /\ ctl.keys \in {AfterKeys, <<"core">>}
      /\ ctl.i \in ctl.left /\ ctl.left = ctl.all /\ ctl.all \subseteq Nodes
      /\ ctl.op \in Singles => ctl.all = {ctl.i}
      /\ UNCHANGED systemd
  BY TypedIs, Fields DEF ReadAfter, All, Shape, OpsAt, Restarts
<1>4. /\ ctl.keys = AfterKeys => k = "timeout" /\ Tail(ctl.keys) = <<"core">>
      /\ ctl.keys # AfterKeys => k = "core" /\ Tail(ctl.keys) = << >>
  <2>1. /\ Head(AfterKeys) = "timeout" /\ Tail(AfterKeys) = <<"core">>
        /\ Head(<<"core">>) = "core" /\ Tail(<<"core">>) = << >>
    BY DEF AfterKeys
  <2> QED BY <1>1, <1>3, <2>1
<1>5. PICK b \in Control : b = ctl BY <1>3
<1>6. PICK ok \in BOOLEAN : ok = (ctl.ok /\ date = ctl.before[n][k]) BY <1>3, Fields
<1>7. PICK l \in BOOLEAN : l = (ctl.lost \/ date # journal[n][k]) BY <1>3, Fields
<1>8. PICK keys \in Seq(Keywords) : keys = Tail(ctl.keys)
  <2>1. <<"core">> \in Seq(Keywords) /\ << >> \in Seq(Keywords) BY Params
  <2> QED BY <1>4, <2>1
<1>9. PICK c \in Control : c = [b EXCEPT !.ok = ok, !.keys = keys, !.lost = l] BY DEF Control
<1>10. /\ c.op = b.op /\ c.pc = b.pc /\ c.left = b.left /\ c.i = b.i /\ c.before = b.before
       /\ c.round = b.round /\ c.count = b.count /\ c.all = b.all /\ c.settled = b.settled
       /\ c.crashed = b.crashed /\ c.hung = b.hung /\ c.fresh = b.fresh
       /\ c.ok = ok /\ c.keys = keys /\ c.lost = l
  BY <1>9 DEF Control
<1>11. c = [ctl EXCEPT !.ok = @ /\ date = ctl.before[n][k],
                       !.keys = Tail(@),
                       !.lost = @ \/ date # journal[n][k]]
  BY <1>5, <1>6, <1>7, <1>8, <1>9
<1>12. IF c.keys # << >> THEN ctl' = c ELSE Onward(c, "after", AfterKeys, Return)
  BY <1>2, <1>11
<1>13. Good(c) => Good(ctl) /\ (ok <=> ctl.ok /\ ctl.before[n][k] = journal[n][k])
  BY <1>5, <1>6, <1>7, <1>10 DEF Good
<1>14. \A m : /\ Late(c, m) <=> Late(ctl, m)
              /\ Changed(c, m) <=> Changed(ctl, m)
              /\ Under(ctl, m) => Under(c, m)
              /\ Asked(ctl, m)
  BY <1>3, <1>5, <1>10 DEF Late, Changed, Under, Rising, Asked
<1>15. /\ c.pc = "after" /\ c.op \in {"stop"} \cup Restarts /\ c.i \in c.left
       /\ c.left = c.all /\ c.all \subseteq Nodes /\ c.i = n
       /\ c.op \in Singles => c.all = {c.i}
  BY <1>1, <1>3, <1>5, <1>10
\* The nodes of a call that nothing disturbed.
<1>16. ASSUME Good(c)
       PROVE  /\ \A m \in c.all : Under(c, m)
              /\ c.op = "stop" => Settled(c.i)
              /\ c.hung => \E m \in c.all : Late(c, m)
              /\ c.op = "stop" =>
                   \A m \in c.all : /\ Late(c, m) => c.hung
                                    /\ journal[m]["core"] = c.before[m]["core"]
              /\ c.op \in Restarts /\ c.ok =>
                   /\ \A m \in c.all : Changed(c, m)
                   /\ \A m \in c.all : m < c.i => ~Late(c, m)
  <2>1. Good(ctl) /\ ctl.op # "ensure" /\ ctl.op # "start" BY <1>3, <1>13, <1>16 DEF Restarts
  <2>2. /\ \A m \in ctl.left : Under(ctl, m)
        /\ ctl.op = "stop" => Settled(ctl.i)
    BY <1>3, <1>14, <2>1 DEF All, Nodewise
  <2>3. /\ ctl.hung => \E m \in ctl.all : Late(ctl, m)
        /\ ctl.op = "stop" =>
             \A m \in ctl.all : /\ Late(ctl, m) => ctl.hung
                                /\ journal[m]["core"] = ctl.before[m]["core"]
    BY <1>3, <1>14, <2>1 DEF All, Timeouts
  <2>4. ctl.op \in Restarts /\ ctl.ok =>
          /\ \A m \in ctl.left : Changed(ctl, m)
          /\ \A m \in ctl.left : m < ctl.i => ~Late(ctl, m)
    BY <1>3, <2>1 DEF All, Verdicts
  <2>5. c.ok => ctl.ok BY <1>6, <1>10
  <2> QED BY <1>3, <1>5, <1>10, <1>14, <2>2, <2>3, <2>4, <2>5
<1> SUFFICES ctl' \in Control /\ \E d : ctl' = d /\ All(d) BY <1>3, SameNodes
<1>17. CASE ctl.keys = AfterKeys
  <2>1. c.keys = <<"core">> /\ k = "timeout" BY <1>4, <1>8, <1>10, <1>17
  <2>2. <<"core">> # << >> /\ <<"core">> # AfterKeys BY DEF AfterKeys
  <2>3. ctl' = c BY <1>12, <2>1, <2>2
  <2>4. Good(c) => (c.ok <=> ctl.ok /\ ~Late(c, c.i))
    BY <1>5, <1>10, <1>13, <1>14, <1>15, <2>1 DEF Late
  <2>5. Shape(c)
    <3>1. c.op \in OpsAt("after") /\ c.op # "none" BY <1>15 DEF OpsAt, Restarts
    <3> QED BY <1>15, <2>1, <3>1 DEF Shape
  <2>6. Dates(c) BY <1>3, <1>5, <1>10 DEF Dates
  <2>7. Nodewise(c) BY <1>15, <1>16 DEF Nodewise, Asked
  <2>8. Timeouts(c)
    <3>1. \A m : Asked(c, m) BY <1>15 DEF Asked
    <3> QED BY <1>16, <3>1 DEF Timeouts
  <2>9. Verdicts(c)
    <3> SUFFICES ASSUME Good(c)
                 PROVE  /\ c.op = "stop" => (c.ok <=> ~Late(c, c.i))
                        /\ c.op \in Restarts /\ c.ok =>
                             /\ \A m \in c.left : Changed(c, m)
                             /\ \A m \in c.left : m < c.i \/ m = c.i => ~Late(c, m)
      BY <1>15, <2>1, <2>2 DEF Verdicts
    <3>1. ctl.op = "stop" => ctl.ok BY <1>3, <1>13, <1>17 DEF All, Verdicts
    <3> QED BY <1>5, <1>10, <1>15, <1>16, <2>4, <3>1
  <2>10. Results(c) BY <1>15 DEF Results
  <2> QED BY <2>3, <2>5, <2>6, <2>7, <2>8, <2>9, <2>10 DEF All
<1>18. CASE ctl.keys # AfterKeys
  <2>1. c.keys = << >> /\ k = "core" BY <1>4, <1>8, <1>10, <1>18
  <2>2. Onward(c, "after", AfterKeys, Return) BY <1>12, <2>1
  <2>3. ASSUME Good(c)
        PROVE  /\ c.op = "stop" => (c.ok <=> ~Late(c, c.i))
               /\ c.op \in Restarts /\ c.ok => \A m \in c.all : m <= c.i => ~Late(c, m)
    <3>1. ctl.op = "stop" => (ctl.ok <=> ~Late(ctl, ctl.i)) BY <1>3, <1>13, <1>18, <2>3 DEF All, Verdicts
    <3>2. c.op = "stop" => journal[n]["core"] = c.before[n]["core"] BY <1>15, <1>16, <2>3
    <3>3. c.op = "stop" => (c.ok <=> ctl.ok) BY <1>5, <1>10, <1>13, <2>1, <2>3, <3>2
    <3>4. ctl.op \in Restarts /\ ctl.ok => ~Late(ctl, ctl.i)
      BY <1>3, <1>13, <1>18, <2>3 DEF All, Verdicts
    <3>5. c.ok => ctl.ok BY <1>6, <1>10
    <3>6. \A m \in c.all : m <= c.i => m < c.i \/ m = c.i BY <1>15, Params
    <3>7. c.op = "stop" => (c.ok <=> ~Late(c, c.i)) BY <1>5, <1>10, <1>14, <3>1, <3>3
    <3>8. c.op \in Restarts /\ c.ok => \A m \in c.all : m <= c.i => ~Late(c, m)
      BY <1>5, <1>10, <1>14, <1>16, <2>3, <3>4, <3>5, <3>6
    <3> QED BY <3>7, <3>8
  <2>4. CASE NextOf(c.left, c.i) # 0
    <3>0. PICK j : j = NextOf(c.left, c.i) OBVIOUS
    <3>1. /\ j \in c.left /\ c.i < j /\ \A m \in c.left : m < j <=> m <= c.i
          /\ j \in 0 .. N /\ j \in Nat /\ c.i \in Nat
      BY <1>15, <2>4, <3>0, Onwards, Params
    <3>2. AfterKeys \in Seq(Keywords) BY Params DEF AfterKeys
    <3>3. ctl' = [c EXCEPT !.i = j, !.pc = "after", !.keys = AfterKeys]
      BY <2>2, <2>4, <3>0 DEF Onward
    <3>4. PICK d \in Control : d = [c EXCEPT !.i = j, !.pc = "after", !.keys = AfterKeys]
      BY <3>1, <3>2 DEF Control
    <3>5. /\ d.op = c.op /\ d.pc = "after" /\ d.left = c.left /\ d.i = j
          /\ d.before = c.before /\ d.all = c.all /\ d.keys = AfterKeys
          /\ d.settled = c.settled /\ d.crashed = c.crashed /\ d.hung = c.hung
          /\ d.fresh = c.fresh /\ d.ok = c.ok /\ d.lost = c.lost
      BY <3>4 DEF Control
    <3>6. d.op \notin Singles
      <4>1. c.i # j BY <3>1
      <4> QED BY <1>15, <3>1, <3>5, <4>1
    <3>7. d.op = "restart_all" BY <1>15, <3>5, <3>6 DEF Restarts, Singles
    <3>8. Good(d) <=> Good(c) BY <3>5 DEF Good
    <3>9. \A m : /\ Late(d, m) <=> Late(c, m)
                 /\ Changed(d, m) <=> Changed(c, m)
                 /\ Under(c, m) => Under(d, m)
                 /\ Asked(d, m)
      BY <3>5 DEF Late, Changed, Under, Rising, Asked
    <3>10. Shape(d) BY <1>15, <3>1, <3>5, <3>6, <3>7 DEF Shape, OpsAt, Restarts
    <3>11. Dates(d) BY <1>3, <1>5, <1>10, <3>5 DEF Dates
    <3>12. Nodewise(d)
      <4> SUFFICES ASSUME Good(d) PROVE /\ \A m \in d.left : Under(d, m)
                                        /\ \A m \in d.all \ d.left : Gone(m)
        BY <3>5, <3>7, <3>9 DEF Nodewise
      <4> QED BY <1>15, <1>16, <3>5, <3>8, <3>9
    <3>13. Timeouts(d) BY <1>16, <3>5, <3>7, <3>8, <3>9 DEF Timeouts
    <3>14. Verdicts(d)
      <4> SUFFICES ASSUME Good(d), d.ok
                   PROVE  /\ \A m \in d.left : Changed(d, m)
                          /\ \A m \in d.left : m < d.i => ~Late(d, m)
        BY <3>5, <3>7 DEF Verdicts
      <4>1. c.op \in Restarts /\ c.ok /\ Good(c) BY <3>5, <3>7, <3>8 DEF Restarts
      <4> QED BY <1>15, <1>16, <2>3, <3>1, <3>5, <3>9, <4>1
    <3>15. Results(d) BY <3>5 DEF Results
    <3> QED BY <3>3, <3>4, <3>10, <3>11, <3>12, <3>13, <3>14, <3>15 DEF All
  <2>5. CASE NextOf(c.left, c.i) = 0
    <3>1. \A m \in c.left : m <= c.i BY <1>15, <2>5, Onwards
    <3>2. End(c, IF c.ok THEN "true" ELSE "false") BY <2>2, <2>5 DEF Onward, Return
    <3>3. PICK result \in {"true", "false", "raised"} : result = IF c.ok THEN "true" ELSE "false"
      OBVIOUS
    <3>4. ASSUME Good(c) PROVE Fits(c, result)
      <4>1. CASE c.op = "stop"
        <5>1. c.all = {c.i} BY <1>15, <4>1 DEF Singles
        <5>2. c.ok <=> ~c.hung BY <1>16, <2>3, <3>4, <4>1, <5>1
        <5>3. Gone(c.i)
          <6>1. Halting(c.i) BY <1>15, <1>16, <3>4, <4>1 DEF Under, Stops
          <6>2. Settled(c.i) BY <1>16, <3>4, <4>1
          <6> QED BY <6>1, <6>2 DEF Halting, Settled, Gone
        <5> QED BY <3>3, <4>1, <5>1, <5>2, <5>3 DEF Fits, Starts, Restarts
      <4>2. CASE c.op \in Restarts
        <5>1. CASE ~c.ok BY <3>3, <4>2, <5>1 DEF Fits, Restarts
        <5>2. CASE c.ok
          <6>1. \A m \in c.all : Changed(c, m) /\ ~Late(c, m)
            BY <1>15, <1>16, <2>3, <3>1, <3>4, <4>2, <5>2
          <6>2. ~c.hung BY <1>16, <3>4, <6>1
          <6>3. \A m \in c.all : Rising(c, m)
            BY <1>16, <3>4, <4>2 DEF Under, Restarts, Stops
          <6>4. \A m \in c.all : Runs(m) /\ m \in c.fresh BY <6>1, <6>3 DEF Rising
          <6> QED BY <4>2, <6>2, <6>4 DEF Fits, Stops, Restarts
        <5> QED BY <5>1, <5>2
      <4> QED BY <1>15, <4>1, <4>2
    <3> QED BY <3>2, <3>3, <3>4, Ending
  <2> QED BY <2>4, <2>5
<1> QED BY <1>17, <1>18

-----------------------------------------------------------------------------
(* Calls                                                                   *)

\* A call begins with its first node; nothing was asked of any yet.
LEMMA CallStep == ASSUME Typed, CallSome PROVE ctl' \in Control /\ All(ctl)'
<1>1. PICK op \in Ops, all \in SUBSET Nodes :
         /\ all # {} /\ all \subseteq Nodes /\ Call(op, all)
         /\ op \in Singles => \E n \in Nodes : all = {n}
  <2>1. PICK op \in Ops : \E all \in (IF op \in Singles THEN {{n} : n \in Nodes} ELSE {Nodes}) :
                             Call(op, all)
    BY DEF CallSome, Singles
  <2>2. PICK all \in (IF op \in Singles THEN {{n} : n \in Nodes} ELSE {Nodes}) : Call(op, all)
    BY <2>1
  <2>3. all # {} /\ all \subseteq Nodes /\ (op \in Singles => \E n \in Nodes : all = {n})
    <3>1. CASE op \in Singles
      <4>1. PICK n \in Nodes : all = {n} BY <2>2, <3>1
      <4> QED BY <4>1
    <3>2. CASE op \notin Singles
      <4>1. all = Nodes BY <2>2, <3>2
      <4>2. Nodes # {} BY Params
      <4> QED BY <3>2, <4>1, <4>2
    <3> QED BY <3>1, <3>2
  <2> QED BY <2>2, <2>3
<1>2. op \in OpNames BY ProcessAssumption
<1>3. PICK i \in Nodes : i = FirstOf(all) /\ i \in all /\ \A m \in all : ~(m < i)
  <2>1. FirstOf(all) \in all /\ \A m \in all : FirstOf(all) <= m BY <1>1, FirstIs
  <2>2. PICK i \in Nodes : i = FirstOf(all) BY <1>1, <2>1
  <2>3. \A m \in all : i <= m /\ m \in Nat BY <1>1, <2>1, <2>2, Params
  <2>4. i \in Nat BY Params
  <2>5. \A m \in all : ~(m < i) BY <2>3, <2>4
  <2> QED BY <2>1, <2>2, <2>5
<1>4. PICK settled \in BOOLEAN :
         settled = \A n \in all : \/ Settled(n)
                                  \/ /\ op \in {"stop", "stop_all"}
                                     /\ job[n] = "none" /\ unit[n] = "starting"
  OBVIOUS
<1>5. PICK pc \in {"pid", "issue", "before"} :
         pc = CASE op \in {"stop", "stop_all", "ensure"} -> "pid"
                [] op = "start" -> "issue"
                [] OTHER -> "before"
  OBVIOUS
<1>6. PICK keys \in Seq(Keywords) :
         keys = IF op \in {"restart", "start_all", "restart_all"} THEN BeforeKeys(op) ELSE << >>
  <2>1. << >> \in Seq(Keywords) /\ <<"started">> \in Seq(Keywords)
        /\ <<"timeout", "core", "started">> \in Seq(Keywords)
    BY Params
  <2> QED BY <2>1 DEF BeforeKeys
<1>7. ctl' = [NoCall EXCEPT !.op = op, !.all = all, !.left = all, !.i = i,
                            !.settled = settled, !.pc = pc, !.keys = keys]
  BY <1>1, <1>3, <1>4, <1>5, <1>6 DEF Call
<1>8. UNCHANGED systemd BY <1>1 DEF Call
<1>9. PICK b \in Control : b = NoCall BY NoCallType
<1>10. i \in 0 .. N BY Params
<1>11. PICK d \in Control :
          d = [b EXCEPT !.op = op, !.all = all, !.left = all, !.i = i,
                        !.settled = settled, !.pc = pc, !.keys = keys]
  BY <1>1, <1>2, <1>10 DEF Control
<1>12. /\ d.op = op /\ d.all = all /\ d.left = all /\ d.i = i /\ d.settled = settled
       /\ d.pc = pc /\ d.keys = keys /\ d.before = b.before /\ d.round = b.round
       /\ d.count = b.count /\ d.ok = b.ok /\ d.result = b.result /\ d.lost = b.lost
       /\ d.crashed = b.crashed /\ d.hung = b.hung /\ d.fresh = b.fresh
  BY <1>11 DEF Control
<1>13. d.before = [n \in Nodes |-> NoDates] /\ d.ok = TRUE /\ d.hung = FALSE
  BY <1>9, <1>12 DEF NoCall
<1>14. pc = "before" => /\ op \in Starts /\ keys = BeforeKeys(op) /\ keys \in KeysBefore(op)
                        /\ \A k \in ReadBy(op) : \E j \in 1 .. Len(keys) : keys[j] = k
  <2> SUFFICES ASSUME pc = "before" PROVE
         /\ op \in Starts /\ keys = BeforeKeys(op) /\ keys \in KeysBefore(op)
         /\ \A k \in ReadBy(op) : \E j \in 1 .. Len(keys) : keys[j] = k
    OBVIOUS
  <2>1. op \in Starts BY <1>2, <1>5 DEF OpNames, Starts
  <2>2. keys = BeforeKeys(op) BY <1>6, <2>1 DEF Starts
  <2>3. keys \in KeysBefore(op) BY <2>1, <2>2 DEF BeforeKeys, KeysBefore, Starts
  <2>4. CASE op = "start_all"
    <3>1. keys = <<"started">> /\ ReadBy(op) = {"started"} BY <2>2, <2>4 DEF BeforeKeys, ReadBy
    <3>2. 1 \in 1 .. Len(keys) /\ keys[1] = "started" BY <3>1
    <3> QED BY <2>1, <2>2, <2>3, <3>1, <3>2
  <2>5. CASE op # "start_all"
    <3>1. keys = <<"timeout", "core", "started">> /\ ReadBy(op) = Keywords
      BY <2>1, <2>2, <2>5 DEF BeforeKeys, ReadBy, Starts
    <3>2. 1 \in 1 .. Len(keys) /\ 2 \in 1 .. Len(keys) /\ 3 \in 1 .. Len(keys) BY <3>1
    <3>3. keys[1] = "timeout" /\ keys[2] = "core" /\ keys[3] = "started" BY <3>1
    <3>4. \A k \in ReadBy(op) : \E j \in 1 .. Len(keys) : keys[j] = k
      BY <3>1, <3>2, <3>3, Params
    <3> QED BY <2>1, <2>2, <2>3, <3>4
  <2> QED BY <2>4, <2>5
<1>15. op \in OpsAt(pc) /\ op # "none" /\ ~(pc = "pid" /\ op = "start")
       /\ (pc = "issue" => op = "start")
  BY <1>2, <1>5 DEF OpsAt, OpNames, Starts
<1>16. \A n \in all : ~Asked(d, n) BY <1>3, <1>12, <1>15 DEF Asked
<1>17. Shape(d)
  <2>1. op \in Singles => all = {i} BY <1>1, <1>3
  <2> QED BY <1>3, <1>5, <1>12, <1>14, <1>15, <2>1 DEF Shape
<1>18. Dates(d)
  <2> SUFFICES ASSUME NEW n \in Nodes, NEW k \in Keywords
               PROVE  d.before[n][k] <= journal[n][k] /\ journal[n][k] <= now
    BY DEF Dates
  <2>1. journal[n][k] \in 0 .. MaxTime /\ journal[n][k] <= now BY TypedIs DEF All, Dates
  <2>2. d.before[n][k] = 0 BY <1>13 DEF NoDates
  <2>3. journal[n][k] >= 0 BY <2>1, Params
  <2> QED BY <2>1, <2>2, <2>3
<1>19. Nodewise(d)
  <2> SUFFICES ASSUME Good(d)
               PROVE  \A n \in all : Calm(d, n)
    BY <1>12, <1>14, <1>15, <1>16 DEF Nodewise, Starts
  <2>1. settled BY <1>12 DEF Good
  <2> QED BY <1>4, <1>12, <2>1 DEF Calm, Settled, Stops
<1>20. Timeouts(d) BY <1>12, <1>13, <1>16 DEF Timeouts
<1>21. Verdicts(d) BY <1>5, <1>12, <1>13 DEF Verdicts
<1>22. Results(d) BY <1>5, <1>12 DEF Results
<1>23. ctl' = d BY <1>7, <1>9, <1>11
<1> QED BY <1>8, <1>17, <1>18, <1>19, <1>20, <1>21, <1>22, <1>23, SameNodes DEF All

-----------------------------------------------------------------------------
(* Steps of systemd                                                        *)

Same(n) == unit'[n] = unit[n] /\ job'[n] = job[n] /\ journal'[n] = journal[n]

\* What a step of systemd may do to a node of a call that it does not disturb.
Move(d, n) ==
    \/ Same(n)
    \/ /\ ~Settled(n)
       /\ Calm(ctl, n) => Calm(d, n)'
       /\ Under(ctl, n) => Under(d, n)'
       /\ Gone(n) => Gone(n)'
       /\ journal'[n]["core"] = journal[n]["core"]
       /\ journal'[n]["started"] # journal[n]["started"] => unit[n] = "starting"
       /\ journal'[n]["timeout"] # journal[n]["timeout"] => unit[n] = "stopping" /\ d.hung

\* A step of systemd that leaves the nodes of the call in order.
LEMMA Moved ==
    ASSUME Typed, TypeOK', NEW d \in Control, ctl' = d,
           d.op = ctl.op, d.pc = ctl.pc, d.left = ctl.left, d.i = ctl.i, d.keys = ctl.keys,
           d.before = ctl.before, d.round = ctl.round, d.count = ctl.count, d.ok = ctl.ok,
           d.result = ctl.result, d.all = ctl.all, d.settled = ctl.settled, d.lost = ctl.lost,
           ctl.fresh \subseteq d.fresh, ctl.hung => d.hung, ctl.crashed => d.crashed,
           \A n \in Nodes, k \in Keywords :
              journal[n][k] <= journal'[n][k] /\ journal'[n][k] <= now',
           Good(d) => \A n \in ctl.all : Move(d, n),
           Good(d) /\ d.hung /\ ~ctl.hung =>
              \E n \in ctl.all : /\ unit[n] = "stopping"
                                 /\ journal[n]["timeout"] < journal'[n]["timeout"]
    PROVE  All(ctl)'
<1>1. /\ ctl \in Control /\ All(ctl) /\ Shape(ctl) /\ Dates(ctl)
      /\ journal \in [Nodes -> [Keywords -> 0 .. MaxTime]]
      /\ ctl.left \subseteq ctl.all /\ ctl.all \subseteq Nodes
      /\ Keywords = {"timeout", "core", "started"}
      /\ ctl.before \in [Nodes -> [Keywords -> 0 .. MaxTime]]
  BY TypedIs, Fields, Params DEF All, Shape
<1>2. journal' \in [Nodes -> [Keywords -> 0 .. MaxTime]] BY DEF TypeOK
<1>3. Shape(d)' BY <1>1 DEF Shape
<1>4. ASSUME NEW n \in Nodes, NEW k \in Keywords
      PROVE  /\ ctl.before[n][k] <= journal[n][k] /\ journal[n][k] <= journal'[n][k]
             /\ journal'[n][k] <= now'
             /\ ctl.before[n][k] \in Nat /\ journal[n][k] \in Nat /\ journal'[n][k] \in Nat
  <2>1. ctl.before[n][k] \in 0 .. MaxTime /\ journal[n][k] \in 0 .. MaxTime
        /\ journal'[n][k] \in 0 .. MaxTime
    BY <1>1, <1>2
  <2>2. ctl.before[n][k] <= journal[n][k] BY <1>1 DEF Dates
  <2>3. journal[n][k] <= journal'[n][k] /\ journal'[n][k] <= now' OBVIOUS
  <2>4. ctl.before[n][k] \in Nat /\ journal[n][k] \in Nat /\ journal'[n][k] \in Nat
    BY <2>1, Params
  <2> QED BY <2>2, <2>3, <2>4
<1>5. Dates(d)'
  <2> SUFFICES ASSUME NEW n \in Nodes, NEW k \in Keywords
               PROVE  d.before[n][k] <= journal'[n][k] /\ journal'[n][k] <= now'
    BY DEF Dates
  <2> QED BY <1>4
<1>6. Good(d) => Good(ctl) BY DEF Good
<1>7. \A n : Asked(d, n) <=> Asked(ctl, n) BY DEF Asked
\* A date that has moved does not come back.
<1>8. \A n \in Nodes : /\ Changed(ctl, n) => Changed(d, n)'
                       /\ Late(ctl, n) => Late(d, n)'
  <2> SUFFICES ASSUME NEW n \in Nodes
               PROVE  /\ Changed(ctl, n) => Changed(d, n)'
                      /\ Late(ctl, n) => Late(d, n)'
    OBVIOUS
  <2>1. "started" \in Keywords /\ "timeout" \in Keywords BY <1>1
  <2>2. ctl.before[n]["started"] <= journal[n]["started"]
        /\ journal[n]["started"] <= journal'[n]["started"]
        /\ ctl.before[n]["started"] \in Nat /\ journal[n]["started"] \in Nat
        /\ journal'[n]["started"] \in Nat
    BY <1>4, <2>1
  <2>3. ctl.before[n]["timeout"] <= journal[n]["timeout"]
        /\ journal[n]["timeout"] <= journal'[n]["timeout"]
        /\ ctl.before[n]["timeout"] \in Nat /\ journal[n]["timeout"] \in Nat
        /\ journal'[n]["timeout"] \in Nat
    BY <1>4, <2>1
  <2>4. Changed(ctl, n) => Changed(d, n)'
    <3>1. Changed(d, n)' <=> journal'[n]["started"] # ctl.before[n]["started"] BY DEF Changed
    <3> QED BY <2>2, <3>1 DEF Changed
  <2>5. Late(ctl, n) => Late(d, n)'
    <3>1. Late(d, n)' <=> journal'[n]["timeout"] # ctl.before[n]["timeout"] BY DEF Late
    <3> QED BY <2>3, <3>1 DEF Late
  <2> QED BY <2>4, <2>5
\* The nodes of a call that nothing disturbed.
<1>9. ASSUME Good(d), NEW n \in ctl.all
      PROVE  /\ Calm(ctl, n) => Calm(d, n)'
             /\ Under(ctl, n) => Under(d, n)'
             /\ Gone(n) => Gone(n)'
             /\ Settled(n) => Same(n)
             /\ Runs(n) => Runs(n)'
             /\ journal'[n]["core"] = journal[n]["core"]
             /\ journal'[n]["started"] # journal[n]["started"] => unit[n] = "starting"
             /\ journal'[n]["timeout"] # journal[n]["timeout"] => unit[n] = "stopping" /\ d.hung
  <2>1. Move(d, n) BY <1>9
  <2>2. CASE Same(n)
    <3>1. unit'[n] = unit[n] /\ job'[n] = job[n] /\ journal'[n] = journal[n] BY <2>2 DEF Same
    <3>2. Calm(ctl, n) => Calm(d, n)' BY <3>1 DEF Calm
    <3>3. Rising(ctl, n) => Rising(d, n)' BY <3>1 DEF Rising, Changed, Runs
    <3>4. Halting(n) => Halting(n)' BY <3>1 DEF Halting
    <3>5. Under(ctl, n) => Under(d, n)' BY <3>1, <3>3, <3>4 DEF Under
    <3>6. (Gone(n) => Gone(n)') /\ (Runs(n) => Runs(n)') BY <3>1 DEF Gone, Runs
    <3> QED BY <2>2, <3>1, <3>2, <3>5, <3>6
  <2>3. CASE ~Same(n)
    <3>1. ~Settled(n) BY <2>1, <2>3 DEF Move
    <3>2. ~Runs(n) BY <3>1 DEF Runs, Settled
    <3> QED BY <2>1, <2>3, <3>1, <3>2 DEF Move
  <2> QED BY <2>2, <2>3
<1>10. Nodewise(d)'
  <2> SUFFICES ASSUME Good(d), d.pc # "idle", d.op # "ensure"
               PROVE
    /\ \A n \in d.left : IF Asked(d, n) THEN Under(d, n)' ELSE Calm(d, n)'
    /\ \A n \in d.all \ d.left : Gone(n)'
    /\ (d.pc = "pid" /\ d.op = "start") \/ (d.pc = "after" /\ d.op = "stop") => Settled(d.i)'
    /\ d.pc = "issue" /\ d.op \in {"stop"} \cup Starts =>
         \A k \in ReadBy(d.op) : d.before[d.i][k] = journal'[d.i][k]
    /\ d.pc = "before" =>
         \A k \in ReadBy(d.op) :
            (\A j \in 1 .. Len(d.keys) : d.keys[j] # k) => d.before[d.i][k] = journal'[d.i][k]
    BY DEF Nodewise, Good, Asked
  <2>1. Nodewise(ctl) /\ Good(ctl) BY <1>1, <1>6 DEF All
  <2>2. /\ \A n \in ctl.left : IF Asked(ctl, n) THEN Under(ctl, n) ELSE Calm(ctl, n)
        /\ \A n \in ctl.all \ ctl.left : Gone(n)
    BY <2>1 DEF Nodewise
  <2>3. \A n \in d.left : IF Asked(d, n) THEN Under(d, n)' ELSE Calm(d, n)'
    BY <1>1, <1>7, <1>9, <2>2
  <2>4. \A n \in d.all \ d.left : Gone(n)' BY <1>9, <2>2
  <2>5. ctl.i \in ctl.left /\ ctl.i \in ctl.all /\ ctl.i \in Nodes BY <1>1 DEF Shape
  <2>6. PICK i \in ctl.all : i = ctl.i BY <2>5
  <2>7. (d.pc = "pid" /\ d.op = "start") \/ (d.pc = "after" /\ d.op = "stop") => Settled(d.i)'
    <3>1. (d.pc = "pid" /\ d.op = "start") \/ (d.pc = "after" /\ d.op = "stop") => Settled(i)
      BY <2>1, <2>6 DEF Nodewise
    <3>2. Settled(i) => Settled(i)' BY <1>9 DEF Same, Settled
    <3> QED BY <2>6, <3>1, <3>2 DEF Settled
  \* A node that is still to be told has no date changed that was read.
  <2>8. ASSUME d.pc \in {"issue", "before"}, d.op \in {"stop"} \cup Starts, NEW k \in ReadBy(d.op)
        PROVE  journal'[i][k] = journal[i][k]
    <3>1. ~Asked(ctl, i)
      <4>1. ~(i < i) BY <1>1, <2>5, <2>6, Params
      <4> QED BY <2>6, <2>8, <4>1 DEF Asked
    <3>2. Calm(ctl, i) BY <2>2, <2>5, <2>6, <3>1
    <3>3. unit[i] # "stopping" /\ (d.op # "stop" => unit[i] # "starting")
      BY <2>8, <3>2 DEF Calm, Starts, Stops
    <3>4. k \in Keywords /\ (d.op = "stop" => k # "started") BY <1>1, <2>8 DEF ReadBy
    <3>5. CASE k = "timeout" BY <1>9, <3>3, <3>5
    <3>6. CASE k = "core" BY <1>9, <3>6
    <3>7. CASE k = "started" BY <1>9, <3>3, <3>4, <3>7
    <3> QED BY <1>1, <3>4, <3>5, <3>6, <3>7
  <2>9. d.pc = "issue" /\ d.op \in {"stop"} \cup Starts =>
          \A k \in ReadBy(d.op) : d.before[d.i][k] = journal'[d.i][k]
    <3>1. d.pc = "issue" /\ d.op \in {"stop"} \cup Starts =>
            \A k \in ReadBy(d.op) : d.before[i][k] = journal[i][k]
      BY <2>1, <2>6 DEF Nodewise
    <3> QED BY <2>6, <2>8, <3>1
  <2>10. d.pc = "before" =>
           \A k \in ReadBy(d.op) :
              (\A j \in 1 .. Len(d.keys) : d.keys[j] # k) => d.before[d.i][k] = journal'[d.i][k]
    <3>1. d.pc = "before" =>
           \A k \in ReadBy(d.op) :
              (\A j \in 1 .. Len(d.keys) : d.keys[j] # k) => d.before[i][k] = journal[i][k]
      BY <2>1, <2>6 DEF Nodewise
    <3>2. d.pc = "before" => d.op \in {"stop"} \cup Starts BY <1>1 DEF Shape, OpsAt
    <3> QED BY <2>6, <2>8, <3>1, <3>2
  <2> QED BY <2>3, <2>4, <2>7, <2>9, <2>10
<1>11. Timeouts(d)'
  <2> SUFFICES ASSUME Good(d), d.pc # "idle"
               PROVE
    /\ d.op \in {"stop"} \cup Restarts /\ d.hung => \E n \in d.all : Asked(d, n) /\ Late(d, n)'
    /\ d.op = "stop" => \A n \in d.all : Asked(d, n) =>
         /\ Late(d, n)' => d.hung
         /\ journal'[n]["core"] = d.before[n]["core"]
    BY DEF Timeouts, Good, Asked
  <2>1. Timeouts(ctl) /\ Nodewise(ctl) /\ Good(ctl) BY <1>1, <1>6 DEF All
  <2>2. ASSUME d.op \in {"stop"} \cup Restarts, d.hung
        PROVE  \E n \in d.all : Asked(d, n) /\ Late(d, n)'
    <3>1. CASE ctl.hung
      <4>1. PICK n \in ctl.all : Asked(ctl, n) /\ Late(ctl, n) BY <2>1, <2>2, <3>1 DEF Timeouts
      <4> QED BY <1>1, <1>7, <1>8, <4>1
    <3>2. CASE ~ctl.hung
      <4>1. PICK n \in ctl.all : /\ unit[n] = "stopping"
                                 /\ journal[n]["timeout"] < journal'[n]["timeout"]
        BY <2>2, <3>2
      <4>2. ctl.left = ctl.all /\ ctl.op # "ensure" BY <1>1, <2>2 DEF Shape, Restarts
      <4>3. Asked(ctl, n)
        <5>1. ~Calm(ctl, n) BY <4>1 DEF Calm
        <5> QED BY <2>1, <4>2, <5>1 DEF Nodewise
      <4>4. Late(d, n)'
        <5>1. "timeout" \in Keywords /\ n \in Nodes BY <1>1
        <5>2. ctl.before[n]["timeout"] <= journal[n]["timeout"]
              /\ ctl.before[n]["timeout"] \in Nat /\ journal[n]["timeout"] \in Nat
              /\ journal'[n]["timeout"] \in Nat
          BY <1>4, <5>1
        <5>3. journal'[n]["timeout"] # ctl.before[n]["timeout"] BY <4>1, <5>2
        <5> QED BY <5>3 DEF Late
      <4> QED BY <1>7, <4>3, <4>4
    <3> QED BY <3>1, <3>2
  <2>3. ASSUME d.op = "stop", NEW n \in d.all, Asked(d, n)
        PROVE  /\ Late(d, n)' => d.hung
               /\ journal'[n]["core"] = d.before[n]["core"]
    <3>1. (Late(ctl, n) => ctl.hung) /\ journal[n]["core"] = ctl.before[n]["core"]
      BY <1>7, <2>1, <2>3 DEF Timeouts
    <3>2. journal'[n]["core"] = d.before[n]["core"] BY <1>9, <2>3, <3>1
    <3>3. CASE journal'[n]["timeout"] # journal[n]["timeout"] BY <1>9, <2>3, <3>2, <3>3
    <3>4. CASE journal'[n]["timeout"] = journal[n]["timeout"]
      <4>1. Late(d, n)' => Late(ctl, n) BY <3>4 DEF Late
      <4> QED BY <3>1, <3>2, <4>1
    <3> QED BY <3>3, <3>4
  <2> QED BY <2>2, <2>3
<1>12. Verdicts(d)'
  <2> SUFFICES ASSUME Good(d), d.pc # "idle"
               PROVE
    /\ d.pc \in {"pid", "before", "issue", "wait"} => d.ok
    /\ d.pc = "poll" =>
         /\ d.count <= Cardinality({n \in d.left : n < d.i /\ Did(d, n)'})
         /\ d.round < Polls => d.ok
         /\ d.round = Polls /\ d.ok => \A n \in d.left : n < d.i => Did(d, n)'
    /\ d.pc = "after" /\ d.op = "stop" =>
         IF d.keys = AfterKeys THEN d.ok ELSE d.ok <=> ~Late(d, d.i)'
    /\ d.pc = "after" /\ d.op \in Restarts /\ d.ok =>
         /\ \A n \in d.left : Changed(d, n)'
         /\ \A n \in d.left : n < d.i \/ (n = d.i /\ d.keys # AfterKeys) => ~Late(d, n)'
    BY DEF Verdicts, Good
  <2>1. Verdicts(ctl) /\ Nodewise(ctl) /\ Good(ctl) BY <1>1, <1>6 DEF All
  <2>2. d.pc \in {"pid", "before", "issue", "wait"} => d.ok BY <2>1 DEF Verdicts
  <2>3. \A n \in ctl.left : Did(ctl, n) => Did(d, n)'
    <3> SUFFICES ASSUME NEW n \in ctl.left PROVE Did(ctl, n) => Did(d, n)' OBVIOUS
    <3>1. n \in ctl.all /\ n \in Nodes BY <1>1
    <3>2. CASE ctl.op = "stop_all" BY <1>9, <3>1, <3>2 DEF Did
    <3>3. CASE ctl.op # "stop_all" BY <1>8, <3>1, <3>3 DEF Did
    <3> QED BY <3>2, <3>3
  <2>4. ASSUME d.pc = "poll"
        PROVE  /\ d.count <= Cardinality({n \in d.left : n < d.i /\ Did(d, n)'})
               /\ d.round < Polls => d.ok
               /\ d.round = Polls /\ d.ok => \A n \in d.left : n < d.i => Did(d, n)'
    <3> DEFINE S == {n \in ctl.left : n < ctl.i /\ Did(ctl, n)}
               T == {n \in d.left : n < d.i /\ Did(d, n)'}
    <3>1. /\ ctl.count <= Cardinality(S)
          /\ ctl.round < Polls => ctl.ok
          /\ ctl.round = Polls /\ ctl.ok => \A n \in ctl.left : n < ctl.i => Did(ctl, n)
      BY <2>1, <2>4 DEF Verdicts
    <3>2. S \subseteq T /\ T \subseteq Nodes BY <1>1, <2>3
    <3>3. IsFiniteSet(T) BY <3>2, Params, FS_Subset
    <3>4. IsFiniteSet(S) /\ Cardinality(S) <= Cardinality(T) BY <3>2, <3>3, FS_Subset
    <3>5. Cardinality(S) \in Nat /\ Cardinality(T) \in Nat BY <3>3, <3>4, FS_CardinalityType
    <3>6. ctl.count \in Nat
      <4>1. ctl.count \in 0 .. N BY <1>1, Fields
      <4> QED BY <4>1, Params
    <3>7. d.count <= Cardinality(T)
      <4> HIDE DEF S, T
      <4> QED BY <3>1, <3>4, <3>5, <3>6
    <3> QED BY <2>3, <3>1, <3>7
  <2>5. ASSUME d.pc = "after", d.op = "stop"
        PROVE  IF d.keys = AfterKeys THEN d.ok ELSE d.ok <=> ~Late(d, d.i)'
    <3>1. ctl.i \in ctl.all /\ Settled(ctl.i) BY <1>1, <2>1, <2>5 DEF Shape, Nodewise
    <3>2. PICK i \in ctl.all : i = ctl.i /\ Settled(i) BY <3>1
    <3>3. Same(i) BY <1>9, <3>2
    <3>4. Late(d, i)' <=> Late(ctl, i) BY <3>3 DEF Same, Late
    <3>5. IF ctl.keys = AfterKeys THEN ctl.ok ELSE ctl.ok <=> ~Late(ctl, i)
      BY <2>1, <2>5, <3>2 DEF Verdicts
    <3>6. Late(d, d.i)' <=> Late(d, i)' BY <3>2 DEF Late
    <3> QED BY <3>4, <3>5, <3>6
  <2>6. ASSUME d.pc = "after", d.op \in Restarts, d.ok
        PROVE  /\ \A n \in d.left : Changed(d, n)'
               /\ \A n \in d.left : n < d.i \/ (n = d.i /\ d.keys # AfterKeys) => ~Late(d, n)'
    <3>1. /\ \A n \in ctl.left : Changed(ctl, n)
          /\ \A n \in ctl.left : n < ctl.i \/ (n = ctl.i /\ ctl.keys # AfterKeys) => ~Late(ctl, n)
      BY <2>1, <2>6 DEF Verdicts
    <3>2. ASSUME NEW n \in ctl.left PROVE Changed(d, n)' /\ (Late(d, n)' => Late(ctl, n))
      <4>1. Under(ctl, n) BY <2>1, <2>6 DEF Nodewise, Asked, Restarts
      <4>2. Rising(ctl, n) BY <2>6, <4>1 DEF Under, Restarts, Stops
      <4>3. Settled(n) BY <3>1, <4>2 DEF Rising, Runs, Settled
      <4>4. n \in ctl.all /\ n \in Nodes BY <1>1
      <4>5. Same(n) BY <1>9, <4>3, <4>4
      <4>6. Changed(d, n)' BY <1>8, <3>1, <4>4
      <4>7. Late(d, n)' <=> Late(ctl, n) BY <4>5 DEF Same, Late
      <4> QED BY <4>6, <4>7
    <3> QED BY <3>1, <3>2
  <2> QED BY <2>2, <2>4, <2>5, <2>6
<1>13. Results(d)'
  <2> SUFFICES ASSUME Good(d), d.pc = "idle"
               PROVE  Fits(d, d.result)'
    BY DEF Results, Good
  <2>1. Fits(ctl, ctl.result) BY <1>1, <1>6 DEF All, Results
  <2>2. \A n \in ctl.all : (Gone(n) => Gone(n)') /\ (Runs(n) => Runs(n)') BY <1>9
  <2>3. ctl.result = "true" /\ ctl.op \in Stops => \A n \in ctl.all : Gone(n) BY <2>1 DEF Fits
  <2>4. ctl.result = "true" /\ ctl.op \in Starts => \A n \in ctl.all : Runs(n) /\ n \in ctl.fresh
    BY <2>1 DEF Fits
  <2>5. ASSUME ctl.result = "true", ctl.op = "stop" \/ ctl.op \in Restarts PROVE ~d.hung
    <3>1. ~ctl.hung BY <2>1, <2>5 DEF Fits
    <3>2. \A n \in ctl.all : unit[n] # "stopping"
      <4>1. CASE ctl.op = "stop" BY <2>3, <2>5, <4>1 DEF Stops, Gone
      <4>2. CASE ctl.op \in Restarts BY <2>4, <2>5, <4>2 DEF Restarts, Starts, Runs
      <4> QED BY <2>5, <4>1, <4>2
    <3> QED BY <3>1, <3>2
  <2>6. ctl.result = "false" /\ ctl.op = "stop" => d.hung BY <2>1 DEF Fits
  <2>7. ctl.result = "true" /\ ctl.op = "start" => \A n \in ctl.all : Runs(n) BY <2>1 DEF Fits
  <2>8. /\ d.result = "true" /\ d.op \in Stops => \A n \in d.all : Gone(n)'
        /\ d.result = "true" /\ d.op = "stop" => ~d.hung
        /\ d.result = "false" /\ d.op = "stop" => d.hung
        /\ d.result = "true" /\ d.op = "start" => \A n \in d.all : Runs(n)'
        /\ d.result = "true" /\ d.op \in Starts => \A n \in d.all : Runs(n)' /\ n \in d.fresh
        /\ d.result = "true" /\ d.op \in Restarts => ~d.hung
    BY <2>2, <2>3, <2>4, <2>5, <2>6, <2>7
  <2> QED BY <2>8 DEF Fits
<1> QED BY <1>3, <1>5, <1>10, <1>11, <1>12, <1>13, Renamed DEF All

Units == {"down", "starting", "up", "stopping"}
Jobs == {"none", "start", "stop", "restart"}

\* A step of systemd at node n.
Becomes(n, u, j, row, fresh, crashed, hung) ==
    /\ unit' = [unit EXCEPT ![n] = u]
    /\ job' = [job EXCEPT ![n] = j]
    /\ journal' = [journal EXCEPT ![n] = row]
    /\ ctl' = [ctl EXCEPT !.fresh = fresh, !.crashed = crashed, !.hung = hung]
    /\ UNCHANGED <<now, calls>>
    /\ ctl.fresh \subseteq fresh /\ (ctl.crashed => crashed) /\ (ctl.hung => hung)
    /\ \A k \in Keywords : journal[n][k] <= row[k] /\ row[k] <= now

\* Only node n moves, so it is enough to look at what becomes of it.
LEMMA NodeStep ==
    ASSUME Typed, NEW n \in Nodes, NEW u \in Units, NEW j \in Jobs,
           NEW row \in [Keywords -> 0 .. MaxTime], NEW fresh \in SUBSET Nodes,
           NEW crashed \in BOOLEAN, NEW hung \in BOOLEAN,
           Becomes(n, u, j, row, fresh, crashed, hung)
    PROVE  /\ TypeOK'
           /\ unit'[n] = u /\ job'[n] = j /\ journal'[n] = row
           /\ \E d \in Control :
                /\ ctl' = d /\ d.op = ctl.op /\ d.before = ctl.before
                /\ d.fresh = fresh /\ d.crashed = crashed /\ d.hung = hung
                /\ /\ Good(d) /\ n \in ctl.all => Move(d, n)
                   /\ Good(d) /\ hung /\ ~ctl.hung =>
                        /\ n \in ctl.all /\ unit[n] = "stopping"
                        /\ journal[n]["timeout"] < row["timeout"]
                   => All(ctl)'
<1>1. /\ unit \in [Nodes -> Units] /\ job \in [Nodes -> Jobs]
      /\ journal \in [Nodes -> [Keywords -> 0 .. MaxTime]]
      /\ now \in 1 .. MaxTime /\ ctl \in Control /\ calls \in 0 .. MaxOps /\ All(ctl)
  BY TypedIs DEF Units, Jobs
<1>2. /\ unit'[n] = u /\ job'[n] = j /\ journal'[n] = row
      /\ \A m \in Nodes : m # n => Same(m)
  BY <1>1 DEF Becomes, Same
<1>3. PICK c \in Control : c = ctl BY <1>1
<1>4. PICK d \in Control :
             /\ d = [c EXCEPT !.fresh = fresh, !.crashed = crashed, !.hung = hung]
             /\ d.op = c.op /\ d.pc = c.pc /\ d.left = c.left /\ d.i = c.i /\ d.keys = c.keys
             /\ d.before = c.before /\ d.round = c.round /\ d.count = c.count /\ d.ok = c.ok
             /\ d.result = c.result /\ d.all = c.all /\ d.settled = c.settled
             /\ d.lost = c.lost /\ d.fresh = fresh /\ d.crashed = crashed /\ d.hung = hung
  <2>1. PICK d \in Control : d = [c EXCEPT !.fresh = fresh, !.crashed = crashed, !.hung = hung]
    BY DEF Control
  <2>2. /\ d.op = c.op /\ d.pc = c.pc /\ d.left = c.left /\ d.i = c.i /\ d.keys = c.keys
        /\ d.before = c.before /\ d.round = c.round /\ d.count = c.count /\ d.ok = c.ok
        /\ d.result = c.result /\ d.all = c.all /\ d.settled = c.settled
        /\ d.lost = c.lost /\ d.fresh = fresh /\ d.crashed = crashed /\ d.hung = hung
    BY <2>1 DEF Control
  <2> QED BY <2>1, <2>2
<1>5. ctl' = d BY <1>3, <1>4 DEF Becomes
<1>6. TypeOK'
  <2>1. unit' \in [Nodes -> Units] /\ job' \in [Nodes -> Jobs] BY <1>1 DEF Becomes
  <2>2. journal' \in [Nodes -> [Keywords -> 0 .. MaxTime]] BY <1>1 DEF Becomes
  <2>3. now' \in 1 .. MaxTime /\ calls' \in 0 .. MaxOps BY <1>1 DEF Becomes
  <2> QED BY <1>5, <2>1, <2>2, <2>3 DEF TypeOK, Units, Jobs
<1>7. \A m \in Nodes, k \in Keywords : journal[m][k] <= journal'[m][k] /\ journal'[m][k] <= now'
  <2> SUFFICES ASSUME NEW m \in Nodes, NEW k \in Keywords
               PROVE  journal[m][k] <= journal'[m][k] /\ journal'[m][k] <= now'
    OBVIOUS
  <2>0. now' = now BY DEF Becomes
  <2>1. CASE m = n BY <1>2, <2>0, <2>1 DEF Becomes
  <2>2. CASE m # n
    <3>1. journal'[m] = journal[m] BY <1>2, <2>2 DEF Same
    <3>2. journal[m][k] <= now BY <1>1 DEF All, Dates
    <3>3. journal[m][k] \in 0 .. MaxTime BY <1>1
    <3>4. journal[m][k] \in Nat BY <3>3, Params
    <3> QED BY <2>0, <3>1, <3>2, <3>4
  <2> QED BY <2>1, <2>2
<1>8. ASSUME /\ Good(d) /\ n \in ctl.all => Move(d, n)
             /\ Good(d) /\ hung /\ ~ctl.hung =>
                  /\ n \in ctl.all /\ unit[n] = "stopping"
                  /\ journal[n]["timeout"] < row["timeout"]
      PROVE  All(ctl)'
  <2>1. Good(d) => \A m \in ctl.all : Move(d, m)
    <3>1. ctl.all \subseteq Nodes BY <1>1, Fields
    <3> QED BY <1>2, <1>8, <3>1 DEF Move
  <2>2. Good(d) /\ d.hung /\ ~ctl.hung =>
          \E m \in ctl.all : unit[m] = "stopping" /\ journal[m]["timeout"] < journal'[m]["timeout"]
    BY <1>2, <1>4, <1>8
  <2>3. /\ d.op = ctl.op /\ d.pc = ctl.pc /\ d.left = ctl.left /\ d.i = ctl.i
        /\ d.keys = ctl.keys /\ d.before = ctl.before /\ d.round = ctl.round
        /\ d.count = ctl.count /\ d.ok = ctl.ok /\ d.result = ctl.result /\ d.all = ctl.all
        /\ d.settled = ctl.settled /\ d.lost = ctl.lost
    BY <1>3, <1>4
  <2>4. ctl.fresh \subseteq d.fresh /\ (ctl.hung => d.hung) /\ (ctl.crashed => d.crashed)
    BY <1>4 DEF Becomes
  <2> QED BY <1>5, <1>6, <1>7, <2>1, <2>2, <2>3, <2>4, Moved
<1> QED BY <1>2, <1>3, <1>4, <1>5, <1>6, <1>8

\* systemd begins a job: a node at rest has none.
LEMMA BeginStep == ASSUME Typed, NEW n \in Nodes, BeginJob(n) PROVE TypeOK' /\ All(ctl)'
<1>1. /\ unit \in [Nodes -> Units] /\ job \in [Nodes -> Jobs] /\ ctl \in Control
      /\ journal \in [Nodes -> [Keywords -> 0 .. MaxTime]]
      /\ now \in 1 .. MaxTime /\ Dates(ctl)
  BY TypedIs DEF Units, Jobs, All
<1>2. /\ job[n] # "none" /\ unit[n] # "stopping" BY DEF BeginJob
<1>3. PICK u \in Units, j \in Jobs, row \in [Keywords -> 0 .. MaxTime], fresh \in SUBSET Nodes,
           crashed \in BOOLEAN, hung \in BOOLEAN :
        /\ Becomes(n, u, j, row, fresh, crashed, hung)
        /\ row = journal[n] /\ crashed = ctl.crashed /\ hung = ctl.hung
        /\ \/ job[n] = "start" /\ unit[n] # "down" /\ j = "none" /\ u = unit[n]
           \/ job[n] = "stop" /\ unit[n] = "down" /\ j = "none" /\ u = "down"
           \/ /\ job[n] \in {"start", "restart"} /\ unit[n] = "down"
              /\ j = "none" /\ u = "starting" /\ n \in fresh
           \/ /\ job[n] \in {"stop", "restart"} /\ unit[n] # "down"
              /\ u = "stopping" /\ j = (IF job[n] = "stop" THEN "none" ELSE "start")
  <2>1. ctl.fresh \in SUBSET Nodes /\ ctl.crashed \in BOOLEAN /\ ctl.hung \in BOOLEAN
    BY <1>1, Fields
  <2>2. ctl = [ctl EXCEPT !.fresh = ctl.fresh, !.crashed = ctl.crashed, !.hung = ctl.hung]
    BY <1>1 DEF Control
  <2>3. unit = [unit EXCEPT ![n] = unit[n]] /\ journal = [journal EXCEPT ![n] = journal[n]]
        /\ unit[n] \in Units /\ job[n] \in Jobs /\ journal[n] \in [Keywords -> 0 .. MaxTime]
    BY <1>1
  <2>4. UNCHANGED <<journal, now, calls>> BY DEF BeginJob
  <2>5. \A k \in Keywords : journal[n][k] <= journal[n][k] /\ journal[n][k] <= now
    <3> SUFFICES ASSUME NEW k \in Keywords
                 PROVE  journal[n][k] <= journal[n][k] /\ journal[n][k] <= now
      OBVIOUS
    <3>1. journal[n][k] \in 0 .. MaxTime /\ journal[n][k] <= now BY <1>1 DEF Dates
    <3> QED BY <3>1, Params
  <2>6. /\ "none" \in Jobs /\ "start" \in Jobs
        /\ "down" \in Units /\ "starting" \in Units /\ "stopping" \in Units
    BY DEF Jobs, Units
  <2>7. CASE job[n] = "start" /\ unit[n] # "down" /\ job' = [job EXCEPT ![n] = "none"]
             /\ UNCHANGED <<unit, ctl>>
    <3>1. Becomes(n, unit[n], "none", journal[n], ctl.fresh, ctl.crashed, ctl.hung)
      BY <2>2, <2>3, <2>4, <2>5, <2>7 DEF Becomes
    <3> QED BY <2>1, <2>3, <2>6, <2>7, <3>1
  <2>8. CASE job[n] = "stop" /\ unit[n] = "down" /\ job' = [job EXCEPT ![n] = "none"]
             /\ UNCHANGED <<unit, ctl>>
    <3>1. Becomes(n, unit[n], "none", journal[n], ctl.fresh, ctl.crashed, ctl.hung)
      BY <2>2, <2>3, <2>4, <2>5, <2>8 DEF Becomes
    <3> QED BY <2>1, <2>3, <2>6, <2>8, <3>1
  <2>9. CASE /\ job[n] \in {"start", "restart"} /\ unit[n] = "down"
             /\ unit' = [unit EXCEPT ![n] = "starting"]
             /\ job' = [job EXCEPT ![n] = "none"]
             /\ ctl' = [ctl EXCEPT !.fresh = @ \cup {n}]
    <3>1. PICK f \in SUBSET Nodes : f = ctl.fresh \cup {n} BY <2>1
    <3>2. ctl' = [ctl EXCEPT !.fresh = f, !.crashed = ctl.crashed, !.hung = ctl.hung]
      BY <1>1, <2>9, <3>1 DEF Control
    <3>3. Becomes(n, "starting", "none", journal[n], f, ctl.crashed, ctl.hung)
      BY <2>3, <2>4, <2>5, <2>9, <3>1, <3>2 DEF Becomes
    <3> QED BY <2>1, <2>3, <2>6, <2>9, <3>1, <3>3
  <2>10. CASE /\ job[n] \in {"stop", "restart"} /\ unit[n] # "down"
              /\ unit' = [unit EXCEPT ![n] = "stopping"]
              /\ job' = [job EXCEPT ![n] = IF @ = "stop" THEN "none" ELSE "start"]
              /\ UNCHANGED ctl
    <3>1. PICK k \in Jobs : k = IF job[n] = "stop" THEN "none" ELSE "start" BY <2>6
    <3>2. Becomes(n, "stopping", k, journal[n], ctl.fresh, ctl.crashed, ctl.hung)
      BY <2>2, <2>3, <2>4, <2>5, <2>10, <3>1 DEF Becomes
    <3> QED BY <2>1, <2>3, <2>6, <2>10, <3>1, <3>2
  <2> QED BY <2>7, <2>8, <2>9, <2>10 DEF BeginJob
<1>4. PICK d \in Control :
                /\ ctl' = d /\ d.op = ctl.op /\ d.before = ctl.before
                /\ d.fresh = fresh /\ d.crashed = crashed /\ d.hung = hung
                /\ /\ Good(d) /\ n \in ctl.all => Move(d, n)
                   /\ Good(d) /\ hung /\ ~ctl.hung =>
                        /\ n \in ctl.all /\ unit[n] = "stopping"
                        /\ journal[n]["timeout"] < row["timeout"]
                   => All(ctl)'
  BY <1>3, NodeStep
<1>5. TypeOK' /\ unit'[n] = u /\ job'[n] = j /\ journal'[n] = row BY <1>3, NodeStep
<1>6. Move(d, n)
  <2>1. ~Settled(n) BY <1>2 DEF Settled
  <2>2. Calm(ctl, n) => Calm(d, n)' BY <1>2 DEF Calm
  <2>3. Halting(n) => Halting(n)' BY <1>3, <1>5 DEF Halting
  <2>4. job[n] \in {"none", "start"} /\ unit[n] # "stopping" =>
          job'[n] \in {"none", "start"} /\ unit'[n] # "stopping"
    BY <1>3, <1>5
  <2>5. Rising(ctl, n) => Rising(d, n)'
    <3> SUFFICES ASSUME Rising(ctl, n) PROVE Rising(d, n)' OBVIOUS
    <3>1. ~Changed(ctl, n) /\ unit[n] # "starting" BY <1>2 DEF Rising, Runs
    <3>2. ~Changed(d, n)' BY <1>3, <1>4, <1>5, <3>1 DEF Changed
    <3>3. u = "starting" => j = "none" /\ n \in fresh BY <1>3, <3>1
    <3> QED BY <1>4, <1>5, <3>2, <3>3 DEF Rising
  <2>6. Under(ctl, n) => Under(d, n)' BY <1>4, <2>3, <2>4, <2>5 DEF Under
  <2>7. Gone(n) => Gone(n)' BY <1>3, <1>5 DEF Gone
  <2> QED BY <1>3, <1>5, <2>1, <2>2, <2>6, <2>7 DEF Move
<1> QED BY <1>3, <1>4, <1>5, <1>6

\* What a step of systemd finds.
LEMMA Standing ==
    ASSUME Typed, NEW n \in Nodes
    PROVE  /\ unit[n] \in Units /\ job[n] \in Jobs
           /\ journal[n] \in [Keywords -> 0 .. MaxTime] /\ now \in 0 .. MaxTime
           /\ unit = [unit EXCEPT ![n] = unit[n]] /\ job = [job EXCEPT ![n] = job[n]]
           /\ journal = [journal EXCEPT ![n] = journal[n]]
           /\ \A k \in Keywords : journal[n][k] <= now /\ journal[n][k] \in Nat
           /\ now \in Nat
           /\ ctl.fresh \in SUBSET Nodes /\ ctl.crashed \in BOOLEAN /\ ctl.hung \in BOOLEAN
           /\ ctl = [ctl EXCEPT !.fresh = ctl.fresh, !.crashed = ctl.crashed, !.hung = ctl.hung]
<1>1. /\ unit \in [Nodes -> Units] /\ job \in [Nodes -> Jobs] /\ ctl \in Control
      /\ journal \in [Nodes -> [Keywords -> 0 .. MaxTime]]
      /\ now \in 1 .. MaxTime /\ Dates(ctl)
  BY TypedIs DEF Units, Jobs, All
<1>2. ctl.fresh \in SUBSET Nodes /\ ctl.crashed \in BOOLEAN /\ ctl.hung \in BOOLEAN
  BY <1>1, Fields
<1>3. ctl = [ctl EXCEPT !.fresh = ctl.fresh, !.crashed = ctl.crashed, !.hung = ctl.hung]
  BY <1>1 DEF Control
<1>4. ASSUME NEW k \in Keywords PROVE journal[n][k] <= now /\ journal[n][k] \in Nat
  <2>1. journal[n][k] \in 0 .. MaxTime /\ journal[n][k] <= now BY <1>1 DEF Dates
  <2> QED BY <2>1, Params
<1>5. now \in 0 .. MaxTime /\ now \in Nat BY <1>1, Params
<1> QED BY <1>1, <1>2, <1>3, <1>4, <1>5

\* A line of the journal is dated now.
NewLine(n, k, row) ==
    /\ [journal EXCEPT ![n][k] = now] = [journal EXCEPT ![n] = row]
    /\ row[k] = now /\ \A a \in Keywords : a # k => row[a] = journal[n][a]
    /\ \A a \in Keywords : journal[n][a] <= row[a] /\ row[a] <= now

\* There is the row that such a line gives.
LEMMA Dated ==
    ASSUME Typed, NEW n \in Nodes, NEW k \in Keywords
    PROVE  \E row \in [Keywords -> 0 .. MaxTime] : NewLine(n, k, row)
<1>1. /\ journal[n] \in [Keywords -> 0 .. MaxTime] /\ now \in 0 .. MaxTime
      /\ \A a \in Keywords : journal[n][a] <= now /\ journal[n][a] \in Nat
      /\ now \in Nat
  BY Standing
<1>2. PICK row \in [Keywords -> 0 .. MaxTime] : row = [journal[n] EXCEPT ![k] = now] BY <1>1
<1>3. [journal EXCEPT ![n][k] = now] = [journal EXCEPT ![n] = row] BY <1>2
<1>4. row[k] = now /\ \A a \in Keywords : a # k => row[a] = journal[n][a] BY <1>1, <1>2
<1>5. \A a \in Keywords : journal[n][a] <= row[a] /\ row[a] <= now
  <2> SUFFICES ASSUME NEW a \in Keywords PROVE journal[n][a] <= row[a] /\ row[a] <= now OBVIOUS
  <2>1. CASE a = k BY <1>1, <1>4, <2>1
  <2>2. CASE a # k BY <1>1, <1>4, <2>2
  <2> QED BY <2>1, <2>2
<1> QED BY <1>3, <1>4, <1>5 DEF NewLine

\* The service of a node is up.
LEMMA StartedStep == ASSUME Typed, NEW n \in Nodes, Started(n) PROVE TypeOK' /\ All(ctl)'
<1>2. unit[n] = "starting" BY DEF Started
<1>3. PICK u \in Units, j \in Jobs, row \in [Keywords -> 0 .. MaxTime], fresh \in SUBSET Nodes,
           crashed \in BOOLEAN, hung \in BOOLEAN :
        /\ Becomes(n, u, j, row, fresh, crashed, hung)
        /\ u = "up" /\ j = job[n] /\ row["started"] = now
        /\ row["timeout"] = journal[n]["timeout"] /\ row["core"] = journal[n]["core"]
        /\ fresh = ctl.fresh /\ crashed = ctl.crashed /\ hung = ctl.hung
  <2>1. "started" \in Keywords /\ "timeout" \in Keywords /\ "core" \in Keywords BY Params
  <2>2. PICK row \in [Keywords -> 0 .. MaxTime] : NewLine(n, "started", row) BY <2>1, Dated
  <2>3. /\ job = [job EXCEPT ![n] = job[n]] /\ job[n] \in Jobs
        /\ ctl.fresh \in SUBSET Nodes /\ ctl.crashed \in BOOLEAN /\ ctl.hung \in BOOLEAN
        /\ ctl = [ctl EXCEPT !.fresh = ctl.fresh, !.crashed = ctl.crashed, !.hung = ctl.hung]
    BY Standing
  <2>4. Becomes(n, "up", job[n], row, ctl.fresh, ctl.crashed, ctl.hung)
    BY <2>2, <2>3 DEF Started, Becomes, NewLine
  <2>5. "up" \in Units BY DEF Units
  <2>6. /\ row["started"] = now /\ row["timeout"] = journal[n]["timeout"]
        /\ row["core"] = journal[n]["core"]
    BY <2>1, <2>2 DEF NewLine
  <2> QED BY <2>3, <2>4, <2>5, <2>6
<1>4. PICK d \in Control :
                /\ ctl' = d /\ d.op = ctl.op /\ d.before = ctl.before
                /\ d.fresh = fresh /\ d.crashed = crashed /\ d.hung = hung
                /\ /\ Good(d) /\ n \in ctl.all => Move(d, n)
                   /\ Good(d) /\ hung /\ ~ctl.hung =>
                        /\ n \in ctl.all /\ unit[n] = "stopping"
                        /\ journal[n]["timeout"] < row["timeout"]
                   => All(ctl)'
  BY <1>3, NodeStep
<1>5. TypeOK' /\ unit'[n] = u /\ job'[n] = j /\ journal'[n] = row BY <1>3, NodeStep
<1>6. Move(d, n)
  <2>1. ~Settled(n) BY <1>2 DEF Settled
  <2>2. Calm(ctl, n) => Calm(d, n)' BY <1>2, <1>3, <1>5 DEF Calm
  <2>3. Halting(n) => Halting(n)' BY <1>2, <1>3, <1>5 DEF Halting
  <2>4. job[n] \in {"none", "start"} /\ unit[n] # "stopping" =>
          job'[n] \in {"none", "start"} /\ unit'[n] # "stopping"
    BY <1>3, <1>5
  <2>5. Rising(ctl, n) => Rising(d, n)'
    <3> SUFFICES ASSUME Rising(ctl, n) PROVE Rising(d, n)' OBVIOUS
    <3>1. job[n] = "none" /\ n \in ctl.fresh BY <1>2 DEF Rising
    <3> QED BY <1>3, <1>4, <1>5, <3>1 DEF Rising, Runs
  <2>6. Under(ctl, n) => Under(d, n)' BY <1>4, <2>3, <2>4, <2>5 DEF Under
  <2>7. ~Gone(n) BY <1>2 DEF Gone
  <2> QED BY <1>2, <1>3, <1>5, <2>1, <2>2, <2>6, <2>7 DEF Move
<1> QED BY <1>3, <1>4, <1>5, <1>6

\* The service of a node does not come up.
LEMMA StartFailsStep == ASSUME Typed, NEW n \in Nodes, StartFails(n) PROVE TypeOK' /\ All(ctl)'
<1>2. unit[n] = "starting" BY DEF StartFails
<1>3. PICK u \in Units, j \in Jobs, row \in [Keywords -> 0 .. MaxTime], fresh \in SUBSET Nodes,
           crashed \in BOOLEAN, hung \in BOOLEAN :
        /\ Becomes(n, u, j, row, fresh, crashed, hung)
        /\ u = "down" /\ j = job[n] /\ row = journal[n]
        /\ fresh = ctl.fresh /\ crashed = ctl.crashed /\ hung = ctl.hung
  <2>1. /\ job = [job EXCEPT ![n] = job[n]] /\ job[n] \in Jobs
        /\ journal = [journal EXCEPT ![n] = journal[n]]
        /\ journal[n] \in [Keywords -> 0 .. MaxTime]
        /\ \A k \in Keywords : journal[n][k] <= now /\ journal[n][k] \in Nat
        /\ ctl.fresh \in SUBSET Nodes /\ ctl.crashed \in BOOLEAN /\ ctl.hung \in BOOLEAN
        /\ ctl = [ctl EXCEPT !.fresh = ctl.fresh, !.crashed = ctl.crashed, !.hung = ctl.hung]
    BY Standing
  <2>2. \A k \in Keywords : journal[n][k] <= journal[n][k] BY <2>1
  <2>3. Becomes(n, "down", job[n], journal[n], ctl.fresh, ctl.crashed, ctl.hung)
    BY <2>1, <2>2 DEF StartFails, Becomes
  <2>4. "down" \in Units BY DEF Units
  <2> QED BY <2>1, <2>3, <2>4
<1>4. PICK d \in Control :
                /\ ctl' = d /\ d.op = ctl.op /\ d.before = ctl.before
                /\ d.fresh = fresh /\ d.crashed = crashed /\ d.hung = hung
                /\ /\ Good(d) /\ n \in ctl.all => Move(d, n)
                   /\ Good(d) /\ hung /\ ~ctl.hung =>
                        /\ n \in ctl.all /\ unit[n] = "stopping"
                        /\ journal[n]["timeout"] < row["timeout"]
                   => All(ctl)'
  BY <1>3, NodeStep
<1>5. TypeOK' /\ unit'[n] = u /\ job'[n] = j /\ journal'[n] = row BY <1>3, NodeStep
<1>6. Move(d, n)
  <2>1. ~Settled(n) BY <1>2 DEF Settled
  <2>2. Calm(ctl, n) => Calm(d, n)' BY <1>2, <1>3, <1>5 DEF Calm
  <2>3. Halting(n) => Halting(n)' BY <1>2, <1>3, <1>5 DEF Halting
  <2>4. job[n] \in {"none", "start"} /\ unit[n] # "stopping" =>
          job'[n] \in {"none", "start"} /\ unit'[n] # "stopping"
    BY <1>3, <1>5
  <2>5. Rising(ctl, n) => Rising(d, n)'
    <3> SUFFICES ASSUME Rising(ctl, n) PROVE Rising(d, n)' OBVIOUS
    <3>1. ~Changed(ctl, n) BY <1>2 DEF Rising, Runs
    <3>2. ~Changed(d, n)' BY <1>3, <1>4, <1>5, <3>1 DEF Changed
    <3> QED BY <1>3, <1>5, <3>2 DEF Rising
  <2>6. Under(ctl, n) => Under(d, n)' BY <1>4, <2>3, <2>4, <2>5 DEF Under
  <2>7. ~Gone(n) BY <1>2 DEF Gone
  <2> QED BY <1>3, <1>5, <2>1, <2>2, <2>6, <2>7 DEF Move
<1> QED BY <1>3, <1>4, <1>5, <1>6

\* The process of a node is gone, perhaps killed.
LEMMA StoppedStep == ASSUME Typed, NEW n \in Nodes, Stopped(n) PROVE TypeOK' /\ All(ctl)'
<1>2. unit[n] = "stopping" BY DEF Stopped
<1>3. PICK u \in Units, j \in Jobs, row \in [Keywords -> 0 .. MaxTime], fresh \in SUBSET Nodes,
           crashed \in BOOLEAN, hung \in BOOLEAN :
        /\ Becomes(n, u, j, row, fresh, crashed, hung)
        /\ u = "down" /\ j = job[n]
        /\ row["started"] = journal[n]["started"] /\ row["core"] = journal[n]["core"]
        /\ fresh = ctl.fresh /\ crashed = ctl.crashed
        /\ \/ row = journal[n] /\ hung = ctl.hung
           \/ journal[n]["timeout"] < row["timeout"] /\ hung = (ctl.hung \/ n \in ctl.all)
  <2>1. /\ job = [job EXCEPT ![n] = job[n]] /\ job[n] \in Jobs
        /\ journal = [journal EXCEPT ![n] = journal[n]]
        /\ journal[n] \in [Keywords -> 0 .. MaxTime]
        /\ \A k \in Keywords : journal[n][k] <= now /\ journal[n][k] \in Nat
        /\ now \in Nat
        /\ ctl.fresh \in SUBSET Nodes /\ ctl.crashed \in BOOLEAN /\ ctl.hung \in BOOLEAN
        /\ ctl = [ctl EXCEPT !.fresh = ctl.fresh, !.crashed = ctl.crashed, !.hung = ctl.hung]
    BY Standing
  <2>2. "started" \in Keywords /\ "timeout" \in Keywords /\ "core" \in Keywords BY Params
  <2>3. "down" \in Units BY DEF Units
  <2>4. CASE UNCHANGED <<journal, ctl>>
    <3>1. \A k \in Keywords : journal[n][k] <= journal[n][k] BY <2>1
    <3>2. Becomes(n, "down", job[n], journal[n], ctl.fresh, ctl.crashed, ctl.hung)
      BY <2>1, <2>4, <3>1 DEF Stopped, Becomes
    <3> QED BY <2>1, <2>3, <3>2
  <2>5. CASE /\ now > journal[n]["timeout"] + 1
             /\ journal' = [journal EXCEPT ![n]["timeout"] = now]
             /\ ctl' = [ctl EXCEPT !.hung = @ \/ n \in ctl.all]
    <3>1. PICK row \in [Keywords -> 0 .. MaxTime] : NewLine(n, "timeout", row) BY <2>2, Dated
    <3>2. PICK h \in BOOLEAN : h = (ctl.hung \/ n \in ctl.all) BY <2>1
    <3>3. ctl' = [ctl EXCEPT !.fresh = ctl.fresh, !.crashed = ctl.crashed, !.hung = h]
      <4>1. ctl \in Control BY TypedIs
      <4>2. ctl' = [ctl EXCEPT !.hung = h] BY <2>5, <3>2
      <4> QED BY <4>1, <4>2 DEF Control
    <3>4. Becomes(n, "down", job[n], row, ctl.fresh, ctl.crashed, h)
      BY <2>1, <2>5, <3>1, <3>2, <3>3 DEF Stopped, Becomes, NewLine
    <3>5. journal[n]["timeout"] < row["timeout"] BY <2>1, <2>2, <2>5, <3>1 DEF NewLine
    <3>6. row["started"] = journal[n]["started"] /\ row["core"] = journal[n]["core"]
      BY <2>2, <3>1 DEF NewLine
    <3>7. PICK k \in Jobs, f \in SUBSET Nodes, c \in BOOLEAN :
             k = job[n] /\ f = ctl.fresh /\ c = ctl.crashed
      BY <2>1
    <3>8. Becomes(n, "down", k, row, f, c, h) BY <3>4, <3>7
    <3>9. /\ k = job[n] /\ f = ctl.fresh /\ c = ctl.crashed
          /\ h = (ctl.hung \/ n \in ctl.all)
      BY <3>2, <3>7
    <3> HIDE DEF Becomes
    <3> QED BY <2>3, <3>5, <3>6, <3>8, <3>9, ZenonT(30)
  <2> QED BY <2>4, <2>5 DEF Stopped
<1>4. PICK d \in Control :
                /\ ctl' = d /\ d.op = ctl.op /\ d.before = ctl.before
                /\ d.fresh = fresh /\ d.crashed = crashed /\ d.hung = hung
                /\ /\ Good(d) /\ n \in ctl.all => Move(d, n)
                   /\ Good(d) /\ hung /\ ~ctl.hung =>
                        /\ n \in ctl.all /\ unit[n] = "stopping"
                        /\ journal[n]["timeout"] < row["timeout"]
                   => All(ctl)'
  BY <1>3, NodeStep
<1>5. TypeOK' /\ unit'[n] = u /\ job'[n] = j /\ journal'[n] = row BY <1>3, NodeStep
<1>6. n \in ctl.all => Move(d, n)
  <2>1. ~Settled(n) BY <1>2 DEF Settled
  <2>2. Calm(ctl, n) => Calm(d, n)' BY <1>2 DEF Calm
  <2>3. Halting(n) => Halting(n)' BY <1>2, <1>3, <1>5 DEF Halting
  <2>4. job[n] \in {"none", "start"} /\ unit[n] # "stopping" =>
          job'[n] \in {"none", "start"} /\ unit'[n] # "stopping"
    BY <1>2
  <2>5. Rising(ctl, n) => Rising(d, n)'
    <3> SUFFICES ASSUME Rising(ctl, n) PROVE Rising(d, n)' OBVIOUS
    <3>1. ~Changed(ctl, n) BY <1>2 DEF Rising, Runs
    <3>2. ~Changed(d, n)' BY <1>3, <1>4, <1>5, <3>1 DEF Changed
    <3> QED BY <1>3, <1>5, <3>2 DEF Rising
  <2>6. Under(ctl, n) => Under(d, n)' BY <1>4, <2>3, <2>4, <2>5 DEF Under
  <2>7. ~Gone(n) BY <1>2 DEF Gone
  <2>8. n \in ctl.all /\ journal'[n]["timeout"] # journal[n]["timeout"] => d.hung
    BY <1>3, <1>4, <1>5
  <2> QED BY <1>2, <1>3, <1>5, <2>1, <2>2, <2>6, <2>7, <2>8 DEF Move
<1>7. hung /\ ~ctl.hung => n \in ctl.all /\ journal[n]["timeout"] < row["timeout"] BY <1>3
<1> QED BY <1>2, <1>4, <1>5, <1>6, <1>7

\* A process dumps core: a call for its node is disturbed.
LEMMA CrashStep == ASSUME Typed, NEW n \in Nodes, Crash(n) PROVE TypeOK' /\ All(ctl)'
<1>3. PICK u \in Units, j \in Jobs, row \in [Keywords -> 0 .. MaxTime], fresh \in SUBSET Nodes,
           crashed \in BOOLEAN, hung \in BOOLEAN :
        /\ Becomes(n, u, j, row, fresh, crashed, hung)
        /\ crashed = (ctl.crashed \/ n \in ctl.all) /\ hung = ctl.hung
  <2>1. /\ job = [job EXCEPT ![n] = job[n]] /\ job[n] \in Jobs
        /\ ctl.fresh \in SUBSET Nodes /\ ctl.crashed \in BOOLEAN /\ ctl.hung \in BOOLEAN
    BY Standing
  <2>2. "core" \in Keywords BY Params
  <2>3. "down" \in Units /\ "start" \in Jobs BY DEF Units, Jobs
  <2>4. PICK row \in [Keywords -> 0 .. MaxTime] : NewLine(n, "core", row) BY <2>2, Dated
  <2>5. PICK j \in Jobs : job' = [job EXCEPT ![n] = j]
    <3>1. CASE job' = job BY <2>1, <3>1
    <3>2. CASE job' = [job EXCEPT ![n] = IF @ = "none" THEN "start" ELSE @]
      <4>1. PICK k \in Jobs : k = IF job[n] = "none" THEN "start" ELSE job[n] BY <2>1, <2>3
      <4> QED BY <3>2, <4>1
    <3> QED BY <3>1, <3>2 DEF Crash
  <2>6. PICK c \in BOOLEAN : c = (ctl.crashed \/ n \in ctl.all) BY <2>1
  <2>7. ctl' = [ctl EXCEPT !.fresh = ctl.fresh, !.crashed = c, !.hung = ctl.hung]
    <3>1. ctl \in Control BY TypedIs
    <3>2. ctl' = [ctl EXCEPT !.crashed = c] BY <2>6 DEF Crash
    <3> QED BY <3>1, <3>2 DEF Control
  <2>8. Becomes(n, "down", j, row, ctl.fresh, c, ctl.hung)
    BY <2>4, <2>5, <2>6, <2>7 DEF Crash, Becomes, NewLine
  <2>9. PICK f \in SUBSET Nodes, h \in BOOLEAN : f = ctl.fresh /\ h = ctl.hung BY <2>1
  <2>10. Becomes(n, "down", j, row, f, c, h) BY <2>8, <2>9
  <2> QED BY <2>3, <2>6, <2>9, <2>10
<1>b. Becomes(n, u, j, row, fresh, crashed, hung) BY <1>3
<1>4. PICK d \in Control :
                /\ ctl' = d /\ d.op = ctl.op /\ d.before = ctl.before
                /\ d.fresh = fresh /\ d.crashed = crashed /\ d.hung = hung
                /\ /\ Good(d) /\ n \in ctl.all => Move(d, n)
                   /\ Good(d) /\ hung /\ ~ctl.hung =>
                        /\ n \in ctl.all /\ unit[n] = "stopping"
                        /\ journal[n]["timeout"] < row["timeout"]
                   => All(ctl)'
  BY <1>b, NodeStep
<1>5. TypeOK' BY <1>b, NodeStep
<1>6. ~(Good(d) /\ n \in ctl.all) BY <1>3, <1>4 DEF Good
<1> QED BY <1>3, <1>4, <1>5, <1>6

\* The clock goes on.
LEMMA TickStep == ASSUME Typed, Tick PROVE TypeOK' /\ All(ctl)'
<1>1. /\ TypeOK /\ All(ctl) /\ now \in Nat /\ MaxTime \in Nat /\ ctl \in Control
  BY TypedIs, Params DEF Typed
<1>2. UNCHANGED <<unit, job, journal, ctl, calls>> /\ now' = now + 1 /\ now < MaxTime BY DEF Tick
<1>3. TypeOK'
  <2>1. now' \in 1 .. MaxTime BY <1>1, <1>2 DEF TypeOK
  <2> QED BY <1>1, <1>2, <2>1 DEF TypeOK
<1>4. \A n \in Nodes, k \in Keywords : journal[n][k] <= journal'[n][k] /\ journal'[n][k] <= now'
  <2> SUFFICES ASSUME NEW n \in Nodes, NEW k \in Keywords
               PROVE  journal[n][k] <= journal[n][k] /\ journal[n][k] <= now + 1
    BY <1>2
  <2>1. journal[n][k] <= now /\ journal[n][k] \in Nat BY Standing
  <2> QED BY <1>1, <2>1
<1>5. PICK d \in Control : d = ctl BY <1>1
<1>6. \A n : Move(d, n) BY <1>2 DEF Move, Same
<1> QED BY <1>2, <1>3, <1>4, <1>5, <1>6, Moved

-----------------------------------------------------------------------------
(* The theorems                                                            *)

\* What a step of the test writes besides its call is of its type.
LEMMA TestTypes == ASSUME Typed, CallSome \/ Test, ctl' \in Control PROVE TypeOK'
<1>1. /\ unit \in [Nodes -> Units] /\ job \in [Nodes -> Jobs]
      /\ journal \in [Nodes -> [Keywords -> 0 .. MaxTime]]
      /\ now \in 1 .. MaxTime /\ calls \in 0 .. MaxOps
  BY TypedIs DEF Units, Jobs
<1>2. UNCHANGED <<unit, journal, now>>
  BY DEF CallSome, Call, Test, CheckPid, ReadBefore, Issue, Wait, WaitTimeout, Poll, ReadAfter,
         systemd
<1>3. job' \in [Nodes -> Jobs]
  <2>1. CASE Issue
    <3>1. Verb(ctl.op) \in Jobs BY DEF Verb, Jobs
    <3>2. PICK v \in Jobs : v = Verb(ctl.op) BY <3>1
    <3>3. job' = [job EXCEPT ![ctl.i] = v] \/ job' = job BY <2>1, <3>2 DEF Issue
    <3> QED BY <1>1, <3>3
  <2>2. CASE ~Issue
    <3>1. UNCHANGED job
      BY <2>2 DEF CallSome, Call, Test, CheckPid, ReadBefore, Wait, WaitTimeout, Poll, ReadAfter,
                  systemd
    <3> QED BY <1>1, <3>1
  <2> QED BY <2>1, <2>2
<1>4. calls' \in 0 .. MaxOps
  <2>1. CASE CallSome
    <3>1. calls < MaxOps /\ calls' = calls + 1 BY <2>1 DEF CallSome, Call
    <3> QED BY <1>1, <3>1, Params
  <2>2. CASE Test
    <3>1. calls' = calls
      BY <2>2 DEF Test, CheckPid, ReadBefore, Issue, Wait, WaitTimeout, Poll, ReadAfter
    <3> QED BY <1>1, <3>1
  <2> QED BY <2>1, <2>2
<1> QED BY <1>1, <1>2, <1>3, <1>4 DEF TypeOK, Units, Jobs

\* At first nothing was called.
LEMMA InitTyped == Init => Typed
<1> SUFFICES ASSUME Init PROVE Typed OBVIOUS
<1>1. NoDates \in [Keywords -> 0 .. MaxTime] /\ \A k \in Keywords : NoDates[k] = 0
  BY Params DEF NoDates
<1>2. PICK row \in [Keywords -> 0 .. MaxTime] : /\ row = [NoDates EXCEPT !["started"] = 1]
                                                /\ \A k \in Keywords : row[k] \in 0 .. 1
  <2>1. 1 \in 0 .. MaxTime BY Params
  <2>2. PICK row \in [Keywords -> 0 .. MaxTime] : row = [NoDates EXCEPT !["started"] = 1]
    BY <1>1, <2>1
  <2>3. \A k \in Keywords : row[k] \in 0 .. 1 BY <1>1, <2>2
  <2> QED BY <2>2, <2>3
<1>3. journal = [n \in Nodes |-> row] BY <1>2 DEF Init
<1>4. ctl = NoCall /\ now = 1 /\ calls = 0 BY DEF Init
<1>5. TypeOK
  <2>1. unit \in [Nodes -> {"down", "starting", "up", "stopping"}] BY DEF Init
  <2>2. job \in [Nodes -> {"none", "start", "stop", "restart"}] BY DEF Init
  <2>3. journal \in [Nodes -> [Keywords -> 0 .. MaxTime]] BY <1>3
  <2>4. now \in 1 .. MaxTime /\ calls \in 0 .. MaxOps BY <1>4, Params
  <2>5. ctl \in Control BY <1>4, NoCallType
  <2> QED BY <2>1, <2>2, <2>3, <2>4, <2>5 DEF TypeOK
<1>6. PICK c \in Control : c = ctl BY <1>4, NoCallType
<1>7. /\ c.pc = "idle" /\ c.left = {} /\ c.settled = FALSE
      /\ \A n \in Nodes : c.before[n] = NoDates
  BY <1>4, <1>6 DEF NoCall
<1>8. Shape(c) BY <1>7 DEF Shape
<1>9. Dates(c)
  <2> SUFFICES ASSUME NEW n \in Nodes, NEW k \in Keywords
               PROVE  c.before[n][k] <= journal[n][k] /\ journal[n][k] <= now
    BY DEF Dates
  <2>1. c.before[n][k] = 0 BY <1>1, <1>7
  <2>2. journal[n][k] \in 0 .. 1 BY <1>2, <1>3
  <2> QED BY <1>4, <2>1, <2>2
<1>10. Nodewise(c) /\ Timeouts(c) /\ Verdicts(c) /\ Results(c)
  BY <1>7 DEF Nodewise, Timeouts, Verdicts, Results, Good
<1>11. All(c) BY <1>8, <1>9, <1>10 DEF All
<1> QED BY <1>5, <1>6, <1>11 DEF Typed

\* The invariant is inductive.
LEMMA NextTyped == Typed /\ [Next]_vars => Typed'
<1> SUFFICES ASSUME Typed, [Next]_vars PROVE Typed' OBVIOUS
<1>1. CASE CallSome
  <2>1. ctl' \in Control /\ All(ctl)' BY <1>1, CallStep
  <2>2. TypeOK' BY <1>1, <2>1, TestTypes
  <2> QED BY <2>1, <2>2 DEF Typed
<1>2. CASE Test
  <2>1. ctl' \in Control /\ All(ctl)'
    <3>1. CASE CheckPid BY <3>1, PidStep
    <3>2. CASE ReadBefore BY <3>2, BeforeStep
    <3>3. CASE Issue BY <3>3, IssueStep
    <3>4. CASE Wait BY <3>4, WaitStep
    <3>5. CASE WaitTimeout BY <3>5, WaitTimeoutStep
    <3>6. CASE Poll BY <3>6, PollStep
    <3>7. CASE ReadAfter BY <3>7, ReadAfterStep
    <3> QED BY <1>2, <3>1, <3>2, <3>3, <3>4, <3>5, <3>6, <3>7 DEF Test
  <2>2. TypeOK' BY <1>2, <2>1, TestTypes
  <2> QED BY <2>1, <2>2 DEF Typed
<1>3. CASE Tick BY <1>3, TickStep DEF Typed
<1>4. ASSUME NEW n \in Nodes, Systemd(n) PROVE Typed'
  <2>1. CASE BeginJob(n) BY <2>1, BeginStep DEF Typed
  <2>2. CASE Started(n) BY <2>2, StartedStep DEF Typed
  <2>3. CASE StartFails(n) BY <2>3, StartFailsStep DEF Typed
  <2>4. CASE Stopped(n) BY <2>4, StoppedStep DEF Typed
  <2>5. CASE Crash(n) BY <2>5, CrashStep DEF Typed
  <2> QED BY <1>4, <2>1, <2>2, <2>3, <2>4, <2>5 DEF Systemd
<1>5. CASE UNCHANGED vars
  <2>1. UNCHANGED <<unit, job, journal, now, ctl, calls>> BY <1>5 DEF vars
  <2>2. UNCHANGED systemd BY <2>1 DEF systemd
  <2>3. PICK c \in Control : c = ctl BY TypedIs
  <2>4. ctl' = c /\ All(c) BY <2>1, <2>3, TypedIs
  <2>5. All(ctl)' BY <2>2, <2>4, SameNodes
  <2>6. TypeOK' BY <2>1 DEF Typed, TypeOK
  <2> QED BY <2>5, <2>6 DEF Typed
<1> QED BY <1>1, <1>2, <1>3, <1>4, <1>5 DEF Next

\* Every state is one of a call that says the truth.
LEMMA AlwaysTyped == Spec => []Typed
BY InitTyped, NextTyped, PTL DEF Spec

\* A call that nothing disturbed and that returned is followed to its end.
LEMMA Told ==
    ASSUME Typed, NEW r, Undisturbed(r)
    PROVE  Fits(ctl, r)
<1>1. Good(ctl) /\ ctl.pc = "idle" /\ ctl.result = r BY DEF Undisturbed, Good
<1>2. Results(ctl) BY TypedIs DEF All
<1> QED BY <1>1, <1>2 DEF Results

\* Every variable has its type: a unit, a job and dates for every node, and a call
\* whose count and round stay in their bounds whatever the polls see.
THEOREM TypeCorrect == Spec => []TypeOK
<1>1. Typed => TypeOK BY DEF Typed
<1> QED BY <1>1, AlwaysTyped, PTL

\* stop_ubse() and stop_all say True only when the service is down on every node they
\* were called for, and stop_ubse() says False only when a stop timed out.
THEOREM StopTrue == Spec => []StopIsTrue
<1>1. ASSUME Typed PROVE StopIsTrue
  <2>1. ASSUME Undisturbed("true"), ctl.op \in {"stop", "stop_all"}
        PROVE  (\A n \in ctl.all : unit[n] = "down") /\ (ctl.op = "stop" => ~ctl.hung)
    <3>1. Fits(ctl, "true") BY <1>1, <2>1, Told
    <3>2. \A n \in ctl.all : Gone(n) BY <2>1, <3>1 DEF Fits, Stops
    <3>3. ctl.op = "stop" => ~ctl.hung BY <3>1 DEF Fits
    <3> QED BY <3>2, <3>3 DEF Gone
  <2>2. ASSUME Undisturbed("false"), ctl.op = "stop" PROVE ctl.hung
    <3>1. Fits(ctl, "false") BY <1>1, <2>2, Told
    <3> QED BY <2>2, <3>1 DEF Fits
  <2> QED BY <2>1, <2>2 DEF StopIsTrue
<1> QED BY <1>1, AlwaysTyped, PTL

\* start_ubse(), start_all, restart_ubse() and restart_all say True only when every
\* node runs the service, in a process created since the call where they polled for
\* it, and after a restart only when no stop timed out.
THEOREM StartTrue == Spec => []StartIsTrue
<1>1. ASSUME Typed PROVE StartIsTrue
  <2> SUFFICES ASSUME Undisturbed("true") PROVE
         /\ ctl.op = "start" => \A n \in ctl.all : HasProcess(n)
         /\ ctl.op \in Starts => \A n \in ctl.all : unit[n] = "up" /\ n \in ctl.fresh
         /\ ctl.op \in Restarts => ~ctl.hung
    BY DEF StartIsTrue, Starts, Restarts
  <2>1. Fits(ctl, "true") BY <1>1, Told
  <2>2. ctl.op = "start" => \A n \in ctl.all : HasProcess(n)
    BY <2>1 DEF Fits, Runs, HasProcess
  <2>3. ctl.op \in Starts => \A n \in ctl.all : unit[n] = "up" /\ n \in ctl.fresh
    BY <2>1 DEF Fits, Runs
  <2>4. ctl.op \in Restarts => ~ctl.hung BY <2>1 DEF Fits
  <2> QED BY <2>2, <2>3, <2>4
<1> QED BY <1>1, AlwaysTyped, PTL
=============================================================================
