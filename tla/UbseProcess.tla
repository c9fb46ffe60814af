----------------------------- MODULE UbseProcess -----------------------------
(***************************************************************************)
(* How a test starts, stops and restarts the ubse service of its nodes:    *)
(* src/libs/modules/ubse/common/ubse_process_ops.py over process_ops.py    *)
(* and file_ops.get_latest_journal_date.                                   *)
(*                                                                         *)
(* The test is one process that issues commands over SSH; systemd and the  *)
(* service run on.  Success is inferred: stopping from the absence of a    *)
(* process or of new "timeout" and "core-dump" lines in the journal,       *)
(* starting from a change of the date of the last "started successfully"   *)
(* line.  Dates have a resolution of one second, a blank answer counts as  *)
(* "no process" or date '0', and `systemctl ... & disown' returns before   *)
(* systemd has done anything.  Every command is a step of its own.         *)
(***************************************************************************)
EXTENDS Naturals, Sequences, FiniteSets

CONSTANTS N,        \* nodes of the test bed, 1 .. N in the order of the list
          Ops,      \* functions the test calls, a subset of OpNames
          Polls,    \* rounds of polling: range(20), range(30)
          MaxOps,   \* bound on the calls made
          MaxTime,  \* bound on the clock, in seconds of the journal
          Faults    \* what may go wrong, a subset of FaultNames

OpNames == {"stop", "start", "ensure", "restart",
            "start_all", "stop_all", "restart_all"}

\* A command that does not reach its node, a stop that runs into systemd's
\* timeout, a start that fails and a process that dumps core.
FaultNames == {"lost", "hang", "fails", "crash"}

ASSUME ProcessAssumption ==
    /\ N \in Nat \ {0}
    /\ Polls \in Nat \ {0}
    /\ MaxOps \in Nat
    /\ MaxTime \in Nat \ {0}
    /\ Ops \subseteq OpNames
    /\ Faults \subseteq FaultNames

Nodes == 1 .. N
Keywords == {"timeout", "core", "started"}
NoDates == [k \in Keywords |-> 0]

VARIABLES unit,     \* systemd: the state of ubse.service on each node
          job,      \* systemd: the job it was asked for and has not begun
          journal,  \* the date of the last line with each keyword, 0 for none
          now,      \* the clock
          ctl,      \* what the test is doing
          calls     \* number of calls made so far

vars == <<unit, job, journal, now, ctl, calls>>
systemd == <<unit, job, journal, now>>

\* The call under way or the last one: the nodes still looked at, the current
\* one, the keywords left to read, the dates read before, the polling round and
\* its count.  The rest is history: the nodes called for, whether systemd was
\* idle at the call, and what happened to those nodes since.
Control == [op: OpNames \cup {"none"},
            pc: {"idle", "pid", "before", "issue", "wait", "poll", "after"},
            left: SUBSET Nodes, i: 0 .. N, keys: Seq(Keywords),
            before: [Nodes -> [Keywords -> 0 .. MaxTime]],
            round: 0 .. Polls, count: 0 .. N, ok: BOOLEAN,
            result: {"none", "true", "false", "raised"},
            all: SUBSET Nodes, settled: BOOLEAN, lost: BOOLEAN,
            crashed: BOOLEAN, hung: BOOLEAN, fresh: SUBSET Nodes]

TypeOK ==
    /\ unit \in [Nodes -> {"down", "starting", "up", "stopping"}]
    /\ job \in [Nodes -> {"none", "start", "stop", "restart"}]
    /\ journal \in [Nodes -> [Keywords -> 0 .. MaxTime]]
    /\ now \in 1 .. MaxTime
    /\ ctl \in Control
    /\ calls \in 0 .. MaxOps

NoCall == [op |-> "none", pc |-> "idle", left |-> {}, i |-> 0, keys |-> << >>,
           before |-> [n \in Nodes |-> NoDates], round |-> 0, count |-> 0,
           ok |-> TRUE, result |-> "none", all |-> {}, settled |-> FALSE,
           lost |-> FALSE, crashed |-> FALSE, hung |-> FALSE, fresh |-> {}]

\* The test bed as a test finds it: the service up, down, or on its way up after
\* an earlier test; it was started before.
Init ==
    /\ unit \in [Nodes -> {"down", "starting", "up"}]
    /\ job = [n \in Nodes |-> "none"]
    /\ journal = [n \in Nodes |-> [NoDates EXCEPT !["started"] = 1]]
    /\ now = 1
    /\ ctl = NoCall
    /\ calls = 0

-----------------------------------------------------------------------------
(* Commands *)

\* The bound on losses: one command of a call, at most, does not get through.
MayLose == "lost" \in Faults /\ ~ctl.lost

\* The truth, or a blank where the command did not get through.
Answers(truth, blank) == {truth} \cup (IF MayLose THEN {blank} ELSE {})

\* get_process_pid() greps the processes; stopping and starting ones are there.
HasProcess(n) == unit[n] # "down"

Settled(n) == job[n] = "none" /\ unit[n] \in {"up", "down"}

FirstOf(S) == IF S = {} THEN 0 ELSE CHOOSE n \in S : \A m \in S : n <= m
NextOf(S, i) == FirstOf({n \in S : n > i})

\* The call is over; its locals are gone.
End(r, result) ==
    ctl' = [r EXCEPT !.pc = "idle", !.left = {}, !.i = 0, !.keys = << >>,
                     !.before = NoCall.before, !.round = 0, !.count = 0,
                     !.ok = TRUE, !.result = result]
Return(r) == End(r, IF r.ok THEN "true" ELSE "false")

\* `systemctl <verb> ubse', with "& disown" where the caller does not wait.
Verb(op) == CASE op \in {"stop", "stop_all"} -> "stop"
              [] op \in {"restart", "restart_all"} -> "restart"
              [] OTHER -> "start"
Waits(op) == op \in {"stop", "start", "ensure"}

\* Faulty variant: the date of the last start is not read before a restart.
BeforeKeysShort(op) == IF op = "start_all" THEN <<"started">> ELSE <<"timeout", "core">>

BeforeKeys(op) == CASE op = "stop" -> <<"timeout", "core">>
                    [] op = "start_all" -> <<"started">>
                    [] OTHER -> <<"timeout", "core", "started">>

AfterKeys == <<"timeout", "core">>

-----------------------------------------------------------------------------
(* The functions, command by command *)

\* A function is called for one node or for all of them.
Call(op, all) ==
    /\ ctl.pc = "idle"
    /\ calls < MaxOps
    /\ calls' = calls + 1
    /\ ctl' = [NoCall EXCEPT
                 !.op = op, !.all = all, !.left = all, !.i = FirstOf(all),
                 !.settled = \A n \in all :
                                \/ Settled(n)
                                \/ /\ op \in {"stop", "stop_all"}
                                   /\ job[n] = "none" /\ unit[n] = "starting",
                 !.pc = CASE op \in {"stop", "stop_all", "ensure"} -> "pid"
                          [] op = "start" -> "issue"
                          [] OTHER -> "before",
                 !.keys = IF op \in {"restart", "start_all", "restart_all"}
                          THEN BeforeKeys(op) ELSE << >>]
    /\ UNCHANGED systemd

CallSome ==
    \E op \in Ops :
      \E all \in (IF op \in {"stop", "start", "restart"}
                  THEN {{n} : n \in Nodes} ELSE {Nodes}) : Call(op, all)

\* To the next node with the given step, or to what comes after the loop.
Onward(c, pc, keys, Over(_)) ==
    IF NextOf(c.left, c.i) = 0
    THEN Over(c)
    ELSE ctl' = [c EXCEPT !.i = NextOf(c.left, c.i), !.pc = pc, !.keys = keys]

\* The first round of polling; a loop over no node at all ends with it.
StartPolling(c) ==
    IF c.left = {} THEN Return(c)
    ELSE ctl' = [c EXCEPT !.pc = "poll", !.i = FirstOf(c.left), !.round = 1,
                          !.count = 0, !.keys = << >>]

\* stop_all stops the nodes that had a process, one after the other.
StartStopping(c) ==
    IF c.left = {} THEN Return(c)
    ELSE ctl' = [c EXCEPT !.pc = "issue", !.i = FirstOf(c.left)]

\* get_process_pid() and what the caller makes of it.
CheckPid ==
    /\ ctl.pc = "pid"
    /\ \E pid \in Answers(HasProcess(ctl.i), FALSE) :
         LET c == [ctl EXCEPT !.lost = @ \/ pid # HasProcess(ctl.i)] IN
           CASE c.op = "start" -> Return([c EXCEPT !.ok = pid])
             [] c.op = "stop" /\ ~pid -> Return(c)
             [] c.op = "stop" /\ pid ->
                  ctl' = [c EXCEPT !.pc = "before", !.keys = BeforeKeys("stop")]
             [] c.op = "ensure" /\ ~pid -> ctl' = [c EXCEPT !.pc = "issue"]
             [] c.op = "ensure" /\ pid -> Onward(c, "pid", << >>, Return)
             [] c.op = "stop_all" ->
                  Onward([c EXCEPT !.left = IF pid THEN @ ELSE @ \ {c.i}],
                         "pid", << >>, StartStopping)
    /\ UNCHANGED <<systemd, calls>>

\* get_latest_journal_date() before the command.
ReadBefore ==
    /\ ctl.pc = "before"
    /\ LET n == ctl.i
           k == Head(ctl.keys)
       IN \E date \in Answers(journal[n][k], 0) :
            ctl' = [ctl EXCEPT
                      !.before[n][k] = date,
                      !.keys = Tail(@),
                      !.pc = IF Tail(ctl.keys) = << >> THEN "issue" ELSE "before",
                      !.lost = @ \/ date # journal[n][k]]
    /\ UNCHANGED <<systemd, calls>>

\* What follows a systemctl that returned; the pid that start_ubse() reads for
\* start_ubse_if_not_started() is not used.
Returned(c) ==
    CASE c.op = "stop" -> ctl' = [c EXCEPT !.pc = "after", !.keys = AfterKeys]
      [] c.op = "start" -> ctl' = [c EXCEPT !.pc = "pid"]
      [] c.op = "ensure" -> Onward(c, "pid", << >>, Return)
      [] c.op = "stop_all" -> Onward(c, "issue", << >>, StartPolling)
      [] OTHER -> Onward(c, "before", BeforeKeys(c.op), StartPolling)

\* Faulty variant: stop_ubse() puts its systemctl into the background as well.
IssueOnly ==
    /\ ctl.pc = "issue"
    /\ job' = [job EXCEPT ![ctl.i] = Verb(ctl.op)]
    /\ Returned(ctl)
    /\ UNCHANGED <<unit, journal, now, calls>>

Issue ==
    /\ ctl.pc = "issue"
    /\ \/ /\ job' = [job EXCEPT ![ctl.i] = Verb(ctl.op)]
          /\ IF Waits(ctl.op) THEN ctl' = [ctl EXCEPT !.pc = "wait"]
                              ELSE Returned(ctl)
       \/ /\ MayLose
          /\ Returned([ctl EXCEPT !.lost = TRUE])
          /\ UNCHANGED job
    /\ UNCHANGED <<unit, journal, now, calls>>

\* systemctl returns when its job is done; its status is not looked at.
Wait ==
    /\ ctl.pc = "wait"
    /\ Settled(ctl.i)
    /\ Returned(ctl)
    /\ UNCHANGED <<systemd, calls>>

\* run() gives up on it after 60 s and raises.
WaitTimeout ==
    /\ ctl.pc = "wait"
    /\ ~Settled(ctl.i)
    /\ End(ctl, "raised")
    /\ UNCHANGED <<systemd, calls>>

\* What a poll takes for success.
Seen(n) ==
    IF ctl.op = "stop_all"
    THEN {~pid : pid \in Answers(HasProcess(n), FALSE)}
    ELSE {date # ctl.before[n]["started"] : date \in Answers(journal[n]["started"], 0)}
Truth(n) ==
    IF ctl.op = "stop_all" THEN ~HasProcess(n)
    ELSE journal[n]["started"] # ctl.before[n]["started"]

\* Faulty variant: a node seen in an earlier round is counted again.
EndRoundNoReset(c) ==
    IF c.count < Cardinality(c.left) /\ c.round < Polls
    THEN ctl' = [c EXCEPT !.i = FirstOf(c.left), !.round = @ + 1]
    ELSE IF c.op = "restart_all" \/ (c.op = "restart" /\ c.ok)
    THEN ctl' = [c EXCEPT !.i = FirstOf(c.left), !.pc = "after", !.keys = AfterKeys]
    ELSE Return(c)

\* The round is over: stop polling when every node was seen, or after the last.
EndRound(c) ==
    IF c.count < Cardinality(c.left) /\ c.round < Polls
    THEN ctl' = [c EXCEPT !.i = FirstOf(c.left), !.round = @ + 1, !.count = 0]
    ELSE IF c.op = "restart_all" \/ (c.op = "restart" /\ c.ok)
    THEN ctl' = [c EXCEPT !.i = FirstOf(c.left), !.pc = "after", !.keys = AfterKeys]
    ELSE Return(c)

Poll ==
    /\ ctl.pc = "poll"
    /\ \E seen \in Seen(ctl.i) :
         Onward([ctl EXCEPT !.count = IF seen THEN @ + 1 ELSE @,
                            !.ok = @ /\ (seen \/ ctl.round < Polls),
                            !.lost = @ \/ seen # Truth(ctl.i)],
                "poll", << >>, EndRound)
    /\ UNCHANGED <<systemd, calls>>

\* get_latest_journal_date() after the command, compared with before.
ReadAfter ==
    /\ ctl.pc = "after"
    /\ LET n == ctl.i
           k == Head(ctl.keys)
       IN \E date \in Answers(journal[n][k], 0) :
            LET c == [ctl EXCEPT !.ok = @ /\ date = ctl.before[n][k],
                                 !.keys = Tail(@),
                                 !.lost = @ \/ date # journal[n][k]]
            IN IF c.keys # << >> THEN ctl' = c
               ELSE Onward(c, "after", AfterKeys, Return)
    /\ UNCHANGED <<systemd, calls>>

-----------------------------------------------------------------------------
(* systemd and the service *)

BeginJob(n) ==
    /\ job[n] # "none"
    /\ unit[n] # "stopping"
    /\ \/ /\ job[n] = "start" /\ unit[n] # "down"
          /\ job' = [job EXCEPT ![n] = "none"]
          /\ UNCHANGED <<unit, ctl>>
       \/ /\ job[n] = "stop" /\ unit[n] = "down"
          /\ job' = [job EXCEPT ![n] = "none"]
          /\ UNCHANGED <<unit, ctl>>
       \/ /\ job[n] \in {"start", "restart"} /\ unit[n] = "down"
          /\ unit' = [unit EXCEPT ![n] = "starting"]
          /\ job' = [job EXCEPT ![n] = "none"]
          /\ ctl' = [ctl EXCEPT !.fresh = @ \cup {n}]
       \/ /\ job[n] \in {"stop", "restart"} /\ unit[n] # "down"
          /\ unit' = [unit EXCEPT ![n] = "stopping"]
          /\ job' = [job EXCEPT ![n] = IF @ = "stop" THEN "none" ELSE "start"]
          /\ UNCHANGED ctl
    /\ UNCHANGED <<journal, now, calls>>

Started(n) ==
    /\ unit[n] = "starting"
    /\ unit' = [unit EXCEPT ![n] = "up"]
    /\ journal' = [journal EXCEPT ![n]["started"] = now]
    /\ UNCHANGED <<job, now, ctl, calls>>

StartFails(n) ==
    /\ "fails" \in Faults
    /\ unit[n] = "starting"
    /\ unit' = [unit EXCEPT ![n] = "down"]
    /\ UNCHANGED <<job, journal, now, ctl, calls>>

\* The process is gone, by itself or killed when the stop timed out, which takes
\* longer than a second.
Stopped(n) ==
    /\ unit[n] = "stopping"
    /\ unit' = [unit EXCEPT ![n] = "down"]
    /\ \/ UNCHANGED <<journal, ctl>>
       \/ /\ "hang" \in Faults
          /\ now > journal[n]["timeout"] + 1
          /\ journal' = [journal EXCEPT ![n]["timeout"] = now]
          /\ ctl' = [ctl EXCEPT !.hung = @ \/ n \in ctl.all]
    /\ UNCHANGED <<job, now, calls>>

\* The process dumps core; systemd may start it again.
Crash(n) ==
    /\ "crash" \in Faults
    /\ ctl.pc # "idle"
    /\ unit[n] = "up"
    /\ unit' = [unit EXCEPT ![n] = "down"]
    /\ journal' = [journal EXCEPT ![n]["core"] = now]
    /\ job' \in {job, [job EXCEPT ![n] = IF @ = "none" THEN "start" ELSE @]}
    /\ ctl' = [ctl EXCEPT !.crashed = @ \/ n \in ctl.all]
    /\ UNCHANGED <<now, calls>>

Tick ==
    /\ now < MaxTime
    /\ ctl.pc # "idle"
    /\ now' = now + 1
    /\ UNCHANGED <<unit, job, journal, ctl, calls>>

-----------------------------------------------------------------------------
Test == CheckPid \/ ReadBefore \/ Issue \/ Wait \/ WaitTimeout \/ Poll \/ ReadAfter

Systemd(n) == BeginJob(n) \/ Started(n) \/ StartFails(n) \/ Stopped(n) \/ Crash(n)

Next == CallSome \/ Test \/ Tick \/ \E n \in Nodes : Systemd(n)

Spec == Init /\ [][Next]_vars

-----------------------------------------------------------------------------
(* Properties *)

\* The last call returned r, systemd was idle when it was made (only a stop may
\* find the service on its way up), its commands got through and no process crashed.
Undisturbed(r) == /\ ctl.pc = "idle" /\ ctl.result = r
                  /\ ctl.settled /\ ~ctl.lost /\ ~ctl.crashed

\* stop_ubse() and stop_all: True means that the service is down, and for
\* stop_ubse() that the stop did not time out; stop_ubse() says False only when it
\* did.
StopIsTrue ==
    /\ Undisturbed("true") /\ ctl.op \in {"stop", "stop_all"} =>
         /\ \A n \in ctl.all : unit[n] = "down"
         /\ ctl.op = "stop" => ~ctl.hung
    /\ Undisturbed("false") /\ ctl.op = "stop" => ctl.hung

\* start_ubse(), start_all, restart_ubse() and restart_all: True means that every
\* node runs the service, and, but for start_ubse(), in a process that was created
\* since the call; for the restarts also that no stop timed out.
StartIsTrue ==
    /\ Undisturbed("true") /\ ctl.op = "start" => \A n \in ctl.all : HasProcess(n)
    /\ Undisturbed("true") /\ ctl.op \in {"start_all", "restart", "restart_all"} =>
         \A n \in ctl.all : unit[n] = "up" /\ n \in ctl.fresh
    /\ Undisturbed("true") /\ ctl.op \in {"restart", "restart_all"} => ~ctl.hung
=============================================================================
