------------------------ MODULE ShellSession_proofs ------------------------
(***************************************************************************)
(* Theorems about ShellSession, for any number of callers, operations and  *)
(* channels.                                                               *)
(***************************************************************************)
EXTENDS ShellSession, SequenceTheorems, WellFoundedInduction, TLAPS

\* A caller between send() and the end of recv() has an exchange to finish, and
\* recv() reads a channel that exists.
Waiting(t) == /\ t.pc \in {"send", "sent", "recv"} => t.todo # << >>
              /\ t.pc = "recv" => t.conn # 0

ThreadOK(t, n) == t \in Thread /\ t.conn \in 0 .. n /\ Waiting(t)

TypeInv == TypeOK /\ \A c \in Callers : Waiting(th[c])

-----------------------------------------------------------------------------
\* Sequences of a given range.
LEMMA EmptySeqType == ASSUME NEW S PROVE << >> \in Seq(S)
OBVIOUS

\* One element.
LEMMA SeqOf1 == ASSUME NEW S, NEW a \in S PROVE << a >> \in Seq(S)
OBVIOUS

\* Two elements.
LEMMA SeqOf2 == ASSUME NEW S, NEW a \in S, NEW b \in S PROVE << a, b >> \in Seq(S)
OBVIOUS

\* Three elements: the exchanges of login().
LEMMA SeqOf3 ==
    ASSUME NEW S, NEW a \in S, NEW b \in S, NEW c \in S PROVE << a, b, c >> \in Seq(S)
OBVIOUS

\* Concatenation keeps the set of the elements.
LEMMA CatType ==
    ASSUME NEW S, NEW s \in Seq(S), NEW t \in Seq(S) PROVE s \o t \in Seq(S)
OBVIOUS

\* So does dropping the first two.
LEMMA SubSeqType ==
    ASSUME NEW S, NEW s \in Seq(S) PROVE SubSeq(s, 3, Len(s)) \in Seq(S)
OBVIOUS

\* An idle caller, its plan and its result have their types.
LEMMA IdleType == /\ Idle \in Thread
                  /\ Idle.conn = 0
                  /\ Idle.pc = "idle"
                  /\ ProbePlan \in PlanType
                  /\ NoToken \in Token
                  /\ NoResult \in Result
BY DEF Idle, Thread, PCs, OpNames, ProbePlan, PlanType, Exchange, Token, NoToken,
       NoLine, Line, Purposes, TokenKinds, NoResult, Result

\* An exchange built by X.
LEMMA XType ==
    ASSUME NEW what \in Purposes, NEW k \in Nat, NEW pat \in {"strict", "loose"},
           NEW raise \in BOOLEAN
    PROVE  X(what, k, pat, raise) \in Exchange
BY DEF X, Exchange

\* login() has exchanges to make.
LEMMA LoginExchangesType ==
    LoginExchanges \in Seq(Exchange) /\ LoginExchanges # << >>
<1>1. X("greet", 0, "loose", FALSE) \in Exchange BY XType DEF Purposes
<1>2. X("ps1", 0, "strict", TRUE) \in Exchange BY XType DEF Purposes
<1>3. X("ls", 0, "strict", TRUE) \in Exchange BY XType DEF Purposes
<1> QED BY <1>1, <1>2, <1>3, SeqOf3 DEF LoginExchanges

\* run() has at least one exchange to make, whatever its options.
LEMMA RunExchangesType ==
    ASSUME NEW op, NEW p \in PlanType,
           NEW nrm \in BOOLEAN
    PROVE  RunExchanges(op, p, nrm) \in Seq(Exchange) /\ RunExchanges(op, p, nrm) # << >>
<1> DEFINE base == IF nrm THEN "strict" ELSE "loose"
           pat  == IF p.custom THEN "loose" ELSE base
           kind == IF op \in {"probe", "echo"} THEN op ELSE "cmd"
           a == IF p.cd THEN << X("cd", 0, pat, FALSE) >> ELSE << >>
           b == [i \in 1 .. p.inputs + 1 |-> X(kind, i - 1, pat, p.raise)]
           d == IF p.shnormal
                THEN << X("sh1", 0, "strict", TRUE), X("sh2", 0, "strict", TRUE) >>
                ELSE << >>
           e == IF p.code THEN << X("status", 0, base, TRUE) >> ELSE << >>
<1>0. p.inputs \in Nat /\ p.raise \in BOOLEAN BY DEF PlanType
<1>1. a \in Seq(Exchange)
  <2>1. X("cd", 0, pat, FALSE) \in Exchange BY XType DEF Purposes
  <2> QED BY <2>1, SeqOf1, EmptySeqType
<1>2. b \in Seq(Exchange) /\ Len(b) = p.inputs + 1
  <2>1. \A i \in 1 .. p.inputs + 1 : X(kind, i - 1, pat, p.raise) \in Exchange
    BY <1>0, XType DEF Purposes
  <2>2. b \in [1 .. p.inputs + 1 -> Exchange] BY <2>1
  <2> HIDE DEF b
  <2> QED BY <2>2, <1>0
<1>3. d \in Seq(Exchange)
  <2>1. X("sh1", 0, "strict", TRUE) \in Exchange /\ X("sh2", 0, "strict", TRUE) \in Exchange
    BY XType DEF Purposes
  <2> QED BY <2>1, SeqOf2, EmptySeqType
<1>4. e \in Seq(Exchange)
  <2>1. X("status", 0, base, TRUE) \in Exchange BY XType DEF Purposes
  <2> QED BY <2>1, SeqOf1, EmptySeqType
<1>5. RunExchanges(op, p, nrm) = a \o b \o d \o e BY DEF RunExchanges
<1> HIDE DEF a, b, d, e
<1>6. a \o b \in Seq(Exchange) /\ Len(a \o b) >= 1 BY <1>0, <1>1, <1>2
<1>7. a \o b \o d \in Seq(Exchange) /\ Len(a \o b \o d) >= 1 BY <1>3, <1>6
<1>8. a \o b \o d \o e \in Seq(Exchange) /\ Len(a \o b \o d \o e) >= 1 BY <1>4, <1>7
<1> QED BY <1>5, <1>8

\* What remains after an exchange, shnormal skipped or not.
LEMMA RemainingType ==
    ASSUME NEW todo \in Seq(Exchange), todo # << >>, NEW matched \in BOOLEAN
    PROVE  Remaining(todo, matched) \in Seq(Exchange)
<1>1. Tail(todo) \in Seq(Exchange) OBVIOUS
<1>2. \A s \in Seq(Exchange) : SubSeq(s, 3, Len(s)) \in Seq(Exchange)
  BY SubSeqType
<1> QED BY <1>1, <1>2 DEF Remaining

\* _get_last_cmd_status() gives a token that was read, or none.
LEMMA FirstDigitsType ==
    ASSUME NEW got \in Seq(Token) PROVE FirstDigits(got) \in Token
<1> DEFINE First(i) == /\ got[i].kind = "digits"
                       /\ \A j \in 1 .. i - 1 : got[j].kind # "digits"
<1>1. CASE \E i \in DOMAIN got : First(i)
  <2>1. (CHOOSE i \in DOMAIN got : First(i)) \in DOMAIN got BY <1>1
  <2>2. FirstDigits(got) = got[CHOOSE i \in DOMAIN got : First(i)]
    BY <1>1 DEF FirstDigits
  <2> HIDE DEF First
  <2> QED BY <2>1, <2>2
<1>2. CASE ~ \E i \in DOMAIN got : First(i)
  BY <1>2, IdleType DEF FirstDigits
<1> QED BY <1>1, <1>2

\* What run() and login() keep of an exchange.
LEMMA AbsorbType ==
    ASSUME NEW t \in Thread, t.todo # << >>, NEW matched \in BOOLEAN
    PROVE  Absorb(t, matched) \in Thread /\ Absorb(t, matched).conn = 0
<1> DEFINE x == Head(t.todo)
           rest == Remaining(t.todo, matched)
<1>1. t.todo \in Seq(Exchange) /\ t.got \in Seq(Token) BY DEF Thread
<1>2. x \in Exchange BY <1>1
<1>3. rest \in Seq(Exchange) BY <1>1, RemainingType
<1> HIDE DEF x, rest
<1>4. << X("intr", x.k, x.pat, TRUE) >> \o rest \in Seq(Exchange)
  <2>1. x.k \in Nat /\ x.pat \in {"strict", "loose"} BY <1>2 DEF Exchange
  <2>2. X("intr", x.k, x.pat, TRUE) \in Exchange BY <2>1, XType DEF Purposes
  <2>3. << X("intr", x.k, x.pat, TRUE) >> \in Seq(Exchange) BY <2>2, SeqOf1
  <2> QED BY <2>3, <1>3, CatType
<1>5. << >> \in Seq(Token) BY EmptySeqType
<1>6. {t.got[i] : i \in DOMAIN t.got} \subseteq Token BY <1>1
<1>7. FirstDigits(t.got) \in Token BY <1>1, FirstDigitsType
<1>8. EchoIntact(t.got) \in BOOLEAN BY DEF EchoIntact
<1>9. (OwnPrompt(t) \/ x.what = "greet") \in BOOLEAN BY DEF OwnPrompt
<1> DEFINE todo == IF Interrupted(t, x, matched)
                   THEN << X("intr", x.k, x.pat, TRUE) >> \o rest ELSE rest
           intact == IF x.what = "probe" THEN EchoIntact(t.got) ELSE t.intact
           out == IF x.what \in Commands
                  THEN t.out \cup {t.got[i] : i \in DOMAIN t.got} ELSE t.out
           rc == IF x.what = "status" THEN FirstDigits(t.got) ELSE t.rc
           good == t.good /\ (OwnPrompt(t) \/ x.what = "greet")
<1>10. /\ todo \in Seq(Exchange) /\ intact \in BOOLEAN
       /\ out \in SUBSET Token /\ rc \in Token /\ good \in BOOLEAN
  BY <1>3, <1>4, <1>6, <1>7, <1>8, <1>9 DEF Thread
<1>11. Absorb(t, matched) =
         [t EXCEPT !.todo = todo, !.got = << >>, !.conn = 0, !.intact = intact,
                   !.out = out, !.rc = rc, !.good = good]
  BY DEF Absorb, x, rest, Thread
<1> DEFINE got == << >>
           u == Absorb(t, matched)
<1>12. got \in Seq(Token) BY <1>5
<1>13. u = [t EXCEPT !.todo = todo, !.got = got, !.conn = 0, !.intact = intact,
                     !.out = out, !.rc = rc, !.good = good]
  BY <1>11
<1> HIDE DEF todo, intact, out, rc, good, got, u
<1>14. u \in Thread /\ u.conn = 0 BY <1>10, <1>12, <1>13 DEF Thread
<1> QED BY <1>14 DEF u

\* Replacing one caller's state by a good one.
LEMMA ThreadUpdate ==
    ASSUME NEW n \in Nat, NEW f \in [Callers -> Thread], \A d \in Callers : ThreadOK(f[d], n),
           NEW c \in Callers, NEW t, ThreadOK(t, n),
           NEW g, g = [f EXCEPT ![c] = t]
    PROVE  g \in [Callers -> Thread] /\ \A d \in Callers : ThreadOK(g[d], n)
BY DEF ThreadOK

\* An idle caller is waiting for nothing.
LEMMA IdleOK == \A n \in Nat : ThreadOK(Idle, n)
BY IdleType DEF ThreadOK, Waiting

\* The parts of the invariant that ending a call can disturb.
CallsOK(n) == /\ th \in [Callers -> Thread]
              /\ \A c \in Callers : ThreadOK(th[c], n)
              /\ res \in [Callers -> Result]

\* Ending an operation leaves the callers and the results well-typed.
LEMMA FinishType ==
    ASSUME TypeOK, CallsOK(opened), NEW c \in Callers, NEW t \in Thread,
           NEW kind \in {"failed", "raised", "done"}, Finish(c, t, kind)
    PROVE  /\ th' \in [Callers -> Thread]
           /\ \A d \in Callers : ThreadOK(th'[d], opened)
           /\ res' \in [Callers -> Result]
<1>1. opened \in Nat BY DEF TypeOK
<1>2. th' \in [Callers -> Thread] /\ \A d \in Callers : ThreadOK(th'[d], opened)
  BY <1>1, IdleOK, ThreadUpdate DEF Finish, CallsOK
<1>3. res' \in [Callers -> Result]
  <2> DEFINE r == [kind |-> kind, op |-> t.op, run |-> t.run, plan |-> t.plan,
                   out |-> t.out, rc |-> t.rc, good |-> t.good,
                   clean |-> t.clean /\ channel # 0 /\ ~ses[channel].shared]
  <2>1. (t.clean /\ channel # 0 /\ ~ses[channel].shared) \in BOOLEAN BY DEF Thread
  <2>2. r \in Result BY <2>1 DEF Thread, Result
  <2>3. res' = [res EXCEPT ![c] = r] BY DEF Finish
  <2> QED BY <2>2, <2>3 DEF CallsOK
<1> QED BY <1>2, <1>3

\* The same for run() returning into basic.run or the probe.
LEMMA ReturnedType ==
    ASSUME TypeOK, CallsOK(opened), NEW c \in Callers, NEW t \in Thread, t.conn = 0,
           NEW kind \in {"failed", "raised", "done"}, Returned(c, t, kind)
    PROVE  /\ th' \in [Callers -> Thread]
           /\ \A d \in Callers : ThreadOK(th'[d], opened)
           /\ res' \in [Callers -> Result]
<1>0. opened \in Nat BY DEF TypeOK
<1>1. CASE t.op = "probe"
  <2> DEFINE u == [t EXCEPT !.pc = "check", !.op = "echo", !.login = FALSE,
                            !.intact = @ /\ kind = "done"]
  <2>0. u \in Thread /\ u.conn = 0 /\ u.pc \notin {"send", "sent", "recv"}
    BY DEF Thread, PCs
  <2>1. ThreadOK(u, opened) BY <1>0, <2>0 DEF ThreadOK, Waiting
  <2>2. th' = [th EXCEPT ![c] = u] /\ res' = res BY <1>1 DEF Returned
  <2> HIDE DEF u
  <2> QED BY <1>0, <2>1, <2>2, ThreadUpdate DEF CallsOK
<1>2. CASE t.op = "echo"
  <2> DEFINE u == [t EXCEPT !.pc = "verdict", !.login = FALSE]
  <2>0. u \in Thread /\ u.conn = 0 /\ u.pc \notin {"send", "sent", "recv"}
    BY DEF Thread, PCs
  <2>1. ThreadOK(u, opened) BY <1>0, <2>0 DEF ThreadOK, Waiting
  <2>2. th' = [th EXCEPT ![c] = u] /\ res' = res BY <1>2 DEF Returned
  <2> HIDE DEF u
  <2> QED BY <1>0, <2>1, <2>2, ThreadUpdate DEF CallsOK
<1>3. CASE t.op \notin {"probe", "echo"}
  <2>1. Finish(c, t, kind) BY <1>3 DEF Returned
  <2> QED BY <2>1, FinishType
<1> QED BY <1>1, <1>2, <1>3

\* The same for an exception, caught by the operation or not.
LEMMA RaisedType ==
    ASSUME TypeOK, CallsOK(opened), NEW c \in Callers, Raised(c)
    PROVE  /\ th' \in [Callers -> Thread]
           /\ \A d \in Callers : ThreadOK(th'[d], opened)
           /\ res' \in [Callers -> Result]
<1>0. th[c] \in Thread BY DEF CallsOK
<1>1. CASE th[c].login /\ th[c].op # "reconnect"
  <2> DEFINE xs == << >>
             ts == << >>
             u == [th[c] EXCEPT !.todo = xs, !.got = ts, !.conn = 0]
  <2>1. Returned(c, u, "failed") BY <1>1 DEF Raised
  <2>2. xs \in Seq(Exchange) /\ ts \in Seq(Token) BY EmptySeqType
  <2> HIDE DEF xs, ts
  <2>3. u \in Thread /\ u.conn = 0 BY <1>0, <2>2 DEF Thread
  <2> HIDE DEF u
  <2> QED BY <2>1, <2>3, ReturnedType
<1>2. CASE ~(th[c].login /\ th[c].op # "reconnect")
  <2>1. Finish(c, th[c], "raised") BY <1>2 DEF Raised
  <2> QED BY <1>0, <2>1, FinishType
<1> QED BY <1>1, <1>2

\* The same for going on after an exchange.
LEMMA ContinueType ==
    ASSUME TypeOK, CallsOK(opened), NEW c \in Callers, NEW t \in Thread, t.conn = 0,
           Continue(c, t)
    PROVE  /\ th' \in [Callers -> Thread]
           /\ \A d \in Callers : ThreadOK(th'[d], opened)
           /\ res' \in [Callers -> Result]
           /\ normal' \in BOOLEAN
<1>0. opened \in Nat /\ normal \in BOOLEAN BY DEF TypeOK
<1>1. CASE t.todo # << >>
  <2> DEFINE u == [t EXCEPT !.pc = "send"]
  <2>0. u \in Thread /\ u.conn = 0 /\ u.pc = "send" /\ u.todo = t.todo
    BY DEF Thread, PCs
  <2>1. ThreadOK(u, opened) BY <1>0, <1>1, <2>0 DEF ThreadOK, Waiting
  <2>2. th' = [th EXCEPT ![c] = u] /\ res' = res /\ normal' = normal
    BY <1>1 DEF Continue
  <2> HIDE DEF u
  <2> QED BY <1>0, <2>1, <2>2, ThreadUpdate DEF CallsOK
<1>2. CASE t.todo = << >> /\ t.login
  <2>1. normal' = TRUE BY <1>2 DEF Continue
  <2>2. CASE t.op \in {"reconnect", "sftp"}
    <3>1. Finish(c, t, "done") BY <1>2, <2>2 DEF Continue
    <3> QED BY <2>1, <3>1, FinishType
  <2>3. CASE t.op \notin {"reconnect", "sftp"}
    <3> DEFINE u == [t EXCEPT !.pc = "plan", !.login = FALSE]
    <3>0. u \in Thread /\ u.conn = 0 /\ u.pc = "plan" BY DEF Thread, PCs
    <3>1. ThreadOK(u, opened) BY <1>0, <3>0 DEF ThreadOK, Waiting
    <3>2. th' = [th EXCEPT ![c] = u] /\ res' = res BY <1>2, <2>3 DEF Continue
    <3> HIDE DEF u
    <3> QED BY <1>0, <2>1, <3>1, <3>2, ThreadUpdate DEF CallsOK
  <2> QED BY <2>2, <2>3
<1>3. CASE t.todo = << >> /\ ~t.login
  <2>1. normal' = normal /\ Returned(c, t, "done") BY <1>3 DEF Continue
  <2> QED BY <1>0, <2>1, ReturnedType
<1> QED BY <1>1, <1>2, <1>3 DEF Thread

-----------------------------------------------------------------------------
(* Channels *)

\* Closing one channel.
LEMMA ShutType == ASSUME NEW s \in Session PROVE Shut(s) \in Session
<1> DEFINE e == << >>
<1>1. e \in Seq(Line) BY EmptySeqType
<1>2. Shut(s) = [s EXCEPT !.closed = TRUE, !.inbox = e] BY DEF Shut
<1> HIDE DEF e
<1> QED BY <1>1, <1>2 DEF Session

\* Closing them all.
LEMMA ShutAllType ==
    ASSUME TypeOK PROVE [ch \in DOMAIN ses |-> Shut(ses[ch])] \in [1 .. MaxChans -> Session]
BY ShutType DEF TypeOK

\* Noting that callers overlapped.
LEMMA MarkSharedType ==
    ASSUME TypeOK, NEW c \in Callers
    PROVE  MarkShared(c, ses) \in [1 .. MaxChans -> Session]
<1>1. \A ch \in 1 .. MaxChans :
        [ses[ch] EXCEPT !.shared = @ \/ ~Alone(c)] \in Session
  <2> TAKE ch \in 1 .. MaxChans
  <2>1. ses[ch] \in Session BY DEF TypeOK
  <2> QED BY <2>1 DEF Session
<1>2. DOMAIN ses = 1 .. MaxChans BY DEF TypeOK
<1> QED BY <1>1, <1>2 DEF MarkShared

\* Noting a wait that lost its prompt.
LEMMA LostType ==
    ASSUME TypeOK, NEW ch \in 1 .. MaxChans, NEW lost \in SUBSET Purposes
    PROVE  [ses EXCEPT ![ch].lost = lost] \in [1 .. MaxChans -> Session]
<1>1. ses[ch] \in Session BY DEF TypeOK
<1>2. [ses[ch] EXCEPT !.lost = lost] \in Session BY <1>1 DEF Session
<1> QED BY <1>2 DEF TypeOK

\* What such a wait was for.
LEMMA OverlookedType ==
    ASSUME NEW t \in Thread, t.todo # << >> PROVE Overlooked(t) \in SUBSET Purposes
<1>1. t.todo \in Seq(Exchange) BY DEF Thread
<1>2. Head(t.todo) \in Exchange BY <1>1
<1> QED BY <1>2 DEF Overlooked, Exchange

\* The line an exchange sends.
LEMMA LineOfType ==
    ASSUME NEW t \in Thread, t.todo # << >> PROVE LineOf(t) \in Line
<1>1. t.todo \in Seq(Exchange) /\ t.run \in Nat BY DEF Thread
<1>2. Head(t.todo) \in Exchange BY <1>1
<1> QED BY <1>1, <1>2 DEF LineOf, Line, Exchange

-----------------------------------------------------------------------------
(* The invariant of the types *)

\* What each step has to establish.
Typed ==
    /\ transport \in {"none", "dead", "alive"}
    /\ channel \in 0 .. opened
    /\ normal \in BOOLEAN
    /\ clearing \in BOOLEAN
    /\ opened \in 0 .. MaxChans
    /\ ses \in [1 .. MaxChans -> Session]
    /\ runs \in 0 .. MaxRuns
    /\ CallsOK(opened)

\* The invariant is TypeOK and what the callers wait for.
LEMMA TypedEquiv == TypeInv <=> Typed
BY DEF TypeInv, TypeOK, Typed, CallsOK, ThreadOK

\* The adapter as it is constructed.
LEMMA TypedInit == Init => Typed
<1> SUFFICES ASSUME Init PROVE Typed OBVIOUS
<1>0. MaxChans \in Nat /\ MaxRuns \in Nat BY ShellAssumption
<1>1. CallsOK(0) BY IdleOK, IdleType DEF Init, CallsOK
<1>2. ses \in [1 .. MaxChans -> Session]
  <2> DEFINE e == << >>
             s == [closed |-> TRUE, inbox |-> e, wire |-> e, spoke |-> FALSE,
                   prev |-> NoLine, named |-> FALSE, lost |-> {}, shared |-> FALSE]
  <2>1. e \in Seq(Line) /\ e \in Seq(Token) /\ NoLine \in Line
    BY EmptySeqType DEF NoLine, Line, Purposes
  <2>2. ses = [ch \in 1 .. MaxChans |-> s] BY DEF Init
  <2> HIDE DEF e
  <2>3. s \in Session BY <2>1 DEF Session
  <2> HIDE DEF s
  <2> QED BY <2>2, <2>3
<1>3. opened = 0 /\ channel = 0 /\ 0 \in 0 .. MaxChans /\ 0 \in 0 .. MaxRuns /\ 0 \in 0 .. 0
  BY <1>0 DEF Init
<1>4. CallsOK(opened) BY <1>1, <1>3
<1>5. transport = "none" /\ normal = FALSE /\ clearing = FALSE /\ runs = 0 BY DEF Init
<1> QED BY <1>2, <1>3, <1>4, <1>5 DEF Typed

\* Starting an operation.
LEMMA StartType ==
    ASSUME Typed, NEW c \in Callers, NEW op \in OpNames, NEW p \in PlanType,
           NEW pc \in {"check", "connect"}, NEW login \in BOOLEAN,
           Start(c, op, p, pc, login)
    PROVE  /\ runs' \in 0 .. MaxRuns
           /\ th' \in [Callers -> Thread]
           /\ \A d \in Callers : ThreadOK(th'[d], opened)
           /\ res' \in [Callers -> Result]
<1>0. MaxRuns \in Nat /\ runs \in Nat /\ opened \in Nat BY ShellAssumption DEF Typed
<1>1. runs' \in 0 .. MaxRuns BY <1>0 DEF Typed, Start
<1> DEFINE u == [Idle EXCEPT !.pc = pc, !.op = op, !.plan = p,
                             !.run = runs + 1, !.login = login]
<1>2. runs + 1 \in Nat BY <1>0
<1>3. u \in Thread /\ u.conn = 0 /\ u.pc \notin {"send", "sent", "recv"}
  <2> DEFINE n == runs + 1
           i == Idle
  <2>1. i \in Thread /\ i.conn = 0 /\ n \in Nat BY <1>2, IdleType
  <2>2. pc \in PCs /\ op \in OpNames \cup {"echo", "none"} BY DEF PCs
  <2>3. u = [i EXCEPT !.pc = pc, !.op = op, !.plan = p, !.run = n, !.login = login]
    OBVIOUS
  <2> HIDE DEF n, i, u
  <2>4. u \in Thread /\ u.conn = 0 /\ u.pc = pc BY <2>1, <2>2, <2>3 DEF Thread
  <2> QED BY <2>4
<1>4. ThreadOK(u, opened) BY <1>0, <1>3 DEF ThreadOK, Waiting
<1>5. th' = [th EXCEPT ![c] = u] BY DEF Start
<1> HIDE DEF u
<1>6. th' \in [Callers -> Thread] /\ \A d \in Callers : ThreadOK(th'[d], opened)
  BY <1>0, <1>4, <1>5, ThreadUpdate DEF Typed, CallsOK
<1>7. res' \in [Callers -> Result] BY IdleType DEF Start, Typed, CallsOK
<1> QED BY <1>1, <1>6, <1>7

\* A caller moves on and nothing else of the calls changes.
LEMMA MoveType ==
    ASSUME Typed, NEW c \in Callers, NEW u, ThreadOK(u, opened),
           th' = [th EXCEPT ![c] = u], res' = res, opened' = opened
    PROVE  CallsOK(opened)'
<1>1. opened \in Nat BY DEF Typed
<1>2. th' \in [Callers -> Thread] /\ \A d \in Callers : ThreadOK(th'[d], opened)
  BY <1>1, ThreadUpdate DEF Typed, CallsOK
<1> QED BY <1>2 DEF Typed, CallsOK

\* The entry points.
LEMMA CallTyped == ASSUME Typed, NEW c \in Callers, Call(c) PROVE Typed'
<1>0. TypeOK BY TypedEquiv DEF TypeInv
<1>1. CASE CallRun(c)
  <2>1. PICK op \in Ops \cap {"run", "probe"} :
          \E p \in (IF op = "run" THEN Plans ELSE {ProbePlan}) :
            Start(c, op, p, "check", FALSE)
    BY <1>1 DEF CallRun
  <2>2. PICK p \in (IF op = "run" THEN Plans ELSE {ProbePlan}) :
          Start(c, op, p, "check", FALSE)
    BY <2>1
  <2>3. op \in OpNames /\ p \in PlanType BY IdleType, ShellAssumption
  <2>4. /\ runs' \in 0 .. MaxRuns
        /\ th' \in [Callers -> Thread]
        /\ \A d \in Callers : ThreadOK(th'[d], opened)
        /\ res' \in [Callers -> Result]
    BY <2>2, <2>3, StartType
  <2>5. ses' \in [1 .. MaxChans -> Session] BY <1>0, <1>1, MarkSharedType DEF CallRun
  <2> QED BY <1>1, <2>4, <2>5 DEF CallRun, adapter, Typed, CallsOK
<1>2. CASE CallReconnect(c)
  <2>1. Start(c, "reconnect", ProbePlan, "connect", TRUE) /\ "reconnect" \in OpNames
    BY <1>2 DEF CallReconnect, OpNames
  <2>2. /\ runs' \in 0 .. MaxRuns
        /\ th' \in [Callers -> Thread]
        /\ \A d \in Callers : ThreadOK(th'[d], opened)
        /\ res' \in [Callers -> Result]
    BY <2>1, IdleType, StartType
  <2>3. MarkShared(c, ses) \in [1 .. MaxChans -> Session] BY <1>0, MarkSharedType
  <2>4. [ch \in DOMAIN ses |-> Shut(MarkShared(c, ses)[ch])] \in [1 .. MaxChans -> Session]
    BY <1>0, <2>3, ShutType DEF TypeOK
  <2>5. 0 \in 0 .. opened BY DEF Typed
  <2>6. /\ ses' \in [1 .. MaxChans -> Session]
        /\ transport' \in {"none", "dead", "alive"}
        /\ channel' \in 0 .. opened
    BY <1>2, <2>3, <2>4, <2>5 DEF CallReconnect, Typed
  <2> QED BY <1>2, <2>2, <2>6 DEF CallReconnect, Typed, CallsOK
<1>3. CASE CallSftp(c)
  <2>1. Start(c, "sftp", ProbePlan, "connect", TRUE) /\ "sftp" \in OpNames
    BY <1>3 DEF CallSftp, OpNames
  <2>2. /\ runs' \in 0 .. MaxRuns
        /\ th' \in [Callers -> Thread]
        /\ \A d \in Callers : ThreadOK(th'[d], opened)
        /\ res' \in [Callers -> Result]
    BY <2>1, IdleType, StartType
  <2>3. ses' \in [1 .. MaxChans -> Session] BY <1>0, <1>3, MarkSharedType DEF CallSftp
  <2> QED BY <1>3, <2>2, <2>3 DEF CallSftp, adapter, Typed, CallsOK
<1> QED BY <1>1, <1>2, <1>3 DEF Call

\* run() up to its first exchange, and login() up to the open shell.
LEMMA ConnectTyped ==
    ASSUME Typed, NEW c \in Callers,
           \/ Check(c) \/ MakePlan(c) \/ Connect(c) \/ ConnectRaises(c)
           \/ RetryRaises(c) \/ OpenSession(c) \/ OpenFails(c)
    PROVE  Typed'
<1>0. TypeOK /\ CallsOK(opened) /\ opened \in Nat BY TypedEquiv DEF TypeInv, Typed
<1> DEFINE t == th[c]
<1>t. t \in Thread /\ t.conn \in 0 .. opened BY <1>0 DEF CallsOK, ThreadOK
<1>1. CASE Check(c)
  <2> DEFINE u == [t EXCEPT !.pc = IF Active THEN "plan" ELSE "connect", !.login = ~Active]
  <2>1. u \in Thread /\ u.conn = t.conn /\ u.pc \notin {"send", "sent", "recv"}
    BY <1>t DEF Thread, PCs, Active
  <2>2. ThreadOK(u, opened) BY <1>t, <2>1 DEF ThreadOK, Waiting
  <2>3. th' = [th EXCEPT ![c] = u] BY <1>1 DEF Check
  <2> HIDE DEF u
  <2>4. CallsOK(opened)' BY <1>1, <2>2, <2>3, MoveType DEF Check
  <2> QED BY <1>1, <2>4 DEF Check, adapter, Typed
<1>2. CASE MakePlan(c)
  <2> DEFINE todo == RunExchanges(t.op, t.plan, normal)
             clean == CASE t.op = "run" -> Fresh({})
                        [] t.op = "probe" -> Fresh(RunPurposes)
                        [] OTHER -> t.clean
             u == [t EXCEPT !.pc = "send", !.todo = todo, !.good = TRUE, !.clean = clean]
  <2>1. todo \in Seq(Exchange) /\ todo # << >>
    <3>1. t.plan \in PlanType /\ normal \in BOOLEAN BY <1>t DEF Thread, Typed
    <3> QED BY <3>1, RunExchangesType
  <2>2. clean \in BOOLEAN BY <1>t DEF Fresh, Thread
  <2>3. th' = [th EXCEPT ![c] = u] BY <1>2 DEF MakePlan
  <2> HIDE DEF todo, clean
  <2>4. u \in Thread /\ u.conn = t.conn /\ u.pc = "send" /\ u.todo # << >>
    BY <1>t, <2>1, <2>2 DEF Thread, PCs
  <2>5. ThreadOK(u, opened) BY <1>t, <2>4 DEF ThreadOK, Waiting
  <2> HIDE DEF u
  <2>6. CallsOK(opened)' BY <1>2, <2>3, <2>5, MoveType DEF MakePlan
  <2>7. clearing' \in BOOLEAN
    <3>1. t.plan.clear \in BOOLEAN BY <1>t DEF Thread, PlanType
    <3> QED BY <1>2, <3>1 DEF MakePlan, Typed
  <2> QED BY <1>2, <2>6, <2>7 DEF MakePlan, Typed
<1>3. CASE Connect(c)
  <2> DEFINE u == [t EXCEPT !.pc = "open"]
  <2>1. u \in Thread /\ u.conn = t.conn /\ u.pc = "open" BY <1>t DEF Thread, PCs
  <2>2. ThreadOK(u, opened) BY <1>t, <2>1 DEF ThreadOK, Waiting
  <2>3. th' = [th EXCEPT ![c] = u] BY <1>3 DEF Connect
  <2> HIDE DEF u
  <2>4. CallsOK(opened)' BY <1>3, <2>2, <2>3, MoveType DEF Connect
  <2> QED BY <1>3, <2>4 DEF Connect, Typed
<1>4. CASE ConnectRaises(c)
  <2> DEFINE u == [t EXCEPT !.pc = "retry"]
  <2>1. u \in Thread /\ u.conn = t.conn /\ u.pc = "retry" BY <1>t DEF Thread, PCs
  <2>2. ThreadOK(u, opened) BY <1>t, <2>1 DEF ThreadOK, Waiting
  <2>3. th' = [th EXCEPT ![c] = u] BY <1>4 DEF ConnectRaises
  <2> HIDE DEF u
  <2>4. CallsOK(opened)' BY <1>4, <2>2, <2>3, MoveType DEF ConnectRaises
  <2>5. 0 \in 0 .. opened BY <1>0
  <2>6. /\ ses' \in [1 .. MaxChans -> Session]
        /\ transport' \in {"none", "dead", "alive"}
        /\ channel' \in 0 .. opened
    BY <1>0, <1>4, <2>5, ShutAllType DEF ConnectRaises, Typed
  <2> QED BY <1>4, <2>4, <2>6 DEF ConnectRaises, Typed
<1>5. CASE RetryRaises(c)
  <2>1. transport' \in {"none", "dead", "alive"}
    BY <1>5 DEF RetryRaises, CreateOutcomes, CreateClient, Typed
  <2>2. /\ th' \in [Callers -> Thread]
        /\ \A d \in Callers : ThreadOK(th'[d], opened)
        /\ res' \in [Callers -> Result]
    BY <1>0, <1>5, RaisedType DEF RetryRaises
  <2> QED BY <1>5, <2>1, <2>2 DEF RetryRaises, Typed, CallsOK
<1>6. CASE OpenSession(c)
  <2> DEFINE n == opened + 1
             greet == [run |-> t.run, what |-> "greet", k |-> 0]
             in == << greet >>
             out == << >>
             alone == Alone(c)
             s == [closed |-> FALSE, inbox |-> in, wire |-> out, spoke |-> FALSE,
                   prev |-> NoLine, named |-> FALSE, lost |-> {}, shared |-> ~alone]
             todo == LoginExchanges
             u == [t EXCEPT !.pc = "sent", !.todo = todo]
  <2>1. n \in 1 .. MaxChans /\ n \in Nat /\ n \in 0 .. n
    BY <1>0, <1>6, ShellAssumption DEF OpenSession, Typed
  <2>2. greet \in Line BY <1>t DEF Thread, Line, Purposes
  <2>3. in \in Seq(Line) /\ out \in Seq(Token) /\ NoLine \in Line /\ alone \in BOOLEAN
    BY <2>2, SeqOf1, EmptySeqType DEF NoLine, Line, Purposes, Alone
  <2>4. todo \in Seq(Exchange) /\ todo # << >> BY LoginExchangesType
  <2>5. /\ ses' = [ses EXCEPT ![n] = s]
        /\ th' = [th EXCEPT ![c] = u]
        /\ opened' = n /\ channel' = n
        /\ UNCHANGED <<transport, normal, clearing, res, runs>>
    BY <1>6 DEF OpenSession
  <2> HIDE DEF greet, in, out, alone, todo
  <2>6. s \in Session BY <2>3 DEF Session
  <2>7. u \in Thread /\ u.conn = t.conn /\ u.pc = "sent" /\ u.todo # << >>
    BY <1>t, <2>4 DEF Thread, PCs
  <2> HIDE DEF s, u
  <2>8. ses' \in [1 .. MaxChans -> Session] BY <2>1, <2>5, <2>6 DEF Typed
  <2>9. \A d \in Callers : ThreadOK(th[d], n) BY <1>0 DEF CallsOK, ThreadOK, Thread
  <2>10. ThreadOK(u, n) BY <1>0, <1>t, <2>7 DEF ThreadOK, Waiting, Thread
  <2> HIDE DEF n
  <2>11. th' \in [Callers -> Thread] /\ \A d \in Callers : ThreadOK(th'[d], n)
    BY <2>1, <2>5, <2>9, <2>10, <1>0, ThreadUpdate DEF CallsOK
  <2>12. n \in 0 .. MaxChans BY <2>1
  <2> QED BY <2>1, <2>5, <2>8, <2>11, <2>12 DEF Typed, CallsOK
<1>7. CASE OpenFails(c)
  <2>1. /\ th' \in [Callers -> Thread]
        /\ \A d \in Callers : ThreadOK(th'[d], opened)
        /\ res' \in [Callers -> Result]
    BY <1>0, <1>7, RaisedType DEF OpenFails
  <2> QED BY <1>7, <2>1 DEF OpenFails, adapter, Typed, CallsOK
<1> QED BY <1>1, <1>2, <1>3, <1>4, <1>5, <1>6, <1>7

\* One exec_command().
LEMMA SendTyped ==
    ASSUME Typed, NEW c \in Callers,
           Drain(c) \/ Send(c) \/ SendRaises(c) \/ SendTimeout(c)
    PROVE  Typed'
<1>0. TypeOK /\ CallsOK(opened) /\ opened \in Nat BY TypedEquiv DEF TypeInv, Typed
<1> DEFINE t == th[c]
<1>t. t \in Thread /\ t.conn \in 0 .. opened /\ Waiting(t)
  BY <1>0 DEF CallsOK, ThreadOK
<1>c. channel # 0 => channel \in 1 .. MaxChans /\ ses[channel] \in Session
  BY ShellAssumption DEF Typed
<1>e. << >> \in Seq(Token) BY EmptySeqType
<1>1. CASE Drain(c)
  <2> DEFINE e == << >>
             lost == IF ses[channel].inbox = << >> THEN {} ELSE ses[channel].lost
             s == [ses[channel] EXCEPT !.wire = e, !.lost = lost]
  <2>1. channel # 0 /\ ses' = [ses EXCEPT ![channel] = s]
    BY <1>1, <1>c DEF Drain, Session, Typed
  <2>2. e \in Seq(Token) /\ lost \in SUBSET Purposes BY <1>e, <2>1, <1>c DEF Session
  <2> HIDE DEF e, lost
  <2>3. s \in Session BY <1>c, <2>1, <2>2 DEF Session
  <2> HIDE DEF s
  <2>4. ses' \in [1 .. MaxChans -> Session] BY <2>1, <2>3 DEF Typed
  <2> QED BY <1>1, <2>4 DEF Drain, Typed, CallsOK
<1>2. CASE Send(c)
  <2> DEFINE in == Append(ses[channel].inbox, LineOf(t))
             s == [ses[channel] EXCEPT !.inbox = in]
             u == [t EXCEPT !.pc = "sent"]
  <2>1. channel # 0 BY <1>2 DEF Send, Active
  <2>2. ses' = [ses EXCEPT ![channel] = s] /\ th' = [th EXCEPT ![c] = u]
    BY <1>2, <2>1, <1>c DEF Send, Session, Typed
  <2>3. t.pc = "send" /\ t.todo # << >> BY <1>2, <1>t DEF Send, Waiting
  <2>4. in \in Seq(Line)
    <3>1. ses[channel].inbox \in Seq(Line) BY <2>1, <1>c DEF Session
    <3>2. LineOf(t) \in Line BY <1>t, <2>3, LineOfType
    <3> QED BY <3>1, <3>2
  <2> HIDE DEF in
  <2>5. s \in Session BY <1>c, <2>1, <2>4 DEF Session
  <2>6. u \in Thread /\ u.conn = t.conn /\ u.pc = "sent" /\ u.todo = t.todo
    BY <1>t DEF Thread, PCs
  <2> HIDE DEF s, u
  <2>7. ses' \in [1 .. MaxChans -> Session] BY <2>2, <2>5 DEF Typed
  <2>8. ThreadOK(u, opened) BY <1>t, <2>3, <2>6 DEF ThreadOK, Waiting
  <2>9. CallsOK(opened)' BY <1>2, <2>2, <2>8, MoveType DEF Send
  <2> QED BY <1>2, <2>7, <2>9 DEF Send, adapter, Typed
<1>3. CASE SendRaises(c)
  <2>1. /\ th' \in [Callers -> Thread]
        /\ \A d \in Callers : ThreadOK(th'[d], opened)
        /\ res' \in [Callers -> Result]
    BY <1>0, <1>3, RaisedType DEF SendRaises
  <2> QED BY <1>3, <2>1 DEF SendRaises, adapter, Typed, CallsOK
<1>4. CASE SendTimeout(c)
  <2>1. t.pc = "send" /\ t.todo # << >> /\ channel # 0
    BY <1>4, <1>t DEF SendTimeout, Waiting, Active
  <2>2. t.todo \in Seq(Exchange) /\ Head(t.todo) \in Exchange
    BY <1>t, <2>1 DEF Thread
  <2> DEFINE rest == Tail(t.todo)
             u == IF Head(t.todo).what = "cd" /\ rest # << >>
                  THEN [t EXCEPT !.todo = rest] ELSE t
  <2>3. Continue(c, Absorb(u, FALSE)) BY <1>4 DEF SendTimeout
  <2>4. u \in Thread /\ u.todo # << >>
    <3>1. rest \in Seq(Exchange) BY <2>1, <2>2
    <3> HIDE DEF rest
    <3> QED BY <1>t, <2>1, <3>1 DEF Thread
  <2> HIDE DEF u
  <2>5. /\ th' \in [Callers -> Thread]
        /\ \A d \in Callers : ThreadOK(th'[d], opened)
        /\ res' \in [Callers -> Result]
        /\ normal' \in BOOLEAN
    BY <1>0, <2>3, <2>4, AbsorbType, ContinueType
  <2>6. ses' \in [1 .. MaxChans -> Session]
    <3> DEFINE lost == IF t.login THEN ses[channel].lost \cup {Head(t.todo).what}
                       ELSE ses[channel].lost
    <3>1. lost \in SUBSET Purposes BY <1>c, <2>1, <2>2 DEF Session, Exchange
    <3>2. ses' = [ses EXCEPT ![channel].lost = lost] BY <1>4 DEF SendTimeout
    <3> HIDE DEF lost
    <3> QED BY <1>0, <1>c, <2>1, <3>1, <3>2, LostType
  <2> QED BY <1>4, <2>5, <2>6 DEF SendTimeout, Typed, CallsOK
<1> QED BY <1>1, <1>2, <1>3, <1>4

\* The steps of recv().
LEMMA RecvTyped ==
    ASSUME Typed, NEW c \in Callers,
           StartRecv(c) \/ RecvRaises(c) \/ RecvChunk(c) \/ Matched(c) \/ Timeout(c)
    PROVE  Typed'
<1>0. TypeOK /\ CallsOK(opened) /\ opened \in Nat BY TypedEquiv DEF TypeInv, Typed
<1> DEFINE t == th[c]
<1>t. t \in Thread /\ t.conn \in 0 .. opened /\ Waiting(t)
  BY <1>0 DEF CallsOK, ThreadOK
<1>r. t.pc = "recv" => /\ t.todo # << >>
                       /\ t.conn \in 1 .. MaxChans
                       /\ ses[t.conn] \in Session
  BY <1>t, ShellAssumption DEF Waiting, Typed
<1>1. CASE StartRecv(c)
  <2> DEFINE u == [t EXCEPT !.pc = "recv", !.conn = channel]
  <2>1. t.pc = "sent" /\ channel # 0 /\ channel \in 0 .. opened /\ channel \in Nat
    BY <1>0, <1>1 DEF StartRecv, Active, Typed
  <2>2. u \in Thread /\ u.conn = channel /\ u.pc = "recv" /\ u.todo = t.todo
    BY <1>t, <1>0, <2>1 DEF Thread, PCs
  <2>3. ThreadOK(u, opened) BY <1>t, <2>1, <2>2 DEF ThreadOK, Waiting
  <2>4. th' = [th EXCEPT ![c] = u] BY <1>1 DEF StartRecv
  <2> HIDE DEF u
  <2>5. CallsOK(opened)' BY <1>1, <2>3, <2>4, MoveType DEF StartRecv
  <2> QED BY <1>1, <2>5 DEF StartRecv, adapter, Typed
<1>2. CASE RecvRaises(c)
  <2>1. /\ th' \in [Callers -> Thread]
        /\ \A d \in Callers : ThreadOK(th'[d], opened)
        /\ res' \in [Callers -> Result]
    BY <1>0, <1>2, RaisedType DEF RecvRaises
  <2> QED BY <1>2, <2>1 DEF RecvRaises, adapter, Typed, CallsOK
<1>3. CASE RecvChunk(c)
  <2> DEFINE w == ses[t.conn].wire
             got == Append(t.got, Head(w))
             rest == Tail(w)
             u == [t EXCEPT !.got = got]
             s == [ses[t.conn] EXCEPT !.wire = rest]
  <2>1. t.pc = "recv" /\ w # << >> BY <1>3 DEF RecvChunk
  <2>2. w \in Seq(Token) /\ t.got \in Seq(Token) BY <1>r, <1>t, <2>1 DEF Session, Thread
  <2>3. got \in Seq(Token) /\ rest \in Seq(Token) BY <2>1, <2>2
  <2>4. ses' = [ses EXCEPT ![t.conn] = s] /\ th' = [th EXCEPT ![c] = u]
    BY <1>3, <1>r, <2>1 DEF RecvChunk, Session, Typed
  <2> HIDE DEF got, rest
  <2>5. s \in Session BY <1>r, <2>1, <2>3 DEF Session
  <2>6. u \in Thread /\ u.conn = t.conn /\ u.pc = t.pc /\ u.todo = t.todo
    BY <1>t, <2>3 DEF Thread
  <2> HIDE DEF s, u
  <2>7. ses' \in [1 .. MaxChans -> Session] BY <2>4, <2>5 DEF Typed
  <2>8. ThreadOK(u, opened) BY <1>t, <2>6 DEF ThreadOK, Waiting
  <2>9. CallsOK(opened)' BY <1>3, <2>4, <2>8, MoveType DEF RecvChunk
  <2> QED BY <1>3, <2>7, <2>9 DEF RecvChunk, adapter, Typed
<1> DEFINE lost == ses[t.conn].lost \cup Overlooked(t)
<1>4. t.pc = "recv" => lost \in SUBSET Purposes
  BY <1>r, <1>t, OverlookedType DEF Session
<1>5. CASE Matched(c)
  <2>1. t.pc = "recv" /\ Continue(c, Absorb(t, TRUE)) BY <1>5 DEF Matched
  <2>2. ses' = [ses EXCEPT ![t.conn].lost = lost] BY <1>5 DEF Matched
  <2> HIDE DEF lost
  <2>3. ses' \in [1 .. MaxChans -> Session] BY <1>0, <1>r, <1>4, <2>1, <2>2, LostType
  <2>4. /\ th' \in [Callers -> Thread]
        /\ \A d \in Callers : ThreadOK(th'[d], opened)
        /\ res' \in [Callers -> Result]
        /\ normal' \in BOOLEAN
    BY <1>0, <1>t, <1>r, <2>1, AbsorbType, ContinueType
  <2> QED BY <1>5, <2>3, <2>4 DEF Matched, Typed, CallsOK
<1>6. CASE Timeout(c)
  <2>1. t.pc = "recv" BY <1>6 DEF Timeout
  <2>2. ses' = [ses EXCEPT ![t.conn].lost = lost] BY <1>6 DEF Timeout
  <2> HIDE DEF lost
  <2>3. ses' \in [1 .. MaxChans -> Session] BY <1>0, <1>r, <1>4, <2>1, <2>2, LostType
  <2>4. /\ th' \in [Callers -> Thread]
        /\ \A d \in Callers : ThreadOK(th'[d], opened)
        /\ res' \in [Callers -> Result]
        /\ normal' \in BOOLEAN
    <3>1. CASE Head(t.todo).raise
      <4>1. Raised(c) /\ normal' = normal BY <1>6, <3>1 DEF Timeout
      <4> QED BY <1>0, <4>1, RaisedType DEF Typed
    <3>2. CASE ~Head(t.todo).raise
      <4>1. Continue(c, Absorb(t, FALSE)) BY <1>6, <3>2 DEF Timeout
      <4> QED BY <1>0, <1>t, <1>r, <2>1, <4>1, AbsorbType, ContinueType
    <3> QED BY <3>1, <3>2
  <2> QED BY <1>6, <2>3, <2>4 DEF Timeout, Typed, CallsOK
<1> QED BY <1>1, <1>2, <1>3, <1>5, <1>6

\* The verdict of the probe.
LEMMA VerdictTyped == ASSUME Typed, NEW c \in Callers, Verdict(c) PROVE Typed'
<1>0. TypeOK /\ CallsOK(opened) /\ opened \in Nat BY TypedEquiv DEF TypeInv, Typed
<1> DEFINE t == th[c]
<1>t. t \in Thread /\ t.conn \in 0 .. opened BY <1>0 DEF CallsOK, ThreadOK
<1>1. CASE t.intact
  <2>1. Finish(c, t, "done") /\ UNCHANGED <<transport, channel, ses>> BY <1>1 DEF Verdict
  <2>2. /\ th' \in [Callers -> Thread]
        /\ \A d \in Callers : ThreadOK(th'[d], opened)
        /\ res' \in [Callers -> Result]
    BY <1>0, <1>t, <2>1, FinishType
  <2> QED BY <2>1, <2>2 DEF Verdict, Typed, CallsOK
<1>2. CASE ~t.intact
  <2> DEFINE u == [t EXCEPT !.pc = "connect", !.op = "reconnect", !.login = TRUE]
  <2>1. "reconnect" \in OpNames \cup {"echo", "none"} BY DEF OpNames
  <2>2. u \in Thread /\ u.conn = t.conn /\ u.pc = "connect" BY <1>t, <2>1 DEF Thread, PCs
  <2>3. ThreadOK(u, opened) BY <1>t, <2>2 DEF ThreadOK, Waiting
  <2>4. Close /\ th' = [th EXCEPT ![c] = u] /\ res' = res BY <1>2 DEF Verdict
  <2> HIDE DEF u
  <2>5. CallsOK(opened)' BY <2>3, <2>4, MoveType DEF Verdict
  <2>6. 0 \in 0 .. opened BY <1>0
  <2>7. /\ ses' \in [1 .. MaxChans -> Session]
        /\ transport' \in {"none", "dead", "alive"}
        /\ channel' \in 0 .. opened
    BY <1>0, <2>4, <2>6, ShutAllType DEF Close, Typed
  <2> QED BY <2>5, <2>7 DEF Verdict, Typed
<1> QED BY <1>1, <1>2

\* The shells and the network change nothing but the channels and the transport.
LEMMA RemoteTyped ==
    ASSUME Typed,
           (\E ch \in 1 .. opened : Remote(ch) \/ ChannelDies(ch)) \/ TransportDies
    PROVE  Typed'
<1>0. TypeOK BY TypedEquiv DEF TypeInv
<1>1. ASSUME NEW ch \in 1 .. opened, RemoteText(ch) PROVE Typed'
  <2>0. ch \in 1 .. MaxChans /\ ses[ch] \in Session BY ShellAssumption DEF Typed
  <2> DEFINE line == Head(ses[ch].inbox)
  <2>1. PICK kind \in TokenKinds :
          ses' = [ses EXCEPT ![ch].spoke = TRUE,
                             ![ch].wire = Append(@, [line |-> line, kind |-> kind,
                                                     of |-> ses[ch].prev])]
    BY <1>1 DEF RemoteText, TokenKinds
  <2> DEFINE tok == [line |-> line, kind |-> kind, of |-> ses[ch].prev]
             w == Append(ses[ch].wire, tok)
             s == [ses[ch] EXCEPT !.spoke = TRUE, !.wire = w]
  <2>2. line \in Line BY <1>1, <2>0 DEF RemoteText, Session
  <2>3. tok \in Token BY <2>0, <2>2 DEF Token, Session
  <2>4. w \in Seq(Token)
    <3>1. ses[ch].wire \in Seq(Token) BY <2>0 DEF Session
    <3> HIDE DEF tok
    <3> QED BY <2>3, <3>1
  <2>5. ses' = [ses EXCEPT ![ch] = s] BY <2>0, <2>1 DEF Session, Typed
  <2> HIDE DEF w
  <2>6. s \in Session BY <2>0, <2>4 DEF Session
  <2> HIDE DEF s
  <2>7. ses' \in [1 .. MaxChans -> Session] BY <2>5, <2>6 DEF Typed
  <2> QED BY <1>1, <2>7 DEF RemoteText, adapter, Typed, CallsOK
<1>2. ASSUME NEW ch \in 1 .. opened, RemotePrompt(ch) PROVE Typed'
  <2>0. ch \in 1 .. MaxChans /\ ses[ch] \in Session BY ShellAssumption DEF Typed
  <2> DEFINE line  == Head(ses[ch].inbox)
             named == ses[ch].named \/ line.what \in {"ps1", "sh1"}
             prev == IF line.what = "intr" THEN ses[ch].prev ELSE line
             kind == IF named THEN "prompt" ELSE "rawprompt"
             tok == [line |-> line, of |-> line, kind |-> kind]
             w == Append(ses[ch].wire, tok)
             in == Tail(ses[ch].inbox)
             s == [ses[ch] EXCEPT !.spoke = FALSE, !.named = named, !.inbox = in,
                                  !.prev = prev, !.wire = w]
  <2>1. line \in Line /\ in \in Seq(Line) BY <1>2, <2>0 DEF RemotePrompt, Session
  <2>2. tok \in Token BY <2>1 DEF Token, TokenKinds
  <2>3. w \in Seq(Token)
    <3>1. ses[ch].wire \in Seq(Token) BY <2>0 DEF Session
    <3> HIDE DEF tok
    <3> QED BY <2>2, <3>1
  <2>4. prev \in Line /\ named \in BOOLEAN BY <2>0, <2>1 DEF Session
  <2>5. ses' = [ses EXCEPT ![ch] = s] BY <1>2, <2>0 DEF RemotePrompt, Session, Typed
  <2> HIDE DEF w, in, prev, named
  <2>6. s \in Session BY <2>0, <2>1, <2>3, <2>4 DEF Session
  <2> HIDE DEF s
  <2>7. ses' \in [1 .. MaxChans -> Session] BY <2>5, <2>6 DEF Typed
  <2> QED BY <1>2, <2>7 DEF RemotePrompt, adapter, Typed, CallsOK
<1>3. ASSUME NEW ch \in 1 .. opened, ChannelDies(ch) PROVE Typed'
  <2>0. ch \in 1 .. MaxChans /\ ses[ch] \in Session BY ShellAssumption DEF Typed
  <2>1. ses' = [ses EXCEPT ![ch] = Shut(ses[ch])] BY <1>3, <2>0 DEF ChannelDies, Typed
  <2>2. ses' \in [1 .. MaxChans -> Session] BY <2>0, <2>1, ShutType DEF Typed
  <2> QED BY <1>3, <2>2 DEF ChannelDies, adapter, Typed, CallsOK
<1>4. ASSUME TransportDies PROVE Typed'
  <2>1. ses' \in [1 .. MaxChans -> Session]
    BY <1>0, <1>4, ShutAllType DEF TransportDies
  <2> QED BY <1>4, <2>1 DEF TransportDies, Typed, CallsOK
<1> QED BY <1>1, <1>2, <1>3, <1>4 DEF Remote

\* TypeOK holds in every state, for any callers, plans and bounds: whatever is
\* interleaved, recv() always has an exchange to finish and a channel to read.
THEOREM TypeCorrect == Spec => []TypeOK
<1>1. Init => Typed BY TypedInit
<1>2. Typed /\ [Next]_vars => Typed'
  <2> SUFFICES ASSUME Typed, [Next]_vars PROVE Typed' OBVIOUS
  <2>1. ASSUME NEW c \in Callers, Call(c) PROVE Typed' BY <2>1, CallTyped
  <2>2. ASSUME NEW c \in Callers, CallerStep(c) PROVE Typed'
    BY <2>2, ConnectTyped, SendTyped, RecvTyped, VerdictTyped DEF CallerStep
  <2>3. CASE (\E ch \in 1 .. opened : Remote(ch) \/ ChannelDies(ch)) \/ TransportDies
    BY <2>3, RemoteTyped
  <2>4. CASE UNCHANGED vars BY <2>4 DEF vars, Typed, CallsOK
  <2> QED BY <2>1, <2>2, <2>3, <2>4 DEF Next
<1>3. Typed => TypeOK BY TypedEquiv DEF TypeInv
<1> QED BY <1>1, <1>2, <1>3, PTL DEF Spec

-----------------------------------------------------------------------------
(* What a run returns is its own: AnswerIsOwn and QuietBetweenRuns.         *)

Exchanging == {"send", "sent", "recv"}
LoginTodos == { LoginExchanges,
                << X("ps1", 0, "strict", TRUE), X("ls", 0, "strict", TRUE) >>,
                << X("ls", 0, "strict", TRUE) >> }

\* None of the lines that only login() sends.
NotLogin(todo) == \A i \in 1 .. Len(todo) : todo[i].what \notin {"greet", "ps1"}

\* What holds of a caller by itself.
Local(t) ==
    /\ t.pc = "idle" => t = Idle
    /\ t.pc # "recv" => t.got = << >>
    /\ t.pc \in {"connect", "retry", "open"} => t.login
    /\ t.pc \in {"check", "plan", "verdict"} => ~t.login
    /\ t.pc \in Exchanging /\ t.login =>
         t.todo \in LoginTodos /\ (t.pc = "send" => t.todo # LoginExchanges)
    /\ t.pc \in Exchanging /\ ~t.login => NotLogin(t.todo)
    /\ t.op = "run" /\ (t.login \/ t.pc \notin Exchanging) => t.out = {} /\ ~t.clean

\* The prompt that ends a line, and a channel with nothing in flight.
Ends(tok, line) == tok.line = line /\ tok.kind \in {"prompt", "rawprompt"}
Still(s) == s.wire = << >> /\ s.inbox = << >>

\* A line is sent when nothing is in flight, except that login() does not see the
\* end of the greeting.
BeforeSend(t, s) ==
    IF Head(t.todo).what = "ps1"
    THEN /\ Len(s.inbox) <= 1
         /\ \A i \in 1 .. Len(s.inbox) : s.inbox[i].what = "greet"
         /\ \A i \in 1 .. Len(s.wire) : s.wire[i].line.what = "greet"
    ELSE Still(s)

\* The line that was sent is the last, and once its prompt is read nothing is left.
Awaiting(t, s) ==
    /\ Len(s.inbox) <= 2
    /\ Len(s.inbox) = 1 => s.inbox[1] = LineOf(t)
    /\ Len(s.inbox) = 2 => /\ s.inbox[1].what = "greet" /\ LineOf(t).what # "greet"
                           /\ s.inbox[2] = LineOf(t)
    /\ s.inbox # << >> => /\ \A i \in 1 .. Len(s.wire) : ~Ends(s.wire[i], LineOf(t))
                          /\ \A i \in 1 .. Len(t.got) : ~Ends(t.got[i], LineOf(t))
    /\ \A i \in 1 .. Len(s.wire) : Ends(s.wire[i], LineOf(t)) => i = Len(s.wire)
    /\ (\E i \in 1 .. Len(t.got) : Ends(t.got[i], LineOf(t))) => s.wire = << >>
    /\ LineOf(t).what = "greet" =>
         \A i \in 1 .. Len(s.wire) : s.wire[i].line.what = "greet"

\* Where a caller is and what is in flight on a channel that lost no prompt.
InStep(t, s) ==
    /\ t.pc \notin Exchanging /\ ~s.closed => Still(s)
    /\ t.pc = "plan" => Still(s)
    /\ t.pc = "send" => BeforeSend(t, s)
    /\ t.pc \in {"sent", "recv"} => Awaiting(t, s)

\* All that is in flight, and all that was read, belongs to the caller's run.
Mine(t, s) ==
    /\ \A i \in 1 .. Len(s.inbox) : s.inbox[i].run = t.run
    /\ \A i \in 1 .. Len(s.wire) : s.wire[i].line.run = t.run
    /\ \A i \in 1 .. Len(t.got) : t.got[i].line.run = t.run
    /\ \A tok \in t.out : tok.line.run = t.run

\* A caller that has the channel for itself.
Fit(t, s, ch) ==
    /\ s.lost = {} => InStep(t, s)
    /\ t.op = "run" /\ t.clean => Mine(t, s)
    /\ t.pc = "recv" => t.conn = ch

Locals == \A c \in Callers : Local(th[c])

\* Callers that are active at once have spoilt every channel.
Overlap == \A c, d \in Callers :
    c # d /\ Busy(c) /\ Busy(d) => \A ch \in 1 .. opened : ses[ch].shared

InTurn == \A c \in Callers :
    Alone(c) /\ channel # 0 /\ ~ses[channel].shared => Fit(th[c], ses[channel], channel)

Opener == channel # 0 => Callers # {}

Turns == Locals /\ Overlap /\ InTurn /\ Opener

OwnInv == Typed /\ Turns /\ AnswerIsOwn

-----------------------------------------------------------------------------
(* The exchanges *)

\* The exchanges of login(), one by one.
LEMMA LoginSteps ==
    ASSUME NEW todo \in LoginTodos
    PROVE  /\ todo # << >>
           /\ Head(todo).what \in {"greet", "ps1", "ls"}
           /\ todo # LoginExchanges => Head(todo).what \in {"ps1", "ls"}
           /\ Tail(todo) # << >> =>
                /\ Tail(todo) \in LoginTodos /\ Tail(todo) # LoginExchanges
                /\ Head(Tail(todo)).what # "sh1"
           /\ Head(todo).what = "greet" =>
                /\ ~Head(todo).raise
                /\ Tail(todo) # << >> /\ Head(Tail(todo)).what = "ps1"
<1> DEFINE g == X("greet", 0, "loose", FALSE)
           p == X("ps1", 0, "strict", TRUE)
           l == X("ls", 0, "strict", TRUE)
<1>1. /\ g.what = "greet" /\ g.raise = FALSE /\ p.what = "ps1" /\ l.what = "ls"
  BY DEF X
<1>2. LoginExchanges = << g, p, l >> BY DEF LoginExchanges
<1>3. LoginTodos = { << g, p, l >>, << p, l >>, << l >> } BY <1>2 DEF LoginTodos
<1> HIDE DEF g, p, l
<1>4. CASE todo = << g, p, l >>
  <2>1. Head(todo) = g /\ Tail(todo) = << p, l >> BY <1>4
  <2>2. Head(<< p, l >>) = p /\ << p, l >> # << >> OBVIOUS
  <2>3. << p, l >> # << g, p, l >> OBVIOUS
  <2> QED BY <1>1, <1>2, <1>3, <1>4, <2>1, <2>2, <2>3
<1>5. CASE todo = << p, l >>
  <2>1. Head(todo) = p /\ Tail(todo) = << l >> BY <1>5
  <2>2. Head(<< l >>) = l /\ << l >> # << >> OBVIOUS
  <2>3. << p, l >> # << g, p, l >> /\ << l >> # << g, p, l >> OBVIOUS
  <2> QED BY <1>1, <1>2, <1>3, <1>5, <2>1, <2>2, <2>3
<1>6. CASE todo = << l >>
  <2>1. Head(todo) = l /\ Tail(todo) = << >> BY <1>6
  <2>3. << l >> # << g, p, l >> /\ << l >> # << >> OBVIOUS
  <2> QED BY <1>1, <1>2, <1>6, <2>1, <2>3
<1> QED BY <1>3, <1>4, <1>5, <1>6

\* run() sends none of login()'s lines.
LEMMA RunSteps ==
    ASSUME NEW op \in OpNames \cup {"echo", "none"}, NEW p \in PlanType, NEW nrm \in BOOLEAN
    PROVE  NotLogin(RunExchanges(op, p, nrm))
<1> DEFINE base == IF nrm THEN "strict" ELSE "loose"
           pat  == IF p.custom THEN "loose" ELSE base
           kind == IF op \in {"probe", "echo"} THEN op ELSE "cmd"
           Es == {x \in Exchange : x.what \notin {"greet", "ps1"}}
           a == IF p.cd THEN << X("cd", 0, pat, FALSE) >> ELSE << >>
           b == [i \in 1 .. p.inputs + 1 |-> X(kind, i - 1, pat, p.raise)]
           d == IF p.shnormal
                THEN << X("sh1", 0, "strict", TRUE), X("sh2", 0, "strict", TRUE) >>
                ELSE << >>
           e == IF p.code THEN << X("status", 0, base, TRUE) >> ELSE << >>
<1>0. p.inputs \in Nat /\ p.raise \in BOOLEAN BY DEF PlanType
<1>x. ASSUME NEW what \in Purposes \ {"greet", "ps1"}, NEW k \in Nat,
             NEW q \in {"strict", "loose"}, NEW r \in BOOLEAN
      PROVE  X(what, k, q, r) \in Es
  <2>1. X(what, k, q, r) \in Exchange BY XType
  <2> QED BY <2>1 DEF X
<1> HIDE DEF Es
<1>1. a \in Seq(Es)
  <2>1. X("cd", 0, pat, FALSE) \in Es BY <1>x DEF Purposes
  <2> QED BY <2>1, SeqOf1, EmptySeqType
<1>2. b \in Seq(Es)
  <2>1. \A i \in 1 .. p.inputs + 1 : X(kind, i - 1, pat, p.raise) \in Es
    BY <1>0, <1>x DEF Purposes
  <2>2. b \in [1 .. p.inputs + 1 -> Es] BY <2>1
  <2> HIDE DEF b
  <2> QED BY <2>2, <1>0
<1>3. d \in Seq(Es)
  <2>1. X("sh1", 0, "strict", TRUE) \in Es /\ X("sh2", 0, "strict", TRUE) \in Es
    BY <1>x DEF Purposes
  <2> QED BY <2>1, SeqOf2, EmptySeqType
<1>4. e \in Seq(Es)
  <2>1. X("status", 0, base, TRUE) \in Es BY <1>x DEF Purposes
  <2> QED BY <2>1, SeqOf1, EmptySeqType
<1>5. RunExchanges(op, p, nrm) = a \o b \o d \o e BY DEF RunExchanges
<1> HIDE DEF a, b, d, e
<1>6. a \o b \o d \o e \in Seq(Es) BY <1>1, <1>2, <1>3, <1>4, CatType
<1>7. \A s \in Seq(Es) : NotLogin(s) BY DEF Es, NotLogin
<1> QED BY <1>5, <1>6, <1>7

\* Nor does what remains of them, an interrupt included.
LEMMA RestSteps ==
    ASSUME NEW todo \in Seq(Exchange), todo # << >>, NotLogin(todo), NEW m \in BOOLEAN
    PROVE  /\ NotLogin(Tail(todo))
           /\ NotLogin(Remaining(todo, m))
           /\ \A x \in Exchange : NotLogin(<< X("intr", x.k, x.pat, TRUE) >> \o Remaining(todo, m))
<1>1. Tail(todo) \in Seq(Exchange) /\ NotLogin(Tail(todo)) BY DEF NotLogin
<1>2. ASSUME NEW s \in Seq(Exchange), NotLogin(s) PROVE NotLogin(SubSeq(s, 3, Len(s)))
  BY <1>2 DEF NotLogin
<1>3. NotLogin(Remaining(todo, m)) BY <1>1, <1>2 DEF Remaining
<1>4. Remaining(todo, m) \in Seq(Exchange) BY RemainingType
<1>5. ASSUME NEW x \in Exchange
      PROVE  NotLogin(<< X("intr", x.k, x.pat, TRUE) >> \o Remaining(todo, m))
  <2> DEFINE y == X("intr", x.k, x.pat, TRUE)
  <2>1. y.what = "intr" BY DEF X
  <2>2. y \in Exchange
    <3>1. x.k \in Nat /\ x.pat \in {"strict", "loose"} BY DEF Exchange
    <3> QED BY <3>1, XType DEF Purposes
  <2> HIDE DEF y
  <2>3. ASSUME NEW s \in Seq(Exchange), NotLogin(s) PROVE NotLogin(<< y >> \o s)
    <3> DEFINE r == << y >> \o s
    <3>1. Len(r) = 1 + Len(s) /\ r[1] = y /\ \A i \in 2 .. Len(r) : r[i] = s[i - 1]
      BY <2>2
    <3> HIDE DEF r
    <3>2. \A i \in 1 .. Len(r) : r[i].what \notin {"greet", "ps1"}
      <4> TAKE i \in 1 .. Len(r)
      <4>1. Len(s) \in Nat OBVIOUS
      <4>2. CASE i = 1 BY <4>2, <3>1, <2>1
      <4>3. CASE i # 1
        <5>1. i - 1 \in 1 .. Len(s) /\ r[i] = s[i - 1] BY <3>1, <4>1, <4>3
        <5> QED BY <5>1, <2>3 DEF NotLogin
      <4> QED BY <4>2, <4>3
    <3> QED BY <3>2 DEF NotLogin, r
  <2> QED BY <1>3, <1>4, <2>3 DEF y
<1> QED BY <1>1, <1>3, <1>5

-----------------------------------------------------------------------------
(* Ending an exchange *)

\* What exec_command() leaves as it was.
LEMMA AbsorbKeeps ==
    ASSUME NEW t \in Thread, NEW m \in BOOLEAN
    PROVE  LET u == Absorb(t, m)
               x == Head(t.todo)
           IN /\ u.pc = t.pc /\ u.op = t.op /\ u.run = t.run /\ u.login = t.login
              /\ u.clean = t.clean /\ u.got = << >> /\ u.plan = t.plan
              /\ u.todo = IF Interrupted(t, x, m)
                          THEN << X("intr", x.k, x.pat, TRUE) >> \o Remaining(t.todo, m)
                          ELSE Remaining(t.todo, m)
              /\ u.out = IF x.what \in Commands
                         THEN t.out \cup {t.got[i] : i \in DOMAIN t.got} ELSE t.out
BY DEF Absorb, Thread

\* Before or after an exchange of login(), or after one of run().
Between(t) ==
    /\ t.got = << >>
    /\ t.login => t.todo = << >> \/ (t.todo \in LoginTodos /\ t.todo # LoginExchanges)
    /\ ~t.login => NotLogin(t.todo)
    /\ t.op = "run" /\ t.login => t.out = {} /\ ~t.clean

\* exec_command() has returned: login() and run() go on with their own lines.
LEMMA AbsorbBetween ==
    ASSUME NEW t \in Thread, t.todo # << >>, NEW m \in BOOLEAN,
           t.login => t.todo \in LoginTodos,
           ~t.login => NotLogin(t.todo),
           t.op = "run" /\ t.login => t.out = {} /\ ~t.clean
    PROVE  /\ Between(Absorb(t, m))
           /\ t.login => Absorb(t, m).todo = Tail(t.todo)
<1> DEFINE u == Absorb(t, m)
           x == Head(t.todo)
<1>1. t.todo \in Seq(Exchange) /\ x \in Exchange BY DEF Thread
<1>4. /\ u.got = << >> /\ u.login = t.login /\ u.op = t.op /\ u.clean = t.clean
      /\ x.what \notin Commands => u.out = t.out
  BY AbsorbKeeps
<1>2. CASE t.login
  <2>1. x.what \in {"greet", "ps1", "ls"} BY <1>2, LoginSteps
  <2>2. x.what \notin Commands BY <2>1 DEF Commands
  <2>3. Remaining(t.todo, m) = Tail(t.todo) BY <1>2, LoginSteps DEF Remaining
  <2>4. u.todo = Tail(t.todo) /\ u.out = t.out
    BY <2>2, <2>3, AbsorbKeeps DEF Interrupted
  <2>5. Tail(t.todo) = << >> \/ (Tail(t.todo) \in LoginTodos /\ Tail(t.todo) # LoginExchanges)
    BY <1>2, LoginSteps
  <2>6. Between(u)
    <3> HIDE DEF u
    <3> QED BY <1>2, <1>4, <2>4, <2>5 DEF Between
  <2> QED BY <1>2, <2>4, <2>6
<1>3. CASE ~t.login
  <2>1. NotLogin(u.todo) BY <1>1, <1>3, RestSteps, AbsorbKeeps
  <2>2. Between(u)
    <3> HIDE DEF u
    <3> QED BY <1>3, <1>4, <2>1 DEF Between
  <2> QED BY <1>3, <2>2
<1> QED BY <1>2, <1>3

\* A caller whose run() has returned: idle, or between the steps of the probe.
Ended(u) == u.pc \in {"idle", "check", "verdict"} /\ u.op # "run" /\ Local(u)

Moves(c, u) == th' = [th EXCEPT ![c] = u]

\* Nothing is said of an operation that failed, of another operation, or of a run
\* whose channel was disturbed or shared.
Owned(t) ==
    t.op = "run" /\ t.clean /\ channel # 0 /\ ~ses[channel].shared =>
        \A tok \in t.out : tok.line.run = t.run

\* An idle caller.
LEMMA IdleEnded == Ended(Idle)
BY DEF Ended, Idle, Local, Exchanging

\* The operation ends with what was read.
LEMMA FinishOwn ==
    ASSUME Typed, AnswerIsOwn, NEW c \in Callers, NEW t \in Thread, NEW kind,
           kind = "done" => Owned(t), Finish(c, t, kind)
    PROVE  Moves(c, Idle) /\ AnswerIsOwn'
<1> DEFINE r == [kind |-> kind, op |-> t.op, run |-> t.run, plan |-> t.plan,
                 out |-> t.out, rc |-> t.rc, good |-> t.good,
                 clean |-> t.clean /\ channel # 0 /\ ~ses[channel].shared]
<1>1. res' = [res EXCEPT ![c] = r] BY DEF Finish
<1>2. res \in [Callers -> Result] BY DEF Typed, CallsOK
<1>3. r.kind = "done" /\ r.op = "run" /\ r.clean => \A tok \in r.out : tok.line.run = r.run
  BY DEF Owned
<1> HIDE DEF r
<1>4. ASSUME NEW d \in Callers,
             res'[d].kind = "done" /\ res'[d].op = "run" /\ res'[d].clean
      PROVE  \A tok \in res'[d].out : tok.line.run = res'[d].run
  <2>1. CASE d = c BY <1>1, <1>2, <1>3, <1>4, <2>1
  <2>2. CASE d # c
    <3>1. res'[d] = res[d] BY <1>1, <1>2, <2>2
    <3> QED BY <1>4, <3>1 DEF AnswerIsOwn, Answered
  <2> QED BY <2>1, <2>2
<1>5. AnswerIsOwn' BY <1>4 DEF AnswerIsOwn, Answered
<1> QED BY <1>5 DEF Finish, Moves

\* A step that gives no result.
LEMMA SameResults == ASSUME AnswerIsOwn, res' = res PROVE AnswerIsOwn'
BY DEF AnswerIsOwn, Answered

\* run() returns into the test, into basic.run or into the probe.
LEMMA ReturnedOwn ==
    ASSUME Typed, AnswerIsOwn, NEW c \in Callers, NEW t \in Thread, NEW kind,
           kind = "done" => Owned(t), t.got = << >>, Returned(c, t, kind)
    PROVE  \E u : Ended(u) /\ Moves(c, u) /\ AnswerIsOwn'
<1>1. CASE t.op = "probe"
  <2> DEFINE u == [t EXCEPT !.pc = "check", !.op = "echo", !.login = FALSE,
                            !.intact = @ /\ kind = "done"]
  <2>1. Moves(c, u) /\ res' = res BY <1>1 DEF Returned, Moves
  <2>2. u.pc = "check" /\ u.op = "echo" /\ u.got = << >> /\ u.login = FALSE BY DEF Thread
  <2> HIDE DEF u
  <2>3. Ended(u) BY <2>2 DEF Ended, Local, Exchanging
  <2> QED BY <2>1, <2>3, SameResults
<1>2. CASE t.op = "echo"
  <2> DEFINE u == [t EXCEPT !.pc = "verdict", !.login = FALSE]
  <2>1. Moves(c, u) /\ res' = res BY <1>2 DEF Returned, Moves
  <2>2. u.pc = "verdict" /\ u.op = "echo" /\ u.got = << >> /\ u.login = FALSE
    BY <1>2 DEF Thread
  <2> HIDE DEF u
  <2>3. Ended(u) BY <2>2 DEF Ended, Local, Exchanging
  <2> QED BY <2>1, <2>3, SameResults
<1>3. CASE t.op \notin {"probe", "echo"}
  <2>1. Finish(c, t, kind) BY <1>3 DEF Returned
  <2> QED BY <2>1, FinishOwn, IdleEnded
<1> QED BY <1>1, <1>2, <1>3

\* An exception is no answer.
LEMMA RaisedOwn ==
    ASSUME Typed, AnswerIsOwn, NEW c \in Callers, Raised(c)
    PROVE  \E u : Ended(u) /\ Moves(c, u) /\ AnswerIsOwn'
<1>0. th[c] \in Thread BY DEF Typed, CallsOK
<1>1. CASE th[c].login /\ th[c].op # "reconnect"
  <2> DEFINE xs == << >>
             ts == << >>
             u == [th[c] EXCEPT !.todo = xs, !.got = ts, !.conn = 0]
  <2>1. Returned(c, u, "failed") BY <1>1 DEF Raised
  <2>2. xs \in Seq(Exchange) /\ ts \in Seq(Token) BY EmptySeqType
  <2>3. ts = << >> OBVIOUS
  <2> HIDE DEF xs, ts
  <2>4. u \in Thread /\ u.got = ts BY <1>0, <2>2 DEF Thread
  <2> HIDE DEF u
  <2> QED BY <2>1, <2>3, <2>4, ReturnedOwn
<1>2. CASE ~(th[c].login /\ th[c].op # "reconnect")
  <2>1. Finish(c, th[c], "raised") BY <1>2 DEF Raised
  <2> QED BY <1>0, <2>1, FinishOwn, IdleEnded
<1> QED BY <1>1, <1>2

\* Where a caller is after an exchange: at the next one, or past the last.
After(t, u) ==
    \/ t.todo = << >> /\ (Ended(u) \/ (u.pc = "plan" /\ (u.op = "run" => ~u.clean)))
    \/ t.todo # << >> /\ u = [t EXCEPT !.pc = "send"]

\* It is at one of the two.
LEMMA ContinueOwn ==
    ASSUME Typed, AnswerIsOwn, NEW c \in Callers, NEW t \in Thread, Between(t),
           ~t.login => Owned(t), Continue(c, t)
    PROVE  \E u : Moves(c, u) /\ AnswerIsOwn' /\ Local(u) /\ After(t, u)
<1>1. CASE t.todo # << >>
  <2> DEFINE u == [t EXCEPT !.pc = "send"]
  <2>1. Moves(c, u) /\ res' = res BY <1>1 DEF Continue, Moves
  <2>2. /\ u.pc = "send" /\ u.todo = t.todo /\ u.got = << >> /\ u.login = t.login
        /\ u.op = t.op /\ u.out = t.out /\ u.clean = t.clean
    BY DEF Thread, Between
  <2>3. Local(u)
    <3> HIDE DEF u
    <3> QED BY <1>1, <2>2 DEF Local, Between, Exchanging
  <2> QED BY <1>1, <2>1, <2>3, SameResults DEF After
<1>2. CASE t.todo = << >> /\ t.login
  <2>1. CASE t.op \in {"reconnect", "sftp"}
    <3>1. Finish(c, t, "done") BY <1>2, <2>1 DEF Continue
    <3>2. Owned(t) BY <2>1 DEF Owned
    <3> QED BY <1>2, <3>1, <3>2, FinishOwn, IdleEnded DEF Ended, After
  <2>2. CASE t.op \notin {"reconnect", "sftp"}
    <3> DEFINE u == [t EXCEPT !.pc = "plan", !.login = FALSE]
    <3>1. Moves(c, u) /\ res' = res BY <1>2, <2>2 DEF Continue, Moves
    <3>2. /\ u.pc = "plan" /\ u.login = FALSE /\ u.got = << >> /\ u.op = t.op
          /\ u.out = t.out /\ u.clean = t.clean
      BY DEF Thread, Between
    <3> HIDE DEF u
    <3>3. Local(u) /\ (u.op = "run" => ~u.clean)
      BY <1>2, <3>2 DEF Local, Between, Exchanging
    <3> QED BY <1>2, <3>1, <3>2, <3>3, SameResults DEF After
  <2> QED BY <2>1, <2>2
<1>3. CASE t.todo = << >> /\ ~t.login
  <2>1. Returned(c, t, "done") BY <1>3 DEF Continue
  <2> QED BY <1>3, <2>1, ReturnedOwn DEF Between, Ended, After
<1> QED BY <1>1, <1>2, <1>3 DEF Thread

-----------------------------------------------------------------------------
(* One caller at a time *)

\* A busy caller on a channel that is not shared is alone and in step with it.
LEMMA Now ==
    ASSUME OwnInv, NEW c \in Callers, Busy(c), channel # 0, ~ses[channel].shared
    PROVE  Alone(c) /\ Fit(th[c], ses[channel], channel)
<1>1. channel \in 1 .. opened BY DEF OwnInv, Typed
<1>2. Alone(c) BY <1>1 DEF OwnInv, Turns, Overlap, Alone
<1> QED BY <1>2 DEF OwnInv, Turns, InTurn

\* The part of Fit that does not depend on being in recv(), for a caller between
\* its operations.
LEMMA FitEnded ==
    ASSUME NEW u, u.pc \notin Exchanging, u.op = "run" => ~u.clean, NEW s, NEW ch,
           s.lost = {} => (~s.closed \/ u.pc = "plan" => Still(s))
    PROVE  Fit(u, s, ch)
BY DEF Fit, InStep, Exchanging

\* What a step of a caller has to establish: that it is still in step with the
\* channel if it is alone, and that shared channels stay shared.
LEMMA Frame ==
    ASSUME OwnInv, Typed', NEW c \in Callers, Busy(c), NEW u, Moves(c, u), Local(u),
           opened' \in {opened, opened + 1},
           \A ch \in 1 .. opened : ses[ch].shared => ses'[ch].shared,
           opened' # opened /\ ~Alone(c) => ses'[opened'].shared,
           Alone(c) /\ channel' # 0 /\ ~ses'[channel'].shared
               => Fit(u, ses'[channel'], channel')
    PROVE  Turns'
<1>0. th \in [Callers -> Thread] /\ opened \in Nat /\ opened' \in Nat
  BY DEF OwnInv, Typed, CallsOK
<1>1. th'[c] = u /\ \A d \in Callers \ {c} : th'[d] = th[d] BY <1>0 DEF Moves
<1>2. Locals' BY <1>1 DEF Locals, OwnInv, Turns
<1>3. ASSUME NEW d \in Callers, d # c, Busy(d)
      PROVE  \A ch \in 1 .. opened' : ses'[ch].shared
  <2>1. \A ch \in 1 .. opened : ses[ch].shared
    BY <1>3 DEF OwnInv, Turns, Overlap
  <2>2. ~Alone(c) BY <1>3 DEF Alone
  <2> QED BY <1>0, <2>1, <2>2
<1>4. Overlap'
  <2> SUFFICES ASSUME NEW d \in Callers, NEW e \in Callers, d # e, Busy(d)', Busy(e)'
               PROVE  (\A ch \in 1 .. opened : ses[ch].shared)'
    BY DEF Overlap
  <2>1. \E x \in {d, e} : x # c /\ Busy(x) BY <1>1 DEF Busy
  <2> QED BY <2>1, <1>3
<1>5. InTurn'
  <2> SUFFICES ASSUME NEW d \in Callers, Alone(d)', channel' # 0, ~ses'[channel'].shared
               PROVE  Fit(th'[d], ses'[channel'], channel')
    BY DEF InTurn
  <2>0. channel' \in 1 .. opened' BY <1>0 DEF Typed
  <2>1. CASE d = c
    <3>1. Alone(c) BY <1>1, <2>1 DEF Alone, Busy
    <3> QED BY <1>1, <2>1, <3>1
  <2>2. CASE d # c
    <3>1. ~Busy(d) BY <1>3, <2>0, <2>2
    <3>2. Alone(c)
      <4> SUFFICES ASSUME NEW e \in Callers \ {c} PROVE ~Busy(e) BY DEF Alone
      <4>1. CASE e = d BY <3>1, <4>1
      <4>2. CASE e # d BY <1>1, <4>2 DEF Alone, Busy
      <4> QED BY <4>1, <4>2
    <3>3. u.pc = "idle" BY <1>1, <2>2 DEF Alone, Busy
    <3>4. u = Idle BY <3>3 DEF Local
    <3>5. th[d] = Idle BY <3>1 DEF OwnInv, Turns, Locals, Local, Busy
    <3> QED BY <1>1, <2>2, <3>2, <3>4, <3>5
  <2> QED BY <2>1, <2>2
<1>6. Opener' BY DEF Opener
<1> QED BY <1>2, <1>4, <1>5, <1>6 DEF Turns

\* A step that ends in a channel that is as it was, or is shut.
LEMMA FrameEnded ==
    ASSUME OwnInv, Typed', NEW c \in Callers, Busy(c), NEW u, Ended(u), Moves(c, u),
           opened' = opened, channel' = channel, AnswerIsOwn',
           \A ch \in 1 .. opened : ses[ch].shared => ses'[ch].shared,
           channel # 0 /\ ~ses'[channel].shared /\ ses'[channel].lost = {}
               => ses'[channel].closed \/ Still(ses'[channel])
    PROVE  Turns' /\ AnswerIsOwn'
<1>1. Local(u) /\ u.pc \notin Exchanging /\ u.pc # "plan" /\ u.op # "run"
  BY DEF Ended, Exchanging
<1>2. channel # 0 /\ ~ses'[channel].shared => Fit(u, ses'[channel], channel)
  BY <1>1, FitEnded
<1>3. opened \in Nat BY DEF OwnInv, Typed
<1> QED BY <1>1, <1>2, <1>3, Frame

-----------------------------------------------------------------------------
(* Logging in *)

\* Closing every channel unshares none.
LEMMA ShutAll ==
    ASSUME Typed, ses' = [ch \in DOMAIN ses |-> Shut(ses[ch])]
    PROVE  \A ch \in 1 .. MaxChans : ses'[ch].closed /\ ses'[ch].shared = ses[ch].shared
BY DEF Typed, Session, Shut

\* run() begins where nothing is in flight.
LEMMA CheckTurns ==
    ASSUME OwnInv, NEW c \in Callers, Check(c) PROVE Turns' /\ AnswerIsOwn'
<1>0. Typed /\ Typed' /\ AnswerIsOwn /\ opened \in Nat
  BY ConnectTyped DEF OwnInv, Typed
<1> DEFINE t == th[c]
           u == [t EXCEPT !.pc = IF Active THEN "plan" ELSE "connect", !.login = ~Active]
<1>1. t \in Thread /\ Local(t) BY DEF OwnInv, Turns, Locals, Typed, CallsOK
<1>2. Moves(c, u) /\ Busy(c) /\ t.pc = "check" /\ UNCHANGED <<channel, ses, opened, res>>
  BY <1>0 DEF Check, Moves, Busy, adapter, Typed, CallsOK
<1>3. /\ u.pc = IF Active THEN "plan" ELSE "connect"
      /\ u.login = ~Active /\ u.got = t.got /\ u.op = t.op /\ u.out = t.out
      /\ u.clean = t.clean
  BY <1>1 DEF Thread
<1> HIDE DEF u
<1>4. Local(u) /\ (u.op = "run" => ~u.clean) /\ u.pc \notin Exchanging
  BY <1>1, <1>2, <1>3 DEF Local, Exchanging
<1>5. channel # 0 /\ ~ses[channel].shared => Fit(u, ses[channel], channel)
  <2> SUFFICES ASSUME channel # 0, ~ses[channel].shared
               PROVE  ses[channel].lost = {} =>
                        (~ses[channel].closed \/ u.pc = "plan" => Still(ses[channel]))
    BY <1>4, FitEnded
  <2>1. ses[channel].lost = {} => InStep(t, ses[channel]) BY <1>2, Now DEF Fit
  <2> QED BY <1>2, <1>3, <2>1 DEF InStep, Exchanging, Active
<1>6. AnswerIsOwn' BY <1>0, <1>2, SameResults
<1> QED BY <1>0, <1>2, <1>4, <1>5, <1>6, Frame

\* A run is clean if its channel lost nothing: then nothing is in flight.
LEMMA MakePlanTurns ==
    ASSUME OwnInv, NEW c \in Callers, MakePlan(c) PROVE Turns' /\ AnswerIsOwn'
<1>0. Typed /\ Typed' /\ AnswerIsOwn /\ opened \in Nat /\ normal \in BOOLEAN
  BY ConnectTyped DEF OwnInv, Typed
<1> DEFINE t == th[c]
           todo == RunExchanges(t.op, t.plan, normal)
           clean == CASE t.op = "run" -> Fresh({})
                      [] t.op = "probe" -> Fresh(RunPurposes)
                      [] OTHER -> t.clean
           u == [t EXCEPT !.pc = "send", !.todo = todo, !.good = TRUE, !.clean = clean]
<1>1. t \in Thread /\ Local(t) BY DEF OwnInv, Turns, Locals, Typed, CallsOK
<1>2. Moves(c, u) /\ Busy(c) /\ t.pc = "plan" /\ UNCHANGED <<channel, ses, opened, res>>
  BY <1>0, <1>1 DEF MakePlan, Moves, Busy, Thread
<1>3. todo \in Seq(Exchange) /\ todo # << >> /\ NotLogin(todo)
  BY <1>0, <1>1, RunExchangesType, RunSteps DEF Thread
<1>4. t.op = "run" => clean = Fresh({}) OBVIOUS
<1> HIDE DEF todo, clean
<1>5. /\ u.pc = "send" /\ u.todo = todo /\ u.clean = clean /\ u.login = t.login
      /\ u.got = t.got /\ u.op = t.op /\ u.out = t.out /\ u.run = t.run
  BY <1>1 DEF Thread
<1> HIDE DEF u
<1>6. u.got = << >> /\ ~u.login BY <1>1, <1>2, <1>5 DEF Local
<1>7. Local(u) BY <1>3, <1>5, <1>6 DEF Local, Exchanging
<1>8. ASSUME channel # 0, ~ses[channel].shared PROVE Fit(u, ses[channel], channel)
  <2>1. ses[channel].lost = {} => Still(ses[channel])
    BY <1>2, <1>8, Now DEF Fit, InStep
  <2>2. ses[channel].lost = {} => InStep(u, ses[channel])
    <3>1. Head(todo).what # "ps1" BY <1>3 DEF NotLogin
    <3> QED BY <1>5, <2>1, <3>1 DEF InStep, Exchanging, BeforeSend
  <2>3. u.op = "run" /\ u.clean => Mine(u, ses[channel])
    <3> SUFFICES ASSUME t.op = "run", clean PROVE Mine(u, ses[channel]) BY <1>5
    <3>1. ses[channel].lost = {} BY <1>4 DEF Fresh
    <3>2. t.out = {} BY <1>1, <1>2 DEF Local, Exchanging
    <3>3. Still(ses[channel]) BY <2>1, <3>1
    <3> QED BY <1>5, <1>6, <3>2, <3>3 DEF Mine, Still
  <2> QED BY <1>5, <2>2, <2>3 DEF Fit
<1>9. AnswerIsOwn' BY <1>0, <1>2, SameResults
<1> QED BY <1>0, <1>2, <1>7, <1>8, <1>9, Frame

\* Connecting leaves the channel, or closes it.
LEMMA ConnectTurns ==
    ASSUME OwnInv, NEW c \in Callers, Connect(c) \/ ConnectRaises(c)
    PROVE  Turns' /\ AnswerIsOwn'
<1>0. Typed /\ Typed' /\ AnswerIsOwn /\ opened \in Nat
  BY ConnectTyped DEF OwnInv, Typed
<1> DEFINE t == th[c]
           pc == IF Connect(c) THEN "open" ELSE "retry"
           u == [t EXCEPT !.pc = pc]
<1>1. t \in Thread /\ Local(t) BY DEF OwnInv, Turns, Locals, Typed, CallsOK
<1>2. /\ Moves(c, u) /\ Busy(c) /\ t.pc \in {"connect", "retry"} /\ UNCHANGED <<opened, res>>
      /\ \/ UNCHANGED <<channel, ses>>
         \/ channel' = 0 /\ ses' = [ch \in DOMAIN ses |-> Shut(ses[ch])]
  BY <1>0 DEF Connect, ConnectRaises, Moves, Busy
<1>3. pc \in {"open", "retry"} OBVIOUS
<1> HIDE DEF pc
<1>4. u.pc = pc /\ u.login = t.login /\ u.got = t.got /\ u.op = t.op /\ u.out = t.out
      /\ u.clean = t.clean
  BY <1>1 DEF Thread
<1> HIDE DEF u
<1>5. Local(u) /\ (u.op = "run" => ~u.clean) /\ u.pc \notin Exchanging /\ u.pc # "plan"
  BY <1>1, <1>2, <1>3, <1>4 DEF Local, Exchanging
<1>6. ASSUME channel' # 0, ~ses'[channel'].shared PROVE Fit(u, ses'[channel'], channel')
  <2>1. UNCHANGED <<channel, ses>> BY <1>2, <1>6
  <2>2. ses[channel].lost = {} => InStep(t, ses[channel]) BY <1>2, <1>6, <2>1, Now DEF Fit
  <2>3. ses[channel].lost = {} => (~ses[channel].closed => Still(ses[channel]))
    BY <1>2, <2>2 DEF InStep, Exchanging
  <2> QED BY <1>5, <2>1, <2>3, FitEnded
<1>7. \A ch \in 1 .. opened : ses[ch].shared => ses'[ch].shared
  <2>1. 1 .. opened \subseteq 1 .. MaxChans BY ShellAssumption DEF OwnInv, Typed
  <2> QED BY <1>0, <1>2, <2>1, ShutAll
<1>8. AnswerIsOwn' BY <1>0, <1>2, SameResults
<1> QED BY <1>0, <1>2, <1>5, <1>6, <1>7, <1>8, Frame

\* Giving up the connection.
LEMMA ConnectFailsTurns ==
    ASSUME OwnInv, NEW c \in Callers, RetryRaises(c) \/ OpenFails(c)
    PROVE  Turns' /\ AnswerIsOwn'
<1>0. Typed /\ Typed' /\ AnswerIsOwn /\ Busy(c) /\ th[c].pc \in {"retry", "open"}
  BY ConnectTyped DEF OwnInv, RetryRaises, OpenFails, Busy
<1>1. Raised(c) /\ UNCHANGED <<channel, ses, opened>>
  BY DEF RetryRaises, OpenFails, adapter
<1>2. PICK u : Ended(u) /\ Moves(c, u) /\ AnswerIsOwn' BY <1>0, <1>1, RaisedOwn
<1>3. channel # 0 /\ ~ses[channel].shared /\ ses[channel].lost = {}
        => ses[channel].closed \/ Still(ses[channel])
  BY <1>0, Now DEF Fit, InStep, Exchanging
<1> QED BY <1>0, <1>1, <1>2, <1>3, FrameEnded

\* A new channel has the greeting in flight, and the caller waits for it.
LEMMA OpenTurns ==
    ASSUME OwnInv, NEW c \in Callers, OpenSession(c) PROVE Turns' /\ AnswerIsOwn'
<1>0. Typed /\ Typed' /\ AnswerIsOwn /\ opened \in Nat
  BY ConnectTyped DEF OwnInv, Typed
<1> DEFINE t == th[c]
           n == opened + 1
           greet == [run |-> t.run, what |-> "greet", k |-> 0]
           in == << greet >>
           out == << >>
           todo == LoginExchanges
           s == [closed |-> FALSE, inbox |-> in, wire |-> out, spoke |-> FALSE,
                 prev |-> NoLine, named |-> FALSE, lost |-> {}, shared |-> ~Alone(c)]
           u == [t EXCEPT !.pc = "sent", !.todo = todo]
<1>1. t \in Thread /\ Local(t) BY DEF OwnInv, Turns, Locals, Typed, CallsOK
<1>2. /\ Moves(c, u) /\ Busy(c) /\ t.pc = "open" /\ res' = res
      /\ opened' = n /\ channel' = n /\ ses' = [ses EXCEPT ![n] = s] /\ opened < MaxChans
  BY DEF OpenSession, Moves, Busy
<1>3. ses'[n] = s /\ \A ch \in 1 .. opened : ses'[ch] = ses[ch]
  <2>1. n \in 1 .. MaxChans /\ \A ch \in 1 .. opened : ch \in 1 .. MaxChans /\ ch # n
    BY <1>0, <1>2, ShellAssumption
  <2>2. ses \in [1 .. MaxChans -> Session] BY <1>0 DEF Typed
  <2> HIDE DEF s, n
  <2> QED BY <1>2, <2>1, <2>2
<1>4. todo \in LoginTodos /\ todo # << >> /\ Head(todo) = X("greet", 0, "loose", FALSE)
  BY DEF LoginTodos, LoginExchanges
<1>5. Len(in) = 1 /\ in[1] = greet /\ Len(out) = 0 OBVIOUS
<1>6. s.inbox = in /\ s.wire = out /\ s.shared = ~Alone(c) OBVIOUS
<1> HIDE DEF s, in, out, todo
<1>7. /\ u.pc = "sent" /\ u.todo = todo /\ u.clean = t.clean /\ u.login = t.login
      /\ u.got = t.got /\ u.op = t.op /\ u.out = t.out /\ u.run = t.run
  BY <1>1 DEF Thread
<1> HIDE DEF u
<1>8. u.got = << >> /\ Len(u.got) = 0 /\ u.login /\ (u.op = "run" => u.out = {} /\ ~u.clean)
  BY <1>1, <1>2, <1>7 DEF Local, Exchanging
<1>9. Local(u) BY <1>4, <1>7, <1>8 DEF Local, Exchanging
<1>10. LineOf(u) = greet BY <1>4, <1>7 DEF LineOf, X
<1>11. Awaiting(u, s)
  <2>1. \A i \in 1 .. Len(u.got) : FALSE BY <1>8
  <2>2. \A i \in 1 .. Len(s.wire) : FALSE BY <1>5, <1>6
  <2>3. Len(s.inbox) = 1 /\ s.inbox[1] = LineOf(u) BY <1>5, <1>6, <1>10
  <2> QED BY <2>1, <2>2, <2>3 DEF Awaiting
<1>12. Fit(u, s, n) BY <1>7, <1>8, <1>11 DEF Fit, InStep, Exchanging
<1>13. AnswerIsOwn' BY <1>0, <1>2, SameResults
<1>14. /\ opened' \in {opened, opened + 1}
       /\ \A ch \in 1 .. opened : ses[ch].shared => ses'[ch].shared
       /\ opened' # opened /\ ~Alone(c) => ses'[opened'].shared
       /\ Alone(c) /\ channel' # 0 /\ ~ses'[channel'].shared
            => Fit(u, ses'[channel'], channel')
  BY <1>2, <1>3, <1>6, <1>12
<1> QED BY <1>0, <1>2, <1>9, <1>13, <1>14, Frame

-----------------------------------------------------------------------------
(* exec_command() *)

\* Emptying the receive buffer puts the channel in step when nothing is awaited.
LEMMA DrainTurns ==
    ASSUME OwnInv, NEW c \in Callers, Drain(c) PROVE Turns' /\ AnswerIsOwn'
<1>0. Typed /\ Typed' /\ AnswerIsOwn /\ opened \in Nat
  BY SendTyped DEF OwnInv, Typed
<1> DEFINE t == th[c]
           s == ses[channel]
           e == << >>
           lost == IF s.inbox = << >> THEN {} ELSE s.lost
           r == [s EXCEPT !.wire = e, !.lost = lost]
<1>1. t \in Thread /\ Local(t) /\ th \in [Callers -> Thread]
  BY DEF OwnInv, Turns, Locals, Typed, CallsOK
<1>2. /\ Busy(c) /\ t.pc = "send" /\ UNCHANGED <<channel, opened, th, res>> /\ channel # 0
  BY DEF Drain, Busy
<1>3. channel \in 1 .. MaxChans /\ s \in Session BY <1>0, <1>2, ShellAssumption DEF Typed
<1>4. /\ ses'[channel] = r
      /\ \A ch \in 1 .. MaxChans : ses'[ch].shared = ses[ch].shared
  BY <1>0, <1>3 DEF Drain, Typed, Session
<1>5. /\ r.wire = << >> /\ r.inbox = s.inbox /\ r.closed = s.closed
      /\ r.lost = lost /\ r.shared = s.shared
  BY <1>3 DEF Session
<1>6. Moves(c, t) BY <1>1, <1>2 DEF Moves
<1> HIDE DEF r
<1>7. ASSUME ~ses'[channel].shared PROVE Fit(t, ses'[channel], channel)
  <2>1. Fit(t, s, channel) BY <1>2, <1>4, <1>5, <1>7, Now
  <2>2. r.lost = {} => BeforeSend(t, r)
    BY <1>2, <1>5, <2>1 DEF Fit, InStep, BeforeSend, Still
  <2>3. Mine(t, s) => Mine(t, r) BY <1>5 DEF Mine
  <2> QED BY <1>2, <1>4, <1>5, <2>1, <2>2, <2>3 DEF Fit, InStep, Exchanging
<1>8. AnswerIsOwn' BY <1>0, <1>2, SameResults
<1>9. \A ch \in 1 .. opened : ses[ch].shared => ses'[ch].shared
  BY <1>0, <1>4, ShellAssumption DEF Typed
<1> QED BY <1>0, <1>1, <1>2, <1>6, <1>7, <1>8, <1>9, Frame

\* The line that is sent is the only one, but for the greeting.
LEMMA SendTurns ==
    ASSUME OwnInv, NEW c \in Callers, Send(c) PROVE Turns' /\ AnswerIsOwn'
<1>0. Typed /\ Typed' /\ AnswerIsOwn /\ opened \in Nat
  BY SendTyped DEF OwnInv, Typed
<1> DEFINE t == th[c]
           s == ses[channel]
           line == LineOf(t)
           in == Append(s.inbox, line)
           r == [s EXCEPT !.inbox = in]
           u == [t EXCEPT !.pc = "sent"]
<1>1. t \in Thread /\ Local(t) /\ th \in [Callers -> Thread] /\ Waiting(t)
  BY DEF OwnInv, Turns, Locals, Typed, CallsOK, ThreadOK
<1>2. /\ Busy(c) /\ t.pc = "send" /\ UNCHANGED <<channel, opened, res>> /\ channel # 0
      /\ Moves(c, u) /\ t.todo # << >>
  BY <1>1 DEF Send, Busy, Active, adapter, Moves, Waiting
<1>3. channel \in 1 .. MaxChans /\ s \in Session BY <1>0, <1>2, ShellAssumption DEF Typed
<1>4. /\ ses'[channel] = r
      /\ \A ch \in 1 .. MaxChans : ses'[ch].shared = ses[ch].shared
  BY <1>0, <1>3 DEF Send, Typed, Session
<1>5. /\ r.wire = s.wire /\ r.inbox = in /\ r.closed = s.closed
      /\ r.lost = s.lost /\ r.shared = s.shared
  BY <1>3 DEF Session
<1>6. /\ u.pc = "sent" /\ u.todo = t.todo /\ u.clean = t.clean /\ u.login = t.login
      /\ u.got = t.got /\ u.op = t.op /\ u.out = t.out /\ u.run = t.run
  BY <1>1 DEF Thread
<1>7. line \in Line BY <1>1, <1>2, LineOfType
<1>8. LineOf(u) = line BY <1>6 DEF LineOf
<1>9. line.run = t.run /\ line.what = Head(t.todo).what BY DEF LineOf
<1> HIDE DEF r, u, line
<1>10. /\ s.inbox \in Seq(Line) /\ s.wire \in Seq(Token)
       /\ Len(in) = Len(s.inbox) + 1 /\ in[Len(in)] = line
       /\ \A i \in 1 .. Len(s.inbox) : in[i] = s.inbox[i]
  BY <1>3, <1>7 DEF Session
<1> HIDE DEF in
<1>11. t.got = << >> /\ Len(t.got) = 0 BY <1>1, <1>2 DEF Local
<1>12. line.what # "greet"
  <2>1. CASE t.login BY <1>1, <1>2, <1>9, <2>1, LoginSteps DEF Local, Exchanging
  <2>2. CASE ~t.login
    <3>1. NotLogin(t.todo) BY <1>1, <1>2, <2>2 DEF Local, Exchanging
    <3>2. t.todo \in Seq(Exchange) BY <1>1 DEF Thread
    <3>3. Head(t.todo) = t.todo[1] /\ 1 \in 1 .. Len(t.todo) BY <1>2, <3>2
    <3> QED BY <1>9, <3>1, <3>3 DEF NotLogin
  <2> QED BY <2>1, <2>2
<1>13. Local(u) BY <1>1, <1>2, <1>6 DEF Local, Exchanging
<1>14. ASSUME BeforeSend(t, s) PROVE Awaiting(u, r)
  <2>1. CASE line.what = "ps1"
    <3>1. /\ Len(s.inbox) <= 1
          /\ \A i \in 1 .. Len(s.inbox) : s.inbox[i].what = "greet"
          /\ \A i \in 1 .. Len(s.wire) : s.wire[i].line.what = "greet"
      BY <1>9, <1>14, <2>1 DEF BeforeSend
    <3>2. \A i \in 1 .. Len(s.wire) : ~Ends(s.wire[i], line) BY <2>1, <3>1 DEF Ends
    <3>3. Len(s.inbox) \in Nat BY <1>10
    <3>4. CASE Len(s.inbox) = 0
      BY <1>5, <1>6, <1>8, <1>10, <1>11, <1>12, <3>2, <3>4 DEF Awaiting
    <3>5. CASE Len(s.inbox) = 1
      <4>1. Len(in) = 2 /\ in[2] = line /\ in[1].what = "greet" BY <1>10, <3>1, <3>5
      <4>2. \A i \in 1 .. Len(u.got) : FALSE BY <1>6, <1>11 DEF Thread
      <4>3. r.inbox = in /\ r.wire = s.wire /\ LineOf(u) = line BY <1>5, <1>8
      <4>4. Len(r.inbox) = 2 /\ r.inbox[2] = LineOf(u) /\ r.inbox[1].what = "greet"
        BY <4>1, <4>3
      <4>5. LineOf(u).what # "greet" BY <1>12, <4>3
      <4>6. \A i \in 1 .. Len(r.wire) : ~Ends(r.wire[i], LineOf(u)) BY <3>2, <4>3
      <4> QED BY <4>2, <4>4, <4>5, <4>6 DEF Awaiting
    <3>6. Len(s.inbox) \in {0, 1}
      <4> DEFINE n == Len(s.inbox)
      <4>1. n \in Nat /\ n <= 1 BY <3>1, <3>3
      <4> HIDE DEF n
      <4>2. n \in {0, 1} BY <4>1
      <4> QED BY <4>2 DEF n
    <3> QED BY <3>4, <3>5, <3>6
  <2>2. CASE line.what # "ps1"
    <3>1. s.wire = << >> /\ s.inbox = << >> BY <1>9, <1>14, <2>2 DEF BeforeSend, Still
    <3>2. Len(s.wire) = 0 /\ Len(s.inbox) = 0 BY <3>1
    <3> QED BY <1>5, <1>6, <1>8, <1>10, <1>11, <1>12, <3>2 DEF Awaiting
  <2> QED BY <2>1, <2>2
<1>15. ASSUME ~ses'[channel].shared PROVE Fit(u, ses'[channel], channel)
  <2>1. Fit(t, s, channel) BY <1>2, <1>4, <1>5, <1>15, Now
  <2>2. r.lost = {} => Awaiting(u, r) BY <1>2, <1>5, <1>14, <2>1 DEF Fit, InStep
  <2>3. Mine(t, s) => Mine(u, r)
    <3> SUFFICES ASSUME Mine(t, s) PROVE Mine(u, r) OBVIOUS
    <3>1. \A i \in 1 .. Len(in) : in[i].run = t.run
      <4> TAKE i \in 1 .. Len(in)
      <4>1. i \in 1 .. Len(s.inbox) \/ i = Len(in) BY <1>10
      <4> QED BY <1>9, <1>10, <4>1 DEF Mine
    <3> QED BY <1>5, <1>6, <3>1 DEF Mine
  <2> QED BY <1>2, <1>4, <1>5, <1>6, <2>1, <2>2, <2>3 DEF Fit, InStep, Exchanging
<1>16. AnswerIsOwn' BY <1>0, <1>2, SameResults
<1>17. \A ch \in 1 .. opened : ses[ch].shared => ses'[ch].shared
  BY <1>0, <1>4, ShellAssumption DEF Typed
<1> QED BY <1>0, <1>2, <1>13, <1>15, <1>16, <1>17, Frame

\* An exception before the exchange: the channel is closed.
LEMMA ClosedTurns ==
    ASSUME OwnInv, NEW c \in Callers, SendRaises(c) \/ RecvRaises(c)
    PROVE  Turns' /\ AnswerIsOwn'
<1>0. Typed /\ Typed' /\ AnswerIsOwn /\ Busy(c) /\ ~Active
  BY SendTyped, RecvTyped DEF OwnInv, SendRaises, RecvRaises, Busy
<1>1. Raised(c) /\ UNCHANGED <<channel, ses, opened>>
  BY DEF SendRaises, RecvRaises, adapter
<1>2. PICK u : Ended(u) /\ Moves(c, u) /\ AnswerIsOwn' BY <1>0, <1>1, RaisedOwn
<1>3. channel # 0 => ses[channel].closed BY <1>0 DEF Active
<1> QED BY <1>0, <1>1, <1>2, <1>3, FrameEnded

\* After an exchange: nothing is in flight, or the greeting before PS1 is sent.
LEMMA ContinueFit ==
    ASSUME NEW t \in Thread, NEW u, NEW s, NEW ch, Between(t),
           After(t, u),
           s.lost = {} => Still(s) \/ (t.todo # << >> /\ BeforeSend(t, s)),
           t.op = "run" /\ t.clean => Mine(t, s)
    PROVE  Fit(u, s, ch)
<1>1. CASE t.todo = << >>
  <2>1. u.pc \notin Exchanging /\ (u.op = "run" => ~u.clean)
    BY <1>1 DEF After, Ended, Exchanging
  <2> QED BY <1>1, <2>1, FitEnded
<1>2. CASE t.todo # << >>
  <2>0. u = [t EXCEPT !.pc = "send"] BY <1>2 DEF After
  <2>1. /\ u.pc = "send" /\ u.todo = t.todo /\ u.got = t.got /\ u.op = t.op
        /\ u.out = t.out /\ u.clean = t.clean /\ u.run = t.run
    BY <2>0 DEF Thread
  <2>2. s.lost = {} => BeforeSend(u, s)
    <3>1. Still(s) => BeforeSend(u, s)
      <4> SUFFICES ASSUME Still(s) PROVE BeforeSend(u, s) OBVIOUS
      <4>1. Len(s.inbox) = 0 /\ Len(s.wire) = 0 BY DEF Still
      <4> QED BY <4>1 DEF BeforeSend
    <3>2. BeforeSend(t, s) => BeforeSend(u, s) BY <2>1 DEF BeforeSend
    <3> QED BY <3>1, <3>2
  <2>3. Mine(t, s) => Mine(u, s) BY <2>1 DEF Mine
  <2> QED BY <2>1, <2>2, <2>3 DEF Fit, InStep, Exchanging
<1> QED BY <1>1, <1>2

\* The line was not sent, and nothing is in flight.
LEMMA SendTimeoutTurns ==
    ASSUME OwnInv, NEW c \in Callers, SendTimeout(c) PROVE Turns' /\ AnswerIsOwn'
<1>0. Typed /\ Typed' /\ AnswerIsOwn /\ opened \in Nat
  BY SendTyped DEF OwnInv, Typed
<1> DEFINE t == th[c]
           s == ses[channel]
           rest == Tail(t.todo)
           v == IF Head(t.todo).what = "cd" /\ rest # << >>
                THEN [t EXCEPT !.todo = rest] ELSE t
           w == Absorb(v, FALSE)
           lost == IF t.login THEN s.lost \cup {Head(t.todo).what} ELSE s.lost
           r == [s EXCEPT !.lost = lost]
<1>1. t \in Thread /\ Local(t) /\ th \in [Callers -> Thread] /\ Waiting(t)
  BY DEF OwnInv, Turns, Locals, Typed, CallsOK, ThreadOK
<1>2. /\ Busy(c) /\ t.pc = "send" /\ UNCHANGED <<channel, opened>> /\ channel # 0
      /\ Continue(c, w) /\ t.todo # << >>
  BY <1>1 DEF SendTimeout, Busy, Active, Waiting
<1>3. channel \in 1 .. MaxChans /\ s \in Session BY <1>0, <1>2, ShellAssumption DEF Typed
<1>4. /\ ses'[channel] = r
      /\ \A ch \in 1 .. MaxChans : ses'[ch].shared = ses[ch].shared
  BY <1>0, <1>3 DEF SendTimeout, Typed, Session
<1>5. /\ r.wire = s.wire /\ r.inbox = s.inbox /\ r.closed = s.closed
      /\ r.lost = lost /\ r.shared = s.shared
  BY <1>3 DEF Session
<1>6. /\ v \in Thread /\ v.todo # << >> /\ v.login = t.login /\ v.got = << >>
      /\ v.op = t.op /\ v.out = t.out /\ v.clean = t.clean /\ v.run = t.run
      /\ t.login => v = t
      /\ ~t.login => NotLogin(v.todo)
  <2>1. t.todo \in Seq(Exchange) /\ rest \in Seq(Exchange) BY <1>1, <1>2 DEF Thread
  <2>2. t.got = << >> BY <1>1, <1>2 DEF Local
  <2>3. t.login => Head(t.todo).what # "cd"
    BY <1>1, <1>2, LoginSteps DEF Local, Exchanging
  <2>4. ~t.login => NotLogin(t.todo) /\ NotLogin(rest)
    BY <1>1, <1>2, <2>1, RestSteps DEF Local, Exchanging
  <2> HIDE DEF rest
  <2> QED BY <1>1, <1>2, <2>1, <2>2, <2>3, <2>4 DEF Thread
<1>7. t.login => t.todo \in LoginTodos /\ (t.op = "run" => t.out = {} /\ ~t.clean)
  BY <1>1, <1>2 DEF Local, Exchanging
<1> HIDE DEF v, r
<1>8. Between(w) /\ w \in Thread BY <1>6, <1>7, AbsorbBetween, AbsorbType
<1>9. /\ w.op = t.op /\ w.run = t.run /\ w.login = t.login /\ w.clean = t.clean
      /\ w.got = << >> /\ w.out = t.out
  <2>1. {v.got[i] : i \in DOMAIN v.got} = {} BY <1>6
  <2> QED BY <1>6, <2>1, AbsorbKeeps
<1> HIDE DEF w
<1>10. ASSUME ~s.shared PROVE Alone(c) /\ Fit(t, s, channel) BY <1>2, <1>10, Now
<1>11. ~s.shared /\ t.op = "run" /\ t.clean => Mine(w, r)
  <2> SUFFICES ASSUME Mine(t, s) PROVE Mine(w, r) BY <1>10 DEF Fit
  <2>1. \A i \in 1 .. Len(w.got) : FALSE BY <1>9
  <2> QED BY <1>5, <1>9, <2>1 DEF Mine
<1>12. Owned(w) BY <1>9, <1>10, <1>11 DEF Owned, Mine
<1>13. PICK u : Moves(c, u) /\ AnswerIsOwn' /\ Local(u) /\ After(w, u)
  BY <1>0, <1>2, <1>8, <1>12, ContinueOwn
<1>14. ~s.shared /\ r.lost = {} => Still(r)
  <2> SUFFICES ASSUME ~s.shared, r.lost = {} PROVE Still(r) OBVIOUS
  <2>1. ~t.login /\ s.lost = {} BY <1>5
  <2>2. BeforeSend(t, s) BY <1>2, <1>10, <2>1 DEF Fit, InStep
  <2>3. Head(t.todo).what # "ps1"
    <3>1. NotLogin(t.todo) BY <1>1, <1>2, <2>1 DEF Local, Exchanging
    <3>2. t.todo \in Seq(Exchange) BY <1>1 DEF Thread
    <3>3. Head(t.todo) = t.todo[1] /\ 1 \in 1 .. Len(t.todo) BY <1>2, <3>2
    <3> QED BY <3>1, <3>3 DEF NotLogin
  <2> QED BY <1>5, <2>2, <2>3 DEF BeforeSend, Still
<1>15. ~r.shared => Fit(u, r, channel)
  BY <1>5, <1>8, <1>9, <1>11, <1>13, <1>14, ContinueFit
<1>16. \A ch \in 1 .. opened : ses[ch].shared => ses'[ch].shared
  BY <1>0, <1>4, ShellAssumption DEF Typed
<1> QED BY <1>0, <1>2, <1>4, <1>13, <1>15, <1>16, Frame

\* More output arrives: it moves from the channel to the caller.
LEMMA StartRecvTurns ==
    ASSUME OwnInv, NEW c \in Callers, StartRecv(c) PROVE Turns' /\ AnswerIsOwn'
<1>0. Typed /\ Typed' /\ AnswerIsOwn /\ opened \in Nat
  BY RecvTyped DEF OwnInv, Typed
<1> DEFINE t == th[c]
           u == [t EXCEPT !.pc = "recv", !.conn = channel]
<1>1. t \in Thread /\ Local(t) /\ th \in [Callers -> Thread]
  BY DEF OwnInv, Turns, Locals, Typed, CallsOK
<1>2. /\ Busy(c) /\ t.pc = "sent" /\ UNCHANGED <<channel, opened, ses, res>>
      /\ channel # 0 /\ Moves(c, u)
  BY DEF StartRecv, Busy, Active, adapter, Moves
<1>3. /\ u.pc = "recv" /\ u.conn = channel /\ u.todo = t.todo /\ u.clean = t.clean
      /\ u.login = t.login /\ u.got = t.got /\ u.op = t.op /\ u.out = t.out /\ u.run = t.run
  BY <1>1 DEF Thread
<1> HIDE DEF u
<1>4. Local(u) BY <1>1, <1>2, <1>3 DEF Local, Exchanging
<1>5. ASSUME ~ses[channel].shared PROVE Fit(u, ses[channel], channel)
  <2> DEFINE s == ses[channel]
  <2>1. Fit(t, s, channel) BY <1>2, <1>5, Now
  <2>2. LineOf(u) = LineOf(t) BY <1>3 DEF LineOf
  <2>3. Awaiting(t, s) => Awaiting(u, s) BY <1>3, <2>2 DEF Awaiting
  <2>4. Mine(t, s) => Mine(u, s) BY <1>3 DEF Mine
  <2> QED BY <1>2, <1>3, <2>1, <2>3, <2>4 DEF Fit, InStep, Exchanging
<1>6. AnswerIsOwn' BY <1>0, <1>2, SameResults
<1> QED BY <1>0, <1>2, <1>4, <1>5, <1>6, Frame

\* A piece of output is read.
LEMMA RecvChunkTurns ==
    ASSUME OwnInv, NEW c \in Callers, RecvChunk(c) PROVE Turns' /\ AnswerIsOwn'
<1>0. Typed /\ Typed' /\ AnswerIsOwn /\ opened \in Nat
  BY RecvTyped DEF OwnInv, Typed
<1> DEFINE t == th[c]
           s == ses[t.conn]
           got == Append(t.got, Head(s.wire))
           rest == Tail(s.wire)
           u == [t EXCEPT !.got = got]
           r == [s EXCEPT !.wire = rest]
<1>1. /\ t \in Thread /\ Local(t) /\ th \in [Callers -> Thread] /\ Waiting(t)
      /\ t.conn \in 0 .. opened
  BY DEF OwnInv, Turns, Locals, Typed, CallsOK, ThreadOK
<1>2. /\ Busy(c) /\ t.pc = "recv" /\ UNCHANGED <<channel, opened, res>> /\ s.wire # << >>
      /\ t.conn # 0
  BY <1>1 DEF RecvChunk, Busy, adapter, Waiting
<1>3. t.conn \in 1 .. MaxChans /\ s \in Session
  BY <1>0, <1>1, <1>2, ShellAssumption DEF Typed
<1>4. /\ ses'[t.conn] = r /\ Moves(c, u)
      /\ \A ch \in 1 .. MaxChans : ses'[ch].shared = ses[ch].shared
  BY <1>0, <1>1, <1>3 DEF RecvChunk, Typed, Session, Moves, Thread
<1>5. /\ s.wire \in Seq(Token) /\ t.got \in Seq(Token)
      /\ Len(s.wire) \in Nat /\ Len(s.wire) # 0 /\ Len(t.got) \in Nat
      /\ Len(got) = Len(t.got) + 1 /\ got[Len(t.got) + 1] = s.wire[1]
      /\ \A i \in 1 .. Len(t.got) : got[i] = t.got[i]
      /\ rest \in Seq(Token) /\ Len(rest) = Len(s.wire) - 1
      /\ \A i \in 1 .. Len(rest) : rest[i] = s.wire[i + 1]
  BY <1>1, <1>2, <1>3 DEF Session, Thread
<1> HIDE DEF got, rest
<1>6. /\ r.wire = rest /\ r.inbox = s.inbox /\ r.closed = s.closed
      /\ r.lost = s.lost /\ r.shared = s.shared
  BY <1>3 DEF Session
<1>7. /\ u.pc = "recv" /\ u.conn = t.conn /\ u.todo = t.todo /\ u.clean = t.clean
      /\ u.login = t.login /\ u.got = got /\ u.op = t.op /\ u.out = t.out /\ u.run = t.run
  BY <1>1, <1>2 DEF Thread
<1> HIDE DEF u, r
<1>8. Local(u) BY <1>1, <1>2, <1>7 DEF Local, Exchanging
<1>9. LineOf(u) = LineOf(t) BY <1>7 DEF LineOf
<1>10. \A i \in 1 .. Len(got) : \/ i \in 1 .. Len(t.got) /\ got[i] = t.got[i]
                                \/ got[i] = s.wire[1]
  <2>1. \A i \in 1 .. Len(got) : i \in 1 .. Len(t.got) \/ i = Len(t.got) + 1 BY <1>5
  <2> QED BY <1>5, <2>1
<1>11. 1 \in 1 .. Len(s.wire) /\ \A i \in 1 .. Len(rest) : i + 1 \in 1 .. Len(s.wire)
  BY <1>5
<1>12. ASSUME Awaiting(t, s) PROVE Awaiting(u, r)
  <2> DEFINE line == LineOf(t)
  <2> HIDE DEF line
  <2>1. r.inbox # << >> => /\ \A i \in 1 .. Len(rest) : ~Ends(rest[i], line)
                           /\ \A i \in 1 .. Len(got) : ~Ends(got[i], line)
    <3> SUFFICES ASSUME r.inbox # << >>
                 PROVE  /\ \A i \in 1 .. Len(rest) : ~Ends(rest[i], line)
                        /\ \A i \in 1 .. Len(got) : ~Ends(got[i], line)
      OBVIOUS
    <3>1. /\ \A i \in 1 .. Len(s.wire) : ~Ends(s.wire[i], line)
          /\ \A i \in 1 .. Len(t.got) : ~Ends(t.got[i], line)
      BY <1>6, <1>12 DEF Awaiting, line
    <3>2. \A i \in 1 .. Len(rest) : ~Ends(rest[i], line) BY <1>5, <1>11, <3>1
    <3>3. \A i \in 1 .. Len(got) : ~Ends(got[i], line) BY <1>10, <1>11, <3>1
    <3> QED BY <3>2, <3>3
  <2>2. \A i \in 1 .. Len(rest) : Ends(rest[i], line) => i = Len(rest)
    <3> SUFFICES ASSUME NEW i \in 1 .. Len(rest), Ends(rest[i], line) PROVE i = Len(rest)
      OBVIOUS
    <3>1. Ends(s.wire[i + 1], line) /\ i + 1 \in 1 .. Len(s.wire) BY <1>5, <1>11
    <3>2. i + 1 = Len(s.wire) BY <1>12, <3>1 DEF Awaiting, line
    <3> QED BY <1>5, <3>2
  <2>3. (\E i \in 1 .. Len(got) : Ends(got[i], line)) => rest = << >>
    <3> SUFFICES ASSUME NEW i \in 1 .. Len(got), Ends(got[i], line) PROVE rest = << >>
      OBVIOUS
    <3>1. ~(i \in 1 .. Len(t.got) /\ got[i] = t.got[i])
      BY <1>2, <1>12 DEF Awaiting, line
    <3>2. Ends(s.wire[1], line) BY <1>10, <3>1
    <3>3. 1 = Len(s.wire) BY <1>11, <1>12, <3>2 DEF Awaiting, line
    <3> QED BY <1>5, <3>3
  <2>4. line.what = "greet" => \A i \in 1 .. Len(rest) : rest[i].line.what = "greet"
    BY <1>5, <1>11, <1>12 DEF Awaiting, line
  <2>5. /\ Len(r.inbox) <= 2
        /\ Len(r.inbox) = 1 => r.inbox[1] = line
        /\ Len(r.inbox) = 2 => /\ r.inbox[1].what = "greet" /\ line.what # "greet"
                               /\ r.inbox[2] = line
    BY <1>6, <1>12 DEF Awaiting, line
  <2>6. r.wire = rest /\ u.got = got /\ LineOf(u) = line BY <1>6, <1>7, <1>9 DEF line
  <2> QED BY <2>1, <2>2, <2>3, <2>4, <2>5, <2>6 DEF Awaiting
<1>13. ASSUME Mine(t, s) PROVE Mine(u, r)
  <2>1. \A i \in 1 .. Len(rest) : rest[i].line.run = t.run
    <3> TAKE i \in 1 .. Len(rest)
    <3>1. rest[i] = s.wire[i + 1] /\ i + 1 \in 1 .. Len(s.wire) BY <1>5, <1>11
    <3> QED BY <1>13, <3>1 DEF Mine
  <2>2. \A i \in 1 .. Len(got) : got[i].line.run = t.run
    BY <1>10, <1>11, <1>13 DEF Mine
  <2> QED BY <1>6, <1>7, <1>13, <2>1, <2>2 DEF Mine
<1>14. ASSUME channel # 0, ~ses'[channel].shared PROVE Fit(u, ses'[channel], channel)
  <2>1. ~ses[channel].shared
    BY <1>0, <1>4, <1>14, ShellAssumption DEF Typed
  <2>2. Fit(t, ses[channel], channel) BY <1>2, <1>14, <2>1, Now
  <2>3. t.conn = channel BY <1>2, <2>2 DEF Fit
  <2>4. ses'[channel] = r /\ s = ses[channel] BY <1>4, <2>3
  <2> QED BY <1>2, <1>6, <1>7, <1>12, <1>13, <2>2, <2>3, <2>4 DEF Fit, InStep, Exchanging
<1>15. AnswerIsOwn' BY <1>0, <1>2, SameResults
<1>16. \A ch \in 1 .. opened : ses[ch].shared => ses'[ch].shared
  BY <1>0, <1>4, ShellAssumption DEF Typed
<1> QED BY <1>0, <1>2, <1>4, <1>8, <1>14, <1>15, <1>16, Frame

\* recv() is over: its own prompt was read and nothing is in flight, or it was not
\* and the channel has lost it, or it was the greeting's.
RecvOver(c) ==
    LET t == th[c] IN
      /\ t.pc = "recv"
      /\ ses' = [ses EXCEPT ![t.conn].lost = @ \cup Overlooked(t)]
      /\ UNCHANGED <<channel, opened>>

\* What recv() leaves behind.
LEMMA RecvOverFit ==
    ASSUME OwnInv, NEW c \in Callers, RecvOver(c), channel # 0, ~ses'[channel].shared
    PROVE  LET t == th[c]
               s == ses'[channel]
           IN /\ Alone(c) /\ ~ses[channel].shared
              /\ s.lost = {} /\ Head(t.todo).what # "greet" => Still(s)
              /\ s.lost = {} /\ Head(t.todo).what = "greet" =>
                   /\ Len(s.inbox) <= 1
                   /\ \A i \in 1 .. Len(s.inbox) : s.inbox[i].what = "greet"
                   /\ \A i \in 1 .. Len(s.wire) : s.wire[i].line.what = "greet"
              /\ t.op = "run" /\ t.clean => Mine(t, s)
<1> DEFINE t == th[c]
           q == ses[channel]
           lost == q.lost \cup Overlooked(t)
           r == [q EXCEPT !.lost = lost]
<1>0. Typed /\ Busy(c) /\ t.pc = "recv" BY DEF OwnInv, RecvOver, Busy
<1>1. channel \in 1 .. MaxChans /\ q \in Session BY <1>0, ShellAssumption DEF Typed
<1>2. t \in Thread /\ t.conn \in 1 .. MaxChans
  BY <1>0, ShellAssumption DEF Typed, CallsOK, ThreadOK, Waiting
<1>3. ~q.shared
  <2>1. \A ch \in 1 .. MaxChans : ses'[ch].shared = ses[ch].shared
    BY <1>0, <1>2 DEF RecvOver, Typed, Session
  <2> QED BY <1>1, <2>1
<1>4. Alone(c) /\ Fit(t, q, channel) BY <1>0, <1>3, Now
<1>5. t.conn = channel BY <1>0, <1>4 DEF Fit
<1>6. ses'[channel] = r BY <1>0, <1>1, <1>5 DEF RecvOver, Typed, Session
<1>7. r.lost = lost /\ r.inbox = q.inbox /\ r.wire = q.wire BY <1>1 DEF Session
<1> HIDE DEF r
<1>8. r.lost = {} => Awaiting(t, q) BY <1>0, <1>4, <1>7 DEF Fit, InStep
<1>9. r.lost = {} /\ Head(t.todo).what # "greet" => Still(r)
  <2> SUFFICES ASSUME r.lost = {}, Head(t.todo).what # "greet" PROVE Still(r) OBVIOUS
  <2>1. OwnPrompt(t) BY <1>7 DEF Overlooked
  <2>2. t.got \in Seq(Token) BY <1>2 DEF Thread
  <2>3. \E i \in 1 .. Len(t.got) : Ends(t.got[i], LineOf(t))
    BY <2>1, <2>2 DEF OwnPrompt, Ends
  <2> QED BY <1>7, <1>8, <2>3 DEF Awaiting, Still
<1>10. r.lost = {} /\ Head(t.todo).what = "greet" =>
         /\ Len(r.inbox) <= 1
         /\ \A i \in 1 .. Len(r.inbox) : r.inbox[i].what = "greet"
         /\ \A i \in 1 .. Len(r.wire) : r.wire[i].line.what = "greet"
  <2> SUFFICES ASSUME r.lost = {}, Head(t.todo).what = "greet"
               PROVE  /\ Len(q.inbox) <= 1
                      /\ \A i \in 1 .. Len(q.inbox) : q.inbox[i].what = "greet"
                      /\ \A i \in 1 .. Len(q.wire) : q.wire[i].line.what = "greet"
    BY <1>7
  <2>1. LineOf(t).what = "greet" BY DEF LineOf
  <2>2. \A i \in 1 .. Len(q.wire) : q.wire[i].line.what = "greet"
    BY <1>8, <2>1 DEF Awaiting
  <2>3. Len(q.inbox) \in Nat BY <1>1 DEF Session
  <2>4. Len(q.inbox) <= 2 /\ Len(q.inbox) # 2 BY <1>8, <2>1 DEF Awaiting
  <2> DEFINE n == Len(q.inbox)
  <2>7. n \in Nat /\ n <= 2 /\ n # 2 BY <2>3, <2>4
  <2> HIDE DEF n
  <2>8. n <= 1 /\ \A i \in 1 .. n : i = 1 /\ n = 1 BY <2>7
  <2>5. Len(q.inbox) <= 1 BY <2>8 DEF n
  <2>6. \A i \in 1 .. Len(q.inbox) : q.inbox[i].what = "greet"
    <3> TAKE i \in 1 .. Len(q.inbox)
    <3>1. i = 1 /\ Len(q.inbox) = 1 BY <2>8 DEF n
    <3> QED BY <1>8, <2>1, <3>1 DEF Awaiting
  <2> QED BY <2>2, <2>5, <2>6
<1>11. t.op = "run" /\ t.clean => Mine(t, r)
  <2>1. Mine(t, q) => Mine(t, r) BY <1>7 DEF Mine
  <2> QED BY <1>4, <2>1 DEF Fit
<1> QED BY <1>3, <1>4, <1>6, <1>9, <1>10, <1>11

\* A match, or a timeout that does not raise: on to the next line.
LEMMA RecvGoesOn ==
    ASSUME OwnInv, Typed', NEW c \in Callers, NEW m \in BOOLEAN, RecvOver(c),
           Continue(c, Absorb(th[c], m))
    PROVE  Turns' /\ AnswerIsOwn'
<1> DEFINE t == th[c]
           w == Absorb(t, m)
<1>0. Typed /\ AnswerIsOwn /\ opened \in Nat BY DEF OwnInv, Typed
<1>1. /\ t \in Thread /\ Local(t) /\ th \in [Callers -> Thread] /\ Waiting(t)
      /\ t.conn \in 0 .. opened
  BY DEF OwnInv, Turns, Locals, Typed, CallsOK, ThreadOK
<1>2. /\ Busy(c) /\ t.pc = "recv" /\ UNCHANGED <<channel, opened>> /\ t.todo # << >>
      /\ t.conn \in 1 .. MaxChans
  BY <1>0, <1>1, ShellAssumption DEF RecvOver, Busy, Waiting, Typed, Thread
<1>3. /\ t.login => t.todo \in LoginTodos
      /\ ~t.login => NotLogin(t.todo)
      /\ t.op = "run" /\ t.login => t.out = {} /\ ~t.clean
  BY <1>1, <1>2 DEF Local, Exchanging
<1>4. Between(w) /\ w \in Thread /\ Continue(c, w) /\ (t.login => w.todo = Tail(t.todo))
  BY <1>1, <1>2, <1>3, AbsorbBetween, AbsorbType
<1>5. /\ w.op = t.op /\ w.run = t.run /\ w.login = t.login /\ w.clean = t.clean
      /\ w.got = << >> /\ w.out \subseteq t.out \cup {t.got[i] : i \in DOMAIN t.got}
  BY <1>1, AbsorbKeeps
<1> HIDE DEF w
<1>6. ASSUME NEW s, Mine(t, s) PROVE Mine(w, s)
  <2>1. t.got \in Seq(Token) /\ DOMAIN t.got = 1 .. Len(t.got) BY <1>1 DEF Thread
  <2>2. \A tok \in w.out : tok.line.run = t.run BY <1>5, <1>6, <2>1 DEF Mine
  <2>3. \A i \in 1 .. Len(w.got) : FALSE BY <1>5
  <2> QED BY <1>5, <1>6, <2>2, <2>3 DEF Mine
<1>7. \A ch \in 1 .. MaxChans : ses'[ch].shared = ses[ch].shared
  BY <1>0, <1>2 DEF RecvOver, Typed, Session
<1>8. ~w.login => Owned(w)
  <2> SUFFICES ASSUME w.op = "run", w.clean, channel # 0, ~ses[channel].shared
               PROVE  \A tok \in w.out : tok.line.run = w.run
    BY DEF Owned
  <2>1. channel \in 1 .. MaxChans BY <1>0, ShellAssumption DEF Typed
  <2>2. ~ses'[channel].shared BY <1>7, <2>1
  <2>3. Mine(t, ses'[channel]) BY <1>5, <2>2, RecvOverFit
  <2> QED BY <1>6, <2>3 DEF Mine
<1>9. PICK u : Moves(c, u) /\ AnswerIsOwn' /\ Local(u) /\ After(w, u)
  BY <1>0, <1>4, <1>8, ContinueOwn
<1>10. ASSUME channel # 0, ~ses'[channel].shared PROVE Fit(u, ses'[channel], channel)
  <2> DEFINE s == ses'[channel]
  <2>1. /\ s.lost = {} /\ Head(t.todo).what # "greet" => Still(s)
        /\ s.lost = {} /\ Head(t.todo).what = "greet" =>
             /\ Len(s.inbox) <= 1
             /\ \A i \in 1 .. Len(s.inbox) : s.inbox[i].what = "greet"
             /\ \A i \in 1 .. Len(s.wire) : s.wire[i].line.what = "greet"
        /\ t.op = "run" /\ t.clean => Mine(t, s)
    BY <1>10, RecvOverFit
  <2>2. Head(t.todo).what = "greet" => w.todo # << >> /\ Head(w.todo).what = "ps1"
    <3> SUFFICES ASSUME Head(t.todo).what = "greet"
                 PROVE  w.todo # << >> /\ Head(w.todo).what = "ps1"
      OBVIOUS
    <3>1. t.login
      <4> SUFFICES ASSUME NotLogin(t.todo) PROVE FALSE BY <1>3
      <4>1. t.todo \in Seq(Exchange) BY <1>1 DEF Thread
      <4>2. Head(t.todo) = t.todo[1] /\ 1 \in 1 .. Len(t.todo) BY <1>2, <4>1
      <4> QED BY <4>2 DEF NotLogin
    <3> QED BY <1>3, <1>4, <3>1, LoginSteps
  <2>3. s.lost = {} => Still(s) \/ (w.todo # << >> /\ BeforeSend(w, s))
    BY <2>1, <2>2 DEF BeforeSend
  <2>4. w.op = "run" /\ w.clean => Mine(w, s) BY <1>5, <1>6, <2>1
  <2> QED BY <1>4, <1>9, <2>3, <2>4, ContinueFit
<1>11. \A ch \in 1 .. opened : ses[ch].shared => ses'[ch].shared
  BY <1>0, <1>7, ShellAssumption DEF Typed
<1> QED BY <1>0, <1>2, <1>9, <1>10, <1>11, Frame

\* A match.
LEMMA MatchedTurns ==
    ASSUME OwnInv, NEW c \in Callers, Matched(c) PROVE Turns' /\ AnswerIsOwn'
<1>1. Typed' BY RecvTyped DEF OwnInv
<1>2. RecvOver(c) /\ Continue(c, Absorb(th[c], TRUE)) BY DEF Matched, RecvOver
<1> QED BY <1>1, <1>2, RecvGoesOn

\* A timeout: the channel has lost a prompt, unless it was the greeting's.
LEMMA TimeoutTurns ==
    ASSUME OwnInv, NEW c \in Callers, Timeout(c) PROVE Turns' /\ AnswerIsOwn'
<1>1. Typed /\ Typed' /\ AnswerIsOwn /\ Busy(c) BY RecvTyped DEF OwnInv, Timeout, Busy
<1>2. RecvOver(c) BY DEF Timeout, RecvOver
<1>3. CASE ~Head(th[c].todo).raise
  <2>1. Continue(c, Absorb(th[c], FALSE)) BY <1>3 DEF Timeout
  <2> QED BY <1>1, <1>2, <2>1, RecvGoesOn
<1>4. CASE Head(th[c].todo).raise
  <2> DEFINE t == th[c]
  <2>1. Raised(c) BY <1>4 DEF Timeout
  <2>2. PICK u : Ended(u) /\ Moves(c, u) /\ AnswerIsOwn' BY <1>1, <2>1, RaisedOwn
  <2>3. /\ t \in Thread /\ Local(t) /\ t.todo # << >> /\ t.pc = "recv"
        /\ t.conn \in 1 .. MaxChans
    BY <1>1, <1>2, ShellAssumption
    DEF OwnInv, Turns, Locals, Typed, CallsOK, ThreadOK, Waiting, RecvOver
  <2>4. Head(t.todo).what # "greet"
    <3>1. CASE t.login BY <1>4, <2>3, <3>1, LoginSteps DEF Local, Exchanging
    <3>2. CASE ~t.login
      <4>1. NotLogin(t.todo) BY <2>3, <3>2 DEF Local, Exchanging
      <4>2. t.todo \in Seq(Exchange) BY <2>3 DEF Thread
      <4>3. Head(t.todo) = t.todo[1] /\ 1 \in 1 .. Len(t.todo) BY <2>3, <4>2
      <4> QED BY <4>1, <4>3 DEF NotLogin
    <3> QED BY <3>1, <3>2
  <2>5. channel # 0 /\ ~ses'[channel].shared /\ ses'[channel].lost = {}
          => Still(ses'[channel])
    BY <1>2, <2>4, RecvOverFit
  <2>6. \A ch \in 1 .. MaxChans : ses'[ch].shared = ses[ch].shared
    BY <1>1, <1>2, <2>3 DEF RecvOver, Typed, Session
  <2>7. \A ch \in 1 .. opened : ses[ch].shared => ses'[ch].shared
    BY <1>1, <2>6, ShellAssumption DEF Typed
  <2> QED BY <1>1, <1>2, <2>2, <2>5, <2>7, FrameEnded DEF RecvOver
<1> QED BY <1>3, <1>4

\* The verdict of the probe leaves the channel or closes it.
LEMMA VerdictTurns ==
    ASSUME OwnInv, NEW c \in Callers, Verdict(c) PROVE Turns' /\ AnswerIsOwn'
<1>0. /\ Typed /\ Typed' /\ AnswerIsOwn /\ opened \in Nat
      /\ Busy(c) /\ opened' = opened
  <2>1. Typed' BY VerdictTyped DEF OwnInv
  <2>2. Busy(c) /\ opened' = opened BY DEF Verdict, Busy
  <2> QED BY <2>1, <2>2 DEF OwnInv, Typed
<1> DEFINE t == th[c]
<1>1. t \in Thread /\ Local(t) /\ t.pc = "verdict"
  BY DEF OwnInv, Turns, Locals, Typed, CallsOK, Verdict
<1>2. CASE t.intact
  <2>1. Finish(c, t, "done") /\ UNCHANGED <<transport, channel, ses>> BY <1>2 DEF Verdict
  <2>2. Owned(t) BY <1>1 DEF Owned, Local, Exchanging
  <2>3. Moves(c, Idle) /\ AnswerIsOwn' BY <1>0, <1>1, <2>1, <2>2, FinishOwn
  <2>4. channel # 0 /\ ~ses[channel].shared /\ ses[channel].lost = {}
          => ses[channel].closed \/ Still(ses[channel])
    BY <1>0, <1>1, Now DEF Fit, InStep, Exchanging
  <2> QED BY <1>0, <2>1, <2>3, <2>4, IdleEnded, FrameEnded
<1>3. CASE ~t.intact
  <2> DEFINE u == [t EXCEPT !.pc = "connect", !.op = "reconnect", !.login = TRUE]
  <2>1. Close /\ Moves(c, u) /\ res' = res BY <1>3 DEF Verdict, Moves
  <2>2. u.pc = "connect" /\ u.op = "reconnect" /\ u.login = TRUE /\ u.got = t.got
    BY <1>1 DEF Thread
  <2> HIDE DEF u
  <2>3. Local(u) /\ u.op # "run" /\ u.pc \notin Exchanging /\ u.pc # "plan"
    BY <1>1, <2>2 DEF Local, Exchanging
  <2>4. \/ UNCHANGED <<channel, ses>>
        \/ channel' = 0 /\ ses' = [ch \in DOMAIN ses |-> Shut(ses[ch])]
    BY <2>1 DEF Close
  <2>5. ASSUME channel' # 0, ~ses'[channel'].shared PROVE Fit(u, ses'[channel'], channel')
    <3>1. UNCHANGED <<channel, ses>> BY <2>4, <2>5
    <3>2. ses[channel].lost = {} => (~ses[channel].closed => Still(ses[channel]))
      BY <1>0, <1>1, <2>5, <3>1, Now DEF Fit, InStep, Exchanging
    <3> QED BY <2>3, <3>1, <3>2, FitEnded
  <2>6. \A ch \in 1 .. opened : ses[ch].shared => ses'[ch].shared
    <3>1. 1 .. opened \subseteq 1 .. MaxChans BY ShellAssumption DEF OwnInv, Typed
    <3> QED BY <1>0, <2>4, <3>1, ShutAll
  <2>7. AnswerIsOwn' BY <1>0, <2>1, SameResults
  <2> QED BY <1>0, <2>1, <2>3, <2>5, <2>6, <2>7, Frame
<1> QED BY <1>2, <1>3

-----------------------------------------------------------------------------
(* The entry points *)

\* A caller that starts shares every channel with whoever is busy.
LEMMA StartFrame ==
    ASSUME OwnInv, Typed', NEW c \in Callers, ~Busy(c), NEW u, Moves(c, u), Local(u),
           u.pc \notin Exchanging, u.pc # "plan", u.op = "run" => ~u.clean,
           opened' = opened, res' = [res EXCEPT ![c] = NoResult],
           channel' \in {0, channel},
           \A ch \in 1 .. opened :
               /\ ses'[ch].shared <=> ses[ch].shared \/ ~Alone(c)
               /\ channel' # 0 =>
                    /\ ses'[ch].wire = ses[ch].wire /\ ses'[ch].inbox = ses[ch].inbox
                    /\ ses'[ch].closed = ses[ch].closed /\ ses'[ch].lost = ses[ch].lost
    PROVE  Turns' /\ AnswerIsOwn'
<1>0. /\ Typed /\ th \in [Callers -> Thread] /\ opened \in Nat /\ res \in [Callers -> Result]
      /\ th[c] = Idle
  BY DEF OwnInv, Turns, Locals, Local, Typed, CallsOK, Busy
<1>1. th'[c] = u /\ \A d \in Callers \ {c} : th'[d] = th[d] BY <1>0 DEF Moves
<1>2. Locals' BY <1>1 DEF Locals, OwnInv, Turns
<1>3. Overlap'
  <2> SUFFICES ASSUME NEW d \in Callers, NEW e \in Callers, d # e, Busy(d)', Busy(e)',
                      NEW ch \in 1 .. opened
               PROVE  ses'[ch].shared
    BY DEF Overlap
  <2>1. CASE d = c \/ e = c
    <3>1. ~Alone(c) BY <1>1, <2>1 DEF Alone, Busy
    <3> QED BY <3>1
  <2>2. CASE d # c /\ e # c
    <3>1. Busy(d) /\ Busy(e) BY <1>1, <2>2 DEF Busy
    <3>2. ses[ch].shared BY <3>1 DEF OwnInv, Turns, Overlap
    <3> QED BY <3>2
  <2> QED BY <2>1, <2>2
<1>4. InTurn'
  <2> SUFFICES ASSUME NEW d \in Callers, Alone(d)', channel' # 0, ~ses'[channel'].shared
               PROVE  Fit(th'[d], ses'[channel'], channel')
    BY DEF InTurn
  <2>0. channel' = channel /\ channel \in 1 .. opened BY <1>0 DEF Typed
  <2>1. Alone(c) /\ ~ses[channel].shared BY <2>0
  <2>2. Fit(Idle, ses[channel], channel)
    BY <1>0, <2>0, <2>1 DEF OwnInv, Turns, InTurn
  <2>3. ses[channel].lost = {} => (~ses[channel].closed => Still(ses[channel]))
    BY <2>2 DEF Fit, InStep, Idle, Exchanging
  <2>4. ses'[channel].lost = {} => (~ses'[channel].closed => Still(ses'[channel]))
    BY <2>0, <2>3 DEF Still
  <2>5. CASE d = c BY <1>1, <2>0, <2>4, <2>5, FitEnded
  <2>6. CASE d # c
    <3>1. ~Busy(d) BY <2>1, <2>6 DEF Alone
    <3>2. th'[d] = Idle
      BY <1>1, <2>6, <3>1 DEF OwnInv, Turns, Locals, Local, Busy
    <3>3. Idle.pc = "idle" /\ Idle.op # "run" BY DEF Idle
    <3>4. Idle.pc \notin Exchanging /\ Idle.pc # "plan" BY <3>3 DEF Exchanging
    <3> QED BY <2>0, <2>4, <3>2, <3>3, <3>4, FitEnded
  <2> QED BY <2>5, <2>6
<1>5. Opener' BY DEF Opener
<1>6. ASSUME NEW d \in Callers,
             res'[d].kind = "done" /\ res'[d].op = "run" /\ res'[d].clean
      PROVE  \A tok \in res'[d].out : tok.line.run = res'[d].run
  <2>1. NoResult.kind # "done" BY DEF NoResult
  <2>2. d # c BY <1>0, <1>6, <2>1
  <2>3. res'[d] = res[d] BY <1>0, <2>2
  <2> QED BY <1>6, <2>3 DEF OwnInv, AnswerIsOwn, Answered
<1>7. AnswerIsOwn' BY <1>6 DEF AnswerIsOwn, Answered
<1> QED BY <1>2, <1>3, <1>4, <1>5, <1>7 DEF Turns

\* The caller's first state.
LEMMA StartOwn ==
    ASSUME NEW c \in Callers, NEW op, NEW p, NEW pc \in {"check", "connect"},
           NEW login \in BOOLEAN, login <=> pc = "connect",
           Start(c, op, p, pc, login)
    PROVE  \E u : /\ Moves(c, u) /\ Local(u) /\ u.pc \notin Exchanging /\ u.pc # "plan"
                  /\ (u.op = "run" => ~u.clean) /\ ~Busy(c)
                  /\ res' = [res EXCEPT ![c] = NoResult]
<1> DEFINE u == [Idle EXCEPT !.pc = pc, !.op = op, !.plan = p,
                             !.run = runs + 1, !.login = login]
<1>1. /\ u.pc = pc /\ u.op = op /\ u.login = login /\ u.got = << >> /\ u.out = {}
      /\ u.clean = FALSE
  BY DEF Idle
<1>2. Moves(c, u) /\ ~Busy(c) /\ res' = [res EXCEPT ![c] = NoResult]
  BY DEF Start, Moves, Busy
<1> HIDE DEF u
<1>3. Local(u) /\ u.pc \notin Exchanging /\ u.pc # "plan" BY <1>1 DEF Local, Exchanging
<1> QED BY <1>1, <1>2, <1>3

\* Noting the overlap changes nothing else of a channel.
LEMMA MarkSharedOwn ==
    ASSUME Typed, NEW c \in Callers, NEW ch \in 1 .. MaxChans
    PROVE  LET s == MarkShared(c, ses)[ch] IN
             /\ s.shared = (ses[ch].shared \/ ~Alone(c))
             /\ s.wire = ses[ch].wire /\ s.inbox = ses[ch].inbox
             /\ s.closed = ses[ch].closed /\ s.lost = ses[ch].lost
BY DEF MarkShared, Typed, Session

\* run(), reconnect(), and the transfers.
LEMMA CallTurns ==
    ASSUME OwnInv, NEW c \in Callers, Call(c) PROVE Turns' /\ AnswerIsOwn'
<1>0. Typed /\ Typed' /\ DOMAIN ses = 1 .. MaxChans BY CallTyped DEF OwnInv, Typed
<1>1. 1 .. opened \subseteq 1 .. MaxChans BY <1>0, ShellAssumption DEF Typed
<1>2. CASE CallRun(c)
  <2>1. PICK op, p : Start(c, op, p, "check", FALSE) BY <1>2 DEF CallRun
  <2>2. PICK u : /\ Moves(c, u) /\ Local(u) /\ u.pc \notin Exchanging /\ u.pc # "plan"
                 /\ (u.op = "run" => ~u.clean) /\ ~Busy(c)
                 /\ res' = [res EXCEPT ![c] = NoResult]
    BY <2>1, StartOwn
  <2>3. ses' = MarkShared(c, ses) /\ UNCHANGED <<channel, opened>>
    BY <1>2 DEF CallRun, adapter
  <2> QED BY <1>0, <1>1, <2>2, <2>3, MarkSharedOwn, StartFrame
<1>3. CASE CallReconnect(c)
  <2>1. Start(c, "reconnect", ProbePlan, "connect", TRUE) BY <1>3 DEF CallReconnect
  <2>2. PICK u : /\ Moves(c, u) /\ Local(u) /\ u.pc \notin Exchanging /\ u.pc # "plan"
                 /\ (u.op = "run" => ~u.clean) /\ ~Busy(c)
                 /\ res' = [res EXCEPT ![c] = NoResult]
    BY <2>1, StartOwn
  <2>3. opened' = opened BY <1>3 DEF CallReconnect
  <2>4. CASE transport = "none"
    <3>1. ses' = MarkShared(c, ses) /\ channel' = channel BY <1>3, <2>4 DEF CallReconnect
    <3> QED BY <1>0, <1>1, <2>2, <2>3, <3>1, MarkSharedOwn, StartFrame
  <2>5. CASE transport # "none"
    <3>1. channel' = 0 /\ ses' = [ch \in DOMAIN ses |-> Shut(MarkShared(c, ses)[ch])]
      BY <1>3, <2>5 DEF CallReconnect
    <3>2. \A ch \in 1 .. MaxChans :
            Shut(MarkShared(c, ses)[ch]).shared = MarkShared(c, ses)[ch].shared
      <4>1. MarkShared(c, ses) \in [1 .. MaxChans -> Session]
        BY <1>0, TypedEquiv, MarkSharedType DEF TypeInv
      <4> QED BY <4>1 DEF Shut, Session
    <3>3. \A ch \in 1 .. opened : ses'[ch].shared <=> ses[ch].shared \/ ~Alone(c)
      BY <1>0, <1>1, <3>1, <3>2, MarkSharedOwn
    <3> QED BY <1>0, <2>2, <2>3, <3>1, <3>3, StartFrame
  <2> QED BY <2>4, <2>5
<1>4. CASE CallSftp(c)
  <2>1. Start(c, "sftp", ProbePlan, "connect", TRUE) BY <1>4 DEF CallSftp
  <2>2. PICK u : /\ Moves(c, u) /\ Local(u) /\ u.pc \notin Exchanging /\ u.pc # "plan"
                 /\ (u.op = "run" => ~u.clean) /\ ~Busy(c)
                 /\ res' = [res EXCEPT ![c] = NoResult]
    BY <2>1, StartOwn
  <2>3. ses' = MarkShared(c, ses) /\ UNCHANGED <<channel, opened>>
    BY <1>4 DEF CallSftp, adapter
  <2> QED BY <1>0, <1>1, <2>2, <2>3, MarkSharedOwn, StartFrame
<1> QED BY <1>2, <1>3, <1>4 DEF Call

-----------------------------------------------------------------------------
(* The shells and the network *)

\* A step of the other side keeps every caller in step, if it does so on the
\* adapter's channel.
LEMMA RemoteFrame ==
    ASSUME OwnInv, Typed', UNCHANGED <<channel, opened, th, res>>,
           \A ch \in 1 .. opened : ses'[ch].shared = ses[ch].shared,
           channel # 0 => \A c \in Callers :
               Fit(th[c], ses[channel], channel) => Fit(th[c], ses'[channel], channel)
    PROVE  Turns' /\ AnswerIsOwn'
<1>1. Locals' BY DEF Locals, OwnInv, Turns
<1>2. Overlap' BY DEF Overlap, OwnInv, Turns, Busy
<1>3. InTurn'
  <2> SUFFICES ASSUME NEW c \in Callers, Alone(c)', channel # 0, ~ses'[channel].shared
               PROVE  Fit(th[c], ses'[channel], channel)
    BY DEF InTurn
  <2>1. channel \in 1 .. opened BY DEF OwnInv, Typed
  <2>2. Alone(c) BY DEF Alone, Busy
  <2> QED BY <2>1, <2>2 DEF InTurn, OwnInv, Turns
<1>4. Opener' BY DEF Opener, OwnInv, Turns
<1>5. AnswerIsOwn' BY SameResults DEF OwnInv
<1> QED BY <1>1, <1>2, <1>3, <1>4, <1>5 DEF Turns

\* A channel that dies answers no more; what it printed stays.
LEMMA ShutFit ==
    ASSUME NEW t, NEW s \in Session, NEW ch, Fit(t, s, ch)
    PROVE  Fit(t, Shut(s), ch)
<1> DEFINE r == Shut(s)
<1>1. /\ r.closed = TRUE /\ r.inbox = << >> /\ r.wire = s.wire /\ r.lost = s.lost
  BY DEF Shut, Session
<1>2. Len(r.inbox) = 0 BY <1>1
<1> HIDE DEF r
<1>3. Still(s) => Still(r) BY <1>1 DEF Still
<1>4. BeforeSend(t, s) => BeforeSend(t, r) BY <1>1, <1>2, <1>3 DEF BeforeSend
<1>5. Awaiting(t, s) => Awaiting(t, r) BY <1>1, <1>2 DEF Awaiting
<1>6. Mine(t, s) => Mine(t, r) BY <1>1, <1>2 DEF Mine
<1> QED BY <1>1, <1>3, <1>4, <1>5, <1>6 DEF Fit, InStep, r

\* What is left of a sequence without its first element.
LEMMA TailFacts ==
    ASSUME NEW S, NEW q \in Seq(S), q # << >>
    PROVE  /\ Len(q) \in Nat /\ Len(q) # 0 /\ q[1] = Head(q)
           /\ Len(Tail(q)) = Len(q) - 1
           /\ \A i \in 1 .. Len(q) - 1 : Tail(q)[i] = q[i + 1]
<1>1. Len(q) \in Nat /\ Len(q) # 0 /\ q[1] = Head(q) OBVIOUS
<1>2. Len(Tail(q)) = Len(q) - 1 BY HeadTailProperties
<1>3. \A i \in 1 .. Len(q) - 1 : Tail(q)[i] = q[i + 1] BY HeadTailProperties
<1> QED BY <1>1, <1>2, <1>3

\* Output of the line the shell is at, be it the prompt that ends it, keeps the
\* caller in step.
LEMMA OutputFit ==
    ASSUME NEW t, NEW s \in Session, NEW r, NEW ch, Fit(t, s, ch), s.inbox # << >>,
           NEW tok \in Token, tok.line = Head(s.inbox),
           r.wire = Append(s.wire, tok), r.lost = s.lost, r.closed = s.closed,
           \/ r.inbox = s.inbox /\ tok.kind \notin {"prompt", "rawprompt"}
           \/ r.inbox = Tail(s.inbox)
    PROVE  Fit(t, r, ch)
<1> DEFINE n == Len(s.inbox)
           m == Len(s.wire)
           k == Len(r.inbox)
           line == LineOf(t)
<1>0. s.inbox \in Seq(Line) /\ s.wire \in Seq(Token) BY DEF Session
<1>1. n \in Nat /\ n # 0 /\ m \in Nat /\ tok.line = s.inbox[1]
  BY <1>0, TailFacts
<1>2. /\ Len(r.wire) = m + 1 /\ r.wire[m + 1] = tok
      /\ \A i \in 1 .. m : r.wire[i] = s.wire[i]
  BY <1>0
<1>4. \/ r.inbox = s.inbox /\ k = n /\ tok.kind \notin {"prompt", "rawprompt"}
      \/ r.inbox = Tail(s.inbox) /\ k = n - 1 /\ \A i \in 1 .. n - 1 : r.inbox[i] = s.inbox[i + 1]
  BY <1>0, TailFacts
<1>6. ~Still(s) BY DEF Still
<1>a. BeforeSend(t, s) /\ ~Still(s) =>
        /\ Head(t.todo).what = "ps1" /\ n <= 1
        /\ \A i \in 1 .. n : s.inbox[i].what = "greet"
        /\ \A i \in 1 .. m : s.wire[i].line.what = "greet"
  BY DEF BeforeSend
<1>b. /\ Head(t.todo).what = "ps1" /\ k <= 1
      /\ \A i \in 1 .. k : r.inbox[i].what = "greet"
      /\ \A i \in 1 .. Len(r.wire) : r.wire[i].line.what = "greet"
      => BeforeSend(t, r)
  BY DEF BeforeSend
<1>c. Mine(t, s) =>
        /\ \A i \in 1 .. n : s.inbox[i].run = t.run
        /\ \A i \in 1 .. m : s.wire[i].line.run = t.run
  BY DEF Mine
<1>d. /\ Mine(t, s)
      /\ \A i \in 1 .. k : r.inbox[i].run = t.run
      /\ \A i \in 1 .. Len(r.wire) : r.wire[i].line.run = t.run
      => Mine(t, r)
  BY DEF Mine
<1>e. Awaiting(t, s) =>
        /\ n <= 2
        /\ n = 1 => s.inbox[1] = line
        /\ n = 2 => s.inbox[1].what = "greet" /\ line.what # "greet" /\ s.inbox[2] = line
        /\ \A i \in 1 .. m : ~Ends(s.wire[i], line)
        /\ \A i \in 1 .. Len(t.got) : ~Ends(t.got[i], line)
        /\ line.what = "greet" => \A i \in 1 .. m : s.wire[i].line.what = "greet"
  BY DEF Awaiting
<1>f. /\ k <= 2
      /\ k = 1 => r.inbox[1] = line
      /\ k = 2 => r.inbox[1].what = "greet" /\ line.what # "greet" /\ r.inbox[2] = line
      /\ k # 0 => /\ \A i \in 1 .. Len(r.wire) : ~Ends(r.wire[i], line)
      /\ \A i \in 1 .. Len(t.got) : ~Ends(t.got[i], line)
      /\ \A i \in 1 .. Len(r.wire) : Ends(r.wire[i], line) => i = Len(r.wire)
      /\ line.what = "greet" => \A i \in 1 .. Len(r.wire) : r.wire[i].line.what = "greet"
      => Awaiting(t, r)
  <2>1. r.inbox # << >> => k # 0
    <3>1. r.inbox \in Seq(Line) BY <1>0, HeadTailProperties
    <3> QED BY <3>1
  <2> QED BY <2>1 DEF Awaiting
<1> HIDE DEF n, m, k, line
<1>g. 1 \in 1 .. n BY <1>1
<1>3. \A i \in 1 .. Len(r.wire) : (i \in 1 .. m /\ r.wire[i] = s.wire[i])
                                  \/ (i = m + 1 /\ r.wire[i] = tok)
  BY <1>1, <1>2
<1>5. \A i \in 1 .. k : \E j \in 1 .. n : r.inbox[i] = s.inbox[j]
  <2>1. \A i \in 1 .. n - 1 : i + 1 \in 1 .. n BY <1>1
  <2> QED BY <1>4, <2>1
<1>7. ASSUME BeforeSend(t, s) PROVE BeforeSend(t, r)
  <2>1. \A i \in 1 .. Len(r.wire) : r.wire[i].line.what = "greet"
    BY <1>1, <1>3, <1>6, <1>7, <1>a, <1>g
  <2>2. \A i \in 1 .. k : r.inbox[i].what = "greet" BY <1>5, <1>6, <1>7, <1>a
  <2>3. k <= 1 BY <1>1, <1>4, <1>6, <1>7, <1>a
  <2> QED BY <1>6, <1>7, <1>a, <1>b, <2>1, <2>2, <2>3
<1>8. ASSUME Mine(t, s) PROVE Mine(t, r)
  <2>1. \A i \in 1 .. Len(r.wire) : r.wire[i].line.run = t.run
    BY <1>1, <1>3, <1>8, <1>c, <1>g
  <2>2. \A i \in 1 .. k : r.inbox[i].run = t.run BY <1>5, <1>8, <1>c
  <2> QED BY <1>8, <1>d, <2>1, <2>2
<1>9. ASSUME Awaiting(t, s) PROVE Awaiting(t, r)
  <2>1. n = 1 \/ n = 2 BY <1>1, <1>9, <1>e
  <2>2. Ends(tok, line) => n = 1 /\ r.inbox = Tail(s.inbox) /\ k = 0
    <3>1. Ends(tok, line) => s.inbox[1] = line /\ tok.kind \in {"prompt", "rawprompt"}
      BY <1>1 DEF Ends
    <3>2. Ends(tok, line) => n = 1 BY <1>9, <1>e, <2>1, <3>1
    <3>3. Ends(tok, line) => r.inbox = Tail(s.inbox) /\ k = n - 1 BY <1>4, <3>1
    <3> QED BY <3>2, <3>3
  <2>3. \A i \in 1 .. Len(r.wire) : Ends(r.wire[i], line) => i = Len(r.wire) /\ Ends(tok, line)
    BY <1>2, <1>3, <1>9, <1>e
  <2>4. line.what = "greet" => \A i \in 1 .. Len(r.wire) : r.wire[i].line.what = "greet"
    BY <1>1, <1>3, <1>9, <1>e, <2>1
  <2>5. k # 0 => \A i \in 1 .. Len(r.wire) : ~Ends(r.wire[i], line) BY <2>2, <2>3
  <2>6. /\ k <= 2
        /\ k = 1 => r.inbox[1] = line
        /\ k = 2 => r.inbox[1].what = "greet" /\ line.what # "greet" /\ r.inbox[2] = line
    <3>1. CASE r.inbox = s.inbox /\ k = n BY <1>9, <1>e, <2>1, <3>1
    <3>2. CASE k = n - 1 /\ \A i \in 1 .. n - 1 : r.inbox[i] = s.inbox[i + 1]
      <4>1. CASE n = 1 BY <3>2, <4>1
      <4>2. CASE n = 2
        <5>1. 1 \in 1 .. n - 1 /\ 1 + 1 = 2 BY <4>2
        <5>2. r.inbox[1] = s.inbox[2] /\ k = 1 BY <3>2, <4>2, <5>1
        <5> QED BY <1>9, <1>e, <4>2, <5>2
      <4> QED BY <2>1, <4>1, <4>2
    <3> QED BY <1>4, <3>1, <3>2
  <2>7. \A i \in 1 .. Len(t.got) : ~Ends(t.got[i], line) BY <1>9, <1>e
  <2> QED BY <1>f, <2>3, <2>4, <2>5, <2>6, <2>7
<1> QED BY <1>6, <1>7, <1>8, <1>9 DEF Fit, InStep

\* What the remote side does keeps callers and channel in step.
LEMMA RemoteTurns ==
    ASSUME OwnInv,
           (\E ch \in 1 .. opened : Remote(ch) \/ ChannelDies(ch)) \/ TransportDies
    PROVE  Turns' /\ AnswerIsOwn'
<1>0. Typed /\ Typed' /\ channel \in 0 .. opened /\ 1 .. opened \subseteq 1 .. MaxChans
      /\ ses \in [1 .. MaxChans -> Session]
  BY RemoteTyped, ShellAssumption DEF OwnInv, Typed
<1>1. ASSUME NEW ch \in 1 .. opened, NEW s,
             ses' = [ses EXCEPT ![ch] = s], s.shared = ses[ch].shared,
             \A c \in Callers : Fit(th[c], ses[ch], ch) => Fit(th[c], s, ch),
             UNCHANGED <<channel, opened, th, res>>
      PROVE  Turns' /\ AnswerIsOwn'
  <2>1. \A d \in 1 .. opened : ses'[d] = IF d = ch THEN s ELSE ses[d] BY <1>0, <1>1
  <2>2. \A d \in 1 .. opened : ses'[d].shared = ses[d].shared BY <1>1, <2>1
  <2>3. channel # 0 => \A c \in Callers :
          Fit(th[c], ses[channel], channel) => Fit(th[c], ses'[channel], channel)
    BY <1>0, <1>1, <2>1
  <2> QED BY <1>0, <1>1, <2>2, <2>3, RemoteFrame
<1>2. ASSUME NEW ch \in 1 .. opened, RemoteText(ch) PROVE Turns' /\ AnswerIsOwn'
  <2> DEFINE q == ses[ch]
             line == Head(q.inbox)
  <2>0. q \in Session /\ q.inbox # << >> BY <1>0, <1>2 DEF RemoteText
  <2>1. PICK kind \in {"text", "digits", "lookalike", "mimic"} :
          ses' = [ses EXCEPT ![ch].spoke = TRUE,
                             ![ch].wire = Append(@, [line |-> line, kind |-> kind,
                                                     of |-> ses[ch].prev])]
    BY <1>2 DEF RemoteText
  <2> DEFINE tok == [line |-> line, kind |-> kind, of |-> q.prev]
             s == [q EXCEPT !.spoke = TRUE, !.wire = Append(@, tok)]
  <2>2. tok \in Token /\ tok.line = line /\ tok.kind \notin {"prompt", "rawprompt"}
    <3>1. line \in Line /\ q.prev \in Line BY <2>0 DEF Session
    <3> QED BY <3>1 DEF Token, TokenKinds
  <2>3. ses' = [ses EXCEPT ![ch] = s] BY <1>0, <2>1
  <2>4. /\ s.wire = Append(q.wire, tok) /\ s.lost = q.lost /\ s.closed = q.closed
        /\ s.inbox = q.inbox /\ s.shared = q.shared
    BY <2>0 DEF Session
  <2> HIDE DEF q, tok, s
  <2>5. \A c \in Callers : Fit(th[c], q, ch) => Fit(th[c], s, ch)
    BY <2>0, <2>2, <2>4, OutputFit
  <2> QED BY <1>1, <1>2, <2>3, <2>4, <2>5 DEF RemoteText, adapter, q
<1>3. ASSUME NEW ch \in 1 .. opened, RemotePrompt(ch) PROVE Turns' /\ AnswerIsOwn'
  <2> DEFINE q == ses[ch]
             line == Head(q.inbox)
             named == q.named \/ line.what \in {"ps1", "sh1"}
             tok == [line |-> line, of |-> line,
                     kind |-> IF named THEN "prompt" ELSE "rawprompt"]
             s == [q EXCEPT !.spoke = FALSE, !.named = named, !.inbox = Tail(@),
                            !.prev = IF line.what = "intr" THEN @ ELSE line,
                            !.wire = Append(@, tok)]
  <2>0. q \in Session /\ q.inbox # << >> BY <1>0, <1>3 DEF RemotePrompt
  <2>1. ses' = [ses EXCEPT ![ch] = s] BY <1>0, <1>3 DEF RemotePrompt
  <2>2. tok \in Token /\ tok.line = line
    <3>1. line \in Line BY <2>0 DEF Session
    <3> QED BY <3>1 DEF Token, TokenKinds
  <2>4. /\ s.wire = Append(q.wire, tok) /\ s.lost = q.lost /\ s.closed = q.closed
        /\ s.inbox = Tail(q.inbox) /\ s.shared = q.shared
    BY <2>0 DEF Session
  <2> HIDE DEF q, tok, s
  <2>5. \A c \in Callers : Fit(th[c], q, ch) => Fit(th[c], s, ch)
    BY <2>0, <2>2, <2>4, OutputFit
  <2> QED BY <1>1, <1>3, <2>1, <2>4, <2>5 DEF RemotePrompt, adapter, q
<1>4. ASSUME NEW ch \in 1 .. opened, ChannelDies(ch) PROVE Turns' /\ AnswerIsOwn'
  <2> DEFINE s == Shut(ses[ch])
  <2>1. ses' = [ses EXCEPT ![ch] = s] BY <1>0, <1>4 DEF ChannelDies
  <2>2. ses[ch] \in Session BY <1>0
  <2>3. s.shared = ses[ch].shared BY <2>2 DEF Shut, Session
  <2>4. \A c \in Callers : Fit(th[c], ses[ch], ch) => Fit(th[c], s, ch) BY <2>2, ShutFit
  <2> HIDE DEF s
  <2> QED BY <1>1, <1>4, <2>1, <2>3, <2>4 DEF ChannelDies, adapter
<1>5. CASE TransportDies
  <2>1. \A ch \in 1 .. opened : ses'[ch] = Shut(ses[ch]) /\ ses[ch] \in Session
    BY <1>0, <1>5 DEF TransportDies
  <2>2. \A ch \in 1 .. opened : ses'[ch].shared = ses[ch].shared
    BY <2>1 DEF Shut, Session
  <2>3. channel # 0 => \A c \in Callers :
          Fit(th[c], ses[channel], channel) => Fit(th[c], ses'[channel], channel)
    <3> SUFFICES ASSUME channel # 0, NEW c \in Callers, Fit(th[c], ses[channel], channel)
                 PROVE  Fit(th[c], ses'[channel], channel)
      OBVIOUS
    <3>1. channel \in 1 .. opened BY <1>0 DEF Typed
    <3>2. ses[channel] \in Session /\ ses'[channel] = Shut(ses[channel]) BY <2>1, <3>1
    <3>3. Fit(th[c], Shut(ses[channel]), channel) BY <3>2, ShutFit
    <3> QED BY <3>2, <3>3
  <2> QED BY <1>0, <1>5, <2>2, <2>3, RemoteFrame DEF TransportDies
<1> QED BY <1>2, <1>3, <1>4, <1>5 DEF Remote

-----------------------------------------------------------------------------
(* The theorems *)

\* The adapter as it is constructed, nobody using it.
LEMMA OwnInit == Init => OwnInv
<1> SUFFICES ASSUME Init PROVE OwnInv OBVIOUS
<1>1. Typed BY TypedInit
<1>2. Locals BY IdleEnded DEF Init, Locals, Ended
<1>3. Overlap BY DEF Init, Overlap, Busy, Idle
<1>4. InTurn /\ Opener BY DEF Init, InTurn, Opener
<1>5. AnswerIsOwn BY DEF Init, AnswerIsOwn, Answered, NoResult
<1> QED BY <1>1, <1>2, <1>3, <1>4, <1>5 DEF OwnInv, Turns

\* Every step of a caller, of a shell and of the network keeps the invariant.
LEMMA OwnStep == OwnInv /\ [Next]_vars => OwnInv'
<1> SUFFICES ASSUME OwnInv, [Next]_vars PROVE OwnInv' OBVIOUS
<1>0. Typed BY DEF OwnInv
<1>1. ASSUME NEW c \in Callers, Call(c) PROVE OwnInv'
  BY <1>0, <1>1, CallTyped, CallTurns DEF OwnInv
<1>2. ASSUME NEW c \in Callers, CallerStep(c) PROVE OwnInv'
  <2>1. Typed' BY <1>0, <1>2, ConnectTyped, SendTyped, RecvTyped, VerdictTyped DEF CallerStep
  <2>2. Turns' /\ AnswerIsOwn'
    BY <1>2, CheckTurns, MakePlanTurns, ConnectTurns, ConnectFailsTurns, OpenTurns,
       DrainTurns, SendTurns, ClosedTurns, SendTimeoutTurns, StartRecvTurns,
       RecvChunkTurns, MatchedTurns, TimeoutTurns, VerdictTurns
    DEF CallerStep
  <2> QED BY <2>1, <2>2 DEF OwnInv
<1>3. CASE (\E ch \in 1 .. opened : Remote(ch) \/ ChannelDies(ch)) \/ TransportDies
  BY <1>0, <1>3, RemoteTyped, RemoteTurns DEF OwnInv
<1>4. CASE UNCHANGED vars
  <2>1. Typed' BY <1>0, <1>4 DEF vars, Typed, CallsOK
  <2>2. Turns'
    BY <1>4 DEF vars, OwnInv, Turns, Locals, Overlap, InTurn, Opener, Busy, Alone
  <2>3. AnswerIsOwn' BY <1>4, SameResults DEF vars, OwnInv
  <2> QED BY <2>1, <2>2, <2>3 DEF OwnInv
<1> QED BY <1>1, <1>2, <1>3, <1>4 DEF Next

\* Whatever callers share the adapter and whatever the remote side does, a run that
\* had an undisturbed channel for itself returns what its own lines printed: send(),
\* recv() and login() never leave an answer that a later wait can take for its own.
THEOREM AnswersAreOwn == Spec => []AnswerIsOwn
<1>1. Init => OwnInv BY OwnInit
<1>2. OwnInv /\ [Next]_vars => OwnInv' BY OwnStep
<1>3. OwnInv => AnswerIsOwn BY DEF OwnInv
<1> QED BY <1>1, <1>2, <1>3, PTL DEF Spec

\* Between the operations nothing is in flight on an open channel on which no wait
\* left its prompt behind and no two callers met: run() starts from an empty buffer.
THEOREM ChannelQuiet == Spec => []QuietBetweenRuns
<1>1. Init => OwnInv BY OwnInit
<1>2. OwnInv /\ [Next]_vars => OwnInv' BY OwnStep
<1>3. OwnInv => QuietBetweenRuns
  <2> SUFFICES ASSUME OwnInv, Active, Undisturbed(channel), \A c \in Callers : ~Busy(c)
               PROVE  Quiet(channel)
    BY DEF QuietBetweenRuns
  <2>1. PICK c \in Callers : TRUE BY DEF OwnInv, Turns, Opener, Active
  <2>2. Fit(th[c], ses[channel], channel)
    BY <2>1 DEF OwnInv, Turns, InTurn, Alone, Active, Undisturbed
  <2>3. th[c].pc = "idle" BY DEF Busy
  <2>4. Still(ses[channel])
    BY <2>2, <2>3 DEF Fit, InStep, Exchanging, Active, Undisturbed
  <2> QED BY <2>4 DEF Still, Quiet
<1> QED BY <1>1, <1>2, <1>3, PTL DEF Spec
-----------------------------------------------------------------------------
(* The status of a run is its own: RcIsOwn.                                 *)

\* The exchanges left of a run that asks for the status: the status is the last,
\* what restores the prompt comes in pairs, and without that the status follows the
\* last command, or the interrupt of it.
Order(todo, p) ==
    LET n == Len(todo) IN
      /\ n \in Nat \ {0}
      /\ todo[n].what = "status" /\ todo[n].k = 0
      /\ \A i \in 1 .. n : todo[i].what \in RunPurposes
      /\ \A i \in 1 .. n - 1 : todo[i].what # "status"
      /\ \A i \in 2 .. n : todo[i].what # "intr"
      /\ \A i \in 1 .. n - 1 : todo[i].what = "sh1" => todo[i + 1].what = "sh2"
      /\ ~p.shnormal =>
           /\ \A i \in 1 .. n : todo[i].what \notin {"sh1", "sh2"}
           /\ n > 1 => todo[n - 1].what \in {"cmd", "intr"} /\ todo[n - 1].k = p.inputs

\* One sequence after the other.
LEMMA CatLen ==
    ASSUME NEW S, NEW s \in Seq(S), NEW t \in Seq(S)
    PROVE  s \o t \in Seq(S) /\ Len(s \o t) = Len(s) + Len(t)
OBVIOUS

\* The first of them.
LEMMA CatLeft ==
    ASSUME NEW S, NEW s \in Seq(S), NEW t \in Seq(S)
    PROVE  \A i \in 1 .. Len(s) : (s \o t)[i] = s[i]
OBVIOUS

\* The second.
LEMMA CatRight ==
    ASSUME NEW S, NEW s \in Seq(S), NEW t \in Seq(S)
    PROVE  \A i \in 1 .. Len(t) : (s \o t)[Len(s) + i] = t[i]
OBVIOUS

\* Four sequences one after the other.
LEMMA CatFour ==
    ASSUME NEW S, NEW a \in Seq(S), NEW b \in Seq(S), NEW d \in Seq(S), NEW e \in Seq(S),
           NEW u, u = ((a \o b) \o d) \o e
    PROVE  /\ u \in Seq(S) /\ Len(u) = Len(a) + Len(b) + Len(d) + Len(e)
           /\ \A i \in 1 .. Len(a) : u[i] = a[i]
           /\ \A i \in 1 .. Len(b) : u[Len(a) + i] = b[i]
           /\ \A i \in 1 .. Len(d) : u[Len(a) + Len(b) + i] = d[i]
           /\ \A i \in 1 .. Len(e) : u[Len(a) + Len(b) + Len(d) + i] = e[i]
<1> DEFINE q == a \o b
           g == q \o d
           todo == g \o e
<1>u. u = todo OBVIOUS
<1>0. Len(a) \in Nat /\ Len(b) \in Nat /\ Len(d) \in Nat /\ Len(e) \in Nat OBVIOUS
<1>1. q \in Seq(S) /\ Len(q) = Len(a) + Len(b) BY CatLen
<1>2. /\ \A i \in 1 .. Len(a) : q[i] = a[i]
      /\ \A i \in 1 .. Len(b) : q[Len(a) + i] = b[i]
  BY CatLeft, CatRight
<1> HIDE DEF q
<1>3. g \in Seq(S) /\ Len(g) = Len(q) + Len(d) BY <1>1, CatLen
<1>4. /\ \A i \in 1 .. Len(q) : g[i] = q[i]
      /\ \A i \in 1 .. Len(d) : g[Len(q) + i] = d[i]
  BY <1>1, CatLeft, CatRight
<1> HIDE DEF g
<1>5. todo \in Seq(S) /\ Len(todo) = Len(g) + Len(e) BY <1>3, CatLen
<1>6. /\ \A i \in 1 .. Len(g) : todo[i] = g[i]
      /\ \A i \in 1 .. Len(e) : todo[Len(g) + i] = e[i]
  <2>1. \A i \in 1 .. Len(g) : todo[i] = g[i] BY <1>3, CatLeft
  <2>2. \A i \in 1 .. Len(e) : todo[Len(g) + i] = e[i] BY <1>3, CatRight
  <2> QED BY <2>1, <2>2
<1> HIDE DEF todo
<1> DEFINE l == Len(a)
           m == Len(b)
           h == Len(d)
<1>7. l \in Nat /\ m \in Nat /\ h \in Nat BY <1>0
<1>8. Len(q) = l + m /\ Len(g) = l + m + h BY <1>1, <1>3
<1> HIDE DEF l, m, h
<1>9. ASSUME NEW i \in 1 .. l PROVE todo[i] = a[i]
  <2>1. i \in 1 .. Len(q) /\ i \in 1 .. Len(g) BY <1>7, <1>8
  <2>2. q[i] = a[i] BY <1>2 DEF l
  <2> QED BY <1>4, <1>6, <2>1, <2>2
<1>10. ASSUME NEW i \in 1 .. m PROVE todo[l + i] = b[i]
  <2>1. l + i \in 1 .. Len(q) /\ l + i \in 1 .. Len(g) BY <1>7, <1>8
  <2>2. q[l + i] = b[i] BY <1>2 DEF l, m
  <2> QED BY <1>4, <1>6, <2>1, <2>2
<1>11. ASSUME NEW i \in 1 .. h PROVE todo[l + m + i] = d[i]
  <2>1. l + m + i \in 1 .. Len(g) BY <1>7, <1>8
  <2>2. g[l + m + i] = d[i] BY <1>4, <1>8 DEF h
  <2> QED BY <1>6, <2>1, <2>2
<1>12. ASSUME NEW i \in 1 .. Len(e) PROVE todo[l + m + h + i] = e[i]
  BY <1>6, <1>8
<1>13. Len(todo) = l + m + h + Len(e) BY <1>5, <1>8
<1> QED BY <1>5, <1>9, <1>10, <1>11, <1>12, <1>13, <1>u DEF l, m, h

\* Where a place lies in a sequence of four parts, the last a single element.
LEMMA FourParts ==
    ASSUME NEW l \in {0, 1}, NEW m \in Nat, NEW h \in {0, 2}
    PROVE  \A i \in 1 .. (l + m + h + 1) - 1 :
             \/ i \in 1 .. l \/ (i - l \in 1 .. m /\ i = l + (i - l))
             \/ h = 2 /\ i \in {l + m + 1, l + m + 2}
<1> SUFFICES ASSUME NEW i \in 1 .. (l + m + h + 1) - 1
             PROVE  \/ i \in 1 .. l \/ (i - l \in 1 .. m /\ i = l + (i - l))
                    \/ h = 2 /\ i \in {l + m + 1, l + m + 2}
  OBVIOUS
<1>1. i \in Int /\ l \in Int /\ m \in Int /\ 1 <= i /\ i <= l + m + h OBVIOUS
<1>2. CASE i <= l BY <1>1, <1>2
<1>3. CASE l < i /\ i <= l + m BY <1>1, <1>3
<1>4. CASE l + m < i BY <1>1, <1>4
<1> QED BY <1>1, <1>2, <1>3, <1>4

\* The exchanges run() plans are in this order.
LEMMA OrderPlanned ==
    ASSUME NEW p \in PlanType, p.code, NEW nrm \in BOOLEAN
    PROVE  /\ Order(RunExchanges("run", p, nrm), p)
           /\ Head(RunExchanges("run", p, nrm)).what \in {"cd", "cmd"}
<1> DEFINE base == IF nrm THEN "strict" ELSE "loose"
           pat  == IF p.custom THEN "loose" ELSE base
           none == << >>
           a == IF p.cd THEN << X("cd", 0, pat, FALSE) >> ELSE none
           b == [i \in 1 .. p.inputs + 1 |-> X("cmd", i - 1, pat, p.raise)]
           r == << X("sh1", 0, "strict", TRUE), X("sh2", 0, "strict", TRUE) >>
           d == IF p.shnormal THEN r ELSE none
           e == << X("status", 0, base, TRUE) >>
           m == p.inputs + 1
           todo == a \o b \o d \o e
<1>0. p.inputs \in Nat /\ m \in Nat \ {0} BY DEF PlanType
<1>1. RunExchanges("run", p, nrm) = todo BY DEF RunExchanges
<1>2. Len(none) = 0 /\ none \in Seq(Exchange) BY EmptySeqType
<1>3. /\ a \in Seq(Exchange)
      /\ Len(a) \in {0, 1} /\ \A i \in 1 .. Len(a) : a[i].what = "cd"
  <2>1. X("cd", 0, pat, FALSE).what = "cd" BY DEF X
  <2>2. X("cd", 0, pat, FALSE) \in Exchange BY XType DEF Purposes
  <2>3. CASE p.cd
    <3> DEFINE x == X("cd", 0, pat, FALSE)
    <3>0. x.what = "cd" BY <2>1
    <3>1. Len(<< x >>) = 1 /\ << x >>[1] = x OBVIOUS
    <3>2. << x >> \in Seq(Exchange) BY <2>2, SeqOf1 DEF x
    <3>3. a = << x >> BY <2>3 DEF x
    <3> HIDE DEF x, a
    <3> QED BY <3>0, <3>1, <3>2, <3>3
  <2>4. CASE ~p.cd BY <1>2, <2>4
  <2> QED BY <2>3, <2>4
<1>4. /\ b \in Seq(Exchange) /\ Len(b) = m
      /\ \A i \in 1 .. m : b[i].what = "cmd" /\ b[i].k = i - 1
  <2>1. p.raise \in BOOLEAN BY DEF PlanType
  <2>2. \A i \in 1 .. m : X("cmd", i - 1, pat, p.raise) \in Exchange
    BY <1>0, <2>1, XType DEF Purposes
  <2>3. b \in [1 .. m -> Exchange] BY <2>2
  <2>4. \A i \in 1 .. m : b[i] = X("cmd", i - 1, pat, p.raise) OBVIOUS
  <2>5. \A i \in 1 .. m : b[i].what = "cmd" /\ b[i].k = i - 1 BY <2>4 DEF X
  <2> HIDE DEF b
  <2> QED BY <1>0, <2>3, <2>5
<1>5. /\ d \in Seq(Exchange) /\ Len(d) = IF p.shnormal THEN 2 ELSE 0
      /\ p.shnormal => d[1].what = "sh1" /\ d[2].what = "sh2"
  <2> DEFINE x == X("sh1", 0, "strict", TRUE)
             y == X("sh2", 0, "strict", TRUE)
  <2>1. x.what = "sh1" /\ y.what = "sh2" BY DEF X
  <2>2. x \in Exchange /\ y \in Exchange BY XType DEF Purposes
  <2>3. r = << x, y >> OBVIOUS
  <2> HIDE DEF x, y
  <2>4. r \in Seq(Exchange) /\ Len(r) = 2 /\ r[1] = x /\ r[2] = y BY <2>2, <2>3, SeqOf2
  <2> HIDE DEF r, none
  <2>5. CASE p.shnormal BY <2>1, <2>4, <2>5
  <2>6. CASE ~p.shnormal BY <1>2, <2>6
  <2> QED BY <2>5, <2>6
<1>6. e \in Seq(Exchange) /\ Len(e) = 1 /\ e[1].what = "status" /\ e[1].k = 0
  <2> DEFINE x == X("status", 0, base, TRUE)
  <2>1. x.what = "status" /\ x.k = 0 BY DEF X
  <2>2. x \in Exchange BY XType DEF Purposes
  <2>3. e = << x >> OBVIOUS
  <2> HIDE DEF x
  <2> QED BY <2>1, <2>2, <2>3, SeqOf1
<1> HIDE DEF a, b, d, e
<1>7. PICK l \in {0, 1} : Len(a) = l BY <1>3
<1>8. PICK h \in {0, 2} : Len(d) = h /\ (h = 2 <=> p.shnormal) BY <1>5
<1>9. /\ todo \in Seq(Exchange) /\ Len(todo) = l + m + h + 1
      /\ \A i \in 1 .. l : todo[i] = a[i]
      /\ \A i \in 1 .. m : todo[l + i] = b[i]
      /\ \A i \in 1 .. h : todo[l + m + i] = d[i]
      /\ todo[l + m + h + 1] = e[1]
  <2>1. /\ todo \in Seq(Exchange) /\ Len(todo) = Len(a) + Len(b) + Len(d) + Len(e)
        /\ \A i \in 1 .. Len(a) : todo[i] = a[i]
        /\ \A i \in 1 .. Len(b) : todo[Len(a) + i] = b[i]
        /\ \A i \in 1 .. Len(d) : todo[Len(a) + Len(b) + i] = d[i]
        /\ \A i \in 1 .. Len(e) : todo[Len(a) + Len(b) + Len(d) + i] = e[i]
    <3>1. a \in Seq(Exchange) /\ b \in Seq(Exchange) /\ d \in Seq(Exchange) /\ e \in Seq(Exchange)
      BY <1>3, <1>4, <1>5, <1>6
    <3>2. todo = ((a \o b) \o d) \o e OBVIOUS
    <3> HIDE DEF todo
    <3> QED BY <3>1, <3>2, CatFour
  <2> HIDE DEF todo
  <2>2. 1 \in 1 .. 1 OBVIOUS
  <2> QED BY <1>4, <1>6, <1>7, <1>8, <2>1, <2>2
<1> HIDE DEF todo
<1>10. /\ \A i \in 1 .. l : todo[i].what = "cd"
       /\ \A i \in 1 .. m : todo[l + i].what = "cmd"
       /\ todo[l + m].k = p.inputs
       /\ h = 2 => todo[l + m + 1].what = "sh1" /\ todo[l + m + 2].what = "sh2"
       /\ todo[l + m + h + 1].what = "status" /\ todo[l + m + h + 1].k = 0
  <2>1. \A i \in 1 .. l : todo[i].what = "cd" BY <1>3, <1>7, <1>9
  <2>2. \A i \in 1 .. m : todo[l + i].what = "cmd" BY <1>4, <1>9
  <2>3. m \in 1 .. m /\ m - 1 = p.inputs BY <1>0
  <2>4. todo[l + m].k = p.inputs BY <1>4, <1>9, <2>3
  <2>5. h = 2 => 1 \in 1 .. h /\ 2 \in 1 .. h OBVIOUS
  <2>6. h = 2 => todo[l + m + 1] = d[1] /\ todo[l + m + 2] = d[2] BY <1>9, <2>5
  <2> QED BY <1>5, <1>6, <1>8, <1>9, <2>1, <2>2, <2>4, <2>6
<1> DEFINE n == l + m + h + 1
<1>11. n \in Nat \ {0} /\ Len(todo) = n /\ todo[n].what = "status" /\ todo[n].k = 0
  BY <1>0, <1>7, <1>8, <1>9, <1>10
<1>12. \A i \in 1 .. n - 1 :
         \/ i \in 1 .. l \/ (i - l \in 1 .. m /\ i = l + (i - l))
         \/ h = 2 /\ i \in {l + m + 1, l + m + 2}
  <2>1. m \in Nat /\ n = l + m + h + 1 BY <1>0
  <2> HIDE DEF m, n
  <2>2. \A i \in 1 .. (l + m + h + 1) - 1 :
          \/ i \in 1 .. l \/ (i - l \in 1 .. m /\ i = l + (i - l))
          \/ h = 2 /\ i \in {l + m + 1, l + m + 2}
    BY <1>7, <1>8, <2>1, FourParts
  <2> QED BY <2>1, <2>2
<1>13. \A i \in 1 .. n - 1 : todo[i].what \in {"cd", "cmd"} \/ (h = 2 /\ todo[i].what \in {"sh1", "sh2"})
  <2> SUFFICES ASSUME NEW i \in 1 .. n - 1
               PROVE  todo[i].what \in {"cd", "cmd"} \/ (h = 2 /\ todo[i].what \in {"sh1", "sh2"})
    OBVIOUS
  <2>1. CASE i \in 1 .. l BY <1>10, <2>1
  <2>2. CASE i - l \in 1 .. m /\ i = l + (i - l)
    <3>1. todo[l + (i - l)].what = "cmd" BY <1>10, <2>2
    <3> QED BY <2>2, <3>1
  <2>3. CASE h = 2 /\ i \in {l + m + 1, l + m + 2} BY <1>10, <2>3
  <2> QED BY <1>12, <2>1, <2>2, <2>3
<1>14. \A i \in 1 .. n - 1 : todo[i].what = "sh1" => todo[i + 1].what = "sh2"
  <2> SUFFICES ASSUME NEW i \in 1 .. n - 1, todo[i].what = "sh1"
               PROVE  todo[i + 1].what = "sh2"
    OBVIOUS
  <2>0. ~(i \in 1 .. l) BY <1>10
  <2>3. ~(i - l \in 1 .. m /\ i = l + (i - l))
    <3> SUFFICES ASSUME i - l \in 1 .. m, i = l + (i - l) PROVE FALSE OBVIOUS
    <3>1. todo[l + (i - l)].what = "cmd" BY <1>10
    <3> QED BY <3>1
  <2>1. h = 2 /\ i = l + m + 1 BY <1>10, <1>12, <2>0, <2>3
  <2>2. i + 1 = l + m + 2 BY <1>0, <1>7, <2>1
  <2> QED BY <1>10, <2>1, <2>2
<1>15. h = 0 => n - 1 = l + m /\ m \in 1 .. m BY <1>0, <1>7
<1> HIDE DEF n
<1>16. \A i \in 1 .. n : i \in 1 .. n - 1 \/ i = n BY <1>11
<1>17. \A i \in 1 .. n : todo[i].what \in RunPurposes /\ todo[i].what # "intr"
  BY <1>11, <1>13, <1>16 DEF RunPurposes
<1>18. ~p.shnormal =>
           /\ \A i \in 1 .. n : todo[i].what \notin {"sh1", "sh2"}
           /\ n > 1 => todo[n - 1].what \in {"cmd", "intr"} /\ todo[n - 1].k = p.inputs
  BY <1>8, <1>10, <1>11, <1>13, <1>15, <1>16
<1>19. \A i \in 2 .. n : i \in 1 .. n BY <1>11
<1>20. Order(todo, p) BY <1>11, <1>13, <1>14, <1>17, <1>18, <1>19 DEF Order
<1>21. Head(todo).what \in {"cd", "cmd"}
  <2>1. todo \in Seq(Exchange) /\ Len(todo) # 0 BY <1>9, <1>11
  <2>2. Head(todo) = todo[1] BY <2>1
  <2>3. 1 \in 1 .. m /\ (l = 0 => l + 1 = 1) BY <1>0
  <2>4. l = 1 => 1 \in 1 .. l OBVIOUS
  <2> QED BY <1>7, <1>10, <2>2, <2>3, <2>4
<1> QED BY <1>1, <1>20, <1>21

\* What is left of it is in this order too.
LEMMA OrderSuffix ==
    ASSUME NEW todo, NEW p, Order(todo, p), NEW j \in 0 .. Len(todo) - 1,
           NEW q, Len(q) = Len(todo) - j, \A i \in 1 .. Len(q) : q[i] = todo[i + j]
    PROVE  Order(q, p)
<1> DEFINE n == Len(todo)
           l == Len(q)
<1>0. n \in Nat \ {0} /\ j \in Nat /\ l = n - j /\ l \in Nat \ {0} BY DEF Order
<1>1. /\ todo[n].what = "status" /\ todo[n].k = 0
      /\ \A i \in 1 .. n : todo[i].what \in RunPurposes
      /\ \A i \in 1 .. n - 1 : todo[i].what # "status"
      /\ \A i \in 2 .. n : todo[i].what # "intr"
      /\ \A i \in 1 .. n - 1 : todo[i].what = "sh1" => todo[i + 1].what = "sh2"
      /\ ~p.shnormal =>
           /\ \A i \in 1 .. n : todo[i].what \notin {"sh1", "sh2"}
           /\ n > 1 => todo[n - 1].what \in {"cmd", "intr"} /\ todo[n - 1].k = p.inputs
  BY DEF Order
<1>2. \A i \in 1 .. l : q[i] = todo[i + j] OBVIOUS
<1> HIDE DEF n, l
<1>3. l \in 1 .. l /\ l + j = n BY <1>0
<1>4. \A i \in 1 .. l : i + j \in 1 .. n BY <1>0
<1>5. \A i \in 1 .. l - 1 : i + j \in 1 .. n - 1 /\ i \in 1 .. l /\ i + 1 \in 1 .. l
                            /\ (i + 1) + j = (i + j) + 1
  BY <1>0
<1>6. \A i \in 2 .. l : i + j \in 2 .. n /\ i \in 1 .. l BY <1>0
<1>7. l > 1 => n > 1 /\ l - 1 \in 1 .. l /\ (l - 1) + j = n - 1 BY <1>0
<1>8. q[l].what = "status" /\ q[l].k = 0 BY <1>1, <1>2, <1>3
<1>9. \A i \in 1 .. l : q[i].what \in RunPurposes BY <1>1, <1>2, <1>4
<1>10. \A i \in 1 .. l - 1 : q[i].what # "status" BY <1>1, <1>2, <1>5
<1>11. \A i \in 2 .. l : q[i].what # "intr" BY <1>1, <1>2, <1>6
<1>12. \A i \in 1 .. l - 1 : q[i].what = "sh1" => q[i + 1].what = "sh2"
  <2> TAKE i \in 1 .. l - 1
  <2>1. q[i] = todo[i + j] /\ q[i + 1] = todo[(i + j) + 1] BY <1>2, <1>5
  <2> QED BY <1>1, <1>5, <2>1
<1>13. ~p.shnormal =>
           /\ \A i \in 1 .. l : q[i].what \notin {"sh1", "sh2"}
           /\ l > 1 => q[l - 1].what \in {"cmd", "intr"} /\ q[l - 1].k = p.inputs
  BY <1>1, <1>2, <1>4, <1>7
<1> QED BY <1>0, <1>8, <1>9, <1>10, <1>11, <1>12, <1>13 DEF Order, l

\* So is the interrupt of a command and what follows it.
LEMMA OrderIntr ==
    ASSUME NEW p, NEW rest \in Seq(Exchange), Order(rest, p), NEW y \in Exchange,
           y.what = "intr", rest[1].what # "intr",
           ~p.shnormal /\ Len(rest) = 1 => y.k = p.inputs
    PROVE  Order(<< y >> \o rest, p)
<1> DEFINE n == Len(rest)
           q == << y >> \o rest
           l == Len(q)
<1>0. n \in Nat \ {0} /\ l = n + 1 /\ q[1] = y /\ \A i \in 2 .. l : q[i] = rest[i - 1]
  BY DEF Order
<1>1. /\ rest[n].what = "status" /\ rest[n].k = 0
      /\ \A i \in 1 .. n : rest[i].what \in RunPurposes
      /\ \A i \in 1 .. n - 1 : rest[i].what # "status"
      /\ \A i \in 2 .. n : rest[i].what # "intr"
      /\ \A i \in 1 .. n - 1 : rest[i].what = "sh1" => rest[i + 1].what = "sh2"
      /\ ~p.shnormal =>
           /\ \A i \in 1 .. n : rest[i].what \notin {"sh1", "sh2"}
           /\ n > 1 => rest[n - 1].what \in {"cmd", "intr"} /\ rest[n - 1].k = p.inputs
      /\ rest[1].what # "intr"
      /\ ~p.shnormal /\ n = 1 => y.k = p.inputs
  BY DEF Order
<1> HIDE DEF n, l, q
<1>2. \A i \in 1 .. l : i = 1 \/ (i \in 2 .. l /\ i - 1 \in 1 .. n) BY <1>0
<1>3. q[l] = rest[n]
  <2>1. l \in 2 .. l /\ l - 1 = n BY <1>0
  <2> QED BY <1>0, <2>1
<1>4. \A i \in 1 .. l : q[i].what \in RunPurposes BY <1>0, <1>1, <1>2 DEF RunPurposes
<1>5. \A i \in 1 .. l - 1 : i = 1 \/ (i \in 2 .. l /\ i - 1 \in 1 .. n - 1) BY <1>0
<1>6. \A i \in 1 .. l - 1 : q[i].what # "status" BY <1>0, <1>1, <1>5
<1>7. \A i \in 2 .. l : q[i].what # "intr"
  <2>1. \A i \in 2 .. l : i - 1 = 1 \/ i - 1 \in 2 .. n BY <1>0
  <2> QED BY <1>0, <1>1, <2>1
<1>8. \A i \in 1 .. l - 1 : q[i].what = "sh1" => q[i + 1].what = "sh2"
  <2> SUFFICES ASSUME NEW i \in 1 .. l - 1, q[i].what = "sh1" PROVE q[i + 1].what = "sh2"
    OBVIOUS
  <2>1. i \in 2 .. l /\ i - 1 \in 1 .. n - 1 BY <1>0, <1>5
  <2>2. i + 1 \in 2 .. l /\ (i + 1) - 1 = (i - 1) + 1 BY <1>0, <2>1
  <2>3. q[i + 1] = rest[(i - 1) + 1] /\ q[i] = rest[i - 1] BY <1>0, <2>1, <2>2
  <2> QED BY <1>1, <2>1, <2>3
<1>9. ASSUME ~p.shnormal
      PROVE  /\ \A i \in 1 .. l : q[i].what \notin {"sh1", "sh2"}
             /\ l > 1 => q[l - 1].what \in {"cmd", "intr"} /\ q[l - 1].k = p.inputs
  <2>1. \A i \in 1 .. l : q[i].what \notin {"sh1", "sh2"} BY <1>0, <1>1, <1>2, <1>9
  <2>2. CASE n = 1
    <3>1. l - 1 = 1 BY <1>0, <2>2
    <3> QED BY <1>0, <1>1, <1>9, <2>1, <2>2, <3>1
  <2>3. CASE n # 1
    <3>1. n > 1 /\ l - 1 \in 2 .. l /\ (l - 1) - 1 = n - 1 BY <1>0, <2>3
    <3>2. q[l - 1] = rest[n - 1] BY <1>0, <3>1
    <3> QED BY <1>1, <1>9, <2>1, <3>1, <3>2
  <2> QED BY <2>2, <2>3
<1>10. l \in Nat \ {0} BY <1>0
<1> QED BY <1>1, <1>3, <1>4, <1>6, <1>7, <1>8, <1>9, <1>10 DEF Order, l, q

\* The exchange after this one: the status comes last, after the last command or its
\* interrupt.
LEMMA OrderNext ==
    ASSUME NEW todo \in Seq(Exchange), NEW p, Order(todo, p), NEW m \in BOOLEAN
    PROVE  LET rest == Remaining(todo, m)
               x == Head(todo)
           IN /\ todo # << >> /\ x.what \in RunPurposes
              /\ Tail(todo) # << >> => Order(Tail(todo), p)
              /\ rest = << >> <=> x.what = "status"
              /\ x.what = "status" => x.k = 0
              /\ rest # << >> => Order(rest, p) /\ Head(rest).what # "intr"
              /\ x.what = "cmd" => Order(<< X("intr", x.k, x.pat, TRUE) >> \o rest, p)
              /\ ~p.shnormal /\ rest # << >> /\ Head(rest).what = "status" =>
                   x.what \in {"cmd", "intr"} /\ x.k = p.inputs
<1> DEFINE n == Len(todo)
           x == Head(todo)
           tail == Tail(todo)
           rest == Remaining(todo, m)
<1>0. n \in Nat \ {0} /\ todo # << >> /\ x = todo[1] /\ x \in Exchange
  BY DEF Order
<1>1. /\ tail \in Seq(Exchange) /\ Len(tail) = n - 1
      /\ \A i \in 1 .. n - 1 : tail[i] = todo[i + 1]
  BY <1>0, HeadTailProperties
<1>2. /\ todo[n].what = "status" /\ todo[n].k = 0
      /\ \A i \in 1 .. n : todo[i].what \in RunPurposes
      /\ \A i \in 1 .. n - 1 : todo[i].what # "status"
      /\ \A i \in 2 .. n : todo[i].what # "intr"
      /\ \A i \in 1 .. n - 1 : todo[i].what = "sh1" => todo[i + 1].what = "sh2"
      /\ ~p.shnormal =>
           /\ \A i \in 1 .. n : todo[i].what \notin {"sh1", "sh2"}
           /\ n > 1 => todo[n - 1].what \in {"cmd", "intr"} /\ todo[n - 1].k = p.inputs
  BY DEF Order
<1> HIDE DEF n, x, tail
<1>3. n = 1 <=> x.what = "status"
  <2>1. n # 1 => 1 \in 1 .. n - 1 BY <1>0
  <2> QED BY <1>0, <1>2, <2>1
<1>4. ASSUME n # 1 PROVE tail # << >> /\ Order(tail, p)
  <2>1. 1 \in 0 .. Len(todo) - 1 /\ Len(tail) = Len(todo) - 1 /\ Len(tail) # 0
    BY <1>0, <1>1, <1>4 DEF n
  <2>2. tail # << >> BY <2>1
  <2> QED BY <1>1, <2>1, <2>2, OrderSuffix DEF n
<1>5. n = 1 => tail = << >> /\ rest = << >>
  <2>1. n = 1 => tail = << >> BY <1>1
  <2> QED BY <2>1 DEF Remaining, tail
<1> DEFINE skip == SubSeq(tail, 3, Len(tail))
<1>6. ASSUME n # 1, Head(tail).what = "sh1"
      PROVE  skip # << >> /\ Order(skip, p) /\ p.shnormal /\ skip[1].what # "intr"
  <2>1. Head(tail) = todo[2] /\ 2 \in 1 .. n
    <3>1. n - 1 \in Nat \ {0} /\ 1 \in 1 .. n - 1 /\ 2 \in 1 .. n BY <1>0, <1>6
    <3>2. Head(tail) = tail[1] BY <1>1, <1>4, <1>6
    <3> QED BY <1>1, <3>1, <3>2
  <2>2. p.shnormal BY <1>2, <1>6, <2>1
  <2>3. n # 2 BY <1>2, <1>6, <2>1
  <2>4. 2 \in 1 .. n - 1 BY <1>0, <2>1, <2>3
  <2>5. todo[3].what = "sh2" BY <1>2, <1>6, <2>1, <2>4
  <2>6. n # 3 BY <1>2, <2>5
  <2>7. n >= 4 BY <1>0, <1>6, <2>3, <2>6
  <2>8. Len(skip) = n - 3 /\ \A i \in 1 .. n - 3 : skip[i] = tail[i + 2]
    BY <1>0, <1>1, <2>7
  <2> HIDE DEF skip
  <2>9. \A i \in 1 .. n - 3 : i + 2 \in 1 .. n - 1 /\ (i + 2) + 1 = i + 3 BY <1>0
  <2>10. \A i \in 1 .. n - 3 : skip[i] = todo[i + 3] BY <1>1, <2>8, <2>9
  <2>11. 3 \in 0 .. Len(todo) - 1 /\ Len(skip) = Len(todo) - 3 /\ Len(skip) # 0
    BY <1>0, <2>7, <2>8 DEF n
  <2>12. Order(skip, p)
    <3>1. \A i \in 1 .. Len(skip) : skip[i] = todo[i + 3] BY <2>8, <2>10
    <3>2. 3 \in 0 .. Len(todo) - 1 BY <2>11
    <3>3. Len(skip) = Len(todo) - 3 BY <2>11
    <3> QED BY ONLY Order(todo, p), <3>1, <3>2, <3>3, OrderSuffix
  <2>13. 1 \in 1 .. n - 3 /\ 4 \in 2 .. n BY <1>0, <2>7
  <2>14. skip[1].what # "intr" BY <1>2, <2>10, <2>13
  <2>15. skip # << >> BY <2>11
  <2> QED BY <2>2, <2>12, <2>14, <2>15
<1>7. n # 1 => \/ rest = tail
               \/ Head(tail).what = "sh1" /\ rest = skip
  BY DEF Remaining, tail, rest, skip
<1>8. rest \in Seq(Exchange) BY <1>0, RemainingType
<1> HIDE DEF rest, skip
<1>9. n # 1 => tail[1].what # "intr" /\ 1 \in 1 .. n - 1
  <2>1. n # 1 => 1 \in 1 .. n - 1 /\ 2 \in 2 .. n BY <1>0
  <2> QED BY <1>1, <1>2, <2>1
<1>10. n # 1 => rest # << >> /\ Order(rest, p) /\ rest[1].what # "intr"
  BY <1>4, <1>6, <1>7, <1>9
<1>11. rest # << >> => Head(rest) = rest[1] /\ Len(rest) \in Nat \ {0} BY <1>8
<1>12. ASSUME ~p.shnormal, n # 1, rest[1].what = "status"
       PROVE  x.what \in {"cmd", "intr"} /\ x.k = p.inputs
  <2>1. rest = tail BY <1>6, <1>7, <1>12
  <2>2. todo[2].what = "status" BY <1>1, <1>9, <1>12, <2>1
  <2>3. n = 2
    <3>1. n # 2 => 2 \in 1 .. n - 1 BY <1>0, <1>12
    <3> QED BY <1>2, <2>2, <3>1
  <2> QED BY <1>0, <1>2, <1>12, <2>3
<1>13. ASSUME x.what = "cmd" PROVE Order(<< X("intr", x.k, x.pat, TRUE) >> \o rest, p)
  <2>1. n # 1 BY <1>3, <1>13
  <2> DEFINE y == X("intr", x.k, x.pat, TRUE)
  <2>2. y \in Exchange
    <3>1. x.k \in Nat /\ x.pat \in {"strict", "loose"} BY <1>0 DEF Exchange
    <3> QED BY <3>1, XType DEF Purposes
  <2>3. y.what = "intr" /\ y.k = x.k BY DEF X
  <2>4. Len(rest) = 1 => rest[1].what = "status" BY <1>10, <2>1 DEF Order
  <2> HIDE DEF y
  <2>5. Order(<< y >> \o rest, p) BY <1>8, <1>10, <1>12, <2>1, <2>2, <2>3, <2>4, OrderIntr
  <2> QED BY <2>5 DEF y
<1>14. x.what \in RunPurposes
  <2>1. 1 \in 1 .. n BY <1>0
  <2> QED BY <1>0, <1>2, <2>1
<1>15. x.what = "status" => x.k = 0 BY <1>0, <1>2, <1>3
<1>16. Tail(todo) # << >> => Order(Tail(todo), p) BY <1>4, <1>5 DEF tail
<1>17. rest = << >> <=> x.what = "status" BY <1>3, <1>5, <1>10
<1>18. rest # << >> => Order(rest, p) /\ Head(rest).what # "intr" BY <1>5, <1>10, <1>11
<1>19. ~p.shnormal /\ rest # << >> /\ Head(rest).what = "status" =>
         x.what \in {"cmd", "intr"} /\ x.k = p.inputs
  BY <1>5, <1>11, <1>12
<1> QED BY <1>0, <1>13, <1>14, <1>15, <1>16, <1>17, <1>18, <1>19 DEF x, rest

\* A caller in the exchanges of a run that asks for the status, every wait so far
\* having read its own prompt.
Coded(t) == /\ t.op = "run" /\ t.plan.code /\ t.clean /\ t.good
            /\ ~t.login /\ t.pc \in Exchanging

\* What of the answer was printed: read, or still to be read.
Flow(t, s) == {t.got[i] : i \in 1 .. Len(t.got)} \cup {s.wire[i] : i \in 1 .. Len(s.wire)}
Over(t, s) == \E tok \in Flow(t, s) : tok.kind \in {"prompt", "rawprompt"}

\* The last line of the command, whose exit status the run is to return.
LastCmd(t) == [run |-> t.run, what |-> "cmd", k |-> t.plan.inputs]

\* Which line the status that the shell holds is of.
Follows(t, s) ==
    /\ Head(t.todo).what = "cmd" /\ Over(t, s) => s.prev = LineOf(t)
    /\ Head(t.todo).what = "intr" =>
         s.prev = [run |-> t.run, what |-> "cmd", k |-> Head(t.todo).k]
    /\ Head(t.todo).what = "status" =>
         /\ t.pc = "send" \/ s.inbox # << >> => s.prev = LastCmd(t)
         /\ \A tok \in Flow(t, s) : tok.kind = "digits" => tok.of = LastCmd(t)

\* Nothing but the line sent is executed, all that is printed is its answer, and
\* what answers `echo $?' holds the status.
Stat(t, s) ==
    /\ s.lost = {}
    /\ Order(t.todo, t.plan)
    /\ t.pc = "send" => Still(s)
    /\ s.inbox # << >> => Len(s.inbox) = 1 /\ s.inbox[1] = LineOf(t)
    /\ \A tok \in Flow(t, s) : tok.line = LineOf(t)
    /\ Head(t.todo).what = "status" /\ ((s.inbox # << >> /\ s.spoke) \/ Over(t, s)) =>
         \E tok \in Flow(t, s) : tok.kind = "digits"
    /\ ~t.plan.shnormal => Follows(t, s)

\* A shell with nothing to execute has not begun to print.
Hushed(s) == s.closed \/ s.inbox # << >> \/ ~s.spoke

StatusTurn ==
    /\ \A ch \in 1 .. opened : Hushed(ses[ch])
    /\ \A c \in Callers : Coded(th[c]) /\ channel # 0 /\ ~ses[channel].shared =>
         Stat(th[c], ses[channel])

RcInv == OwnInv /\ StatusTurn /\ RcIsOwn

-----------------------------------------------------------------------------
(* The shell, and the caller's status *)

\* What is in flight grows by what is printed.
LEMMA FlowGrows ==
    ASSUME NEW t, NEW s \in Session, NEW tok, NEW r, r.wire = Append(s.wire, tok)
    PROVE  \A x : x \in Flow(t, r) <=> x \in Flow(t, s) \/ x = tok
<1>1. s.wire \in Seq(Token) /\ Len(s.wire) \in Nat BY DEF Session
<1>2. /\ Len(r.wire) = Len(s.wire) + 1 /\ r.wire[Len(s.wire) + 1] = tok
      /\ \A i \in 1 .. Len(s.wire) : r.wire[i] = s.wire[i]
  BY <1>1
<1>3. \A i \in 1 .. Len(r.wire) : i \in 1 .. Len(s.wire) \/ i = Len(s.wire) + 1 BY <1>1, <1>2
<1>4. \A i \in 1 .. Len(s.wire) : i \in 1 .. Len(r.wire) BY <1>1, <1>2
<1>5. Len(s.wire) + 1 \in 1 .. Len(r.wire) BY <1>1, <1>2
<1>6. {r.wire[i] : i \in 1 .. Len(r.wire)} = {s.wire[i] : i \in 1 .. Len(s.wire)} \cup {tok}
  BY <1>2, <1>3, <1>4, <1>5
<1> QED BY <1>6 DEF Flow

\* Output of the line the shell is at.
LEMMA TextStat ==
    ASSUME NEW t \in Thread, NEW s \in Session, NEW r \in Session, Stat(t, s), s.inbox # << >>,
           NEW kind \in {"text", "digits", "lookalike", "mimic"},
           Head(s.inbox).what = "status" => kind = "digits",
           r.wire = Append(s.wire, [line |-> Head(s.inbox), kind |-> kind, of |-> s.prev]),
           r.lost = s.lost, r.inbox = s.inbox, r.prev = s.prev
    PROVE  Stat(t, r)
<1> DEFINE tok == [line |-> Head(s.inbox), kind |-> kind, of |-> s.prev]
<1>2. tok.line = Head(s.inbox) /\ tok.kind = kind /\ tok.of = s.prev OBVIOUS
<1>9. r.wire = Append(s.wire, tok) OBVIOUS
<1> HIDE DEF tok
<1>1. \A x : x \in Flow(t, r) <=> x \in Flow(t, s) \/ x = tok BY <1>9, FlowGrows
<1>3. Head(s.inbox) = LineOf(t) /\ t.pc # "send"
  <2>1. s.inbox \in Seq(Line) BY DEF Session
  <2>2. Head(s.inbox) = s.inbox[1] BY <2>1
  <2> QED BY <2>2 DEF Stat, Still
<1>4. LineOf(t).what = Head(t.todo).what BY DEF LineOf
<1>5. Over(t, r) <=> Over(t, s) BY <1>1, <1>2 DEF Over
<1>6. \A x \in Flow(t, r) : x.line = LineOf(t) BY <1>1, <1>2, <1>3 DEF Stat
<1>7. Head(t.todo).what = "status" => \E x \in Flow(t, r) : x.kind = "digits"
  BY <1>1, <1>2, <1>3, <1>4
<1>8. ASSUME ~t.plan.shnormal PROVE Follows(t, r)
  <2>1. Follows(t, s) BY <1>8 DEF Stat
  <2>2. Head(t.todo).what = "status" =>
          \A x \in Flow(t, r) : x.kind = "digits" => x.of = LastCmd(t)
    BY <1>1, <1>2, <2>1 DEF Follows
  <2> QED BY <1>5, <2>1, <2>2 DEF Follows
<1> QED BY <1>3, <1>6, <1>7, <1>8 DEF Stat

\* Nothing comes after the last.
LEMMA LastTail ==
    ASSUME NEW S, NEW q \in Seq(S), q # << >>, Len(q) = 1 PROVE Tail(q) = << >>
<1> DEFINE e == Tail(q)
<1>1. e \in Seq(S) /\ Len(e) = Len(q) - 1 BY HeadTailProperties
<1> HIDE DEF e
<1>2. Len(e) = 0 BY <1>1
<1>3. e = << >> BY <1>1, <1>2, EmptySeq
<1> QED BY <1>3 DEF e

\* The prompt of the line the shell is at.
LEMMA PromptStat ==
    ASSUME NEW t \in Thread, NEW s \in Session, NEW r \in Session, Stat(t, s), s.inbox # << >>,
           NEW kind \in {"prompt", "rawprompt"},
           Head(s.inbox).what = "status" => s.spoke,
           r.wire = Append(s.wire, [line |-> Head(s.inbox), of |-> Head(s.inbox), kind |-> kind]),
           r.lost = s.lost, r.inbox = Tail(s.inbox),
           r.prev = IF Head(s.inbox).what = "intr" THEN s.prev ELSE Head(s.inbox)
    PROVE  Stat(t, r)
<1> DEFINE tok == [line |-> Head(s.inbox), of |-> Head(s.inbox), kind |-> kind]
<1>2. tok.line = Head(s.inbox) /\ tok.kind = kind OBVIOUS
<1>9. r.wire = Append(s.wire, tok) OBVIOUS
<1> HIDE DEF tok
<1>1. \A x : x \in Flow(t, r) <=> x \in Flow(t, s) \/ x = tok BY <1>9, FlowGrows
<1>3. Head(s.inbox) = LineOf(t) /\ t.pc # "send" /\ r.inbox = << >>
  <2>1. s.inbox \in Seq(Line) BY DEF Session
  <2>2. Head(s.inbox) = s.inbox[1] BY <2>1
  <2>3. Len(s.inbox) = 1 BY DEF Stat
  <2>4. Tail(s.inbox) = << >> BY <2>1, <2>3, LastTail
  <2> QED BY <2>2, <2>4 DEF Stat, Still
<1>4. LineOf(t).what = Head(t.todo).what BY DEF LineOf
<1>6. \A x \in Flow(t, r) : x.line = LineOf(t) BY <1>1, <1>2, <1>3 DEF Stat
<1>7. Head(t.todo).what = "status" => \E x \in Flow(t, r) : x.kind = "digits"
  <2>1. Head(t.todo).what = "status" => s.spoke BY <1>3, <1>4
  <2> QED BY <1>1, <2>1 DEF Stat
<1>8. ASSUME ~t.plan.shnormal PROVE Follows(t, r)
  <2>1. Follows(t, s) BY <1>8 DEF Stat
  <2>2. Head(t.todo).what = "cmd" => r.prev = LineOf(t) BY <1>3, <1>4
  <2>3. Head(t.todo).what = "intr" => r.prev = s.prev BY <1>3, <1>4
  <2>4. Head(t.todo).what = "status" =>
          \A x \in Flow(t, r) : x.kind = "digits" => x.of = LastCmd(t)
    BY <1>1, <1>2, <2>1 DEF Follows
  <2> QED BY <1>3, <2>1, <2>2, <2>3, <2>4 DEF Follows
<1> QED BY <1>3, <1>6, <1>7, <1>8 DEF Stat

\* The shell is gone.
LEMMA ShutStat ==
    ASSUME NEW t, NEW s \in Session, Stat(t, s) PROVE Stat(t, Shut(s))
<1> DEFINE r == Shut(s)
<1>1. r.inbox = << >> /\ r.wire = s.wire /\ r.lost = s.lost /\ r.prev = s.prev
  BY DEF Shut, Session
<1> HIDE DEF r
<1>2. Flow(t, r) = Flow(t, s) BY <1>1 DEF Flow
<1>3. Over(t, r) <=> Over(t, s) BY <1>2 DEF Over
<1>4. Follows(t, s) => Follows(t, r) BY <1>1, <1>2, <1>3 DEF Follows
<1>5. Still(s) => Still(r) BY <1>1 DEF Still
<1> QED BY <1>1, <1>2, <1>3, <1>4, <1>5 DEF Stat, r

-----------------------------------------------------------------------------
(* The exit status *)

\* A set of numbers has a least one.
LEMMA Least ==
    ASSUME NEW T, T \subseteq Nat, T # {} PROVE \E x \in T : \A y \in T : ~ y < x
<1> DEFINE R == OpToRel(<, Nat)
<1>1. \A x, y \in Nat : <<x, y>> \in R <=> x < y BY DEF OpToRel
<1>2. IsWellFoundedOn(R, Nat) BY NatLessThanWellFounded
<1> HIDE DEF R
<1>3. PICK x \in T : \A y \in T : ~ (<<y, x>> \in R) BY <1>2, WFMin
<1>4. \A y \in T : ~ y < x BY <1>1, <1>3
<1> QED BY <1>4

\* _get_last_cmd_status() finds digits where some were read.
LEMMA FirstDigitsFound ==
    ASSUME NEW got \in Seq(Token), NEW k \in 1 .. Len(got), got[k].kind = "digits"
    PROVE  \E i \in 1 .. Len(got) : FirstDigits(got) = got[i] /\ got[i].kind = "digits"
<1> DEFINE T == {i \in 1 .. Len(got) : got[i].kind = "digits"}
           First(i) == /\ got[i].kind = "digits"
                       /\ \A j \in 1 .. i - 1 : got[j].kind # "digits"
<1>1. T \subseteq Nat /\ k \in T /\ DOMAIN got = 1 .. Len(got) /\ Len(got) \in Nat OBVIOUS
<1>2. PICK x \in T : \A y \in T : ~ y < x
  <2> HIDE DEF T
  <2>1. T # {} BY <1>1
  <2> QED BY <1>1, <2>1, Least
<1>3. \A j \in 1 .. x - 1 : j \in 1 .. Len(got) /\ j < x BY <1>1, <1>2
<1>4. \A j \in 1 .. x - 1 : got[j].kind # "digits"
  <2> SUFFICES ASSUME NEW j \in 1 .. x - 1, got[j].kind = "digits" PROVE FALSE OBVIOUS
  <2>1. j \in T /\ j < x BY <1>3
  <2> QED BY <1>2, <2>1
<1>5. x \in DOMAIN got /\ First(x) BY <1>1, <1>2, <1>4
<1> DEFINE n == CHOOSE i \in DOMAIN got : First(i)
<1>6. n \in DOMAIN got /\ First(n) BY <1>5
<1>7. FirstDigits(got) = got[n] BY <1>5 DEF FirstDigits
<1>8. got[n].kind = "digits" BY <1>6
<1> HIDE DEF n, First, T
<1>9. n \in 1 .. Len(got) BY <1>1, <1>6
<1> QED BY <1>7, <1>8, <1>9

-----------------------------------------------------------------------------
(* What every step of a caller keeps *)

\* A caller's step does not unshare a channel, nor does it leave a shell in the
\* middle of printing.
Gentle == \A ch \in 1 .. opened :
    /\ ses[ch].shared => ses'[ch].shared
    /\ Hushed(ses[ch]) => Hushed(ses'[ch])

\* One channel is written.
LEMMA GentleOne ==
    ASSUME Typed, NEW n \in 1 .. MaxChans, NEW r, ses' = [ses EXCEPT ![n] = r],
           n \in 1 .. opened =>
             /\ ses[n].shared => r.shared
             /\ Hushed(ses[n]) => Hushed(r)
    PROVE  Gentle
<1>1. ses \in [1 .. MaxChans -> Session] BY DEF Typed
<1>2. \A ch \in 1 .. opened : ch \in 1 .. MaxChans BY ShellAssumption DEF Typed
<1> QED BY <1>1, <1>2 DEF Gentle

\* All are closed.
LEMMA GentleShut ==
    ASSUME Typed, ses' = [ch \in DOMAIN ses |-> Shut(ses[ch])] PROVE Gentle
<1>1. \A ch \in 1 .. opened : ch \in 1 .. MaxChans BY ShellAssumption DEF Typed
<1> QED BY <1>1, ShutAll DEF Gentle, Hushed

\* A step of exec_command() writes the channel it sends to or reads from.
LEMMA GentleExec ==
    ASSUME Typed, NEW c \in Callers,
           Drain(c) \/ Send(c) \/ SendTimeout(c) \/ RecvChunk(c) \/ Matched(c) \/ Timeout(c)
    PROVE  Gentle
<1>0. /\ ses \in [1 .. MaxChans -> Session] /\ channel \in 0 .. opened
      /\ th[c] \in Thread /\ ThreadOK(th[c], opened)
      /\ \A ch \in 1 .. opened : ch \in 1 .. MaxChans
  BY ShellAssumption DEF Typed, CallsOK
<1>1. CASE Drain(c)
  <2> DEFINE s == ses[channel]
             e == << >>
             lost == IF s.inbox = << >> THEN {} ELSE s.lost
             r == [s EXCEPT !.wire = e, !.lost = lost]
  <2>1. channel \in 1 .. MaxChans /\ s \in Session BY <1>0, <1>1 DEF Drain
  <2>2. ses' = [ses EXCEPT ![channel] = r] BY <1>0, <1>1, <2>1 DEF Drain
  <2>3. r.shared = s.shared /\ r.closed = s.closed /\ r.inbox = s.inbox /\ r.spoke = s.spoke
    BY <2>1 DEF Session
  <2> HIDE DEF r
  <2> QED BY <2>1, <2>2, <2>3, GentleOne DEF Hushed
<1>2. CASE Send(c)
  <2> DEFINE s == ses[channel]
             in == Append(s.inbox, LineOf(th[c]))
             r == [s EXCEPT !.inbox = in]
  <2>1. channel \in 1 .. MaxChans /\ s \in Session BY <1>0, <1>2 DEF Send, Active
  <2>2. ses' = [ses EXCEPT ![channel] = r] BY <1>0, <1>2, <2>1 DEF Send
  <2>3. in # << >>
    <3>1. th[c].todo # << >> BY <1>0, <1>2 DEF ThreadOK, Waiting, Send
    <3>2. LineOf(th[c]) \in Line BY <1>0, <3>1, LineOfType
    <3>3. s.inbox \in Seq(Line) BY <2>1 DEF Session
    <3> HIDE DEF s
    <3> QED BY <3>2, <3>3
  <2> HIDE DEF in
  <2>4. r.shared = s.shared /\ r.inbox = in BY <2>1 DEF Session
  <2> HIDE DEF r
  <2> QED BY <2>1, <2>2, <2>3, <2>4, GentleOne DEF Hushed
<1>3. ASSUME NEW n \in 1 .. MaxChans, NEW x, ses' = [ses EXCEPT ![n].lost = x] PROVE Gentle
  <2> DEFINE s == ses[n]
             r == [s EXCEPT !.lost = x]
  <2>1. s \in Session /\ ses' = [ses EXCEPT ![n] = r] BY <1>0, <1>3
  <2>2. r.shared = s.shared /\ r.closed = s.closed /\ r.inbox = s.inbox /\ r.spoke = s.spoke
    BY <2>1 DEF Session
  <2> HIDE DEF r
  <2> QED BY <2>1, <2>2, GentleOne DEF Hushed
<1>4. CASE SendTimeout(c)
  <2> DEFINE x == IF th[c].login THEN ses[channel].lost \cup {Head(th[c].todo).what}
                  ELSE ses[channel].lost
  <2>1. channel \in 1 .. MaxChans BY <1>0, <1>4 DEF SendTimeout, Active
  <2>2. ses' = [ses EXCEPT ![channel].lost = x] BY <1>0, <1>4, <2>1 DEF SendTimeout
  <2> HIDE DEF x
  <2> QED BY <1>3, <2>1, <2>2
<1>5. ASSUME th[c].pc = "recv" PROVE th[c].conn \in 1 .. MaxChans
  BY <1>0, <1>5 DEF ThreadOK, Waiting
<1>6. CASE Matched(c) \/ Timeout(c)
  <2> DEFINE x == ses[th[c].conn].lost \cup Overlooked(th[c])
  <2>1. th[c].conn \in 1 .. MaxChans BY <1>5, <1>6 DEF Matched, Timeout
  <2>2. ses' = [ses EXCEPT ![th[c].conn].lost = x]
    BY <1>0, <1>6, <2>1 DEF Matched, Timeout
  <2> HIDE DEF x
  <2> QED BY <1>3, <2>1, <2>2
<1>7. CASE RecvChunk(c)
  <2> DEFINE n == th[c].conn
             s == ses[n]
             x == Tail(s.wire)
             r == [s EXCEPT !.wire = x]
  <2>1. n \in 1 .. MaxChans BY <1>5, <1>7 DEF RecvChunk
  <2>2. s \in Session /\ ses' = [ses EXCEPT ![n] = r] BY <1>0, <1>7, <2>1 DEF RecvChunk
  <2> HIDE DEF x
  <2>3. r.shared = s.shared /\ r.closed = s.closed /\ r.inbox = s.inbox /\ r.spoke = s.spoke
    BY <2>2 DEF Session
  <2> HIDE DEF r
  <2> QED BY <2>1, <2>2, <2>3, GentleOne DEF Hushed
<1> QED BY <1>1, <1>2, <1>4, <1>6, <1>7

\* So is every step of a caller.
LEMMA GentleStep ==
    ASSUME Typed, NEW c \in Callers, Call(c) \/ CallerStep(c) PROVE Gentle
<1>0. /\ ses \in [1 .. MaxChans -> Session] /\ DOMAIN ses = 1 .. MaxChans
      /\ \A ch \in 1 .. opened : ch \in 1 .. MaxChans
  BY ShellAssumption DEF Typed
<1>1. ASSUME UNCHANGED ses PROVE Gentle BY <1>1 DEF Gentle
<1>2. ASSUME NEW ch \in 1 .. MaxChans
      PROVE  LET r == MarkShared(c, ses)[ch] IN
               /\ ses[ch].shared => r.shared
               /\ Hushed(ses[ch]) => Hushed(r)
               /\ Shut(r).shared = r.shared /\ Hushed(Shut(r))
  <2> DEFINE s == ses[ch]
             shared == s.shared \/ ~Alone(c)
             r == [s EXCEPT !.shared = shared]
  <2>1. s \in Session /\ shared \in BOOLEAN BY <1>0 DEF Session
  <2>2. MarkShared(c, ses)[ch] = r BY <1>0 DEF MarkShared
  <2> HIDE DEF shared
  <2>3. /\ r.shared = shared /\ r.closed = s.closed /\ r.inbox = s.inbox
        /\ r.spoke = s.spoke /\ r \in Session
    BY <2>1 DEF Session
  <2> HIDE DEF r
  <2>4. Shut(r).shared = r.shared /\ Shut(r).closed BY <2>3 DEF Shut, Session
  <2> QED BY <2>2, <2>3, <2>4 DEF Hushed, shared
<1>3. CASE Call(c)
  <2>1. \/ ses' = MarkShared(c, ses)
        \/ ses' = [ch \in DOMAIN ses |-> Shut(MarkShared(c, ses)[ch])]
    BY <1>3 DEF Call, CallRun, CallReconnect, CallSftp
  <2>2. CASE ses' = MarkShared(c, ses) BY <1>0, <1>2, <2>2 DEF Gentle
  <2>3. CASE ses' = [ch \in DOMAIN ses |-> Shut(MarkShared(c, ses)[ch])]
    <3>1. \A ch \in 1 .. MaxChans : ses'[ch] = Shut(MarkShared(c, ses)[ch]) BY <1>0, <2>3
    <3> QED BY <1>0, <1>2, <3>1 DEF Gentle
  <2> QED BY <2>1, <2>2, <2>3
<1>4. CASE \/ Check(c) \/ MakePlan(c) \/ Connect(c) \/ RetryRaises(c) \/ OpenFails(c)
           \/ SendRaises(c) \/ StartRecv(c) \/ RecvRaises(c)
  BY <1>1, <1>4 DEF Check, MakePlan, Connect, RetryRaises, OpenFails, SendRaises,
                    StartRecv, RecvRaises
<1>5. CASE ConnectRaises(c) \/ Verdict(c)
  <2>1. UNCHANGED ses \/ ses' = [ch \in DOMAIN ses |-> Shut(ses[ch])]
    BY <1>5 DEF ConnectRaises, Verdict, Close
  <2> QED BY <1>1, <2>1, GentleShut
<1>6. CASE OpenSession(c)
  <2> DEFINE greet == [run |-> th[c].run, what |-> "greet", k |-> 0]
             s == [closed |-> FALSE, inbox |-> << greet >>, wire |-> << >>, spoke |-> FALSE,
                   prev |-> NoLine, named |-> FALSE, lost |-> {}, shared |-> ~Alone(c)]
  <2>1. ses' = [ses EXCEPT ![opened + 1] = s] /\ opened < MaxChans
    BY <1>6 DEF OpenSession
  <2>2. opened + 1 \in 1 .. MaxChans /\ opened + 1 \notin 1 .. opened
    BY <2>1, ShellAssumption DEF Typed
  <2> HIDE DEF s
  <2> QED BY <2>1, <2>2, GentleOne
<1>7. CASE Drain(c) \/ Send(c) \/ SendTimeout(c) \/ RecvChunk(c) \/ Matched(c) \/ Timeout(c)
  BY <1>7, GentleExec
<1> QED BY <1>3, <1>4, <1>5, <1>6, <1>7 DEF CallerStep

\* Only the caller that moves can be in the exchanges of a run on a channel that is
\* not shared.
LEMMA StatusFrame ==
    ASSUME OwnInv, OwnInv', StatusTurn, NEW c \in Callers, NEW u, Moves(c, u), Gentle,
           u.pc # "idle" \/ (Busy(c) /\ opened' = opened),
           \/ opened' = opened
           \/ opened' = opened + 1 /\ Hushed(ses'[opened + 1]),
           Coded(u) /\ channel' # 0 /\ ~ses'[channel'].shared => Stat(u, ses'[channel'])
    PROVE  StatusTurn'
<1>0. /\ th \in [Callers -> Thread] /\ opened \in Nat /\ channel' \in 0 .. opened'
  BY DEF OwnInv, Typed, CallsOK
<1>1. th'[c] = u /\ \A d \in Callers \ {c} : th'[d] = th[d] BY <1>0 DEF Moves
<1>2. \A ch \in 1 .. opened' : Hushed(ses'[ch])
  <2>1. \A ch \in 1 .. opened : Hushed(ses'[ch]) BY DEF StatusTurn, Gentle
  <2>2. \A ch \in 1 .. opened' : ch \in 1 .. opened \/ (ch = opened + 1 /\ opened' # opened)
    BY <1>0
  <2> QED BY <2>1, <2>2
<1>3. ASSUME NEW d \in Callers, Coded(th'[d]), channel' # 0, ~ses'[channel'].shared
      PROVE  Stat(th'[d], ses'[channel'])
  <2>1. CASE d = c BY <1>1, <1>3, <2>1
  <2>2. CASE d # c
    <3>1. Busy(d) /\ Busy(d)' BY <1>1, <1>3, <2>2 DEF Coded, Exchanging, Busy
    <3>2. channel' \in 1 .. opened' BY <1>0, <1>3
    <3>3. CASE u.pc # "idle"
      <4>1. Busy(c)' BY <1>1, <3>3 DEF Busy
      <4>2. ses'[channel'].shared BY <2>2, <3>1, <3>2, <4>1 DEF OwnInv, Turns, Overlap
      <4> QED BY <1>3, <4>2
    <3>4. CASE Busy(c) /\ opened' = opened
      <4>1. ses[channel'].shared BY <2>2, <3>1, <3>2, <3>4 DEF OwnInv, Turns, Overlap
      <4> QED BY <1>3, <3>2, <3>4, <4>1 DEF Gentle
    <3> QED BY <3>3, <3>4
  <2> QED BY <2>1, <2>2
<1> QED BY <1>2, <1>3 DEF StatusTurn

-----------------------------------------------------------------------------
(* The result of a run *)

\* The status was printed by the run's own `echo $?', and is that of its last command.
Right(r) ==
    /\ r.rc.line = [run |-> r.run, what |-> "status", k |-> 0]
    /\ ~r.plan.shnormal => r.rc.of = [run |-> r.run, what |-> "cmd", k |-> r.plan.inputs]

RcOwned(t) ==
    t.op = "run" /\ t.clean /\ channel # 0 /\ ~ses[channel].shared /\ t.good /\ t.plan.code
      => Right(t)

\* The property, caller by caller.
LEMMA RcEach ==
    RcIsOwn <=> \A c \in Callers :
      res[c].kind = "done" /\ res[c].op = "run" /\ res[c].clean /\ res[c].good
        /\ res[c].plan.code => Right(res[c])
BY DEF RcIsOwn, Answered, Right

\* The next state's.
LEMMA RcEachNext ==
    ASSUME \A c \in Callers :
             res'[c].kind = "done" /\ res'[c].op = "run" /\ res'[c].clean /\ res'[c].good
               /\ res'[c].plan.code => Right(res'[c])
    PROVE  RcIsOwn'
BY DEF RcIsOwn, Answered, Right

\* One caller gets a result.
LEMMA ResultRc ==
    ASSUME Typed, RcIsOwn, NEW c \in Callers, NEW r, res' = [res EXCEPT ![c] = r],
           r.kind = "done" /\ r.op = "run" /\ r.clean /\ r.good /\ r.plan.code => Right(r)
    PROVE  RcIsOwn'
<1>1. res \in [Callers -> Result] BY DEF Typed, CallsOK
<1>2. ASSUME NEW d \in Callers
      PROVE  res'[d].kind = "done" /\ res'[d].op = "run" /\ res'[d].clean /\ res'[d].good
               /\ res'[d].plan.code => Right(res'[d])
  <2>1. CASE d = c
    <3>1. res'[d] = r BY <1>1, <2>1
    <3> QED BY <3>1
  <2>2. CASE d # c
    <3>1. res'[d] = res[d] BY <1>1, <2>2
    <3> QED BY <3>1, RcEach
  <2> QED BY <2>1, <2>2
<1> QED BY <1>2, RcEachNext

\* A step that gives no result.
LEMMA SameRc == ASSUME RcIsOwn, res' = res PROVE RcIsOwn'
BY DEF RcIsOwn, Answered

\* The operation ends.
LEMMA FinishRc ==
    ASSUME Typed, RcIsOwn, NEW c \in Callers, NEW t, NEW kind,
           kind = "done" => RcOwned(t), Finish(c, t, kind)
    PROVE  RcIsOwn'
<1> DEFINE r == [kind |-> kind, op |-> t.op, run |-> t.run, plan |-> t.plan,
                 out |-> t.out, rc |-> t.rc, good |-> t.good,
                 clean |-> t.clean /\ channel # 0 /\ ~ses[channel].shared]
<1>1. res' = [res EXCEPT ![c] = r] BY DEF Finish
<1>2. /\ r.kind = kind /\ r.op = t.op /\ r.run = t.run /\ r.plan = t.plan /\ r.rc = t.rc
      /\ r.good = t.good /\ r.clean = (t.clean /\ channel # 0 /\ ~ses[channel].shared)
  OBVIOUS
<1> HIDE DEF r
<1>3. r.kind = "done" /\ r.op = "run" /\ r.clean /\ r.good /\ r.plan.code => Right(r)
  BY <1>2 DEF RcOwned, Right
<1> QED BY <1>1, <1>3, ResultRc

\* run() returns.
LEMMA ReturnedRc ==
    ASSUME Typed, RcIsOwn, NEW c \in Callers, NEW t, NEW kind,
           kind = "done" => RcOwned(t), Returned(c, t, kind)
    PROVE  RcIsOwn'
<1>1. CASE t.op \in {"probe", "echo"}
  <2>1. res' = res BY <1>1 DEF Returned
  <2> QED BY <2>1, SameRc
<1>2. CASE t.op \notin {"probe", "echo"}
  <2>1. Finish(c, t, kind) BY <1>2 DEF Returned
  <2> QED BY <2>1, FinishRc
<1> QED BY <1>1, <1>2

\* It raises.
LEMMA RaisedRc ==
    ASSUME Typed, RcIsOwn, NEW c \in Callers, Raised(c) PROVE RcIsOwn'
<1>1. CASE th[c].login /\ th[c].op # "reconnect"
  <2>1. PICK t : Returned(c, t, "failed") BY <1>1 DEF Raised
  <2> QED BY <2>1, ReturnedRc
<1>2. CASE ~(th[c].login /\ th[c].op # "reconnect")
  <2>1. Finish(c, th[c], "raised") BY <1>2 DEF Raised
  <2> QED BY <2>1, FinishRc
<1> QED BY <1>1, <1>2

\* It goes on, or returns after its last exchange.
LEMMA ContinueRc ==
    ASSUME Typed, RcIsOwn, NEW c \in Callers, NEW t, t.login \in BOOLEAN,
           t.todo = << >> /\ ~t.login => RcOwned(t), Continue(c, t)
    PROVE  RcIsOwn'
<1>1. CASE t.todo # << >>
  <2>1. res' = res BY <1>1 DEF Continue
  <2> QED BY <2>1, SameRc
<1>2. CASE t.todo = << >> /\ t.login
  <2>1. CASE t.op \in {"reconnect", "sftp"}
    <3>1. Finish(c, t, "done") BY <1>2, <2>1 DEF Continue
    <3>2. RcOwned(t) BY <2>1 DEF RcOwned
    <3> QED BY <3>1, <3>2, FinishRc
  <2>2. CASE t.op \notin {"reconnect", "sftp"}
    <3>1. res' = res BY <1>2, <2>2 DEF Continue
    <3> QED BY <3>1, SameRc
  <2> QED BY <2>1, <2>2
<1>3. CASE t.todo = << >> /\ ~t.login
  <2>1. Returned(c, t, "done") BY <1>3 DEF Continue
  <2> QED BY <1>3, <2>1, ReturnedRc
<1> QED BY <1>1, <1>2, <1>3

-----------------------------------------------------------------------------
(* Before and after the exchanges *)

\* A caller that is not in the exchanges of a run has no status to wait for.
LEMMA Elsewhere ==
    ASSUME OwnInv, OwnInv', StatusTurn, NEW c \in Callers, NEW u, Moves(c, u), Gentle,
           u.pc # "idle" \/ Busy(c), opened' = opened,
           u.op # "run" \/ u.login \/ u.pc \notin Exchanging
    PROVE  StatusTurn'
<1>1. ~Coded(u) BY DEF Coded
<1> QED BY <1>1, StatusFrame

\* An operation starts.
LEMMA CallStatus ==
    ASSUME OwnInv, OwnInv', StatusTurn, RcIsOwn, NEW c \in Callers, Call(c)
    PROVE  StatusTurn' /\ RcIsOwn'
<1>0. Typed /\ Gentle /\ opened' = opened
  BY GentleStep DEF OwnInv, Call, CallRun, CallReconnect, CallSftp
<1> DEFINE From(pc, login) == \E op, p : Start(c, op, p, pc, login)
<1>a. From("check", FALSE) \/ From("connect", TRUE)
  BY DEF Call, CallRun, CallReconnect, CallSftp
<1>b. PICK pc \in {"check", "connect"}, login \in BOOLEAN :
        From(pc, login) /\ (login <=> pc = "connect")
  <2>1. CASE From("check", FALSE)
    <3> HIDE DEF From
    <3> QED BY <2>1
  <2>2. CASE From("connect", TRUE)
    <3> HIDE DEF From
    <3> QED BY <2>2
  <2> QED BY <1>a, <2>1, <2>2
<1>1. PICK op, p : Start(c, op, p, pc, login) BY <1>b
<1>2. PICK u : /\ Moves(c, u) /\ Local(u) /\ u.pc \notin Exchanging /\ u.pc # "plan"
               /\ (u.op = "run" => ~u.clean) /\ ~Busy(c)
               /\ res' = [res EXCEPT ![c] = NoResult]
  BY <1>1, <1>b, StartOwn
<1>3. u.pc # "idle"
  <2> DEFINE v == [Idle EXCEPT !.pc = pc, !.op = op, !.plan = p,
                               !.run = runs + 1, !.login = login]
  <2>1. Moves(c, v) BY <1>1 DEF Start, Moves
  <2>2. v.pc = pc BY DEF Idle
  <2> HIDE DEF v
  <2>3. th'[c] = u /\ th'[c] = v BY <1>0, <1>2, <2>1 DEF Moves, Typed, CallsOK
  <2> QED BY <1>b, <2>2, <2>3
<1>4. StatusTurn' BY <1>0, <1>2, <1>3, Elsewhere
<1>5. RcIsOwn'
  <2>1. NoResult.kind # "done" BY DEF NoResult
  <2> QED BY <1>0, <1>2, <2>1, ResultRc
<1> QED BY <1>4, <1>5

\* The caller looks at its channel, connects or opens a channel, or gives up.
LEMMA LoginStatus ==
    ASSUME OwnInv, OwnInv', StatusTurn, RcIsOwn, NEW c \in Callers,
           \/ Check(c) \/ Connect(c) \/ ConnectRaises(c) \/ RetryRaises(c) \/ OpenFails(c)
           \/ SendRaises(c) \/ RecvRaises(c)
    PROVE  StatusTurn' /\ RcIsOwn'
<1>0. /\ Typed /\ AnswerIsOwn /\ Gentle /\ th[c] \in Thread
      /\ Busy(c) /\ opened' = opened
  <2>1. Typed /\ AnswerIsOwn /\ Gentle
    BY GentleStep DEF OwnInv, CallerStep
  <2>2. Busy(c) /\ opened' = opened
    BY DEF Check, Connect, ConnectRaises, RetryRaises, OpenFails, SendRaises, RecvRaises, Busy
  <2> QED BY <2>1, <2>2 DEF Typed, CallsOK
<1>1. CASE Raised(c)
  <2>1. PICK u : Ended(u) /\ Moves(c, u) /\ AnswerIsOwn' BY <1>0, <1>1, RaisedOwn
  <2>2. StatusTurn' BY <1>0, <2>1, Elsewhere DEF Ended
  <2>3. RcIsOwn' BY <1>0, <1>1, RaisedRc
  <2> QED BY <2>2, <2>3
<1>2. CASE Check(c)
  <2> DEFINE u == [th[c] EXCEPT !.pc = IF Active THEN "plan" ELSE "connect", !.login = ~Active]
  <2>1. Moves(c, u) /\ res' = res
    BY <1>0, <1>2 DEF Check, Moves, Typed, CallsOK
  <2>2. u.pc \in {"plan", "connect"} BY <1>0 DEF Thread
  <2> HIDE DEF u
  <2>3. StatusTurn' BY <1>0, <2>1, <2>2, Elsewhere DEF Exchanging
  <2> QED BY <2>1, <2>3, SameRc
<1>3. CASE Connect(c) \/ ConnectRaises(c)
  <2> DEFINE pc == IF Connect(c) THEN "open" ELSE "retry"
             u == [th[c] EXCEPT !.pc = pc]
  <2>1. Moves(c, u) /\ res' = res BY <1>3 DEF Connect, ConnectRaises, Moves
  <2>2. u.pc \in {"open", "retry"} BY <1>0 DEF Thread
  <2> HIDE DEF u
  <2>3. StatusTurn' BY <1>0, <2>1, <2>2, Elsewhere DEF Exchanging
  <2> QED BY <2>1, <2>3, SameRc
<1>4. Raised(c) \/ Check(c) \/ Connect(c) \/ ConnectRaises(c)
  BY DEF RetryRaises, OpenFails, SendRaises, RecvRaises
<1> QED BY <1>1, <1>2, <1>3, <1>4

\* A new channel: the greeting is not an exchange of a run.
LEMMA OpenStatus ==
    ASSUME OwnInv, OwnInv', StatusTurn, RcIsOwn, NEW c \in Callers, OpenSession(c)
    PROVE  StatusTurn' /\ RcIsOwn'
<1>0. /\ Typed /\ Gentle /\ th[c] \in Thread /\ Local(th[c])
      /\ ses \in [1 .. MaxChans -> Session] /\ opened \in Nat
  BY GentleStep DEF OwnInv, CallerStep, Typed, CallsOK, Turns, Locals
<1> DEFINE t == th[c]
           n == opened + 1
           greet == [run |-> t.run, what |-> "greet", k |-> 0]
           in == << greet >>
           s == [closed |-> FALSE, inbox |-> in, wire |-> << >>, spoke |-> FALSE,
                 prev |-> NoLine, named |-> FALSE, lost |-> {}, shared |-> ~Alone(c)]
           todo == LoginExchanges
           u == [t EXCEPT !.pc = "sent", !.todo = todo]
<1>1. /\ Moves(c, u) /\ t.pc = "open" /\ res' = res
      /\ opened' = n /\ ses' = [ses EXCEPT ![n] = s] /\ opened < MaxChans
  BY DEF OpenSession, Moves
<1>2. in # << >> OBVIOUS
<1>3. s.inbox = in OBVIOUS
<1> HIDE DEF s, in, todo
<1>4. u.pc = "sent" /\ u.login = t.login BY <1>0 DEF Thread
<1> HIDE DEF u
<1>5. u.login BY <1>0, <1>1, <1>4 DEF Local
<1>6. n \in 1 .. MaxChans BY <1>0, <1>1, ShellAssumption
<1>7. Hushed(ses'[n]) BY <1>0, <1>1, <1>2, <1>3, <1>6 DEF Hushed
<1>8. StatusTurn'
  <2>1. ~Coded(u) BY <1>5 DEF Coded
  <2> QED BY <1>0, <1>1, <1>4, <1>7, <2>1, StatusFrame
<1>9. RcIsOwn' BY <1>1, SameRc
<1> QED BY <1>8, <1>9

\* The verdict of the probe.
LEMMA VerdictStatus ==
    ASSUME OwnInv, OwnInv', StatusTurn, RcIsOwn, NEW c \in Callers, Verdict(c)
    PROVE  StatusTurn' /\ RcIsOwn'
<1>0. /\ Typed /\ Gentle /\ th[c] \in Thread /\ Local(th[c])
      /\ Busy(c) /\ opened' = opened /\ th[c].pc = "verdict"
  <2>1. Typed /\ Gentle BY GentleStep DEF OwnInv, CallerStep
  <2>2. Busy(c) /\ opened' = opened /\ th[c].pc = "verdict" BY DEF Verdict, Busy
  <2> QED BY <2>1, <2>2 DEF OwnInv, Typed, CallsOK, Turns, Locals
<1> DEFINE t == th[c]
<1>1. CASE t.intact
  <2>1. Finish(c, t, "done") BY <1>1 DEF Verdict
  <2>2. RcOwned(t) BY <1>0 DEF RcOwned, Local, Exchanging
  <2>3. RcIsOwn' BY <1>0, <2>1, <2>2, FinishRc
  <2>4. Moves(c, Idle) BY <2>1 DEF Finish, Moves
  <2>5. StatusTurn' BY <1>0, <2>4, Elsewhere, IdleEnded DEF Ended
  <2> QED BY <2>3, <2>5
<1>2. CASE ~t.intact
  <2> DEFINE u == [t EXCEPT !.pc = "connect", !.op = "reconnect", !.login = TRUE]
  <2>1. Moves(c, u) /\ res' = res BY <1>2 DEF Verdict, Moves
  <2>2. u.op = "reconnect" BY <1>0 DEF Thread
  <2> HIDE DEF u
  <2>3. StatusTurn' BY <1>0, <2>1, <2>2, Elsewhere
  <2> QED BY <2>1, <2>3, SameRc
<1> QED BY <1>1, <1>2

\* A caller with nothing read and nothing in flight has the status still to come.
LEMMA StatStill ==
    ASSUME NEW t, NEW s, t.got = << >>, Still(s), s.lost = {}, Order(t.todo, t.plan),
           ~t.plan.shnormal /\ Head(t.todo).what = "intr" =>
             s.prev = [run |-> t.run, what |-> "cmd", k |-> Head(t.todo).k],
           ~t.plan.shnormal /\ Head(t.todo).what = "status" => s.prev = LastCmd(t)
    PROVE  Stat(t, s)
<1>1. s.inbox = << >> /\ Len(s.wire) = 0 /\ Len(t.got) = 0 BY DEF Still
<1>2. \A x : x \notin Flow(t, s) BY <1>1 DEF Flow
<1>3. ~Over(t, s) BY <1>2 DEF Over
<1>4. ~t.plan.shnormal => Follows(t, s) BY <1>2, <1>3 DEF Follows
<1> QED BY <1>1, <1>2, <1>3, <1>4 DEF Stat

\* A run plans its exchanges on a channel with nothing in flight.
LEMMA PlanStatus ==
    ASSUME OwnInv, OwnInv', StatusTurn, RcIsOwn, NEW c \in Callers, MakePlan(c)
    PROVE  StatusTurn' /\ RcIsOwn'
<1>0. /\ Typed /\ Gentle /\ th[c] \in Thread /\ Local(th[c]) /\ normal \in BOOLEAN
      /\ Busy(c) /\ opened' = opened /\ th[c].pc = "plan"
  <2>1. Typed /\ Gentle BY GentleStep DEF OwnInv, CallerStep
  <2>2. Busy(c) /\ opened' = opened /\ th[c].pc = "plan" BY DEF MakePlan, Busy
  <2> QED BY <2>1, <2>2 DEF OwnInv, Typed, CallsOK, Turns, Locals
<1> DEFINE t == th[c]
           todo == RunExchanges(t.op, t.plan, normal)
           clean == CASE t.op = "run" -> Fresh({})
                      [] t.op = "probe" -> Fresh(RunPurposes)
                      [] OTHER -> t.clean
           u == [t EXCEPT !.pc = "send", !.todo = todo, !.good = TRUE, !.clean = clean]
<1>1. Moves(c, u) /\ UNCHANGED <<channel, ses, res>> BY <1>0 DEF MakePlan, Moves, Thread
<1>2. t.op = "run" => clean = Fresh({}) OBVIOUS
<1>3. t.plan \in PlanType BY <1>0 DEF Thread
<1>4. t.op = "run" /\ t.plan.code =>
        Order(todo, t.plan) /\ Head(todo).what \in {"cd", "cmd"}
  BY <1>0, <1>3, OrderPlanned
<1> HIDE DEF todo, clean
<1>5. /\ u.pc = "send" /\ u.todo = todo /\ u.clean = clean /\ u.plan = t.plan
      /\ u.got = t.got /\ u.op = t.op /\ u.run = t.run
  BY <1>0 DEF Thread
<1> HIDE DEF u
<1>6. ASSUME Coded(u), channel # 0, ~ses[channel].shared PROVE Stat(u, ses[channel])
  <2>1. ses[channel].lost = {} BY <1>2, <1>5, <1>6 DEF Coded, Fresh
  <2>2. Still(ses[channel]) BY <1>0, <1>6, <2>1, Now DEF Fit, InStep
  <2>3. u.got = << >> BY <1>0, <1>5 DEF Local
  <2>4. Order(u.todo, u.plan) /\ Head(u.todo).what \in {"cd", "cmd"}
    BY <1>4, <1>5, <1>6 DEF Coded
  <2> QED BY <2>1, <2>2, <2>3, <2>4, StatStill
<1>7. StatusTurn' BY <1>0, <1>1, <1>6, StatusFrame
<1>8. RcIsOwn' BY <1>1, SameRc
<1> QED BY <1>7, <1>8

-----------------------------------------------------------------------------
(* The exchanges of a run *)

\* Reading changes neither what was printed nor what is executed.
LEMMA StatSame ==
    ASSUME NEW t, NEW u, NEW s, NEW r, Stat(t, s),
           u.todo = t.todo, u.plan = t.plan, u.run = t.run,
           u.pc = "send" => t.pc = "send" /\ Still(r),
           \A x : x \in Flow(u, r) <=> x \in Flow(t, s),
           r.lost = {}, r.inbox = s.inbox, r.prev = s.prev, r.spoke = s.spoke
    PROVE  Stat(u, r)
<1>1. LineOf(u) = LineOf(t) /\ LastCmd(u) = LastCmd(t) BY DEF LineOf, LastCmd
<1>2. Over(u, r) <=> Over(t, s) BY DEF Over
<1>3. Follows(t, s) => Follows(u, r) BY <1>1, <1>2 DEF Follows
<1>4. \A tok \in Flow(u, r) : tok.line = LineOf(u) BY <1>1 DEF Stat
<1>5. Head(u.todo).what = "status" /\ ((r.inbox # << >> /\ r.spoke) \/ Over(u, r)) =>
         \E tok \in Flow(u, r) : tok.kind = "digits"
  BY <1>2 DEF Stat
<1>6. Order(u.todo, u.plan) /\ (r.inbox # << >> => Len(r.inbox) = 1 /\ r.inbox[1] = LineOf(u))
  BY <1>1 DEF Stat
<1>7. ~u.plan.shnormal => Follows(u, r) BY <1>3 DEF Stat
<1> QED BY <1>4, <1>5, <1>6, <1>7 DEF Stat

\* The receive buffer of a run is empty already when it is emptied.
LEMMA DrainStatus ==
    ASSUME OwnInv, OwnInv', StatusTurn, RcIsOwn, NEW c \in Callers, Drain(c)
    PROVE  StatusTurn' /\ RcIsOwn'
<1>0. /\ Typed /\ Gentle /\ th \in [Callers -> Thread] /\ Busy(c) /\ th[c].pc = "send"
      /\ UNCHANGED <<channel, opened, th, res>> /\ channel # 0
  <2>1. Typed /\ Gentle BY GentleStep DEF OwnInv, CallerStep
  <2>2. /\ Busy(c) /\ th[c].pc = "send"
        /\ UNCHANGED <<channel, opened, th, res>> /\ channel # 0
    BY DEF Drain, Busy
  <2> QED BY <2>1, <2>2 DEF Typed, CallsOK
<1> DEFINE t == th[c]
           s == ses[channel]
           e == << >>
           lost == IF s.inbox = << >> THEN {} ELSE s.lost
           r == [s EXCEPT !.wire = e, !.lost = lost]
<1>1. channel \in 1 .. MaxChans /\ s \in Session BY <1>0, ShellAssumption DEF Typed
<1>2. ses'[channel] = r BY <1>0, <1>1 DEF Drain, Typed
<1>3. /\ r.wire = << >> /\ r.inbox = s.inbox /\ r.lost = lost /\ r.shared = s.shared
      /\ r.prev = s.prev /\ r.spoke = s.spoke
  BY <1>1 DEF Session
<1> HIDE DEF r
<1>4. ASSUME Coded(t), ~ses'[channel].shared PROVE Stat(t, ses'[channel])
  <2>1. Stat(t, s) BY <1>0, <1>2, <1>3, <1>4 DEF StatusTurn
  <2>2. s.lost = {} /\ Still(s) BY <1>0, <2>1 DEF Stat
  <2>3. r.wire = s.wire /\ r.lost = {} /\ Still(r) BY <1>3, <2>2 DEF Still
  <2>4. \A x : x \in Flow(t, r) <=> x \in Flow(t, s) BY <2>3 DEF Flow
  <2> QED BY <1>0, <1>2, <1>3, <2>1, <2>3, <2>4, StatSame
<1>5. Moves(c, t) BY <1>0 DEF Moves
<1>6. StatusTurn' BY <1>0, <1>4, <1>5, StatusFrame
<1>7. RcIsOwn' BY <1>0, SameRc
<1> QED BY <1>6, <1>7

\* A line is sent to a shell that has not begun to print.
LEMMA SendStatus ==
    ASSUME OwnInv, OwnInv', StatusTurn, RcIsOwn, NEW c \in Callers, Send(c)
    PROVE  StatusTurn' /\ RcIsOwn'
<1>0. /\ Typed /\ Gentle /\ th[c] \in Thread /\ Busy(c) /\ th[c].pc = "send" /\ Local(th[c])
      /\ Waiting(th[c])
      /\ UNCHANGED <<channel, opened, res>> /\ channel # 0 /\ ~ses[channel].closed
  <2>1. Typed /\ Gentle BY GentleStep DEF OwnInv, CallerStep
  <2>2. /\ Busy(c) /\ th[c].pc = "send"
        /\ UNCHANGED <<channel, opened, res>> /\ channel # 0 /\ ~ses[channel].closed
    BY DEF Send, Busy, Active, adapter
  <2> QED BY <2>1, <2>2 DEF Typed, CallsOK, OwnInv, Turns, Locals, ThreadOK
<1> DEFINE t == th[c]
           s == ses[channel]
           line == LineOf(t)
           in == Append(s.inbox, line)
           r == [s EXCEPT !.inbox = in]
           u == [t EXCEPT !.pc = "sent"]
<1>1. channel \in 1 .. MaxChans /\ s \in Session BY <1>0, ShellAssumption DEF Typed
<1>2. ses'[channel] = r /\ Moves(c, u) BY <1>0, <1>1 DEF Send, Typed, Moves
<1>3. /\ r.wire = s.wire /\ r.inbox = in /\ r.lost = s.lost /\ r.shared = s.shared
      /\ r.prev = s.prev /\ r.spoke = s.spoke
  BY <1>1 DEF Session
<1>4. /\ u.pc = "sent" /\ u.todo = t.todo /\ u.plan = t.plan /\ u.run = t.run
      /\ u.got = t.got /\ u.op = t.op /\ u.clean = t.clean /\ u.good = t.good
      /\ u.login = t.login
  BY <1>0 DEF Thread
<1>5. line \in Line BY <1>0, LineOfType DEF Waiting
<1>6. LineOf(u) = line /\ LastCmd(u) = LastCmd(t) BY <1>4 DEF LineOf, LastCmd
<1> HIDE DEF r, u, line
<1>7. s.inbox = << >> => Len(in) = 1 /\ in[1] = line
  <2> SUFFICES ASSUME s.inbox = << >> PROVE Len(in) = 1 /\ in[1] = line OBVIOUS
  <2>1. s.inbox \in Seq(Line) BY <1>1 DEF Session
  <2>2. Len(s.inbox) = 0 OBVIOUS
  <2>3. Len(in) = Len(s.inbox) + 1 /\ in[Len(s.inbox) + 1] = line BY <1>5, <2>1
  <2> QED BY <2>2, <2>3
<1> HIDE DEF in
<1>8. ASSUME Coded(u), ~ses'[channel].shared PROVE Stat(u, ses'[channel])
  <2>1. Coded(t) BY <1>0, <1>4, <1>8 DEF Coded, Exchanging
  <2>2. Stat(t, s) BY <1>0, <1>2, <1>3, <1>8, <2>1 DEF StatusTurn
  <2>3. s.lost = {} /\ s.wire = << >> /\ s.inbox = << >> BY <1>0, <2>2 DEF Stat, Still
  <2>4. u.got = << >> BY <1>0, <1>4 DEF Local
  <2>5. \A x : x \notin Flow(u, r)
    <3>1. Len(u.got) = 0 /\ Len(r.wire) = 0 BY <1>3, <2>3, <2>4
    <3> QED BY <3>1 DEF Flow
  <2>6. ~Over(u, r) BY <2>5 DEF Over
  <2>7. channel \in 1 .. opened BY <1>0 DEF Typed
  <2>8. ~r.spoke BY <1>0, <1>3, <2>3, <2>7 DEF StatusTurn, Hushed
  <2>9. Order(u.todo, u.plan) BY <1>4, <2>2 DEF Stat
  <2>10. ASSUME ~u.plan.shnormal PROVE Follows(u, r)
    <3>1. Follows(t, s) BY <1>4, <2>2, <2>10 DEF Stat
    <3>2. Head(t.todo).what = "status" => r.prev = LastCmd(u)
      BY <1>0, <1>3, <1>6, <3>1 DEF Follows
    <3>3. Head(t.todo).what = "intr" =>
            r.prev = [run |-> u.run, what |-> "cmd", k |-> Head(u.todo).k]
      BY <1>3, <1>4, <3>1 DEF Follows
    <3> QED BY <1>4, <2>5, <2>6, <3>2, <3>3 DEF Follows
  <2>11. Stat(u, r)
    BY <1>3, <1>4, <1>6, <1>7, <2>3, <2>5, <2>6, <2>8, <2>9, <2>10 DEF Stat
  <2> QED BY <1>2, <2>11
<1>9. StatusTurn' BY <1>0, <1>2, <1>4, <1>8, StatusFrame
<1>10. RcIsOwn' BY <1>0, SameRc
<1> QED BY <1>9, <1>10

\* recv() starts.
LEMMA StartRecvStatus ==
    ASSUME OwnInv, OwnInv', StatusTurn, RcIsOwn, NEW c \in Callers, StartRecv(c)
    PROVE  StatusTurn' /\ RcIsOwn'
<1>0. /\ Typed /\ Gentle /\ th[c] \in Thread /\ Busy(c) /\ th[c].pc = "sent"
      /\ UNCHANGED <<channel, opened, ses, res>>
  <2>1. Typed /\ Gentle BY GentleStep DEF OwnInv, CallerStep
  <2>2. Busy(c) /\ th[c].pc = "sent" /\ UNCHANGED <<channel, opened, ses, res>>
    BY DEF StartRecv, Busy, adapter
  <2> QED BY <2>1, <2>2 DEF Typed, CallsOK
<1> DEFINE t == th[c]
           u == [t EXCEPT !.pc = "recv", !.conn = channel]
<1>1. Moves(c, u) BY DEF StartRecv, Moves
<1>2. /\ u.pc = "recv" /\ u.todo = t.todo /\ u.plan = t.plan /\ u.run = t.run
      /\ u.got = t.got /\ u.op = t.op /\ u.clean = t.clean /\ u.good = t.good
      /\ u.login = t.login
  BY <1>0 DEF Thread
<1> HIDE DEF u
<1>3. ASSUME Coded(u), channel # 0, ~ses[channel].shared PROVE Stat(u, ses[channel])
  <2>1. Coded(t) BY <1>0, <1>2, <1>3 DEF Coded, Exchanging
  <2>2. Stat(t, ses[channel]) BY <1>3, <2>1 DEF StatusTurn
  <2>3. \A x : x \in Flow(u, ses[channel]) <=> x \in Flow(t, ses[channel]) BY <1>2 DEF Flow
  <2>4. ses[channel].lost = {} BY <2>2 DEF Stat
  <2> QED BY <1>2, <2>2, <2>3, <2>4, StatSame
<1>4. StatusTurn' BY <1>0, <1>1, <1>2, <1>3, StatusFrame
<1>5. RcIsOwn' BY <1>0, SameRc
<1> QED BY <1>4, <1>5

\* A piece of output moves from the channel to the caller.
LEMMA ChunkFlow ==
    ASSUME NEW t \in Thread, NEW s \in Session, s.wire # << >>, NEW u, NEW r,
           u.got = Append(t.got, Head(s.wire)), r.wire = Tail(s.wire)
    PROVE  \A x : x \in Flow(u, r) <=> x \in Flow(t, s)
<1> DEFINE m == Len(t.got)
           n == Len(s.wire)
<1>1. /\ t.got \in Seq(Token) /\ s.wire \in Seq(Token)
      /\ m \in Nat /\ n \in Nat /\ n # 0
  BY DEF Thread, Session
<1>2. /\ Len(u.got) = m + 1 /\ u.got[m + 1] = s.wire[1]
      /\ \A i \in 1 .. m : u.got[i] = t.got[i]
  <2>1. Head(s.wire) \in Token /\ Head(s.wire) = s.wire[1] BY <1>1
  <2> QED BY <1>1, <2>1
<1>3. Len(r.wire) = n - 1 /\ \A i \in 1 .. n - 1 : r.wire[i] = s.wire[i + 1]
  BY <1>1, TailFacts
<1> HIDE DEF m, n
<1>4. ASSUME NEW x \in Flow(u, r) PROVE x \in Flow(t, s)
  <2>1. CASE \E i \in 1 .. Len(u.got) : x = u.got[i]
    <3>1. PICK i \in 1 .. m + 1 : x = u.got[i] BY <1>2, <2>1
    <3>2. i \in 1 .. m \/ i = m + 1 BY <1>1
    <3>3. 1 \in 1 .. n BY <1>1
    <3> QED BY <1>2, <3>1, <3>2, <3>3 DEF Flow, m, n
  <2>2. CASE \E i \in 1 .. Len(r.wire) : x = r.wire[i]
    <3>1. PICK i \in 1 .. n - 1 : x = r.wire[i] BY <1>3, <2>2
    <3>2. i + 1 \in 1 .. n BY <1>1
    <3> QED BY <1>3, <3>1, <3>2 DEF Flow, n
  <2> QED BY <1>4, <2>1, <2>2 DEF Flow
<1>5. ASSUME NEW x \in Flow(t, s) PROVE x \in Flow(u, r)
  <2>1. CASE \E i \in 1 .. m : x = t.got[i]
    <3>1. PICK i \in 1 .. m : x = t.got[i] BY <2>1
    <3>2. i \in 1 .. Len(u.got) BY <1>1, <1>2
    <3> QED BY <1>2, <3>1, <3>2 DEF Flow
  <2>2. CASE \E i \in 1 .. n : x = s.wire[i]
    <3>1. PICK i \in 1 .. n : x = s.wire[i] BY <2>2
    <3>2. CASE i = 1
      <4>1. m + 1 \in 1 .. Len(u.got) BY <1>1, <1>2
      <4> QED BY <1>2, <3>1, <3>2, <4>1 DEF Flow
    <3>3. CASE i # 1
      <4>1. i - 1 \in 1 .. n - 1 /\ (i - 1) + 1 = i BY <1>1, <3>3
      <4>2. x = r.wire[i - 1] BY <1>3, <3>1, <4>1
      <4> QED BY <1>3, <4>1, <4>2 DEF Flow
    <3> QED BY <3>2, <3>3
  <2> QED BY <1>5, <2>1, <2>2 DEF Flow, m, n
<1> QED BY <1>4, <1>5

\* More of the stream is read.
LEMMA RecvChunkStatus ==
    ASSUME OwnInv, OwnInv', StatusTurn, RcIsOwn, NEW c \in Callers, RecvChunk(c)
    PROVE  StatusTurn' /\ RcIsOwn'
<1>0. /\ Typed /\ Gentle /\ th[c] \in Thread /\ Busy(c) /\ th[c].pc = "recv"
      /\ UNCHANGED <<channel, opened, res>> /\ ses[th[c].conn].wire # << >>
  <2>1. Typed /\ Gentle BY GentleStep DEF OwnInv, CallerStep
  <2>2. /\ Busy(c) /\ th[c].pc = "recv" /\ UNCHANGED <<channel, opened, res>>
        /\ ses[th[c].conn].wire # << >>
    BY DEF RecvChunk, Busy, adapter
  <2> QED BY <2>1, <2>2 DEF Typed, CallsOK
<1> DEFINE t == th[c]
           q == ses[t.conn]
           got == Append(t.got, Head(q.wire))
           u == [t EXCEPT !.got = got]
<1>1. Moves(c, u) BY <1>0 DEF RecvChunk, Moves, Thread
<1>2. /\ u.pc = "recv" /\ u.todo = t.todo /\ u.plan = t.plan /\ u.run = t.run
      /\ u.got = got /\ u.op = t.op /\ u.clean = t.clean /\ u.good = t.good
      /\ u.login = t.login
  BY <1>0 DEF Thread
<1> HIDE DEF u, got
<1>3. ASSUME Coded(u), channel # 0, ~ses'[channel].shared PROVE Stat(u, ses'[channel])
  <2> DEFINE s == ses[channel]
             rest == Tail(s.wire)
             r == [s EXCEPT !.wire = rest]
  <2>0. channel \in 1 .. opened /\ channel \in 1 .. MaxChans /\ s \in Session
    BY <1>0, <1>3, ShellAssumption DEF Typed
  <2>1. ~s.shared BY <1>3, <2>0, <1>0 DEF Gentle
  <2>2. t.conn = channel BY <1>0, <1>3, <2>1, Now DEF Fit
  <2>3. ses'[channel] = r BY <1>0, <2>0, <2>2 DEF RecvChunk, Typed
  <2>4. /\ r.wire = rest /\ r.inbox = s.inbox /\ r.lost = s.lost
        /\ r.prev = s.prev /\ r.spoke = s.spoke
    BY <2>0 DEF Session
  <2> HIDE DEF r
  <2>5. Coded(t) BY <1>0, <1>2, <1>3 DEF Coded, Exchanging
  <2>6. Stat(t, s) BY <1>3, <2>1, <2>5 DEF StatusTurn
  <2>7. u.got = Append(t.got, Head(s.wire)) /\ s.wire # << >> BY <1>0, <1>2, <2>2 DEF got
  <2>8. \A x : x \in Flow(u, r) <=> x \in Flow(t, s) BY <1>0, <2>0, <2>4, <2>7, ChunkFlow
  <2>9. r.lost = {} BY <2>4, <2>6 DEF Stat
  <2>10. Stat(u, r) BY <1>2, <2>4, <2>6, <2>8, <2>9, StatSame
  <2> QED BY <2>3, <2>10
<1>4. StatusTurn' BY <1>0, <1>1, <1>2, <1>3, StatusFrame
<1>5. RcIsOwn' BY <1>0, SameRc
<1> QED BY <1>4, <1>5

\* After the last exchange the caller is in none.
LEMMA ContinueDone ==
    ASSUME NEW c \in Callers, NEW t \in Thread, t.todo = << >>, Continue(c, t)
    PROVE  \E u : Moves(c, u) /\ u.pc \notin Exchanging
<1>1. ASSUME NEW kind, Finish(c, t, kind)
      PROVE  \E u : Moves(c, u) /\ u.pc \notin Exchanging
  <2>1. Moves(c, Idle) BY <1>1 DEF Finish, Moves
  <2> QED BY <2>1, IdleEnded DEF Ended, Exchanging
<1>2. ASSUME NEW u, Moves(c, u), u.pc \in {"plan", "check", "verdict"}
      PROVE  \E v : Moves(c, v) /\ v.pc \notin Exchanging
  BY <1>2 DEF Exchanging
<1>3. CASE t.login
  <2>1. CASE t.op \in {"reconnect", "sftp"} BY <1>1, <1>3, <2>1 DEF Continue
  <2>2. CASE t.op \notin {"reconnect", "sftp"}
    <3> DEFINE u == [t EXCEPT !.pc = "plan", !.login = FALSE]
    <3>1. Moves(c, u) BY <1>3, <2>2 DEF Continue, Moves
    <3>2. u.pc = "plan" BY DEF Thread
    <3> HIDE DEF u
    <3> QED BY <1>2, <3>1, <3>2
  <2> QED BY <2>1, <2>2
<1>4. CASE ~t.login
  <2>0. Returned(c, t, "done") BY <1>4 DEF Continue
  <2>1. CASE t.op = "probe"
    <3> DEFINE u == [t EXCEPT !.pc = "check", !.op = "echo", !.login = FALSE,
                              !.intact = @ /\ "done" = "done"]
    <3>1. Moves(c, u) BY <2>0, <2>1 DEF Returned, Moves
    <3>2. u.pc = "check" BY DEF Thread
    <3> HIDE DEF u
    <3> QED BY <1>2, <3>1, <3>2
  <2>2. CASE t.op = "echo"
    <3> DEFINE u == [t EXCEPT !.pc = "verdict", !.login = FALSE]
    <3>1. Moves(c, u) BY <2>0, <2>2 DEF Returned, Moves
    <3>2. u.pc = "verdict" BY DEF Thread
    <3> HIDE DEF u
    <3> QED BY <1>2, <3>1, <3>2
  <2>3. CASE t.op \notin {"probe", "echo"}
    <3>1. Finish(c, t, "done") BY <2>0, <2>3 DEF Returned
    <3> QED BY <1>1, <3>1
  <2> QED BY <2>1, <2>2, <2>3
<1> QED BY <1>3, <1>4

\* A run whose line was not sent has not read its prompt.
LEMMA SendTimeoutStatus ==
    ASSUME OwnInv, OwnInv', StatusTurn, RcIsOwn, NEW c \in Callers, SendTimeout(c)
    PROVE  StatusTurn' /\ RcIsOwn'
<1>0. /\ Typed /\ AnswerIsOwn /\ Gentle /\ th[c] \in Thread /\ Busy(c) /\ th[c].pc = "send"
      /\ Waiting(th[c]) /\ Local(th[c]) /\ UNCHANGED <<channel, opened>>
  <2>1. Typed /\ AnswerIsOwn /\ Gentle BY GentleStep DEF OwnInv, CallerStep
  <2>2. Busy(c) /\ th[c].pc = "send" /\ UNCHANGED <<channel, opened>> BY DEF SendTimeout, Busy
  <2> QED BY <2>1, <2>2 DEF OwnInv, Typed, CallsOK, Turns, Locals, ThreadOK
<1> DEFINE t == th[c]
           rest == Tail(t.todo)
           v == IF Head(t.todo).what = "cd" /\ rest # << >>
                THEN [t EXCEPT !.todo = rest] ELSE t
           w == Absorb(v, FALSE)
<1>1. t.todo \in Seq(Exchange) /\ t.todo # << >> /\ rest \in Seq(Exchange)
  BY <1>0 DEF Thread, Waiting
<1>2. /\ v \in Thread /\ v.todo # << >> /\ v.login = t.login /\ v.got = << >>
      /\ ~t.login => NotLogin(v.todo)
  <2>1. t.got = << >> BY <1>0 DEF Local
  <2>2. ~t.login => NotLogin(t.todo) /\ NotLogin(rest)
    BY <1>0, <1>1, RestSteps DEF Local, Exchanging
  <2> HIDE DEF rest
  <2> QED BY <1>0, <1>1, <2>1, <2>2 DEF Thread
<1>3. Continue(c, w) BY DEF SendTimeout
<1> HIDE DEF v
<1>4. w \in Thread /\ w.login = t.login BY <1>2, AbsorbType, AbsorbKeeps
<1>5. ~t.login => ~w.good
  <2> SUFFICES ASSUME ~t.login PROVE ~w.good OBVIOUS
  <2>1. Head(v.todo).what # "greet"
    <3>1. v.todo \in Seq(Exchange) BY <1>2 DEF Thread
    <3>2. Head(v.todo) = v.todo[1] /\ 1 \in 1 .. Len(v.todo) BY <1>2, <3>1
    <3> QED BY <1>2, <3>2 DEF NotLogin
  <2>2. ~OwnPrompt(v)
    <3>1. DOMAIN v.got = {} BY <1>2
    <3> QED BY <3>1 DEF OwnPrompt
  <2> QED BY <1>2, <2>1, <2>2 DEF Absorb, Thread
<1> HIDE DEF w
<1>6. RcIsOwn'
  <2>1. ~w.login => RcOwned(w) BY <1>4, <1>5 DEF RcOwned
  <2> QED BY <1>0, <1>3, <1>4, <2>1, ContinueRc DEF Thread
<1>7. StatusTurn'
  <2>1. CASE w.todo # << >>
    <3> DEFINE u == [w EXCEPT !.pc = "send"]
    <3>1. Moves(c, u) BY <1>3, <2>1 DEF Continue, Moves
    <3>2. u.pc = "send" /\ u.login = w.login /\ u.good = w.good BY <1>4 DEF Thread
    <3> HIDE DEF u
    <3>3. ~Coded(u) BY <1>4, <1>5, <3>2 DEF Coded
    <3> QED BY <1>0, <3>1, <3>2, <3>3, StatusFrame
  <2>2. CASE w.todo = << >>
    <3>1. PICK u : Moves(c, u) /\ u.pc \notin Exchanging
      BY <1>0, <1>3, <1>4, <2>2, ContinueDone
    <3> QED BY <1>0, <3>1, Elsewhere
  <2> QED BY <2>1, <2>2
<1> QED BY <1>6, <1>7

\* recv() has returned, and the run goes on or ends.
LEMMA RecvOnStatus ==
    ASSUME OwnInv, OwnInv', StatusTurn, RcIsOwn, NEW c \in Callers, NEW m \in BOOLEAN,
           RecvOver(c), Gentle, Continue(c, Absorb(th[c], m))
    PROVE  StatusTurn' /\ RcIsOwn'
<1> DEFINE t == th[c]
           x == Head(t.todo)
           w == Absorb(t, m)
           s == ses[channel]
           r == ses'[channel]
<1>0. /\ Typed /\ AnswerIsOwn /\ t \in Thread /\ Busy(c) /\ t.pc = "recv"
      /\ Waiting(t) /\ Local(t) /\ UNCHANGED <<channel, opened>>
      /\ t.conn \in 1 .. MaxChans /\ t.todo # << >>
  <2>1. Typed /\ AnswerIsOwn /\ t.pc = "recv" BY DEF OwnInv, RecvOver
  <2>2. Busy(c) /\ UNCHANGED <<channel, opened>> BY <2>1 DEF RecvOver, Busy
  <2>3. t \in Thread /\ Waiting(t) /\ Local(t) /\ t.conn \in 0 .. opened
    BY <2>1 DEF OwnInv, Typed, CallsOK, Turns, Locals, ThreadOK
  <2> QED BY <2>1, <2>2, <2>3, ShellAssumption DEF Waiting, Typed
<1>1. /\ w \in Thread /\ w.op = t.op /\ w.run = t.run /\ w.login = t.login
      /\ w.clean = t.clean /\ w.got = << >> /\ w.plan = t.plan
      /\ w.todo = IF Interrupted(t, x, m)
                  THEN << X("intr", x.k, x.pat, TRUE) >> \o Remaining(t.todo, m)
                  ELSE Remaining(t.todo, m)
      /\ w.good = (t.good /\ (OwnPrompt(t) \/ x.what = "greet"))
      /\ w.rc = IF x.what = "status" THEN FirstDigits(t.got) ELSE t.rc
  <2>1. w \in Thread BY <1>0, AbsorbType
  <2>2. /\ w.good = (t.good /\ (OwnPrompt(t) \/ x.what = "greet"))
        /\ w.rc = IF x.what = "status" THEN FirstDigits(t.got) ELSE t.rc
    BY <1>0 DEF Absorb, Thread
  <2> QED BY <1>0, <2>1, <2>2, AbsorbKeeps
<1>6. Continue(c, w) OBVIOUS
<1> HIDE DEF w
<1>2. ASSUME t.op = "run", t.plan.code, t.clean, ~t.login, w.good, channel # 0, ~s.shared
      PROVE  /\ Coded(t) /\ Stat(t, s) /\ Over(t, s) /\ OwnPrompt(t) /\ s.lost = {}
             /\ channel \in 1 .. opened /\ t.conn = channel
             /\ s.wire = << >> /\ x.what # "greet"
             /\ r.lost = {} /\ r.shared = s.shared /\ r.prev = s.prev
  <2>1. x.what # "greet"
    <3>1. NotLogin(t.todo) BY <1>0, <1>2 DEF Local, Exchanging
    <3>2. t.todo \in Seq(Exchange) BY <1>0 DEF Thread
    <3>3. x = t.todo[1] /\ 1 \in 1 .. Len(t.todo) BY <1>0, <3>2
    <3> QED BY <3>1, <3>3 DEF NotLogin
  <2>2. t.good /\ OwnPrompt(t) BY <1>1, <1>2, <2>1
  <2>3. Coded(t) BY <1>0, <1>2, <2>2 DEF Coded, Exchanging
  <2>4. Stat(t, s) /\ s.lost = {} BY <1>2, <2>3 DEF StatusTurn, Stat
  <2>5. Fit(t, s, channel) BY <1>0, <1>2, Now
  <2>6. t.conn = channel /\ Awaiting(t, s) BY <1>0, <2>4, <2>5 DEF Fit, InStep
  <2>7. t.got \in Seq(Token) BY <1>0 DEF Thread
  <2>8. PICK i \in 1 .. Len(t.got) : Ends(t.got[i], LineOf(t))
    BY <2>2, <2>7 DEF OwnPrompt, Ends
  <2>9. s.wire = << >> BY <2>6, <2>8 DEF Awaiting
  <2>10. Over(t, s) BY <2>8 DEF Over, Flow, Ends
  <2>11. channel \in 1 .. opened /\ channel \in 1 .. MaxChans /\ s \in Session
    BY <1>0, <1>2, ShellAssumption DEF Typed
  <2> DEFINE lost == s.lost \cup Overlooked(t)
             q == [s EXCEPT !.lost = lost]
  <2>12. r = q BY <1>0, <2>6, <2>11 DEF RecvOver, Typed
  <2>13. lost = {} BY <2>2, <2>4 DEF Overlooked
  <2>14. q.lost = lost /\ q.shared = s.shared /\ q.prev = s.prev BY <2>11 DEF Session
  <2> HIDE DEF q
  <2> QED BY <2>1, <2>2, <2>3, <2>4, <2>6, <2>9, <2>10, <2>11, <2>12, <2>13, <2>14
<1>3. ASSUME t.op = "run", t.plan.code, t.clean, ~t.login, w.good, channel # 0, ~s.shared
      PROVE  /\ w.todo = << >> <=> x.what = "status"
             /\ x.what = "status" => x.k = 0
             /\ w.todo # << >> => Order(w.todo, w.plan)
             /\ ~w.plan.shnormal /\ w.todo # << >> /\ Head(w.todo).what = "intr" =>
                  x.what = "cmd" /\ Head(w.todo).k = x.k
             /\ ~w.plan.shnormal /\ w.todo # << >> /\ Head(w.todo).what = "status" =>
                  x.what \in {"cmd", "intr"} /\ x.k = w.plan.inputs
  <2> DEFINE rest == Remaining(t.todo, m)
             p == t.plan
             y == X("intr", x.k, x.pat, TRUE)
  <2>1. /\ t.todo \in Seq(Exchange) /\ Order(t.todo, p) /\ rest \in Seq(Exchange)
    BY <1>0, <1>2, <1>3, RemainingType DEF Stat, Thread
  <2>2. /\ x.what \in RunPurposes
        /\ rest = << >> <=> x.what = "status"
        /\ x.what = "status" => x.k = 0
        /\ rest # << >> => Order(rest, p) /\ Head(rest).what # "intr"
        /\ x.what = "cmd" => Order(<< y >> \o rest, p)
        /\ ~p.shnormal /\ rest # << >> /\ Head(rest).what = "status" =>
             x.what \in {"cmd", "intr"} /\ x.k = p.inputs
    BY <2>1, OrderNext
  <2>3. CASE Interrupted(t, x, m)
    <3>1. x.what = "cmd" BY <2>2, <2>3 DEF Interrupted, Commands, RunPurposes
    <3>2. w.todo = << y >> \o rest BY <1>1, <2>3
    <3>3. y \in Exchange
      <4>1. x \in Exchange BY <1>0, <2>1
      <4>2. x.k \in Nat /\ x.pat \in {"strict", "loose"} BY <4>1 DEF Exchange
      <4> QED BY <4>2, XType DEF Purposes
    <3>4. y.what = "intr" /\ y.k = x.k BY DEF X
    <3> HIDE DEF y, rest
    <3>5. w.todo # << >> /\ Head(w.todo) = y BY <2>1, <3>2, <3>3
    <3> QED BY <1>1, <2>2, <3>1, <3>2, <3>4, <3>5
  <2>4. CASE ~Interrupted(t, x, m)
    <3>1. w.todo = rest BY <1>1, <2>4
    <3> HIDE DEF rest
    <3> QED BY <1>1, <2>2, <3>1
  <2> QED BY <2>3, <2>4
<1>4. RcIsOwn'
  <2>1. ASSUME w.todo = << >>, ~w.login, w.op = "run", w.clean, channel # 0, ~s.shared,
               w.good, w.plan.code
        PROVE  Right(w)
    <3>0. t.op = "run" /\ t.plan.code /\ t.clean /\ ~t.login BY <1>1, <2>1
    <3>1. x.what = "status" /\ x.k = 0 BY <1>3, <2>1, <3>0
    <3>2. Stat(t, s) /\ Over(t, s) /\ s.wire = << >> BY <1>2, <2>1, <3>0
    <3>3. PICK tok \in Flow(t, s) : tok.kind = "digits" BY <3>1, <3>2 DEF Stat
    <3>4. \A i \in 1 .. Len(s.wire) : FALSE BY <3>2
    <3>5. PICK k \in 1 .. Len(t.got) : tok = t.got[k] BY <3>4 DEF Flow
    <3>6. t.got \in Seq(Token) BY <1>0 DEF Thread
    <3>7. PICK i \in 1 .. Len(t.got) : FirstDigits(t.got) = t.got[i] /\ t.got[i].kind = "digits"
      BY <3>3, <3>5, <3>6, FirstDigitsFound
    <3>8. t.got[i] \in Flow(t, s) BY DEF Flow
    <3>9. w.rc = t.got[i] BY <1>1, <3>1, <3>7
    <3>10. t.got[i].line = LineOf(t) BY <3>2, <3>8 DEF Stat
    <3>11. LineOf(t) = [run |-> t.run, what |-> "status", k |-> 0] BY <3>1 DEF LineOf
    <3>12. ~t.plan.shnormal => t.got[i].of = LastCmd(t)
      BY <3>1, <3>2, <3>7, <3>8 DEF Stat, Follows
    <3> QED BY <1>1, <3>9, <3>10, <3>11, <3>12 DEF Right, LastCmd
  <2>2. w.todo = << >> /\ ~w.login => RcOwned(w) BY <2>1 DEF RcOwned
  <2> QED BY <1>0, <1>1, <1>6, <2>2, ContinueRc DEF Thread
<1>5. StatusTurn'
  <2>1. CASE w.todo = << >>
    <3>1. PICK u : Moves(c, u) /\ u.pc \notin Exchanging
      BY <1>0, <1>1, <1>6, <2>1, ContinueDone
    <3> QED BY <1>0, <3>1, Elsewhere
  <2>2. CASE w.todo # << >>
    <3> DEFINE u == [w EXCEPT !.pc = "send"]
    <3>1. Moves(c, u) BY <1>6, <2>2 DEF Continue, Moves
    <3>2. /\ u.pc = "send" /\ u.op = w.op /\ u.run = w.run /\ u.login = w.login
          /\ u.clean = w.clean /\ u.good = w.good /\ u.plan = w.plan /\ u.todo = w.todo
          /\ u.got = w.got
      BY <1>1 DEF Thread
    <3> HIDE DEF u
    <3>3. ASSUME Coded(u), channel # 0, ~r.shared PROVE Stat(u, r)
      <4>0. t.op = "run" /\ t.plan.code /\ t.clean /\ ~t.login /\ w.good
        BY <1>1, <3>2, <3>3 DEF Coded
      <4>1. ~s.shared BY <1>0, <3>3, RecvOverFit
      <4>2. /\ Stat(t, s) /\ Over(t, s) /\ x.what # "greet" /\ r.lost = {} /\ r.prev = s.prev
        BY <1>2, <3>3, <4>0, <4>1
      <4>3. Still(r) BY <3>3, <4>2, RecvOverFit
      <4>4. /\ Order(u.todo, u.plan)
            /\ ~u.plan.shnormal /\ Head(u.todo).what = "intr" =>
                 x.what = "cmd" /\ Head(u.todo).k = x.k
            /\ ~u.plan.shnormal /\ Head(u.todo).what = "status" =>
                 x.what \in {"cmd", "intr"} /\ x.k = u.plan.inputs
        BY <1>3, <2>2, <3>2, <3>3, <4>0, <4>1
      <4>5. ~u.plan.shnormal /\ x.what \in {"cmd", "intr"} =>
              s.prev = [run |-> u.run, what |-> "cmd", k |-> x.k]
        <5> SUFFICES ASSUME ~u.plan.shnormal, x.what \in {"cmd", "intr"}
                     PROVE  s.prev = [run |-> u.run, what |-> "cmd", k |-> x.k]
          OBVIOUS
        <5>1. Follows(t, s) BY <1>1, <3>2, <4>2 DEF Stat
        <5>2. CASE x.what = "cmd" BY <1>1, <3>2, <4>2, <5>1, <5>2 DEF Follows, LineOf
        <5>3. CASE x.what = "intr" BY <1>1, <3>2, <5>1, <5>3 DEF Follows
        <5> QED BY <5>2, <5>3
      <4>6. ~u.plan.shnormal /\ Head(u.todo).what = "intr" =>
              r.prev = [run |-> u.run, what |-> "cmd", k |-> Head(u.todo).k]
        BY <4>2, <4>4, <4>5
      <4>7. ~u.plan.shnormal /\ Head(u.todo).what = "status" => r.prev = LastCmd(u)
        BY <4>2, <4>4, <4>5 DEF LastCmd
      <4>8. u.got = << >> BY <1>1, <3>2
      <4> HIDE DEF r, s
      <4> QED BY <4>2, <4>3, <4>4, <4>6, <4>7, <4>8, StatStill
    <3> QED BY <1>0, <3>1, <3>2, <3>3, StatusFrame
  <2> QED BY <2>1, <2>2
<1> QED BY <1>4, <1>5

\* A match, or the end of the wait.
LEMMA RecvEndStatus ==
    ASSUME OwnInv, OwnInv', StatusTurn, RcIsOwn, NEW c \in Callers, Matched(c) \/ Timeout(c)
    PROVE  StatusTurn' /\ RcIsOwn'
<1>0. /\ Typed /\ AnswerIsOwn /\ Gentle /\ RecvOver(c) /\ Busy(c) /\ opened' = opened
  <2>1. Typed /\ AnswerIsOwn /\ Gentle BY GentleStep DEF OwnInv, CallerStep
  <2>2. RecvOver(c) /\ Busy(c) /\ opened' = opened BY DEF Matched, Timeout, RecvOver, Busy
  <2> QED BY <2>1, <2>2
<1>1. CASE Continue(c, Absorb(th[c], TRUE)) BY <1>0, <1>1, RecvOnStatus
<1>2. CASE Continue(c, Absorb(th[c], FALSE)) BY <1>0, <1>2, RecvOnStatus
<1>3. CASE Raised(c)
  <2>1. PICK u : Ended(u) /\ Moves(c, u) /\ AnswerIsOwn' BY <1>0, <1>3, RaisedOwn
  <2>2. StatusTurn' BY <1>0, <2>1, Elsewhere DEF Ended
  <2>3. RcIsOwn' BY <1>0, <1>3, RaisedRc
  <2> QED BY <2>2, <2>3
<1> QED BY <1>1, <1>2, <1>3 DEF Matched, Timeout

-----------------------------------------------------------------------------
(* The shells, the network, and the theorem *)

\* A step of the other side, on the adapter's channel or another.
LEMMA RemoteStatusFrame ==
    ASSUME StatusTurn, RcIsOwn, UNCHANGED <<channel, opened, th, res>>,
           channel \in 0 .. opened, opened \in Nat,
           \A ch \in 1 .. opened :
             /\ ses'[ch].shared = ses[ch].shared /\ Hushed(ses'[ch])
             /\ \A c \in Callers : Stat(th[c], ses[ch]) => Stat(th[c], ses'[ch])
    PROVE  StatusTurn' /\ RcIsOwn'
<1>1. channel # 0 => channel \in 1 .. opened OBVIOUS
<1>2. StatusTurn' BY <1>1 DEF StatusTurn
<1> QED BY <1>2, SameRc

\* One channel changes.
LEMMA RemoteStatusOne ==
    ASSUME Typed, StatusTurn, RcIsOwn, UNCHANGED <<channel, opened, th, res>>,
           NEW n \in 1 .. opened, NEW r, ses' = [ses EXCEPT ![n] = r],
           r.shared = ses[n].shared, Hushed(r),
           \A c \in Callers : Stat(th[c], ses[n]) => Stat(th[c], r)
    PROVE  StatusTurn' /\ RcIsOwn'
<1>1. /\ channel \in 0 .. opened /\ opened \in Nat /\ ses \in [1 .. MaxChans -> Session]
      /\ \A ch \in 1 .. opened : ch \in 1 .. MaxChans
  BY ShellAssumption DEF Typed
<1>2. \A ch \in 1 .. opened : ses'[ch] = IF ch = n THEN r ELSE ses[ch] BY <1>1
<1>3. \A ch \in 1 .. opened : Hushed(ses[ch]) BY DEF StatusTurn
<1>4. \A ch \in 1 .. opened :
        /\ ses'[ch].shared = ses[ch].shared /\ Hushed(ses'[ch])
        /\ \A c \in Callers : Stat(th[c], ses[ch]) => Stat(th[c], ses'[ch])
  BY <1>2, <1>3
<1> QED BY <1>1, <1>4, RemoteStatusFrame

\* Whatever the remote side does.
LEMMA RemoteStatus ==
    ASSUME OwnInv, StatusTurn, RcIsOwn,
           (\E ch \in 1 .. opened : Remote(ch) \/ ChannelDies(ch)) \/ TransportDies
    PROVE  StatusTurn' /\ RcIsOwn'
<1>0. /\ Typed /\ channel \in 0 .. opened /\ opened \in Nat
      /\ \A ch \in 1 .. opened : ch \in 1 .. MaxChans
      /\ ses \in [1 .. MaxChans -> Session] /\ \A c \in Callers : th[c] \in Thread
  BY ShellAssumption DEF OwnInv, Typed, CallsOK
<1>1. ASSUME NEW ch \in 1 .. opened, RemoteText(ch) PROVE StatusTurn' /\ RcIsOwn'
  <2> DEFINE s == ses[ch]
             line == Head(s.inbox)
  <2>0. s \in Session /\ s.inbox # << >> /\ UNCHANGED <<channel, opened, th, res>>
    BY <1>0, <1>1 DEF RemoteText, adapter
  <2>1. PICK kind \in {"text", "digits", "lookalike", "mimic"} :
          /\ line.what = "status" => kind = "digits"
          /\ ses' = [ses EXCEPT ![ch].spoke = TRUE,
                                ![ch].wire = Append(@, [line |-> line, kind |-> kind,
                                                        of |-> ses[ch].prev])]
    BY <1>1 DEF RemoteText
  <2> DEFINE tok == [line |-> line, kind |-> kind, of |-> s.prev]
             out == Append(s.wire, tok)
             r == [s EXCEPT !.spoke = TRUE, !.wire = out]
  <2>2. ses' = [ses EXCEPT ![ch] = r] BY <1>0, <2>1
  <2>3. out \in Seq(Token)
    <3>1. line \in Line /\ s.prev \in Line BY <2>0 DEF Session
    <3>2. tok \in Token BY <3>1 DEF Token, TokenKinds
    <3>3. s.wire \in Seq(Token) BY <2>0 DEF Session
    <3> HIDE DEF tok, s
    <3> QED BY <3>2, <3>3
  <2>4. out = Append(s.wire, [line |-> Head(s.inbox), kind |-> kind, of |-> s.prev]) OBVIOUS
  <2> HIDE DEF out
  <2>5. /\ r.wire = out /\ r.lost = s.lost /\ r.inbox = s.inbox /\ r.prev = s.prev
        /\ r.shared = s.shared /\ r \in Session
    BY <2>0, <2>3 DEF Session
  <2> HIDE DEF r
  <2>6. Hushed(r) BY <2>0, <2>5 DEF Hushed
  <2>7. \A c \in Callers : Stat(th[c], s) => Stat(th[c], r)
    <3> TAKE c \in Callers
    <3> SUFFICES ASSUME Stat(th[c], s) PROVE Stat(th[c], r) OBVIOUS
    <3>1. th[c] \in Thread BY <1>0
    <3> QED BY <2>0, <2>1, <2>4, <2>5, <3>1, TextStat, ZenonT(60)
  <2> QED BY <1>0, <2>0, <2>2, <2>5, <2>6, <2>7, RemoteStatusOne
<1>2. ASSUME NEW ch \in 1 .. opened, RemotePrompt(ch) PROVE StatusTurn' /\ RcIsOwn'
  <2> DEFINE s == ses[ch]
             line == Head(s.inbox)
             named == s.named \/ line.what \in {"ps1", "sh1"}
             kind == IF named THEN "prompt" ELSE "rawprompt"
             tok == [line |-> line, of |-> line, kind |-> kind]
             out == Append(s.wire, tok)
             prev == IF line.what = "intr" THEN s.prev ELSE line
             in == Tail(s.inbox)
             r == [s EXCEPT !.spoke = FALSE, !.named = named, !.inbox = in, !.prev = prev,
                            !.wire = out]
  <2>0. s \in Session /\ s.inbox # << >> /\ UNCHANGED <<channel, opened, th, res>>
        /\ (line.what = "status" => s.spoke)
    BY <1>0, <1>2 DEF RemotePrompt, adapter
  <2>1. ses' = [ses EXCEPT ![ch] = r] BY <1>0, <1>2 DEF RemotePrompt
  <2>2. line \in Line /\ prev \in Line /\ in \in Seq(Line) /\ named \in BOOLEAN
    BY <2>0 DEF Session
  <2>3. out \in Seq(Token)
    <3>2. tok \in Token BY <2>2 DEF Token, TokenKinds
    <3>3. s.wire \in Seq(Token) BY <2>0 DEF Session
    <3> HIDE DEF tok, s
    <3> QED BY <3>2, <3>3
  <2>4. /\ out = Append(s.wire, [line |-> Head(s.inbox), of |-> Head(s.inbox), kind |-> kind])
        /\ kind \in {"prompt", "rawprompt"} /\ in = Tail(s.inbox)
        /\ prev = IF Head(s.inbox).what = "intr" THEN s.prev ELSE Head(s.inbox)
    OBVIOUS
  <2> HIDE DEF out, kind, prev, in, named
  <2>5. /\ r.wire = out /\ r.lost = s.lost /\ r.inbox = in /\ r.prev = prev
        /\ r.shared = s.shared /\ r.spoke = FALSE /\ r \in Session
    BY <2>0, <2>2, <2>3 DEF Session
  <2> HIDE DEF r
  <2>6. Hushed(r) BY <2>5 DEF Hushed
  <2>7. \A c \in Callers : Stat(th[c], s) => Stat(th[c], r)
    <3> TAKE c \in Callers
    <3> SUFFICES ASSUME Stat(th[c], s) PROVE Stat(th[c], r) OBVIOUS
    <3>1. th[c] \in Thread BY <1>0
    <3> QED BY <2>0, <2>4, <2>5, <3>1, PromptStat, ZenonT(60)
  <2> QED BY <1>0, <2>0, <2>1, <2>5, <2>6, <2>7, RemoteStatusOne
<1>3. ASSUME NEW s \in Session
      PROVE  /\ Shut(s).shared = s.shared /\ Hushed(Shut(s))
             /\ \A c \in Callers : Stat(th[c], s) => Stat(th[c], Shut(s))
  <2>1. Shut(s).shared = s.shared /\ Shut(s).closed BY DEF Shut, Session
  <2> QED BY <2>1, ShutStat DEF Hushed
<1>4. ASSUME NEW ch \in 1 .. opened, ChannelDies(ch) PROVE StatusTurn' /\ RcIsOwn'
  <2> DEFINE r == Shut(ses[ch])
  <2>1. ses' = [ses EXCEPT ![ch] = r] /\ UNCHANGED <<channel, opened, th, res>>
    BY <1>0, <1>4 DEF ChannelDies, adapter
  <2>2. /\ r.shared = ses[ch].shared /\ Hushed(r)
        /\ \A c \in Callers : Stat(th[c], ses[ch]) => Stat(th[c], r)
    BY <1>0, <1>3
  <2> HIDE DEF r
  <2> QED BY <1>0, <2>1, <2>2, RemoteStatusOne
<1>5. CASE TransportDies
  <2>1. \A ch \in 1 .. opened : ses'[ch] = Shut(ses[ch]) BY <1>0, <1>5 DEF TransportDies
  <2>2. \A ch \in 1 .. opened :
          /\ ses'[ch].shared = ses[ch].shared /\ Hushed(ses'[ch])
          /\ \A c \in Callers : Stat(th[c], ses[ch]) => Stat(th[c], ses'[ch])
    BY <1>0, <1>3, <2>1
  <2> QED BY <1>0, <1>5, <2>2, RemoteStatusFrame DEF TransportDies
<1> QED BY <1>1, <1>2, <1>4, <1>5 DEF Remote

\* The adapter as it is constructed, and every step.
LEMMA RcStep == (Init => RcInv) /\ (RcInv /\ [Next]_vars => RcInv')
<1>1. ASSUME Init PROVE RcInv
  <2>1. OwnInv BY <1>1, OwnInit
  <2>2. StatusTurn BY <1>1 DEF Init, StatusTurn
  <2>3. RcIsOwn BY <1>1 DEF Init, RcIsOwn, Answered, NoResult
  <2> QED BY <2>1, <2>2, <2>3 DEF RcInv
<1>2. ASSUME RcInv, [Next]_vars PROVE RcInv'
  <2>0. OwnInv /\ OwnInv' /\ StatusTurn /\ RcIsOwn BY <1>2, OwnStep DEF RcInv
  <2>1. ASSUME NEW c \in Callers, Call(c) PROVE StatusTurn' /\ RcIsOwn'
    BY <2>0, <2>1, CallStatus
  <2>2. ASSUME NEW c \in Callers, CallerStep(c) PROVE StatusTurn' /\ RcIsOwn'
    BY <2>0, <2>2, LoginStatus, OpenStatus, VerdictStatus, PlanStatus, DrainStatus,
       SendStatus, StartRecvStatus, RecvChunkStatus, SendTimeoutStatus, RecvEndStatus
    DEF CallerStep
  <2>3. ASSUME (\E ch \in 1 .. opened : Remote(ch) \/ ChannelDies(ch)) \/ TransportDies
        PROVE  StatusTurn' /\ RcIsOwn'
    BY <2>0, <2>3, RemoteStatus
  <2>4. ASSUME UNCHANGED vars PROVE StatusTurn' /\ RcIsOwn'
    <3>1. StatusTurn' BY <2>0, <2>4 DEF vars, StatusTurn
    <3> QED BY <2>0, <2>4, <3>1, SameRc DEF vars
  <2>5. StatusTurn' /\ RcIsOwn' BY <1>2, <2>1, <2>2, <2>3, <2>4 DEF Next
  <2> QED BY <2>0, <2>5 DEF RcInv
<1> QED BY <1>1, <1>2

\* The exit status a run returns is its own: the first digits in the answer to its own
\* `echo $?' are the status of its own last command, if every wait read its own prompt
\* on an undisturbed channel that no other caller used.  No answer of an earlier line
\* is taken for the status, and no line of the framework's own comes in between but the
\* two that the shnormal option asks for.
THEOREM StatusOwn == Spec => []RcIsOwn
<1>1. Init => RcInv BY RcStep
<1>2. RcInv /\ [Next]_vars => RcInv' BY RcStep
<1>3. RcInv => RcIsOwn BY DEF RcInv
<1> QED BY <1>1, <1>2, <1>3, PTL DEF Spec

-----------------------------------------------------------------------------
(* What an intact probe establishes: ProbeClears, for one caller.           *)

\* The adapter is used by one thread.
OneCaller == \A c, d \in Callers : c = d

\* The framework's own lines: what login() sends, and the probe's two.  A line is in
\* flight from send() until what it printed is behind a wait.
Framework == Purposes \ (RunPurposes \cup {"greet"})
Lines(t, s) == {tok.line : tok \in Flow(t, s)} \cup {s.inbox[i] : i \in 1 .. Len(s.inbox)}

\* A caller that has sent its line, and a login that has not come past PS1.
Sent(t) == t.pc \in {"sent", "recv"}
Greeting(t) == t.login /\ t.pc \in Exchanging /\ Head(t.todo).what \in {"greet", "ps1"}

\* A line of a command, or one whose own wait has missed its prompt; the greeting goes
\* with PS1.
Aside(l, s) == l.what \in RunPurposes \cup s.lost \/ (l.what = "greet" /\ "ps1" \in s.lost)

\* What is in flight is of that kind, or is the line sent last, or the greeting.
Known(t, s) == \A l \in Lines(t, s) :
    \/ Aside(l, s)
    \/ Sent(t) /\ l = LineOf(t)
    \/ l.what = "greet" /\ Greeting(t)
Rest(s) == \A l \in Lines(Idle, s) : Aside(l, s)

\* The line sent last is the last of all that is in flight, and its prompt the end of it.
Closing(t, s) ==
    LET own == LineOf(t) IN
      /\ \A i \in 1 .. Len(s.inbox) : s.inbox[i] = own => i = Len(s.inbox)
      /\ \A i \in 1 .. Len(s.wire) : s.wire[i].line = own =>
           /\ \A j \in i .. Len(s.wire) : s.wire[j].line = own
           /\ \A j \in 1 .. Len(s.inbox) : s.inbox[j] = own
           /\ Ends(s.wire[i], own) => i = Len(s.wire) /\ s.inbox = << >>
      /\ \A i \in 1 .. Len(t.got) : t.got[i].line = own =>
           /\ \A j \in i .. Len(t.got) : t.got[j].line = own
           /\ \A j \in 1 .. Len(s.wire) : s.wire[j].line = own
           /\ \A j \in 1 .. Len(s.inbox) : s.inbox[j] = own
           /\ Ends(t.got[i], own) => Still(s)

\* Nothing is in flight, unless a login failed half-way.
AtEase(s) == s.lost \cap {"ps1", "ls"} # {} \/ Still(s)

\* The probe begins where no earlier probe lost its answer; after an intact answer
\* nothing is in flight, and then nothing but the answer to the probe's `echo $?'.
Probing(t, s) ==
    /\ t.op = "probe" /\ t.clean /\ t.pc \in Exchanging /\ ~t.login =>
         s.lost \cap {"probe", "echo"} = {}
    /\ t.op = "echo" /\ t.clean /\ t.intact =>
         /\ t.pc # "verdict" => s.lost \cap {"probe", "echo"} = {}
         /\ t.pc \notin {"connect", "retry", "open"}
         /\ t.pc \in {"check", "plan", "verdict"} \/ (t.pc = "send" /\ ~t.login) => AtEase(s)
         /\ Sent(t) /\ ~t.login /\ s.lost \cap {"ps1", "ls"} = {} =>
              /\ \A l \in Lines(t, s) : l.what = "echo"
              /\ \A tok \in Flow(t, s) : tok.kind \in {"digits", "prompt", "rawprompt"}

\* The caller and an open channel.
Touch(t, s) == /\ Known(t, s)
               /\ Sent(t) /\ LineOf(t).what \in Framework \ s.lost => Closing(t, s)
               /\ Probing(t, s)

\* basic.run's two commands are one line each, and raise when they time out.
Single(t) == t.op \in {"probe", "echo"} =>
    /\ t.plan = ProbePlan
    /\ t.pc \in Exchanging /\ ~t.login =>
         /\ Len(t.todo) = 1 /\ t.todo[1].what = t.op /\ t.todo[1].raise
         /\ t.todo[1].k = 0

\* What an intact probe established lasts until the next operation.
Lasting(r, s) == r.kind = "done" /\ r.op = "echo" /\ r.clean => AtEase(s)

ProbeTurn == \A c \in Callers :
    /\ th[c].pc = "recv" => th[c].conn = channel
    /\ Single(th[c])
    /\ channel # 0 /\ ~ses[channel].closed =>
         /\ Touch(th[c], ses[channel])
         /\ ~Busy(c) => Lasting(res[c], ses[channel])

ProbeInv == OwnInv /\ ProbeTurn

-----------------------------------------------------------------------------
(* Lines in flight *)

\* What is in flight is on the channel when nothing was read.
LEMMA LinesOf ==
    ASSUME NEW t, NEW s, t.got = << >>
    PROVE  \A l : l \in Lines(t, s) <=>
              \/ \E i \in 1 .. Len(s.wire) : l = s.wire[i].line
              \/ \E i \in 1 .. Len(s.inbox) : l = s.inbox[i]
<1>1. Flow(t, s) = {s.wire[i] : i \in 1 .. Len(s.wire)}
  <2>1. Len(t.got) = 0 OBVIOUS
  <2> QED BY <2>1 DEF Flow
<1> QED BY <1>1 DEF Lines

\* What is in flight, some of it read.
LEMMA LinesGot ==
    ASSUME NEW t, NEW s
    PROVE  \A l : l \in Lines(t, s) <=>
              \/ \E i \in 1 .. Len(t.got) : l = t.got[i].line
              \/ \E i \in 1 .. Len(s.wire) : l = s.wire[i].line
              \/ \E i \in 1 .. Len(s.inbox) : l = s.inbox[i]
BY DEF Lines, Flow

\* An idle caller has read nothing.
LEMMA IdleGot == Idle.got = << >>
BY DEF Idle

\* Between exchanges all in flight is aside.
LEMMA KnownRest ==
    ASSUME NEW t, NEW s, Known(t, s), t.pc \notin Exchanging PROVE Rest(s)
<1>1. \A l \in Lines(Idle, s) : l \in Lines(t, s) BY LinesOf, LinesGot, IdleGot
<1>2. ~Sent(t) /\ ~Greeting(t) BY DEF Sent, Greeting, Exchanging
<1> QED BY <1>1, <1>2 DEF Known, Rest

\* And then it is so for every caller that has read nothing.
LEMMA RestKnown ==
    ASSUME NEW u, NEW s, Rest(s), u.got = << >> PROVE Known(u, s)
<1>1. \A l \in Lines(u, s) : l \in Lines(Idle, s) BY LinesOf, IdleGot
<1> QED BY <1>1 DEF Known, Rest

\* Nothing is in flight.
LEMMA StillLines ==
    ASSUME NEW t, NEW s, t.got = << >>, Still(s) PROVE \A l : l \notin Lines(t, s)
<1>1. Len(s.wire) = 0 /\ Len(s.inbox) = 0 BY DEF Still
<1> QED BY <1>1, LinesOf

\* A channel with the same stream is as much at rest.
LEMMA RestSame ==
    ASSUME NEW s, NEW r, Rest(s), r.wire = s.wire, r.inbox = s.inbox, r.lost = s.lost
    PROVE  Rest(r)
<1>1. \A l \in Lines(Idle, r) : l \in Lines(Idle, s) BY LinesOf, IdleGot
<1>2. \A l : Aside(l, s) => Aside(l, r) BY DEF Aside
<1> QED BY <1>1, <1>2 DEF Rest

\* Outside its exchanges a caller has to leave the channel at rest and, for a probe
\* with an intact answer, at ease.
LEMMA RestTouch ==
    ASSUME NEW u, NEW s, Rest(s), u.got = << >>, ~Sent(u),
           u.op = "probe" /\ u.clean /\ u.pc \in Exchanging /\ ~u.login =>
             s.lost \cap {"probe", "echo"} = {},
           u.op = "echo" /\ u.clean /\ u.intact =>
             /\ u.pc # "verdict" => s.lost \cap {"probe", "echo"} = {}
             /\ u.pc \notin {"connect", "retry", "open"}
             /\ u.pc \in {"check", "plan", "verdict"} \/ (u.pc = "send" /\ ~u.login) => AtEase(s)
    PROVE  Touch(u, s)
<1>1. Known(u, s) BY RestKnown
<1> QED BY <1>1 DEF Touch, Probing

\* The step of the one caller.
LEMMA ProbeFrame ==
    ASSUME OneCaller, OwnInv, NEW c \in Callers, NEW u, Moves(c, u),
           u.pc = "recv" => u.conn = channel', Single(u),
           channel' # 0 /\ ~ses'[channel'].closed =>
             /\ Touch(u, ses'[channel'])
             /\ u.pc = "idle" => Lasting(res'[c], ses'[channel'])
    PROVE  ProbeTurn'
<1>1. th'[c] = u BY DEF Moves, OwnInv, Typed, CallsOK
<1>2. \A d \in Callers : d = c BY DEF OneCaller
<1> QED BY <1>1, <1>2 DEF ProbeTurn, Busy

-----------------------------------------------------------------------------
(* The shell *)

\* The line the shell is at.
LEMMA AtLine ==
    ASSUME NEW s \in Session, s.inbox # << >>
    PROVE  /\ Len(s.inbox) \in Nat \ {0} /\ 1 \in 1 .. Len(s.inbox)
           /\ Head(s.inbox) = s.inbox[1] /\ Head(s.inbox) \in Line
           /\ Tail(s.inbox) \in Seq(Line) /\ Len(Tail(s.inbox)) = Len(s.inbox) - 1
           /\ \A i \in 1 .. Len(Tail(s.inbox)) :
                i + 1 \in 1 .. Len(s.inbox) /\ Tail(s.inbox)[i] = s.inbox[i + 1]
<1>1. s.inbox \in Seq(Line) BY DEF Session
<1> QED BY <1>1

\* What it prints.
LEMMA Printed ==
    ASSUME NEW s \in Session, NEW tok, NEW r, r.wire = Append(s.wire, tok)
    PROVE  /\ Len(s.wire) \in Nat /\ Len(r.wire) = Len(s.wire) + 1
           /\ r.wire[Len(s.wire) + 1] = tok
           /\ \A i \in 1 .. Len(s.wire) : i \in 1 .. Len(r.wire) /\ r.wire[i] = s.wire[i]
           /\ \A i \in 1 .. Len(r.wire) : i \in 1 .. Len(s.wire) \/ i = Len(s.wire) + 1
<1>1. s.wire \in Seq(Token) /\ Len(s.wire) \in Nat BY DEF Session
<1>2. /\ Len(r.wire) = Len(s.wire) + 1 /\ r.wire[Len(s.wire) + 1] = tok
      /\ \A i \in 1 .. Len(s.wire) : r.wire[i] = s.wire[i]
  BY <1>1
<1> QED BY <1>1, <1>2

\* A shell that prints for the line it is at, and may be done with it.
Prints(s, r, tok) ==
    /\ s.inbox # << >> /\ r.wire = Append(s.wire, tok) /\ tok.line = Head(s.inbox)
    /\ r.lost = s.lost
    /\ \/ r.inbox = s.inbox /\ tok.kind \notin {"prompt", "rawprompt"}
       \/ r.inbox = Tail(s.inbox) /\ tok.kind \in {"prompt", "rawprompt"}
    /\ tok.line.what = "echo" => tok.kind \in {"digits", "prompt", "rawprompt"}

\* It puts no other lines in flight.
LEMMA PrintLines ==
    ASSUME NEW t, NEW s \in Session, NEW r, NEW tok, Prints(s, r, tok)
    PROVE  \A l \in Lines(t, r) : l \in Lines(t, s)
<1>1. s.inbox # << >> /\ r.wire = Append(s.wire, tok) /\ tok.line = s.inbox[1]
  BY AtLine DEF Prints
<1>2. r.inbox = s.inbox \/ r.inbox = Tail(s.inbox) BY DEF Prints
<1>3. \A i \in 1 .. Len(r.inbox) : \E j \in 1 .. Len(s.inbox) : r.inbox[i] = s.inbox[j]
  <2> TAKE i \in 1 .. Len(r.inbox)
  <2>1. CASE r.inbox = s.inbox BY <2>1
  <2>2. CASE r.inbox = Tail(s.inbox)
    <3>1. i + 1 \in 1 .. Len(s.inbox) /\ r.inbox[i] = s.inbox[i + 1] BY <1>1, <2>2, AtLine
    <3> QED BY <3>1
  <2> QED BY <1>2, <2>1, <2>2
<1>4. \A i \in 1 .. Len(r.wire) :
        \/ \E j \in 1 .. Len(s.wire) : r.wire[i].line = s.wire[j].line
        \/ r.wire[i].line = s.inbox[1] /\ 1 \in 1 .. Len(s.inbox)
  BY <1>1, AtLine, Printed
<1> TAKE l \in Lines(t, r)
<1>5. CASE \E i \in 1 .. Len(t.got) : l = t.got[i].line BY <1>5, LinesGot
<1>6. CASE \E i \in 1 .. Len(r.wire) : l = r.wire[i].line
  <2>1. \/ \E j \in 1 .. Len(s.wire) : l = s.wire[j].line
        \/ \E j \in 1 .. Len(s.inbox) : l = s.inbox[j]
    BY <1>4, <1>6
  <2> QED BY <2>1, LinesGot
<1>7. CASE \E i \in 1 .. Len(r.inbox) : l = r.inbox[i]
  <2>1. \E j \in 1 .. Len(s.inbox) : l = s.inbox[j] BY <1>3, <1>7
  <2> QED BY <2>1, LinesGot
<1> QED BY <1>5, <1>6, <1>7, LinesGot

\* The line sent last stays the last.
LEMMA PrintClosing ==
    ASSUME NEW t, NEW s \in Session, NEW r, NEW tok, Prints(s, r, tok), Closing(t, s)
    PROVE  Closing(t, r)
<1> DEFINE own == LineOf(t)
           n == Len(s.wire)
           m == Len(s.inbox)
<1> HIDE DEF own
<1>1. /\ s.inbox # << >> /\ tok.line = s.inbox[1] /\ r.wire = Append(s.wire, tok)
      /\ m \in Nat \ {0} /\ 1 \in 1 .. m
  BY AtLine DEF Prints
<1>2. /\ n \in Nat /\ Len(r.wire) = n + 1 /\ r.wire[n + 1] = tok
      /\ \A i \in 1 .. n : r.wire[i] = s.wire[i]
      /\ \A i \in 1 .. Len(r.wire) : i \in 1 .. n \/ i = n + 1
  BY <1>1, Printed
<1>3. \/ r.inbox = s.inbox /\ ~Ends(tok, own)
      \/ /\ Len(r.inbox) = m - 1
         /\ \A i \in 1 .. Len(r.inbox) : i + 1 \in 1 .. m /\ r.inbox[i] = s.inbox[i + 1]
         /\ r.inbox = Tail(s.inbox)
  BY <1>1, AtLine DEF Prints, Ends
<1>4. \A i \in 1 .. m : s.inbox[i] = own => i = m BY DEF Closing, own
<1>5. \A i \in 1 .. n : s.wire[i].line = own =>
        /\ \A j \in i .. n : s.wire[j].line = own
        /\ \A j \in 1 .. m : s.inbox[j] = own
        /\ ~Ends(s.wire[i], own)
  BY <1>1 DEF Closing, own
<1>6. \A i \in 1 .. Len(t.got) : t.got[i].line = own =>
        /\ \A j \in i .. Len(t.got) : t.got[j].line = own
        /\ \A j \in 1 .. n : s.wire[j].line = own
        /\ \A j \in 1 .. m : s.inbox[j] = own
        /\ ~Ends(t.got[i], own)
  BY <1>1 DEF Closing, own, Still
<1>7. \A i \in 1 .. Len(r.inbox) : r.inbox[i] = own => i = Len(r.inbox)
  <2> TAKE i \in 1 .. Len(r.inbox)
  <2> SUFFICES ASSUME r.inbox[i] = own PROVE i = Len(r.inbox) OBVIOUS
  <2>1. CASE r.inbox = s.inbox BY <1>4, <2>1
  <2>2. CASE r.inbox # s.inbox
    <3>1. i + 1 \in 1 .. m /\ s.inbox[i + 1] = own BY <1>3, <2>2
    <3>2. i + 1 = m BY <1>4, <3>1
    <3> QED BY <1>1, <1>3, <2>2, <3>2
  <2> QED BY <2>1, <2>2
<1>8. (\A j \in 1 .. m : s.inbox[j] = own) =>
        tok.line = own /\ \A j \in 1 .. Len(r.inbox) : r.inbox[j] = own
  BY <1>1, <1>3
<1>9. tok.line = own => /\ m = 1
                        /\ \A j \in 1 .. Len(r.inbox) : r.inbox[j] = own
                        /\ Ends(tok, own) => r.inbox = << >>
  <2> SUFFICES ASSUME tok.line = own
               PROVE  /\ m = 1
                      /\ \A j \in 1 .. Len(r.inbox) : r.inbox[j] = own
                      /\ Ends(tok, own) => r.inbox = << >>
    OBVIOUS
  <2>1. m = 1 BY <1>1, <1>4
  <2>2. \A j \in 1 .. m : s.inbox[j] = own BY <1>1, <2>1
  <2>3. Ends(tok, own) => r.inbox = << >>
    <3>1. s.inbox \in Seq(Line) BY DEF Session
    <3>2. Tail(s.inbox) = << >> BY <1>1, <2>1, <3>1, LastTail
    <3> QED BY <1>3, <3>2
  <2> QED BY <1>8, <2>1, <2>2, <2>3
<1> HIDE DEF n, m
<1>10. \A i \in 1 .. Len(r.wire) : r.wire[i].line = own =>
         /\ \A j \in i .. Len(r.wire) : r.wire[j].line = own
         /\ \A j \in 1 .. Len(r.inbox) : r.inbox[j] = own
         /\ Ends(r.wire[i], own) => i = Len(r.wire) /\ r.inbox = << >>
  <2> TAKE i \in 1 .. Len(r.wire)
  <2> SUFFICES ASSUME r.wire[i].line = own
               PROVE  /\ \A j \in i .. Len(r.wire) : r.wire[j].line = own
                      /\ \A j \in 1 .. Len(r.inbox) : r.inbox[j] = own
                      /\ Ends(r.wire[i], own) => i = Len(r.wire) /\ r.inbox = << >>
    OBVIOUS
  <2>1. CASE i = n + 1
    <3>1. \A j \in i .. Len(r.wire) : j = n + 1 BY <1>2, <2>1
    <3> QED BY <1>2, <1>9, <2>1, <3>1
  <2>2. CASE i \in 1 .. n
    <3>1. s.wire[i].line = own BY <1>2, <2>2
    <3>2. /\ \A j \in i .. n : s.wire[j].line = own
          /\ \A j \in 1 .. m : s.inbox[j] = own
          /\ ~Ends(s.wire[i], own)
      BY <1>5, <2>2, <3>1
    <3>3. tok.line = own /\ \A j \in 1 .. Len(r.inbox) : r.inbox[j] = own BY <1>8, <3>2
    <3>4. \A j \in i .. Len(r.wire) : (j \in i .. n /\ j \in 1 .. n) \/ j = n + 1 BY <1>2, <2>2
    <3>5. \A j \in i .. Len(r.wire) : r.wire[j].line = own BY <1>2, <3>2, <3>3, <3>4
    <3> QED BY <1>2, <2>2, <3>2, <3>3, <3>5
  <2> QED BY <1>2, <2>1, <2>2
<1>11. \A i \in 1 .. Len(t.got) : t.got[i].line = own =>
         /\ \A j \in i .. Len(t.got) : t.got[j].line = own
         /\ \A j \in 1 .. Len(r.wire) : r.wire[j].line = own
         /\ \A j \in 1 .. Len(r.inbox) : r.inbox[j] = own
         /\ Ends(t.got[i], own) => Still(r)
  BY <1>2, <1>6, <1>8
<1> QED BY <1>7, <1>10, <1>11 DEF Closing, own

\* The other side goes on: the caller's view of the channel holds.
LEMMA PrintTouch ==
    ASSUME NEW t, NEW s \in Session, NEW r, NEW tok, Prints(s, r, tok)
    PROVE  /\ Touch(t, s) => Touch(t, r)
           /\ AtEase(s) => AtEase(r)
<1>1. \A l \in Lines(t, r) : l \in Lines(t, s) BY PrintLines
<1>2. r.lost = s.lost /\ s.inbox # << >> BY DEF Prints
<1>3. Known(t, s) => Known(t, r) BY <1>1, <1>2 DEF Known, Aside
<1>4. Closing(t, s) => Closing(t, r) BY PrintClosing
<1>5. AtEase(s) => s.lost \cap {"ps1", "ls"} # {} BY <1>2 DEF AtEase, Still
<1>6. AtEase(s) => AtEase(r) BY <1>2, <1>5 DEF AtEase
<1>7. ASSUME \A x \in Flow(t, s) : x.kind \in {"digits", "prompt", "rawprompt"},
             \A l \in Lines(t, s) : l.what = "echo"
      PROVE  \A x \in Flow(t, r) : x.kind \in {"digits", "prompt", "rawprompt"}
  <2>1. \A x : x \in Flow(t, r) <=> x \in Flow(t, s) \/ x = tok
    BY FlowGrows DEF Prints
  <2>2. tok.line \in Lines(t, r) BY <2>1 DEF Lines
  <2>3. tok.line.what = "echo" BY <1>1, <1>7, <2>2
  <2> QED BY <1>7, <2>1, <2>3 DEF Prints
<1>8. Probing(t, s) => Probing(t, r) BY <1>1, <1>2, <1>6, <1>7 DEF Probing
<1> QED BY <1>2, <1>3, <1>4, <1>6, <1>8 DEF Touch

-----------------------------------------------------------------------------
(* Sending and reading *)

\* The line that is sent becomes the last in flight.
LEMMA SentTouch ==
    ASSUME NEW t \in Thread, NEW s \in Session, NEW u, NEW r, NEW line,
           t.pc = "send", t.got = << >>, Touch(t, s), Single(t), t.todo # << >>,
           line = LineOf(t), LineOf(u) = line, u.pc = "sent", u.got = << >>,
           u.todo = t.todo, u.op = t.op, u.clean = t.clean, u.login = t.login,
           u.intact = t.intact,
           r.inbox = Append(s.inbox, line), r.wire = s.wire, r.lost = s.lost
    PROVE  Touch(u, r)
<1> DEFINE n == Len(s.inbox)
<1>1. s.inbox \in Seq(Line) /\ n \in Nat BY DEF Session
<1>2. /\ Len(r.inbox) = n + 1 /\ r.inbox[n + 1] = line
      /\ \A i \in 1 .. n : r.inbox[i] = s.inbox[i]
      /\ \A i \in 1 .. Len(r.inbox) : i \in 1 .. n \/ i = n + 1
  BY <1>1
<1> HIDE DEF n
<1>3. /\ t.todo \in Seq(Exchange) /\ line.what = Head(t.todo).what
      /\ Head(t.todo) = t.todo[1] /\ 1 \in 1 .. Len(t.todo)
  <2>1. t.todo \in Seq(Exchange) BY DEF Thread
  <2> QED BY <2>1 DEF LineOf
<1>4. \A l \in Lines(u, r) : l \in Lines(t, s) \/ l = line
  <2> TAKE l \in Lines(u, r)
  <2>1. CASE \E i \in 1 .. Len(s.wire) : l = s.wire[i].line BY <2>1, LinesOf
  <2>2. CASE \E i \in 1 .. Len(r.inbox) : l = r.inbox[i]
    <3>1. l = line \/ \E i \in 1 .. n : l = s.inbox[i] BY <1>2, <2>2
    <3> QED BY <3>1, LinesOf DEF n
  <2> QED BY <2>1, <2>2, LinesOf
<1>5. \A l \in Lines(t, s) : Aside(l, s) \/ (l.what = "greet" /\ Greeting(t))
  BY DEF Touch, Known, Sent
<1>6. Greeting(u) <=> Greeting(t) BY DEF Greeting, Exchanging
<1>7. Known(u, r) BY <1>4, <1>5, <1>6 DEF Known, Aside, Sent
<1>8. ASSUME line.what \in Framework \ s.lost PROVE Closing(u, r)
  <2>1. \A l \in Lines(t, s) : l # line BY <1>5, <1>8 DEF Framework, Aside
  <2>2. \A i \in 1 .. n : s.inbox[i] # line BY <2>1, LinesOf DEF n
  <2>3. \A i \in 1 .. Len(s.wire) : s.wire[i].line # line BY <2>1, LinesOf
  <2>4. \A i \in 1 .. Len(r.inbox) : r.inbox[i] = line => i = Len(r.inbox) BY <1>2, <2>2
  <2>5. Len(u.got) = 0 OBVIOUS
  <2> QED BY <2>3, <2>4, <2>5 DEF Closing
<1>9. Probing(u, r)
  <2>1. u.op = "probe" /\ u.clean /\ u.pc \in Exchanging /\ ~u.login =>
          r.lost \cap {"probe", "echo"} = {}
    BY DEF Touch, Probing, Exchanging
  <2>2. ASSUME u.op = "echo", u.clean, u.intact, ~u.login, r.lost \cap {"ps1", "ls"} = {}
        PROVE  /\ \A l \in Lines(u, r) : l.what = "echo"
               /\ \A tok \in Flow(u, r) : tok.kind \in {"digits", "prompt", "rawprompt"}
    <3>1. Still(s) BY <2>2 DEF Touch, Probing, AtEase
    <3>2. \A l : l \notin Lines(t, s) BY <3>1, StillLines
    <3>3. line.what = "echo" BY <1>3, <2>2 DEF Single, Exchanging
    <3>4. Len(u.got) = 0 /\ Len(r.wire) = 0 BY <3>1 DEF Still
    <3>5. \A tok : tok \notin Flow(u, r) BY <3>4 DEF Flow
    <3> QED BY <1>4, <3>2, <3>3, <3>5
  <2>3. u.op = "echo" /\ u.clean /\ u.intact => s.lost \cap {"probe", "echo"} = {}
    BY DEF Touch, Probing
  <2> QED BY <2>1, <2>2, <2>3 DEF Probing
<1> QED BY <1>7, <1>8, <1>9 DEF Touch

\* recv() begins.
LEMMA StartTouch ==
    ASSUME NEW t, NEW s, NEW u, t.pc = "sent", Touch(t, s), u.pc = "recv",
           u.todo = t.todo, u.run = t.run, u.got = t.got, u.op = t.op, u.clean = t.clean,
           u.login = t.login, u.intact = t.intact
    PROVE  Touch(u, s)
<1>1. \A l : l \in Lines(u, s) <=> l \in Lines(t, s) BY LinesGot
<1>2. \A tok : tok \in Flow(u, s) <=> tok \in Flow(t, s) BY DEF Flow
<1>3. LineOf(u) = LineOf(t) BY DEF LineOf
<1>4. (Greeting(u) <=> Greeting(t)) /\ Sent(u) /\ Sent(t) BY DEF Greeting, Exchanging, Sent
<1>5. Known(u, s) BY <1>1, <1>3, <1>4 DEF Touch, Known
<1>6. Closing(t, s) => Closing(u, s) BY <1>3 DEF Closing
<1>7. Probing(t, s) => Probing(u, s) BY <1>1, <1>2, <1>4 DEF Probing, Exchanging
<1> QED BY <1>3, <1>4, <1>5, <1>6, <1>7 DEF Touch

\* A piece of output is read.
LEMMA ChunkTouch ==
    ASSUME NEW t \in Thread, NEW s \in Session, NEW u, NEW r,
           t.pc = "recv", Touch(t, s), s.wire # << >>, u.pc = "recv",
           u.got = Append(t.got, Head(s.wire)), r.wire = Tail(s.wire),
           u.todo = t.todo, u.run = t.run, u.op = t.op, u.clean = t.clean,
           u.login = t.login, u.intact = t.intact, r.inbox = s.inbox, r.lost = s.lost
    PROVE  Touch(u, r)
<1> DEFINE m == Len(t.got)
           n == Len(s.wire)
           own == LineOf(t)
<1>1. /\ t.got \in Seq(Token) /\ s.wire \in Seq(Token) /\ m \in Nat /\ n \in Nat /\ n # 0
  BY DEF Thread, Session
<1>2. /\ Len(u.got) = m + 1 /\ u.got[m + 1] = s.wire[1]
      /\ \A i \in 1 .. m : u.got[i] = t.got[i]
      /\ \A i \in 1 .. Len(u.got) : i \in 1 .. m \/ i = m + 1
  <2>1. Head(s.wire) \in Token /\ Head(s.wire) = s.wire[1] BY <1>1
  <2> QED BY <1>1, <2>1
<1>3. Len(r.wire) = n - 1 /\ \A i \in 1 .. n - 1 : r.wire[i] = s.wire[i + 1]
  BY <1>1, TailFacts
<1>4. \A tok : tok \in Flow(u, r) <=> tok \in Flow(t, s) BY ChunkFlow
<1>5. \A l : l \in Lines(u, r) <=> l \in Lines(t, s) BY <1>4 DEF Lines
<1>6. LineOf(u) = own BY DEF LineOf
<1> HIDE DEF m, n, own
<1>7. (Greeting(u) <=> Greeting(t)) /\ Sent(u) /\ Sent(t) BY DEF Greeting, Exchanging, Sent
<1>8. Known(u, r) BY <1>5, <1>6, <1>7 DEF Touch, Known, Aside, own
<1>9. Probing(u, r) BY <1>4, <1>5, <1>7 DEF Touch, Probing, AtEase, Sent
<1>10. ASSUME Closing(t, s) PROVE Closing(u, r)
  <2>1. \A i \in 1 .. Len(s.inbox) : s.inbox[i] = own => i = Len(s.inbox)
    BY <1>10 DEF Closing, own
  <2>2. \A i \in 1 .. n : s.wire[i].line = own =>
          /\ \A j \in i .. n : s.wire[j].line = own
          /\ \A j \in 1 .. Len(s.inbox) : s.inbox[j] = own
          /\ Ends(s.wire[i], own) => i = n /\ s.inbox = << >>
    BY <1>10 DEF Closing, own, n
  <2>3. \A i \in 1 .. m : t.got[i].line = own =>
          /\ \A j \in i .. m : t.got[j].line = own
          /\ \A j \in 1 .. n : s.wire[j].line = own
          /\ \A j \in 1 .. Len(s.inbox) : s.inbox[j] = own
          /\ ~Ends(t.got[i], own)
    BY <1>10 DEF Closing, own, n, m, Still
  <2>4. \A i \in 1 .. n - 1 : i + 1 \in 1 .. n /\ 1 \in 1 .. n BY <1>1
  <2>5. \A i \in 1 .. Len(r.wire) : r.wire[i].line = own =>
          /\ \A j \in i .. Len(r.wire) : r.wire[j].line = own
          /\ \A j \in 1 .. Len(r.inbox) : r.inbox[j] = own
          /\ Ends(r.wire[i], own) => i = Len(r.wire) /\ r.inbox = << >>
    <3> TAKE i \in 1 .. Len(r.wire)
    <3> SUFFICES ASSUME r.wire[i].line = own
                 PROVE  /\ \A j \in i .. Len(r.wire) : r.wire[j].line = own
                        /\ \A j \in 1 .. Len(r.inbox) : r.inbox[j] = own
                        /\ Ends(r.wire[i], own) => i = Len(r.wire) /\ r.inbox = << >>
      OBVIOUS
    <3>1. i + 1 \in 1 .. n /\ s.wire[i + 1].line = own /\ r.wire[i] = s.wire[i + 1]
      BY <1>3, <2>4
    <3>2. /\ \A j \in i + 1 .. n : s.wire[j].line = own
          /\ \A j \in 1 .. Len(s.inbox) : s.inbox[j] = own
          /\ Ends(s.wire[i + 1], own) => i + 1 = n /\ s.inbox = << >>
      BY <2>2, <3>1
    <3>3. \A j \in i .. Len(r.wire) : j + 1 \in i + 1 .. n /\ r.wire[j] = s.wire[j + 1]
      BY <1>1, <1>3
    <3>4. \A j \in i .. Len(r.wire) : r.wire[j].line = own BY <3>2, <3>3
    <3>5. i + 1 = n => i = Len(r.wire) BY <1>1, <1>3
    <3>6. Ends(r.wire[i], own) => i = Len(r.wire) /\ r.inbox = << >> BY <3>1, <3>2, <3>5
    <3> QED BY <3>2, <3>4, <3>6
  <2>6. s.wire[1].line = own =>
          /\ \A j \in 1 .. n : s.wire[j].line = own
          /\ \A j \in 1 .. Len(s.inbox) : s.inbox[j] = own
          /\ Ends(s.wire[1], own) => n = 1 /\ s.inbox = << >>
    BY <1>1, <2>2
  <2>7. n = 1 /\ s.inbox = << >> => Still(r)
    <3> SUFFICES ASSUME n = 1, s.inbox = << >> PROVE Still(r) OBVIOUS
    <3>1. Tail(s.wire) = << >> BY <1>1, LastTail DEF n
    <3> QED BY <3>1 DEF Still
  <2>8. (\A j \in 1 .. n : s.wire[j].line = own) =>
          \A j \in 1 .. Len(r.wire) : r.wire[j].line = own
    <3> SUFFICES ASSUME \A j \in 1 .. n : s.wire[j].line = own, NEW j \in 1 .. Len(r.wire)
                 PROVE  r.wire[j].line = own
      OBVIOUS
    <3>1. j + 1 \in 1 .. n /\ r.wire[j] = s.wire[j + 1] BY <1>3, <2>4
    <3> QED BY <3>1
  <2>9. \A i \in 1 .. Len(u.got) : u.got[i].line = own =>
          /\ \A j \in i .. Len(u.got) : u.got[j].line = own
          /\ \A j \in 1 .. Len(r.wire) : r.wire[j].line = own
          /\ \A j \in 1 .. Len(r.inbox) : r.inbox[j] = own
          /\ Ends(u.got[i], own) => Still(r)
    <3> TAKE i \in 1 .. Len(u.got)
    <3> SUFFICES ASSUME u.got[i].line = own
                 PROVE  /\ \A j \in i .. Len(u.got) : u.got[j].line = own
                        /\ \A j \in 1 .. Len(r.wire) : r.wire[j].line = own
                        /\ \A j \in 1 .. Len(r.inbox) : r.inbox[j] = own
                        /\ Ends(u.got[i], own) => Still(r)
      OBVIOUS
    <3>1. CASE i = m + 1
      <4>1. s.wire[1].line = own /\ u.got[i] = s.wire[1] BY <1>2, <3>1
      <4>2. \A j \in i .. Len(u.got) : j = m + 1 BY <1>1, <1>2, <3>1
      <4>3. \A j \in i .. Len(u.got) : u.got[j].line = own BY <1>2, <4>1, <4>2
      <4> QED BY <2>6, <2>7, <2>8, <4>1, <4>3
    <3>2. CASE i \in 1 .. m
      <4>1. t.got[i].line = own /\ u.got[i] = t.got[i] BY <1>2, <3>2
      <4>2. /\ \A j \in i .. m : t.got[j].line = own
            /\ \A j \in 1 .. n : s.wire[j].line = own
            /\ \A j \in 1 .. Len(s.inbox) : s.inbox[j] = own
            /\ ~Ends(t.got[i], own)
        BY <2>3, <3>2, <4>1
      <4>3. \A j \in i .. Len(u.got) : (j \in i .. m /\ j \in 1 .. m) \/ j = m + 1
        BY <1>1, <1>2, <3>2
      <4>4. s.wire[1].line = own BY <1>1, <4>2
      <4>5. \A j \in i .. Len(u.got) : u.got[j].line = own BY <1>2, <4>2, <4>3, <4>4
      <4> QED BY <2>8, <4>1, <4>2, <4>5
    <3> QED BY <1>2, <3>1, <3>2
  <2> QED BY <1>6, <2>1, <2>5, <2>9 DEF Closing
<1> QED BY <1>6, <1>7, <1>8, <1>9, <1>10 DEF Touch, own

\* The receive buffer is emptied.
LEMMA DrainTouch ==
    ASSUME NEW t, NEW s, NEW r, t.pc = "send", t.got = << >>, Touch(t, s),
           r.wire = << >>, r.inbox = s.inbox,
           r.lost = IF s.inbox = << >> THEN {} ELSE s.lost
    PROVE  Touch(t, r)
<1>1. ~Sent(t) BY DEF Sent
<1>2. CASE s.inbox = << >>
  <2>1. Still(r) /\ r.lost = {} BY <1>2 DEF Still
  <2>2. \A l : l \notin Lines(t, r) BY <2>1, StillLines
  <2> QED BY <1>1, <2>1, <2>2 DEF Touch, Known, Probing, AtEase
<1>3. CASE s.inbox # << >>
  <2>1. Len(r.wire) = 0 /\ r.lost = s.lost BY <1>3
  <2>2. \A l \in Lines(t, r) : l \in Lines(t, s) BY <2>1, LinesOf
  <2>3. AtEase(s) => AtEase(r) BY <1>3, <2>1 DEF AtEase, Still
  <2> QED BY <1>1, <2>1, <2>2, <2>3 DEF Touch, Known, Aside, Probing
<1> QED BY <1>2, <1>3

-----------------------------------------------------------------------------
(* The end of a wait *)

\* The channel after it: the same stream, and the line's purpose lost unless its
\* prompt was read.
WaitOver(t, s, r) == /\ t.pc = "recv" /\ t.todo # << >> /\ Touch(t, s)
                     /\ r.wire = s.wire /\ r.inbox = s.inbox
                     /\ r.lost = s.lost \cup Overlooked(t)

\* When the prompt of one of the framework's lines is read, all is read.
LEMMA OwnStill ==
    ASSUME NEW t \in Thread, NEW s, NEW r, WaitOver(t, s, r), OwnPrompt(t),
           LineOf(t).what \in Framework \ s.lost
    PROVE  Still(r) /\ r.lost = s.lost
<1>1. t.got \in Seq(Token) BY DEF Thread
<1>2. PICK i \in 1 .. Len(t.got) : Ends(t.got[i], LineOf(t))
  BY <1>1 DEF OwnPrompt, Ends
<1>3. Closing(t, s) BY DEF WaitOver, Touch, Sent
<1>4. Still(s) BY <1>2, <1>3 DEF Closing, Ends
<1> QED BY <1>4 DEF WaitOver, Still, Overlooked

\* The line waited for.
LEMMA OverLine ==
    ASSUME NEW t \in Thread, NEW s, NEW r, WaitOver(t, s, r)
    PROVE  /\ LineOf(t).what = Head(t.todo).what /\ Head(t.todo).what \in Purposes
           /\ Head(t.todo).what # "greet" =>
                \/ Head(t.todo).what \in RunPurposes \cup r.lost
                \/ Still(r) /\ r.lost = s.lost
<1>1. t.todo \in Seq(Exchange) /\ t.todo # << >> BY DEF Thread, WaitOver
<1>2. LineOf(t).what = Head(t.todo).what /\ Head(t.todo).what \in Purposes
  <2>1. Head(t.todo) \in Exchange BY <1>1
  <2> QED BY <2>1 DEF LineOf, Exchange
<1>3. ASSUME Head(t.todo).what # "greet", Head(t.todo).what \notin RunPurposes \cup r.lost
      PROVE  Still(r) /\ r.lost = s.lost
  <2>1. OwnPrompt(t) BY <1>3 DEF WaitOver, Overlooked
  <2>2. LineOf(t).what \in Framework \ s.lost BY <1>2, <1>3 DEF WaitOver, Framework
  <2> QED BY <2>1, <2>2, OwnStill
<1> QED BY <1>2, <1>3

\* What it leaves in flight.
LEMMA OverRest ==
    ASSUME NEW t \in Thread, NEW s, NEW r, WaitOver(t, s, r)
    PROVE  /\ Head(t.todo).what # "greet" => Rest(r)
           /\ Head(t.todo).what = "greet" =>
                /\ \A l \in Lines(Idle, r) : Aside(l, r) \/ l.what = "greet"
                /\ r.lost = s.lost
<1>1. \A l \in Lines(Idle, r) : l \in Lines(t, s) BY LinesOf, LinesGot, IdleGot DEF WaitOver
<1>2. \A l : Aside(l, s) => Aside(l, r) BY DEF WaitOver, Aside
<1>3. \A l \in Lines(t, s) :
        Aside(l, s) \/ l = LineOf(t) \/ (l.what = "greet" /\ Greeting(t))
  BY DEF WaitOver, Touch, Known
<1>4. CASE Head(t.todo).what = "greet"
  <2>1. r.lost = s.lost BY <1>4 DEF WaitOver, Overlooked
  <2> QED BY <1>1, <1>2, <1>3, <1>4, <2>1, OverLine
<1>5. CASE Head(t.todo).what # "greet"
  <2>1. CASE Still(r)
    <3>1. \A l : l \notin Lines(Idle, r) BY <2>1, StillLines, IdleGot
    <3> QED BY <1>5, <3>1 DEF Rest
  <2>2. CASE Head(t.todo).what \in RunPurposes \cup r.lost
    <3>1. Greeting(t) => "ps1" \in r.lost BY <1>5, <2>2 DEF Greeting, RunPurposes
    <3>2. Aside(LineOf(t), r) BY <2>2, OverLine DEF Aside
    <3>3. \A l : l.what = "greet" /\ Greeting(t) => Aside(l, r) BY <3>1 DEF Aside
    <3> QED BY <1>1, <1>2, <1>3, <1>5, <3>2, <3>3 DEF Rest
  <2> QED BY <1>5, <2>1, <2>2, OverLine
<1> QED BY <1>4, <1>5

\* login() leaves nothing in flight, or has lost a prompt.
LEMMA OverLogin ==
    ASSUME NEW t \in Thread, NEW s, NEW r, WaitOver(t, s, r),
           Head(t.todo).what \in {"ps1", "ls"}
    PROVE  AtEase(r) /\ r.lost \cap {"probe", "echo"} = s.lost \cap {"probe", "echo"}
<1>1. AtEase(r)
  <2>1. Head(t.todo).what \notin RunPurposes /\ Head(t.todo).what # "greet"
    BY DEF RunPurposes
  <2> QED BY <2>1, OverLine DEF AtEase
<1>2. r.lost = s.lost \/ r.lost = s.lost \cup {Head(t.todo).what} BY DEF WaitOver, Overlooked
<1> QED BY <1>1, <1>2

\* A piece of output that was read is of a line in flight.
LEMMA GotLine ==
    ASSUME NEW t \in Thread, NEW s, NEW i \in 1 .. Len(t.got)
    PROVE  t.got[i] \in Flow(t, s) /\ t.got[i].line \in Lines(t, s)
BY LinesGot DEF Flow

\* An intact answer to the probe is the end of all in flight.
LEMMA OverProbe ==
    ASSUME NEW t \in Thread, NEW s, NEW r, WaitOver(t, s, r), Head(t.todo).what = "probe",
           s.lost \cap {"probe", "echo"} = {}, EchoIntact(t.got)
    PROVE  AtEase(r) /\ r.lost = s.lost
<1> DEFINE n == Len(t.got)
<1>1. /\ t.got \in Seq(Token) /\ n \in Nat /\ n >= 2
      /\ t.got[n - 1].line.what = "probe" /\ t.got[n].kind = "prompt"
  <2>1. t.got \in Seq(Token) /\ n \in Nat /\ n >= 2 BY DEF Thread, EchoIntact
  <2>2. n \in DOMAIN t.got /\ n # n - 1 BY <2>1
  <2> QED BY <2>1, <2>2 DEF EchoIntact
<1>2. n - 1 \in 1 .. n /\ n \in 1 .. n /\ n \in (n - 1) .. n BY <1>1
<1> HIDE DEF n
<1>3. t.got[n - 1].line \in Lines(t, s) BY <1>2, GotLine DEF n
<1>4. t.got[n - 1].line = LineOf(t)
  <2>1. ~Aside(t.got[n - 1].line, s) BY <1>1 DEF Aside, RunPurposes
  <2> QED BY <1>1, <1>3, <2>1 DEF WaitOver, Touch, Known
<1>5. LineOf(t).what \in Framework \ s.lost
  BY <1>1, <1>4 DEF Framework, Purposes, RunPurposes
<1>6. Closing(t, s) BY <1>5 DEF WaitOver, Touch, Sent
<1>7. t.got[n].line = LineOf(t) BY <1>1, <1>2, <1>4, <1>6 DEF Closing, n
<1>8. OwnPrompt(t)
  <2>1. n \in DOMAIN t.got BY <1>1, <1>2 DEF n
  <2> QED BY <1>1, <1>7, <2>1 DEF OwnPrompt
<1> QED BY <1>5, <1>8, OwnStill DEF AtEase

\* The answer to the `echo $?' after it is the last as well.
LEMMA OverEcho ==
    ASSUME NEW t \in Thread, NEW s, NEW r, WaitOver(t, s, r), Head(t.todo).what = "echo",
           Sees(t), t.op = "echo", t.clean, t.intact, ~t.login
    PROVE  AtEase(r)
<1>1. s.lost \cap {"probe", "echo"} = {} BY DEF WaitOver, Touch, Probing
<1>2. SUFFICES ASSUME r.lost \cap {"ps1", "ls"} = {} PROVE Still(r) BY DEF AtEase
<1>3. /\ \A l \in Lines(t, s) : l.what = "echo"
      /\ \A tok \in Flow(t, s) : tok.kind \in {"digits", "prompt", "rawprompt"}
  BY <1>2 DEF WaitOver, Touch, Probing, Sent
<1>4. t.got \in Seq(Token) BY DEF Thread
<1>5. PICK i \in 1 .. Len(t.got) : Accepts(Head(t.todo), t.got[i]) BY <1>4 DEF Sees
<1>6. t.got[i] \in Flow(t, s) /\ t.got[i].line \in Lines(t, s) BY GotLine
<1>7. t.got[i].kind \in {"prompt", "rawprompt"} BY <1>3, <1>5, <1>6 DEF Accepts
<1>8. t.got[i].line = LineOf(t)
  <2>1. t.got[i].line.what = "echo" BY <1>3, <1>6
  <2>2. ~Aside(t.got[i].line, s) BY <1>1, <2>1 DEF Aside, RunPurposes
  <2> QED BY <1>6, <2>1, <2>2 DEF WaitOver, Touch, Known
<1>9. OwnPrompt(t)
  <2>1. i \in DOMAIN t.got BY <1>4
  <2> QED BY <1>7, <1>8, <2>1 DEF OwnPrompt
<1>10. LineOf(t).what \in Framework \ s.lost
  BY <1>1, OverLine DEF Framework, Purposes, RunPurposes
<1> QED BY <1>9, <1>10, OwnStill

-----------------------------------------------------------------------------
(* On to the next line, or out of the call *)

\* Where a caller is after an exchange: at the next, out of login(), in the probe's
\* `echo $?', before the verdict, or idle.
Goes(t, u) ==
    \/ t.todo = << >> /\ u = Idle
    \/ /\ u.op = t.op /\ u.clean = t.clean /\ u.plan = t.plan /\ u.intact = t.intact
       /\ u.got = << >>
       /\ \/ t.todo # << >> /\ u.pc = "send" /\ u.todo = t.todo /\ u.login = t.login
          \/ t.todo = << >> /\ t.login /\ u.pc = "plan"
          \/ t.todo = << >> /\ ~t.login /\ t.op = "echo" /\ u.pc = "verdict"
    \/ /\ t.todo = << >> /\ ~t.login /\ t.op = "probe" /\ u.op = "echo" /\ u.pc = "check"
       /\ u.clean = t.clean /\ u.plan = t.plan /\ u.intact = t.intact /\ u.got = << >>

\* The operation ends.
LEMMA FinishProbe ==
    ASSUME Typed, NEW c \in Callers, NEW t, NEW kind, Finish(c, t, kind)
    PROVE  Moves(c, Idle) /\ res'[c].kind = kind /\ res'[c].op = t.op
<1>1. res \in [Callers -> Result] BY DEF Typed, CallsOK
<1> QED BY <1>1 DEF Finish, Moves

\* exec_command() has returned.
LEMMA ContinueProbe ==
    ASSUME Typed, NEW c \in Callers, NEW t \in Thread, t.got = << >>, Continue(c, t)
    PROVE  \E u : Moves(c, u) /\ Goes(t, u) /\ (u.pc = "idle" => res'[c].op # "echo")
<1>1. CASE t.todo # << >>
  <2> DEFINE u == [t EXCEPT !.pc = "send"]
  <2>1. Moves(c, u) BY <1>1 DEF Continue, Moves
  <2>2. /\ u.pc = "send" /\ u.todo = t.todo /\ u.login = t.login /\ u.got = << >>
        /\ u.op = t.op /\ u.clean = t.clean /\ u.plan = t.plan /\ u.intact = t.intact
    BY DEF Thread
  <2> HIDE DEF u
  <2> QED BY <1>1, <2>1, <2>2 DEF Goes
<1>2. CASE t.todo = << >> /\ t.login
  <2>1. CASE t.op \in {"reconnect", "sftp"}
    <3>1. Finish(c, t, "done") BY <1>2, <2>1 DEF Continue
    <3> QED BY <1>2, <2>1, <3>1, FinishProbe DEF Goes
  <2>2. CASE t.op \notin {"reconnect", "sftp"}
    <3> DEFINE u == [t EXCEPT !.pc = "plan", !.login = FALSE]
    <3>1. Moves(c, u) BY <1>2, <2>2 DEF Continue, Moves
    <3>2. /\ u.pc = "plan" /\ u.got = << >> /\ u.op = t.op /\ u.clean = t.clean
          /\ u.plan = t.plan /\ u.intact = t.intact
      BY DEF Thread
    <3> HIDE DEF u
    <3> QED BY <1>2, <3>1, <3>2 DEF Goes
  <2> QED BY <2>1, <2>2
<1>3. CASE t.todo = << >> /\ ~t.login
  <2>0. Returned(c, t, "done") BY <1>3 DEF Continue
  <2>1. CASE t.op = "probe"
    <3> DEFINE u == [t EXCEPT !.pc = "check", !.op = "echo", !.login = FALSE,
                              !.intact = @ /\ "done" = "done"]
    <3>1. Moves(c, u) BY <2>0, <2>1 DEF Returned, Moves
    <3>2. /\ u.pc = "check" /\ u.got = << >> /\ u.op = "echo" /\ u.clean = t.clean
          /\ u.plan = t.plan /\ u.intact = t.intact
      BY DEF Thread
    <3> HIDE DEF u
    <3> QED BY <1>3, <2>1, <3>1, <3>2 DEF Goes
  <2>2. CASE t.op = "echo"
    <3> DEFINE u == [t EXCEPT !.pc = "verdict", !.login = FALSE]
    <3>1. Moves(c, u) BY <2>0, <2>2 DEF Returned, Moves
    <3>2. /\ u.pc = "verdict" /\ u.got = << >> /\ u.op = t.op /\ u.clean = t.clean
          /\ u.plan = t.plan /\ u.intact = t.intact
      BY DEF Thread
    <3> HIDE DEF u
    <3> QED BY <1>3, <2>2, <3>1, <3>2 DEF Goes
  <2>3. CASE t.op \notin {"probe", "echo"}
    <3>1. Finish(c, t, "done") BY <2>0, <2>3 DEF Returned
    <3> QED BY <1>3, <2>3, <3>1, FinishProbe DEF Goes
  <2> QED BY <2>1, <2>2, <2>3
<1> QED BY <1>1, <1>2, <1>3

\* An exception ends the operation, or is the answer of the probe or of its `echo $?'.
LEMMA RaisedProbe ==
    ASSUME Typed, NEW c \in Callers, Raised(c)
    PROVE  \E u : /\ Moves(c, u)
                  /\ \/ u = Idle /\ res'[c].kind # "done"
                     \/ /\ u.op = "echo" /\ u.plan = th[c].plan /\ u.got = << >>
                        /\ \/ th[c].op = "probe" /\ u.pc = "check" /\ ~u.intact
                           \/ /\ th[c].op = "echo" /\ th[c].login /\ u.pc = "verdict"
                              /\ u.clean = th[c].clean /\ u.intact = th[c].intact
<1>0. th[c] \in Thread BY DEF Typed, CallsOK
<1>1. CASE th[c].login /\ th[c].op # "reconnect"
  <2> DEFINE xs == << >>
             ts == << >>
             v == [th[c] EXCEPT !.todo = xs, !.got = ts, !.conn = 0]
  <2>0. Returned(c, v, "failed") BY <1>1 DEF Raised
  <2>1. xs \in Seq(Exchange) /\ ts \in Seq(Token) BY EmptySeqType
  <2>2. ts = << >> OBVIOUS
  <2> HIDE DEF xs, ts
  <2>3. /\ v \in Thread /\ v.got = << >> /\ v.op = th[c].op /\ v.plan = th[c].plan
        /\ v.clean = th[c].clean /\ v.intact = th[c].intact
    BY <1>0, <2>1, <2>2 DEF Thread
  <2> HIDE DEF v
  <2>4. CASE v.op = "probe"
    <3> DEFINE u == [v EXCEPT !.pc = "check", !.op = "echo", !.login = FALSE,
                              !.intact = @ /\ "failed" = "done"]
    <3>1. Moves(c, u) BY <2>0, <2>4 DEF Returned, Moves
    <3>2. u.pc = "check" /\ u.got = << >> /\ u.op = "echo" /\ u.plan = v.plan /\ ~u.intact
      BY <2>3 DEF Thread
    <3> HIDE DEF u
    <3> QED BY <2>3, <2>4, <3>1, <3>2
  <2>5. CASE v.op = "echo"
    <3> DEFINE u == [v EXCEPT !.pc = "verdict", !.login = FALSE]
    <3>1. Moves(c, u) BY <2>0, <2>5 DEF Returned, Moves
    <3>2. /\ u.pc = "verdict" /\ u.got = << >> /\ u.op = v.op /\ u.clean = v.clean
          /\ u.plan = v.plan /\ u.intact = v.intact
      BY <2>3 DEF Thread
    <3> HIDE DEF u
    <3> QED BY <1>1, <2>3, <2>5, <3>1, <3>2
  <2>6. CASE v.op \notin {"probe", "echo"}
    <3>1. Finish(c, v, "failed") BY <2>0, <2>6 DEF Returned
    <3> QED BY <3>1, FinishProbe
  <2> QED BY <2>4, <2>5, <2>6
<1>2. CASE ~(th[c].login /\ th[c].op # "reconnect")
  <2>1. Finish(c, th[c], "raised") BY <1>2 DEF Raised
  <2> QED BY <2>1, FinishProbe
<1> QED BY <1>1, <1>2

\* A probe is one line.
LEMMA ProbePlanned ==
    ASSUME NEW op \in {"probe", "echo"}, NEW nrm \in BOOLEAN
    PROVE  LET todo == RunExchanges(op, ProbePlan, nrm) IN
             Len(todo) = 1 /\ todo[1].what = op /\ todo[1].raise /\ todo[1].k = 0
<1> DEFINE p == ProbePlan
           base == IF nrm THEN "strict" ELSE "loose"
           pat  == IF p.custom THEN "loose" ELSE base
           a == IF p.cd THEN << X("cd", 0, pat, FALSE) >> ELSE << >>
           b == [i \in 1 .. p.inputs + 1 |-> X(op, i - 1, pat, p.raise)]
           d == IF p.shnormal
                THEN << X("sh1", 0, "strict", TRUE), X("sh2", 0, "strict", TRUE) >>
                ELSE << >>
           e == IF p.code THEN << X("status", 0, base, TRUE) >> ELSE << >>
<1>0. p.inputs = 0 /\ p.raise = TRUE /\ ~p.cd /\ ~p.shnormal /\ ~p.code BY DEF ProbePlan
<1>1. RunExchanges(op, p, nrm) = a \o b \o d \o e BY DEF RunExchanges
<1>2. a = << >> /\ d = << >> /\ e = << >> BY <1>0
<1> DEFINE x == X(op, 0, pat, TRUE)
<1>3. x \in Exchange /\ x.what = op /\ x.raise = TRUE /\ x.k = 0
  <2>1. x \in Exchange BY XType DEF Purposes
  <2> QED BY <2>1 DEF X
<1>5. p.inputs + 1 = 1 BY <1>0
<1>4. \A i \in 1 .. p.inputs + 1 : i = 1 /\ X(op, i - 1, pat, p.raise) = x
  <2> HIDE DEF p
  <2> TAKE i \in 1 .. p.inputs + 1
  <2>1. i = 1 BY <1>5
  <2>2. i - 1 = 0 BY <2>1
  <2> QED BY <1>0, <2>1, <2>2
<1> HIDE DEF x
<1>6. b = [i \in 1 .. 1 |-> x] BY <1>4, <1>5
<1> HIDE DEF a, b, d, e, p
<1>7. b = << x >> BY <1>3, <1>6
<1>8. << >> \o << x >> \o << >> \o << >> = << x >> BY <1>3
<1>9. RunExchanges(op, p, nrm) = << x >> BY <1>1, <1>2, <1>7, <1>8
<1> QED BY <1>3, <1>9 DEF p

\* A probe sends no second line.
LEMMA GoesSingle ==
    ASSUME NEW t, Single(t), NEW w, NEW u, Goes(w, u),
           w.op = t.op, w.plan = t.plan, w.login = t.login,
           ~t.login /\ t.op \in {"probe", "echo"} => w.todo = << >>
    PROVE  Single(u) /\ u.pc # "recv"
<1>1. CASE u = Idle
  <2>1. u.op = "none" /\ u.pc = "idle" BY <1>1 DEF Idle
  <2> QED BY <2>1 DEF Single
<1>2. CASE u # Idle
  <2>1. u.pc \in {"send", "plan", "verdict", "check"} BY <1>2 DEF Goes
  <2>2. u.pc \in Exchanging /\ ~u.login => u.op \notin {"probe", "echo"}
    BY <1>2 DEF Goes, Exchanging
  <2> QED BY <1>2, <2>1, <2>2 DEF Goes, Single
<1> QED BY <1>1, <1>2

\* After an exchange the caller leaves the channel at rest, and a probe with an
\* intact answer at ease.
LEMMA GoesTouch ==
    ASSUME NEW t, Single(t), NEW w, NEW u, Goes(w, u), NEW r, Rest(r),
           w.op = t.op, w.plan = t.plan, w.login = t.login, w.clean = t.clean,
           ~t.login /\ t.op \in {"probe", "echo"} => w.todo = << >>,
           t.op = "probe" /\ ~t.login /\ t.clean /\ w.intact =>
             r.lost \cap {"probe", "echo"} = {} /\ AtEase(r),
           t.op = "echo" /\ t.clean /\ w.intact =>
             /\ t.login => r.lost \cap {"probe", "echo"} = {}
             /\ ~t.login \/ w.todo = << >> => AtEase(r)
    PROVE  Touch(u, r) /\ Single(u) /\ u.pc # "recv"
<1>1. CASE u = Idle
  <2>1. u.op = "none" /\ u.pc = "idle" /\ u.got = << >> BY <1>1 DEF Idle
  <2>2. ~Sent(u) BY <2>1 DEF Sent
  <2>3. Touch(u, r) BY <2>1, <2>2, RestTouch
  <2> QED BY <2>1, <2>3 DEF Single
<1>2. CASE u # Idle
  <2>1. u.pc \in {"send", "plan", "verdict", "check"} /\ u.got = << >> BY <1>2 DEF Goes
  <2>2. ~Sent(u) BY <2>1 DEF Sent
  <2>3. u.pc \in Exchanging /\ ~u.login => u.op \notin {"probe", "echo"}
    BY <1>2 DEF Goes, Exchanging
  <2>4. u.op = "echo" /\ u.clean /\ u.intact =>
          /\ u.pc # "verdict" => r.lost \cap {"probe", "echo"} = {}
          /\ u.pc \in {"check", "plan", "verdict"} \/ (u.pc = "send" /\ ~u.login) => AtEase(r)
    BY <1>2, <2>3 DEF Goes, Exchanging
  <2>5. Touch(u, r) BY <2>1, <2>2, <2>3, <2>4, RestTouch
  <2>6. Single(u) BY <1>2, <2>3 DEF Goes, Single
  <2> QED BY <2>1, <2>5, <2>6
<1> QED BY <1>1, <1>2

-----------------------------------------------------------------------------
(* Before and after the exchanges *)

\* Where the caller is.
LEMMA ProbeNow ==
    ASSUME OwnInv, ProbeTurn, NEW c \in Callers
    PROVE  /\ Typed /\ th[c] \in Thread /\ Local(th[c]) /\ Waiting(th[c]) /\ Single(th[c])
           /\ th[c].pc = "recv" => th[c].conn = channel
           /\ channel # 0 => channel \in 1 .. MaxChans /\ ses[channel] \in Session
           /\ channel # 0 /\ ~ses[channel].closed =>
                /\ Touch(th[c], ses[channel])
                /\ th[c].pc \notin Exchanging => Rest(ses[channel])
<1>1. Typed /\ th[c] \in Thread /\ Local(th[c]) /\ Waiting(th[c])
  BY DEF OwnInv, Turns, Locals, Typed, CallsOK, ThreadOK
<1>2. channel # 0 => channel \in 1 .. MaxChans /\ ses[channel] \in Session
  BY <1>1, ShellAssumption DEF Typed
<1>3. channel # 0 /\ ~ses[channel].closed => Touch(th[c], ses[channel]) BY DEF ProbeTurn
<1>4. channel # 0 /\ ~ses[channel].closed /\ th[c].pc \notin Exchanging => Rest(ses[channel])
  BY <1>3, KnownRest DEF Touch
<1> QED BY <1>1, <1>2, <1>3, <1>4 DEF ProbeTurn

\* An operation starts on a channel at rest.
LEMMA CallProbe ==
    ASSUME OneCaller, OwnInv, ProbeTurn, NEW c \in Callers, Call(c) PROVE ProbeTurn'
<1>0. Typed BY DEF OwnInv
<1>1. PICK op, p, pc, login :
        /\ Start(c, op, p, pc, login) /\ pc \in {"check", "connect"}
        /\ op \in {"run", "probe", "reconnect", "sftp"} /\ (op = "probe" => p = ProbePlan)
  <2> DEFINE From(pc, login) == \E op, p :
        /\ Start(c, op, p, pc, login)
        /\ op \in {"run", "probe", "reconnect", "sftp"} /\ (op = "probe" => p = ProbePlan)
  <2>1. From("check", FALSE) \/ From("connect", TRUE)
    BY DEF Call, CallRun, CallReconnect, CallSftp
  <2>2. \E pc, login : From(pc, login) /\ pc \in {"check", "connect"}
    <3> HIDE DEF From
    <3> QED BY <2>1
  <2> QED BY <2>2
<1> DEFINE u == [Idle EXCEPT !.pc = pc, !.op = op, !.plan = p, !.run = runs + 1,
                             !.login = login]
<1>2. Moves(c, u) /\ th[c].pc = "idle" BY <1>1 DEF Start, Moves
<1>3. u.pc = pc /\ u.op = op /\ u.plan = p /\ u.got = << >> BY DEF Idle
<1> HIDE DEF u
<1>4. ~Sent(u) /\ u.pc \notin Exchanging /\ u.op # "echo" /\ Single(u)
  BY <1>1, <1>3 DEF Sent, Exchanging, Single
<1>5. channel' # 0 /\ ~ses'[channel'].closed => Rest(ses'[channel'])
  <2> SUFFICES ASSUME channel' # 0, ~ses'[channel'].closed PROVE Rest(ses'[channel'])
    OBVIOUS
  <2>1. channel' = channel /\ ses' = MarkShared(c, ses)
    BY DEF Call, CallRun, CallReconnect, CallSftp, adapter
  <2>2. channel \in 1 .. MaxChans /\ ses \in [1 .. MaxChans -> Session]
    BY <1>0, <2>1, ShellAssumption DEF Typed
  <2> DEFINE s == ses[channel]
             shared == s.shared \/ ~Alone(c)
             r == [s EXCEPT !.shared = shared]
  <2>3. ses'[channel] = r BY <2>1, <2>2 DEF MarkShared
  <2>4. r.wire = s.wire /\ r.inbox = s.inbox /\ r.lost = s.lost /\ r.closed = s.closed
    BY <2>2 DEF Session
  <2> HIDE DEF r
  <2>5. Rest(s) BY <1>2, <2>1, <2>3, <2>4, ProbeNow DEF Exchanging
  <2> QED BY <2>1, <2>3, <2>4, <2>5, RestSame
<1>6. channel' # 0 /\ ~ses'[channel'].closed => Touch(u, ses'[channel'])
  BY <1>3, <1>4, <1>5, RestTouch
<1> QED BY <1>1, <1>2, <1>3, <1>4, <1>6, ProbeFrame

\* run() looks at its channel.
LEMMA CheckProbe ==
    ASSUME OneCaller, OwnInv, ProbeTurn, NEW c \in Callers, Check(c) PROVE ProbeTurn'
<1> DEFINE t == th[c]
           s == ses[channel]
           u == [t EXCEPT !.pc = IF Active THEN "plan" ELSE "connect", !.login = ~Active]
<1>1. t \in Thread /\ t.pc = "check" /\ Typed /\ Single(t) BY ProbeNow DEF Check
<1>2. Moves(c, u) /\ UNCHANGED <<channel, ses>>
  BY <1>1 DEF Check, Moves, adapter, Typed, CallsOK
<1>3. /\ u.pc = IF Active THEN "plan" ELSE "connect"
      /\ u.op = t.op /\ u.clean = t.clean /\ u.intact = t.intact /\ u.plan = t.plan
      /\ u.got = t.got
  BY <1>1 DEF Thread
<1> HIDE DEF u
<1>4. u.got = << >> /\ ~Sent(u) /\ u.pc \in {"plan", "connect"}
  BY <1>1, <1>3, ProbeNow DEF Local, Sent
<1>5. Single(u) BY <1>1, <1>3, <1>4 DEF Single, Exchanging
<1>6. ASSUME channel # 0, ~s.closed PROVE Touch(u, s)
  <2>1. Touch(t, s) /\ Rest(s) BY <1>1, <1>6, ProbeNow DEF Exchanging
  <2>2. u.pc = "plan" BY <1>3, <1>6 DEF Active
  <2>3. u.op = "echo" /\ u.clean /\ u.intact =>
          s.lost \cap {"probe", "echo"} = {} /\ AtEase(s)
    BY <1>1, <1>3, <2>1 DEF Touch, Probing
  <2> QED BY <1>4, <2>1, <2>2, <2>3, RestTouch DEF Exchanging
<1> QED BY <1>2, <1>4, <1>5, <1>6, ProbeFrame

\* A probe begins on a channel that lost the answers of runs at most.
LEMMA PlanProbe ==
    ASSUME OneCaller, OwnInv, ProbeTurn, NEW c \in Callers, MakePlan(c) PROVE ProbeTurn'
<1> DEFINE t == th[c]
           s == ses[channel]
           todo == RunExchanges(t.op, t.plan, normal)
           clean == CASE t.op = "run" -> Fresh({})
                      [] t.op = "probe" -> Fresh(RunPurposes)
                      [] OTHER -> t.clean
           u == [t EXCEPT !.pc = "send", !.todo = todo, !.good = TRUE, !.clean = clean]
<1>1. t \in Thread /\ t.pc = "plan" /\ Typed /\ Single(t) /\ ~t.login /\ t.got = << >>
  BY ProbeNow DEF MakePlan, Local
<1>2. Moves(c, u) /\ UNCHANGED <<channel, ses>> BY <1>1 DEF MakePlan, Moves, Thread
<1>3. t.op = "probe" => clean = Fresh(RunPurposes) OBVIOUS
<1>4. t.op = "echo" => clean = t.clean OBVIOUS
<1>5. t.op \in {"probe", "echo"} =>
        Len(todo) = 1 /\ todo[1].what = t.op /\ todo[1].raise /\ todo[1].k = 0
  <2>1. normal \in BOOLEAN BY <1>1 DEF Typed
  <2>2. t.op \in {"probe", "echo"} => t.plan = ProbePlan BY <1>1 DEF Single
  <2> QED BY <2>1, <2>2, ProbePlanned
<1> HIDE DEF todo, clean
<1>6. /\ u.pc = "send" /\ u.todo = todo /\ u.clean = clean /\ u.login = t.login
      /\ u.op = t.op /\ u.intact = t.intact /\ u.plan = t.plan /\ u.got = << >>
  BY <1>1 DEF Thread
<1> HIDE DEF u
<1>7. ~Sent(u) BY <1>6 DEF Sent
<1>8. Single(u) BY <1>1, <1>5, <1>6 DEF Single
<1>9. ASSUME channel # 0, ~s.closed PROVE Touch(u, s)
  <2>1. Touch(t, s) /\ Rest(s) BY <1>1, <1>9, ProbeNow DEF Exchanging
  <2>2. Fresh(RunPurposes) => s.lost \cap {"probe", "echo"} = {} BY DEF Fresh, RunPurposes
  <2>3. u.op = "probe" /\ u.clean => s.lost \cap {"probe", "echo"} = {}
    BY <1>3, <1>6, <2>2
  <2>4. u.op = "echo" /\ u.clean /\ u.intact =>
          s.lost \cap {"probe", "echo"} = {} /\ AtEase(s)
    BY <1>1, <1>4, <1>6, <2>1 DEF Touch, Probing
  <2> QED BY <1>6, <1>7, <2>1, <2>3, <2>4, RestTouch
<1> QED BY <1>2, <1>6, <1>8, <1>9, ProbeFrame

\* Connecting; giving up.
LEMMA ConnectProbe ==
    ASSUME OneCaller, OwnInv, ProbeTurn, NEW c \in Callers,
           Connect(c) \/ ConnectRaises(c) \/ RetryRaises(c) \/ OpenFails(c)
    PROVE  ProbeTurn'
<1> DEFINE t == th[c]
           s == ses[channel]
<1>1. t \in Thread /\ t.pc \in {"connect", "retry", "open"} /\ Typed /\ Single(t)
  BY ProbeNow DEF Connect, ConnectRaises, RetryRaises, OpenFails
<1>2. channel # 0 /\ ~s.closed => Rest(s) /\ ~(t.op = "echo" /\ t.clean /\ t.intact)
  BY <1>1, ProbeNow DEF Exchanging, Touch, Probing
<1>3. ASSUME NEW u, Moves(c, u), u.got = << >>, u.pc \notin Exchanging,
             u.op \in {"probe", "echo"} => u.plan = ProbePlan,
             channel' # 0 => UNCHANGED <<channel, ses>>,
             channel # 0 /\ ~s.closed => ~(u.op = "echo" /\ u.clean /\ u.intact),
             u.pc = "idle" => res'[c].kind # "done"
      PROVE  ProbeTurn'
  <2>1. u.pc # "recv" /\ ~Sent(u) /\ Single(u) BY <1>3 DEF Exchanging, Sent, Single
  <2>2. channel' # 0 /\ ~ses'[channel'].closed => Touch(u, ses'[channel'])
    BY <1>2, <1>3, <2>1, RestTouch
  <2> QED BY <1>3, <2>1, <2>2, ProbeFrame DEF Lasting
<1>4. CASE Connect(c) \/ ConnectRaises(c)
  <2> DEFINE pc == IF Connect(c) THEN "open" ELSE "retry"
             u == [t EXCEPT !.pc = pc]
  <2>1. Moves(c, u) /\ (channel' # 0 => UNCHANGED <<channel, ses>>)
    BY <1>4 DEF Connect, ConnectRaises, Moves
  <2>2. pc \in {"open", "retry"} OBVIOUS
  <2> HIDE DEF pc
  <2>3. /\ u.pc = pc /\ u.op = t.op /\ u.clean = t.clean /\ u.intact = t.intact
        /\ u.plan = t.plan /\ u.got = t.got
    BY <1>1 DEF Thread
  <2> HIDE DEF u
  <2>4. u.got = << >> BY <1>1, <2>3, ProbeNow DEF Local
  <2>5. u.op \in {"probe", "echo"} => u.plan = ProbePlan BY <1>1, <2>3 DEF Single
  <2> QED BY <1>2, <1>3, <2>1, <2>2, <2>3, <2>4, <2>5 DEF Exchanging
<1>5. CASE RetryRaises(c) \/ OpenFails(c)
  <2>1. Raised(c) /\ UNCHANGED <<channel, ses>>
    BY <1>5 DEF RetryRaises, OpenFails, adapter
  <2>2. PICK u : /\ Moves(c, u)
                 /\ \/ u = Idle /\ res'[c].kind # "done"
                    \/ /\ u.op = "echo" /\ u.plan = t.plan /\ u.got = << >>
                       /\ \/ t.op = "probe" /\ u.pc = "check" /\ ~u.intact
                          \/ /\ t.op = "echo" /\ t.login /\ u.pc = "verdict"
                             /\ u.clean = t.clean /\ u.intact = t.intact
    BY <1>1, <2>1, RaisedProbe
  <2>3. u = Idle => u.pc = "idle" /\ u.op = "none" /\ u.got = << >> BY DEF Idle
  <2>4. u.got = << >> /\ u.pc \notin Exchanging BY <2>2, <2>3 DEF Exchanging
  <2>5. u.op \in {"probe", "echo"} => u.plan = ProbePlan BY <1>1, <2>2, <2>3 DEF Single
  <2>6. u.pc = "idle" => res'[c].kind # "done" BY <2>2
  <2>7. channel # 0 /\ ~s.closed => ~(u.op = "echo" /\ u.clean /\ u.intact)
    BY <1>2, <2>2, <2>3
  <2> QED BY <1>3, <2>1, <2>2, <2>4, <2>5, <2>6, <2>7
<1> QED BY <1>4, <1>5

\* A new channel has the greeting in flight, which is the line waited for.
LEMMA OpenProbe ==
    ASSUME OneCaller, OwnInv, ProbeTurn, NEW c \in Callers, OpenSession(c) PROVE ProbeTurn'
<1> DEFINE t == th[c]
           n == opened + 1
           greet == [run |-> t.run, what |-> "greet", k |-> 0]
           in == << greet >>
           out == << >>
           s == [closed |-> FALSE, inbox |-> in, wire |-> out, spoke |-> FALSE,
                 prev |-> NoLine, named |-> FALSE, lost |-> {}, shared |-> ~Alone(c)]
           todo == LoginExchanges
           u == [t EXCEPT !.pc = "sent", !.todo = todo]
<1>1. /\ t \in Thread /\ t.pc = "open" /\ t.login /\ t.got = << >> /\ Single(t)
      /\ ses \in [1 .. MaxChans -> Session] /\ opened \in Nat
  BY ProbeNow DEF OpenSession, Local, Typed
<1>2. Moves(c, u) /\ channel' = n /\ ses' = [ses EXCEPT ![n] = s] /\ opened < MaxChans
  BY DEF OpenSession, Moves
<1>3. Head(todo) = X("greet", 0, "loose", FALSE) BY DEF LoginExchanges
<1>4. Len(in) = 1 /\ in[1] = greet /\ Len(out) = 0 OBVIOUS
<1>5. s.inbox = in /\ s.wire = out /\ s.lost = {} OBVIOUS
<1> HIDE DEF s, in, out, todo
<1>6. /\ u.pc = "sent" /\ u.todo = todo /\ u.clean = t.clean /\ u.login = t.login
      /\ u.got = << >> /\ u.op = t.op /\ u.intact = t.intact /\ u.run = t.run
      /\ u.plan = t.plan
  BY <1>1 DEF Thread
<1> HIDE DEF u
<1>7. ses'[n] = s
  <2>1. n \in 1 .. MaxChans BY <1>1, <1>2, ShellAssumption
  <2> HIDE DEF n
  <2> QED BY <1>1, <1>2, <2>1
<1>8. LineOf(u) = greet BY <1>3, <1>6 DEF LineOf, X
<1>9. \A l \in Lines(u, s) : l = greet
  <2>0. Len(s.inbox) = 1 /\ s.inbox[1] = greet BY <1>4, <1>5
  <2> HIDE DEF greet
  <2>1. \A i \in 1 .. Len(s.inbox) : s.inbox[i] = greet BY <2>0
  <2>2. \A i \in 1 .. Len(s.wire) : FALSE BY <1>4, <1>5
  <2> QED BY <1>6, <2>1, <2>2, LinesOf
<1>10. Known(u, s) BY <1>6, <1>8, <1>9 DEF Known, Sent
<1>11. LineOf(u).what \notin Framework BY <1>8 DEF Framework
<1>12. Probing(u, s) BY <1>1, <1>5, <1>6 DEF Probing
<1>13. Touch(u, s) BY <1>10, <1>11, <1>12 DEF Touch
<1>14. Single(u) BY <1>1, <1>6 DEF Single
<1> QED BY <1>2, <1>6, <1>7, <1>13, <1>14, ProbeFrame

\* The verdict on an intact answer.
LEMMA VerdictProbe ==
    ASSUME OneCaller, OwnInv, ProbeTurn, NEW c \in Callers, Verdict(c) PROVE ProbeTurn'
<1> DEFINE t == th[c]
           s == ses[channel]
<1>1. t \in Thread /\ t.pc = "verdict" /\ Typed /\ t.got = << >>
  BY ProbeNow DEF Verdict, Local
<1>2. channel # 0 /\ ~s.closed => Rest(s) /\ Touch(t, s) BY <1>1, ProbeNow DEF Exchanging
<1>3. CASE t.intact
  <2>1. Finish(c, t, "done") /\ UNCHANGED <<channel, ses>> BY <1>3 DEF Verdict
  <2>2. Moves(c, Idle) BY <2>1 DEF Finish, Moves
  <2>3. Idle.op = "none" /\ Idle.pc = "idle" /\ Idle.got = << >> BY DEF Idle
  <2>4. Single(Idle) /\ ~Sent(Idle) BY <2>3 DEF Single, Sent
  <2>5. res'[c].op = t.op /\ (res'[c].clean => t.clean)
    <3>1. res \in [Callers -> Result] BY <1>1 DEF Typed, CallsOK
    <3> QED BY <2>1, <3>1 DEF Finish
  <2>6. channel # 0 /\ ~s.closed => Touch(Idle, s) BY <1>2, <2>3, <2>4, RestTouch
  <2>7. channel # 0 /\ ~s.closed => Lasting(res'[c], s)
    BY <1>1, <1>2, <1>3, <2>5 DEF Lasting, Touch, Probing
  <2> QED BY <2>1, <2>2, <2>3, <2>4, <2>6, <2>7, ProbeFrame
<1>4. CASE ~t.intact
  <2> DEFINE u == [t EXCEPT !.pc = "connect", !.op = "reconnect", !.login = TRUE]
  <2>1. Moves(c, u) /\ (channel' # 0 => UNCHANGED <<channel, ses>>)
    BY <1>4 DEF Verdict, Moves, Close
  <2>2. u.pc = "connect" /\ u.op = "reconnect" /\ u.got = << >> BY <1>1 DEF Thread
  <2> HIDE DEF u
  <2>3. Single(u) /\ ~Sent(u) BY <2>2 DEF Single, Sent
  <2>4. channel' # 0 /\ ~ses'[channel'].closed => Touch(u, ses'[channel'])
    BY <1>2, <2>1, <2>2, <2>3, RestTouch
  <2> QED BY <2>1, <2>2, <2>3, <2>4, ProbeFrame
<1> QED BY <1>3, <1>4

-----------------------------------------------------------------------------
(* exec_command() and the probe *)

\* The receive buffer is emptied.
LEMMA DrainProbe ==
    ASSUME OneCaller, OwnInv, ProbeTurn, NEW c \in Callers, Drain(c) PROVE ProbeTurn'
<1> DEFINE t == th[c]
           s == ses[channel]
           e == << >>
           lost == IF s.inbox = << >> THEN {} ELSE s.lost
           r == [s EXCEPT !.wire = e, !.lost = lost]
<1>1. /\ t.pc = "send" /\ t.got = << >> /\ Single(t) /\ channel # 0
      /\ UNCHANGED <<channel, th>>
  BY ProbeNow DEF Drain, Local
<1>2. channel \in 1 .. MaxChans /\ s \in Session /\ ses \in [1 .. MaxChans -> Session]
  BY <1>1, ProbeNow DEF Typed
<1>3. ses'[channel] = r BY <1>2 DEF Drain
<1>4. r.wire = e /\ r.inbox = s.inbox /\ r.closed = s.closed /\ r.lost = lost
  BY <1>2 DEF Session
<1>5. e = << >> OBVIOUS
<1> HIDE DEF e, r
<1>6. ASSUME ~s.closed PROVE Touch(t, r)
  <2>1. Touch(t, s) BY <1>1, <1>6, ProbeNow
  <2> QED BY <1>1, <1>4, <1>5, <2>1, DrainTouch
<1>7. Moves(c, t)
  <2>1. th \in [Callers -> Thread] BY ProbeNow DEF Typed, CallsOK
  <2> QED BY <1>1, <2>1 DEF Moves
<1> QED BY <1>1, <1>3, <1>4, <1>6, <1>7, ProbeFrame

\* A line is sent.
LEMMA SendProbe ==
    ASSUME OneCaller, OwnInv, ProbeTurn, NEW c \in Callers, Send(c) PROVE ProbeTurn'
<1> DEFINE t == th[c]
           s == ses[channel]
           line == LineOf(t)
           in == Append(s.inbox, line)
           r == [s EXCEPT !.inbox = in]
           u == [t EXCEPT !.pc = "sent"]
<1>1. /\ t \in Thread /\ t.pc = "send" /\ t.got = << >> /\ Single(t) /\ channel # 0
      /\ ~s.closed /\ t.todo # << >> /\ Touch(t, s) /\ UNCHANGED <<channel>>
  BY ProbeNow DEF Send, Local, Active, Waiting, adapter
<1>2. channel \in 1 .. MaxChans /\ s \in Session /\ ses \in [1 .. MaxChans -> Session]
  BY <1>1, ProbeNow DEF Typed
<1>3. ses'[channel] = r /\ Moves(c, u) BY <1>2 DEF Send, Moves
<1> HIDE DEF in
<1>4. r.wire = s.wire /\ r.inbox = in /\ r.lost = s.lost BY <1>2 DEF Session
<1>5. /\ u.pc = "sent" /\ u.todo = t.todo /\ u.clean = t.clean /\ u.login = t.login
      /\ u.got = << >> /\ u.op = t.op /\ u.intact = t.intact /\ u.run = t.run
      /\ u.plan = t.plan
  BY <1>1 DEF Thread
<1> HIDE DEF u, r
<1>6. LineOf(u) = line BY <1>5 DEF LineOf
<1>7. Touch(u, r)
  <2> HIDE DEF line
  <2> HIDE DEF s, t
  <2>1. line = LineOf(t) BY DEF line
  <2>2. in = Append(s.inbox, line) BY DEF in
  <2> QED BY <1>1, <1>2, <1>4, <1>5, <1>6, <2>1, <2>2, SentTouch
<1>8. Single(u) BY <1>1, <1>5 DEF Single, Exchanging
<1> QED BY <1>1, <1>3, <1>5, <1>7, <1>8, ProbeFrame

\* The channel is closed.
LEMMA ClosedProbe ==
    ASSUME OneCaller, OwnInv, ProbeTurn, NEW c \in Callers, SendRaises(c) \/ RecvRaises(c)
    PROVE  ProbeTurn'
<1>1. Raised(c) /\ UNCHANGED <<channel, ses>> /\ ~Active /\ Typed /\ Single(th[c])
  BY ProbeNow DEF SendRaises, RecvRaises, adapter
<1>2. PICK u : /\ Moves(c, u)
               /\ \/ u = Idle
                  \/ /\ u.op = "echo" /\ u.plan = th[c].plan
                     /\ th[c].op \in {"probe", "echo"} /\ u.pc \in {"check", "verdict"}
  BY <1>1, RaisedProbe
<1>3. Idle.op = "none" /\ Idle.pc = "idle" BY DEF Idle
<1>4. u.pc # "recv" /\ Single(u) BY <1>1, <1>2, <1>3 DEF Single, Exchanging
<1> QED BY <1>1, <1>2, <1>4, ProbeFrame DEF Active

\* What exec_command() makes of the probe's answer.
LEMMA AbsorbProbe ==
    ASSUME NEW t \in Thread, Single(t), Local(t), t.pc \in Exchanging, t.todo # << >>,
           NEW m \in BOOLEAN
    PROVE  LET w == Absorb(t, m) IN
             /\ w.op = t.op /\ w.plan = t.plan /\ w.login = t.login /\ w.clean = t.clean
             /\ w.got = << >>
             /\ ~t.login /\ t.op \in {"probe", "echo"} =>
                  w.todo = << >> /\ Head(t.todo).what = t.op
             /\ t.login => w.todo = Tail(t.todo) /\ Head(t.todo).what \in {"greet", "ps1", "ls"}
             /\ w.intact = IF Head(t.todo).what = "probe" THEN EchoIntact(t.got) ELSE t.intact
<1> DEFINE w == Absorb(t, m)
           x == Head(t.todo)
<1>1. /\ w.op = t.op /\ w.plan = t.plan /\ w.login = t.login /\ w.clean = t.clean
      /\ w.got = << >>
      /\ w.todo = IF Interrupted(t, x, m)
                  THEN << X("intr", x.k, x.pat, TRUE) >> \o Remaining(t.todo, m)
                  ELSE Remaining(t.todo, m)
  BY AbsorbKeeps
<1>2. w.intact = IF x.what = "probe" THEN EchoIntact(t.got) ELSE t.intact
  BY DEF Absorb, Thread
<1>3. ASSUME ~t.login, t.op \in {"probe", "echo"}
      PROVE  w.todo = << >> /\ x.what = t.op
  <2>1. t.plan = ProbePlan /\ Len(t.todo) = 1 /\ t.todo[1].what = t.op BY <1>3 DEF Single
  <2>2. ~t.plan.interrupt BY <2>1 DEF ProbePlan
  <2>3. t.todo \in Seq(Exchange) BY DEF Thread
  <2>4. x = t.todo[1] /\ Tail(t.todo) = << >> BY <2>1, <2>3, LastTail
  <2>5. Remaining(t.todo, m) = << >> BY <2>4 DEF Remaining
  <2> HIDE DEF w, x
  <2>6. ~Interrupted(t, x, m) BY <2>2 DEF Interrupted
  <2> QED BY <1>1, <2>1, <2>4, <2>5, <2>6
<1>4. ASSUME t.login PROVE w.todo = Tail(t.todo) /\ x.what \in {"greet", "ps1", "ls"}
  <2>1. t.todo \in LoginTodos BY <1>4 DEF Local
  <2>2. x.what \in {"greet", "ps1", "ls"} BY <2>1, LoginSteps
  <2>3. ~Interrupted(t, x, m) BY <2>2 DEF Interrupted, Commands
  <2>4. Remaining(t.todo, m) = Tail(t.todo) BY <2>1, LoginSteps DEF Remaining
  <2> HIDE DEF w, x
  <2> QED BY <1>1, <2>2, <2>3, <2>4
<1> QED BY <1>1, <1>2, <1>3, <1>4

\* The line was not sent: the greeting is put aside when PS1 is the one.
LEMMA SendTimeoutProbe ==
    ASSUME OneCaller, OwnInv, ProbeTurn, NEW c \in Callers, SendTimeout(c)
    PROVE  ProbeTurn'
<1> DEFINE t == th[c]
           s == ses[channel]
           rest == Tail(t.todo)
           v == IF Head(t.todo).what = "cd" /\ rest # << >>
                THEN [t EXCEPT !.todo = rest] ELSE t
           w == Absorb(v, FALSE)
           lost == IF t.login THEN s.lost \cup {Head(t.todo).what} ELSE s.lost
           r == [s EXCEPT !.lost = lost]
<1>1. /\ t \in Thread /\ t.pc = "send" /\ t.got = << >> /\ Single(t) /\ Local(t)
      /\ channel # 0 /\ ~s.closed /\ t.todo # << >> /\ Touch(t, s) /\ UNCHANGED channel
      /\ Typed /\ Continue(c, w)
  BY ProbeNow DEF SendTimeout, Local, Active, Waiting
<1>2. channel \in 1 .. MaxChans /\ s \in Session /\ ses \in [1 .. MaxChans -> Session]
  BY <1>1, ProbeNow DEF Typed
<1>3. ses'[channel] = r BY <1>2 DEF SendTimeout
<1>4. r.wire = s.wire /\ r.inbox = s.inbox /\ r.lost = lost BY <1>2 DEF Session
<1> HIDE DEF r
<1>5. ~Sent(t) /\ t.pc \in Exchanging BY <1>1 DEF Sent, Exchanging
<1>6. t.login => Head(t.todo).what \in {"ps1", "ls"}
  BY <1>1, <1>5, LoginSteps DEF Local
<1>7. ~t.login /\ t.op \in {"probe", "echo"} => Head(t.todo).what = t.op
  BY <1>1, <1>5, AbsorbProbe
<1>8. t.login \/ t.op \in {"probe", "echo"} => v = t BY <1>6, <1>7
<1>9. /\ v \in Thread /\ v.todo # << >> /\ v.got = << >> /\ v.op = t.op /\ v.plan = t.plan
      /\ v.login = t.login /\ v.clean = t.clean
  <2>1. t.todo \in Seq(Exchange) /\ rest \in Seq(Exchange) BY <1>1 DEF Thread
  <2> HIDE DEF rest
  <2> QED BY <1>1, <2>1 DEF Thread
<1> HIDE DEF v, lost
<1>10. /\ w.op = t.op /\ w.plan = t.plan /\ w.login = t.login /\ w.clean = t.clean
       /\ w.got = << >> /\ w \in Thread
  BY <1>9, AbsorbKeeps, AbsorbType
<1>11. t.login \/ t.op \in {"probe", "echo"} =>
         /\ ~t.login => w.todo = << >>
         /\ w.intact = IF Head(t.todo).what = "probe" THEN EchoIntact(t.got) ELSE t.intact
  <2> SUFFICES ASSUME t.login \/ t.op \in {"probe", "echo"}
               PROVE  /\ ~t.login => w.todo = << >>
                      /\ w.intact = IF Head(t.todo).what = "probe"
                                    THEN EchoIntact(t.got) ELSE t.intact
    OBVIOUS
  <2>1. w = Absorb(t, FALSE) BY <1>8
  <2> HIDE DEF w
  <2> QED BY <1>1, <1>5, <2>1, AbsorbProbe
<1>12. ~EchoIntact(t.got)
  <2>1. ~(Len(t.got) >= 2) BY <1>1
  <2> QED BY <2>1 DEF EchoIntact
<1> HIDE DEF w
<1>13. s.lost \subseteq r.lost /\ (~t.login => r.lost = s.lost)
       /\ r.lost \cap {"probe", "echo"} = s.lost \cap {"probe", "echo"}
       /\ (t.login => r.lost \cap {"ps1", "ls"} # {})
       /\ (Greeting(t) => "ps1" \in r.lost)
  BY <1>4, <1>6 DEF lost, Greeting
<1>14. Rest(r)
  <2>1. \A l \in Lines(Idle, r) : l \in Lines(t, s) BY <1>1, <1>4, LinesOf, IdleGot
  <2>2. \A l : Aside(l, s) => Aside(l, r) BY <1>13 DEF Aside
  <2>3. \A l \in Lines(t, s) : Aside(l, s) \/ (l.what = "greet" /\ Greeting(t))
    BY <1>1, <1>5 DEF Touch, Known
  <2> QED BY <1>13, <2>1, <2>2, <2>3 DEF Rest, Aside
<1>15. AtEase(s) => AtEase(r) BY <1>4, <1>13 DEF AtEase, Still
<1>16. t.op = "probe" /\ ~t.login => ~w.intact BY <1>7, <1>11, <1>12
<1>17. t.op = "echo" /\ t.clean /\ w.intact =>
         /\ r.lost \cap {"probe", "echo"} = {}
         /\ AtEase(r)
  <2> SUFFICES ASSUME t.op = "echo", t.clean, w.intact
               PROVE  r.lost \cap {"probe", "echo"} = {} /\ AtEase(r)
    OBVIOUS
  <2>1. t.intact BY <1>6, <1>7, <1>11
  <2>2. s.lost \cap {"probe", "echo"} = {} /\ (~t.login => AtEase(s))
    BY <1>1, <2>1 DEF Touch, Probing
  <2> QED BY <1>13, <1>15, <2>2 DEF AtEase
<1>18. PICK u : Moves(c, u) /\ Goes(w, u) /\ (u.pc = "idle" => res'[c].op # "echo")
  BY <1>1, <1>10, ContinueProbe
<1>19. Touch(u, r) /\ Single(u) /\ u.pc # "recv"
  BY <1>1, <1>10, <1>11, <1>14, <1>16, <1>17, <1>18, GoesTouch
<1> QED BY <1>1, <1>3, <1>18, <1>19, ProbeFrame DEF Lasting

\* The wait begins.
LEMMA StartRecvProbe ==
    ASSUME OneCaller, OwnInv, ProbeTurn, NEW c \in Callers, StartRecv(c) PROVE ProbeTurn'
<1> DEFINE t == th[c]
           u == [t EXCEPT !.pc = "recv", !.conn = channel]
<1>1. /\ t \in Thread /\ t.pc = "sent" /\ Single(t) /\ Touch(t, ses[channel])
      /\ UNCHANGED <<channel, ses>> /\ Moves(c, u)
  <2>1. /\ t \in Thread /\ t.pc = "sent" /\ Single(t) /\ Touch(t, ses[channel])
        /\ UNCHANGED <<channel, ses>>
    BY ProbeNow DEF StartRecv, Active, adapter
  <2>2. th \in [Callers -> Thread] BY ProbeNow DEF Typed, CallsOK
  <2> QED BY <2>1, <2>2 DEF StartRecv, Moves
<1>2. /\ u.pc = "recv" /\ u.conn = channel /\ u.todo = t.todo /\ u.clean = t.clean
      /\ u.login = t.login /\ u.got = t.got /\ u.op = t.op /\ u.intact = t.intact
      /\ u.run = t.run /\ u.plan = t.plan
  BY <1>1 DEF Thread
<1> HIDE DEF u
<1>3. Touch(u, ses[channel]) BY <1>1, <1>2, StartTouch
<1>4. Single(u) BY <1>1, <1>2 DEF Single, Exchanging
<1> QED BY <1>1, <1>2, <1>3, <1>4, ProbeFrame

\* A piece of output is read.
LEMMA ChunkProbe ==
    ASSUME OneCaller, OwnInv, ProbeTurn, NEW c \in Callers, RecvChunk(c) PROVE ProbeTurn'
<1> DEFINE t == th[c]
           s == ses[channel]
           got == Append(t.got, Head(s.wire))
           rest == Tail(s.wire)
           u == [t EXCEPT !.got = got]
           r == [s EXCEPT !.wire = rest]
<1>1. /\ t \in Thread /\ t.pc = "recv" /\ Single(t) /\ t.conn = channel
      /\ UNCHANGED channel /\ s.wire # << >> /\ Waiting(t)
  BY ProbeNow DEF RecvChunk, adapter
<1>2. /\ channel \in 1 .. MaxChans /\ s \in Session /\ ses \in [1 .. MaxChans -> Session]
  <2>1. channel # 0 BY <1>1 DEF Waiting
  <2> QED BY <2>1, ProbeNow DEF Typed
<1>3. ses'[channel] = r /\ Moves(c, u) BY <1>1, <1>2 DEF RecvChunk, Moves
<1> HIDE DEF got, rest
<1>4. r.wire = rest /\ r.inbox = s.inbox /\ r.lost = s.lost /\ r.closed = s.closed
  BY <1>2 DEF Session
<1>5. /\ u.pc = "recv" /\ u.conn = channel /\ u.todo = t.todo /\ u.clean = t.clean
      /\ u.login = t.login /\ u.got = got /\ u.op = t.op /\ u.intact = t.intact
      /\ u.run = t.run /\ u.plan = t.plan
  BY <1>1 DEF Thread
<1> HIDE DEF u, r
<1>6. ASSUME ~s.closed PROVE Touch(u, r)
  <2>1. Touch(t, s) BY <1>2, <1>6, ProbeNow
  <2>2. got = Append(t.got, Head(s.wire)) /\ rest = Tail(s.wire) BY DEF got, rest
  <2> HIDE DEF t, s
  <2> QED BY <1>1, <1>2, <1>4, <1>5, <2>1, <2>2, ChunkTouch
<1>7. Single(u) BY <1>1, <1>5 DEF Single, Exchanging
<1> QED BY <1>1, <1>2, <1>3, <1>4, <1>5, <1>6, <1>7, ProbeFrame

\* The lines of login() and run().
LEMMA WaitLines ==
    ASSUME NEW t \in Thread, Local(t), t.pc \in Exchanging, t.todo # << >>
    PROVE  /\ ~t.login => Head(t.todo).what \notin {"greet", "ps1"}
           /\ Head(t.todo).what = "greet" =>
                /\ t.login /\ ~Head(t.todo).raise
                /\ Tail(t.todo) # << >> /\ Head(Tail(t.todo)).what = "ps1"
<1>1. t.login => t.todo \in LoginTodos BY DEF Local
<1>2. ASSUME ~t.login PROVE Head(t.todo).what \notin {"greet", "ps1"}
  <2>1. NotLogin(t.todo) BY <1>2 DEF Local
  <2>2. t.todo \in Seq(Exchange) BY DEF Thread
  <2>3. Head(t.todo) = t.todo[1] /\ 1 \in 1 .. Len(t.todo) BY <2>2
  <2> QED BY <2>1, <2>3 DEF NotLogin
<1> QED BY <1>1, <1>2, LoginSteps

\* A match, or a timeout that does not raise.
LEMMA WaitGoes ==
    ASSUME NEW t \in Thread, Local(t), Single(t), NEW s, NEW r, WaitOver(t, s, r),
           NEW m \in BOOLEAN, m => Sees(t), ~m => ~Head(t.todo).raise,
           NEW u, Goes(Absorb(t, m), u)
    PROVE  Touch(u, r)
<1> DEFINE w == Absorb(t, m)
           x == Head(t.todo)
<1>0. t.pc = "recv" /\ t.pc \in Exchanging /\ t.todo # << >> /\ Touch(t, s)
  BY DEF WaitOver, Exchanging
<1>1. /\ w.op = t.op /\ w.plan = t.plan /\ w.login = t.login /\ w.clean = t.clean
      /\ ~t.login /\ t.op \in {"probe", "echo"} => w.todo = << >> /\ x.what = t.op
      /\ t.login => w.todo = Tail(t.todo) /\ x.what \in {"greet", "ps1", "ls"}
      /\ w.intact = IF x.what = "probe" THEN EchoIntact(t.got) ELSE t.intact
  BY <1>0, AbsorbProbe
<1>2. Goes(w, u) OBVIOUS
<1> HIDE DEF w
<1>3. t.op = "echo" /\ t.clean /\ w.intact => s.lost \cap {"probe", "echo"} = {}
  <2>1. t.op = "echo" => x.what # "probe" BY <1>1
  <2> QED BY <1>0, <1>1, <2>1 DEF Touch, Probing
<1>4. CASE x.what = "greet"
  <2>1. t.login /\ w.todo # << >> /\ Head(w.todo).what = "ps1" BY <1>0, <1>1, <1>4, WaitLines
  <2>2. /\ u.pc = "send" /\ u.todo = w.todo /\ u.login /\ u.op = t.op /\ u.clean = t.clean
        /\ u.intact = w.intact /\ u.got = << >>
    BY <1>1, <1>2, <2>1 DEF Goes
  <2>3. Greeting(u) BY <2>1, <2>2 DEF Greeting, Exchanging
  <2>4. \A l \in Lines(u, r) : l \in Lines(Idle, r) BY <2>2, LinesOf, IdleGot
  <2>5. Known(u, r) BY <1>4, <2>3, <2>4, OverRest DEF Known
  <2>6. ~Sent(u) BY <2>2 DEF Sent
  <2>7. r.lost = s.lost BY <1>4, OverRest
  <2>8. Probing(u, r) BY <1>3, <2>2, <2>6, <2>7 DEF Probing
  <2> QED BY <2>5, <2>6, <2>8 DEF Touch
<1>5. CASE x.what # "greet"
  <2>1. Rest(r) BY <1>5, OverRest
  <2>2. ASSUME t.op = "probe", ~t.login, t.clean, w.intact
        PROVE  r.lost \cap {"probe", "echo"} = {} /\ AtEase(r)
    <3>1. x.what = "probe" /\ EchoIntact(t.got) BY <1>1, <2>2
    <3>2. s.lost \cap {"probe", "echo"} = {} BY <1>0, <2>2 DEF Touch, Probing
    <3> QED BY <3>1, <3>2, OverProbe
  <2>3. ASSUME t.op = "echo", t.clean, w.intact
        PROVE  /\ t.login => r.lost \cap {"probe", "echo"} = {}
               /\ AtEase(r)
    <3>1. CASE t.login
      <4>1. x.what \in {"ps1", "ls"} BY <1>1, <1>5, <3>1
      <4> QED BY <1>3, <2>3, <4>1, OverLogin
    <3>2. CASE ~t.login
      <4>1. x.what = "echo" /\ t.intact BY <1>1, <2>3, <3>2
      <4>2. t.todo \in Seq(Exchange) BY DEF Thread
      <4>3. x = t.todo[1] BY <1>0, <4>2
      <4>4. Sees(t) BY <1>0, <2>3, <3>2, <4>3 DEF Single
      <4> QED BY <2>3, <3>2, <4>1, <4>4, OverEcho
    <3> QED BY <3>1, <3>2
  <2> QED BY <1>1, <1>2, <2>1, <2>2, <2>3, GoesTouch
<1> QED BY <1>4, <1>5

\* recv() is over.
LEMMA RecvEndProbe ==
    ASSUME OneCaller, OwnInv, ProbeTurn, NEW c \in Callers, Matched(c) \/ Timeout(c)
    PROVE  ProbeTurn'
<1> DEFINE t == th[c]
           s == ses[channel]
           lost == s.lost \cup Overlooked(t)
           r == [s EXCEPT !.lost = lost]
<1>1. /\ t \in Thread /\ Local(t) /\ Single(t) /\ t.pc = "recv" /\ t.conn = channel
      /\ Waiting(t) /\ Typed /\ UNCHANGED channel
  BY ProbeNow DEF Matched, Timeout
<1>2. /\ t.pc \in Exchanging /\ t.todo # << >> /\ channel # 0
      /\ channel \in 1 .. MaxChans /\ s \in Session /\ ses \in [1 .. MaxChans -> Session]
  <2>1. t.pc \in Exchanging /\ t.todo # << >> /\ channel # 0
    BY <1>1 DEF Waiting, Exchanging
  <2> QED BY <2>1, ProbeNow DEF Typed
<1>3. ses'[channel] = r BY <1>1, <1>2 DEF Matched, Timeout
<1>4. r.wire = s.wire /\ r.inbox = s.inbox /\ r.closed = s.closed /\ r.lost = lost
  BY <1>2 DEF Session
<1> HIDE DEF r
<1>5. ~s.closed => WaitOver(t, s, r) BY <1>1, <1>2, <1>4, ProbeNow DEF WaitOver
<1>6. CASE Raised(c) /\ Head(t.todo).raise
  <2>1. Head(t.todo).what # "greet" BY <1>1, <1>2, <1>6, WaitLines
  <2>2. ~s.closed => Rest(r) BY <1>1, <1>5, <2>1, OverRest
  <2>3. PICK u : /\ Moves(c, u)
                 /\ \/ u = Idle /\ res'[c].kind # "done"
                    \/ /\ u.op = "echo" /\ u.plan = t.plan /\ u.got = << >>
                       /\ \/ t.op = "probe" /\ u.pc = "check" /\ ~u.intact
                          \/ /\ t.op = "echo" /\ t.login /\ u.pc = "verdict"
                             /\ u.clean = t.clean /\ u.intact = t.intact
    BY <1>1, <1>6, RaisedProbe
  <2>4. u = Idle => u.pc = "idle" /\ u.op = "none" /\ u.got = << >> BY DEF Idle
  <2>5. u.got = << >> /\ u.pc \in {"idle", "check", "verdict"} BY <2>3, <2>4
  <2>6. ~Sent(u) /\ u.pc \notin Exchanging /\ u.pc # "recv" BY <2>5 DEF Sent, Exchanging
  <2>7. Single(u) BY <1>1, <2>3, <2>4, <2>6 DEF Single
  <2>8. u.pc = "idle" => res'[c].kind # "done" BY <2>3
  <2>9. ASSUME ~s.closed PROVE Touch(u, r)
    <3>1. t.login => AtEase(r)
      <4>1. t.login => Head(t.todo).what \in {"ps1", "ls"}
        BY <1>1, <1>2, <2>1, AbsorbProbe
      <4> QED BY <1>1, <1>5, <2>9, <4>1, OverLogin
    <3>2. u.op = "echo" /\ u.clean /\ u.intact => u.pc = "verdict" /\ AtEase(r)
      BY <2>3, <2>4, <3>1
    <3> QED BY <2>2, <2>5, <2>6, <2>9, <3>2, RestTouch
  <2> QED BY <1>1, <1>3, <1>4, <2>3, <2>6, <2>7, <2>8, <2>9, ProbeFrame DEF Lasting
<1>7. ASSUME NEW m \in BOOLEAN, m => Sees(t), ~m => ~Head(t.todo).raise,
             Continue(c, Absorb(t, m))
      PROVE  ProbeTurn'
  <2> DEFINE w == Absorb(t, m)
  <2>1. /\ w.op = t.op /\ w.plan = t.plan /\ w.login = t.login /\ w.got = << >>
        /\ ~t.login /\ t.op \in {"probe", "echo"} => w.todo = << >>
    BY <1>1, <1>2, AbsorbProbe
  <2>2. w \in Thread BY <1>1, <1>2, AbsorbType
  <2>3. PICK u : Moves(c, u) /\ Goes(w, u) /\ (u.pc = "idle" => res'[c].op # "echo")
    BY <1>1, <1>7, <2>1, <2>2, ContinueProbe
  <2>4. ~s.closed => Touch(u, r) BY <1>1, <1>5, <1>7, <2>3, WaitGoes
  <2> HIDE DEF w
  <2>5. Single(u) /\ u.pc # "recv" BY <1>1, <2>1, <2>3, GoesSingle
  <2> QED BY <1>1, <1>3, <1>4, <2>3, <2>4, <2>5, ProbeFrame DEF Lasting
<1>8. \/ Raised(c) /\ Head(t.todo).raise
      \/ Sees(t) /\ Continue(c, Absorb(t, TRUE))
      \/ ~Head(t.todo).raise /\ Continue(c, Absorb(t, FALSE))
  BY DEF Matched, Timeout
<1> QED BY <1>6, <1>7, <1>8

\* The remote shell and the network.
LEMMA RemoteProbe ==
    ASSUME OwnInv, ProbeTurn,
           (\E ch \in 1 .. opened : Remote(ch) \/ ChannelDies(ch)) \/ TransportDies
    PROVE  ProbeTurn'
<1>0. /\ channel \in 0 .. opened /\ 1 .. opened \subseteq 1 .. MaxChans
      /\ ses \in [1 .. MaxChans -> Session] /\ UNCHANGED <<channel, th, res>>
  <2>1. UNCHANGED <<channel, th, res>>
    BY DEF Remote, RemoteText, RemotePrompt, ChannelDies, TransportDies, adapter
  <2> QED BY <2>1, ShellAssumption DEF OwnInv, Typed
<1>1. ASSUME channel # 0 /\ ~ses'[channel].closed =>
               /\ ~ses[channel].closed
               /\ \A c \in Callers : Touch(th[c], ses[channel]) => Touch(th[c], ses'[channel])
               /\ AtEase(ses[channel]) => AtEase(ses'[channel])
      PROVE  ProbeTurn'
  <2>1. ASSUME NEW c \in Callers
        PROVE  /\ th[c].pc = "recv" => th[c].conn = channel
               /\ Single(th[c])
               /\ channel # 0 /\ ~ses'[channel].closed =>
                    /\ Touch(th[c], ses'[channel])
                    /\ th[c].pc = "idle" => Lasting(res[c], ses'[channel])
    BY <1>1 DEF ProbeTurn, Lasting, Busy
  <2> QED BY <1>0, <2>1 DEF ProbeTurn, Busy
<1>2. ASSUME NEW ch \in 1 .. opened, NEW r, ses' = [ses EXCEPT ![ch] = r], r.closed = ses[ch].closed,
             NEW tok, Prints(ses[ch], r, tok)
      PROVE  ProbeTurn'
  <2>1. CASE channel = ch
    <3>1. ses'[channel] = r /\ ses[channel] \in Session BY <1>0, <1>2, <2>1
    <3>2. /\ \A c \in Callers : Touch(th[c], ses[channel]) => Touch(th[c], r)
          /\ AtEase(ses[channel]) => AtEase(r)
      BY <1>2, <2>1, <3>1, PrintTouch
    <3> QED BY <1>1, <1>2, <2>1, <3>1, <3>2
  <2>2. CASE channel # ch
    <3>1. channel # 0 => ses'[channel] = ses[channel] BY <1>0, <1>2, <2>2
    <3> QED BY <1>1, <3>1
  <2> QED BY <2>1, <2>2
<1>3. ASSUME NEW ch \in 1 .. opened, RemoteText(ch) PROVE ProbeTurn'
  <2> DEFINE s == ses[ch]
             line == Head(s.inbox)
  <2>0. s \in Session /\ s.inbox # << >> BY <1>0, <1>3 DEF RemoteText
  <2>1. PICK kind \in {"text", "digits", "lookalike", "mimic"} :
          /\ ses' = [ses EXCEPT ![ch].spoke = TRUE,
                                ![ch].wire = Append(@, [line |-> line, kind |-> kind,
                                                        of |-> ses[ch].prev])]
          /\ line.what = "echo" => kind = "digits"
    BY <1>3 DEF RemoteText
  <2> DEFINE tok == [line |-> line, kind |-> kind, of |-> s.prev]
             r == [s EXCEPT !.spoke = TRUE, !.wire = Append(@, tok)]
  <2>2. tok.line = line /\ tok.kind = kind OBVIOUS
  <2>3. ses' = [ses EXCEPT ![ch] = r] BY <1>0, <2>1
  <2>4. /\ r.wire = Append(s.wire, tok) /\ r.lost = s.lost /\ r.closed = s.closed
        /\ r.inbox = s.inbox
    BY <2>0 DEF Session
  <2> HIDE DEF tok, r
  <2>5. Prints(s, r, tok) BY <2>0, <2>1, <2>2, <2>4 DEF Prints
  <2> QED BY <1>2, <2>3, <2>4, <2>5
<1>4. ASSUME NEW ch \in 1 .. opened, RemotePrompt(ch) PROVE ProbeTurn'
  <2> DEFINE s == ses[ch]
             line == Head(s.inbox)
             named == s.named \/ line.what \in {"ps1", "sh1"}
             kind == IF named THEN "prompt" ELSE "rawprompt"
             tok == [line |-> line, of |-> line, kind |-> kind]
             r == [s EXCEPT !.spoke = FALSE, !.named = named, !.inbox = Tail(@),
                            !.prev = IF line.what = "intr" THEN @ ELSE line,
                            !.wire = Append(@, tok)]
  <2>0. s \in Session /\ s.inbox # << >> BY <1>0, <1>4 DEF RemotePrompt
  <2>1. ses' = [ses EXCEPT ![ch] = r] BY <1>0, <1>4 DEF RemotePrompt
  <2>2. kind \in {"prompt", "rawprompt"} OBVIOUS
  <2> HIDE DEF kind
  <2>3. tok.line = line /\ tok.kind = kind OBVIOUS
  <2>4. /\ r.wire = Append(s.wire, tok) /\ r.lost = s.lost /\ r.closed = s.closed
        /\ r.inbox = Tail(s.inbox)
    BY <2>0 DEF Session
  <2> HIDE DEF tok, r
  <2>5. Prints(s, r, tok) BY <2>0, <2>2, <2>3, <2>4 DEF Prints
  <2> QED BY <1>2, <2>1, <2>4, <2>5
<1>5. ASSUME NEW ch \in 1 .. opened, ChannelDies(ch) PROVE ProbeTurn'
  <2> DEFINE r == Shut(ses[ch])
  <2>1. ses[ch] \in Session BY <1>0
  <2>2. ses' = [ses EXCEPT ![ch] = r] BY <1>0, <1>5 DEF ChannelDies
  <2>3. r.closed BY <2>1 DEF Shut, Session
  <2> HIDE DEF r
  <2>4. channel # 0 /\ channel # ch => ses'[channel] = ses[channel] BY <1>0, <2>2
  <2>5. channel = ch => ses'[channel].closed BY <1>0, <2>2, <2>3
  <2> QED BY <1>1, <2>4, <2>5
<1>6. CASE TransportDies
  <2>1. channel # 0 => ses'[channel] = Shut(ses[channel]) /\ ses[channel] \in Session
    BY <1>0, <1>6 DEF TransportDies
  <2>2. channel # 0 => ses'[channel].closed BY <2>1 DEF Shut, Session
  <2> QED BY <1>1, <2>2
<1> QED BY <1>3, <1>4, <1>5, <1>6 DEF Remote

\* The adapter as it is constructed, and every step.
LEMMA ProbeStep ==
    ASSUME OneCaller PROVE (Init => ProbeInv) /\ (ProbeInv /\ [Next]_vars => ProbeInv')
<1>1. ASSUME Init PROVE ProbeInv
  <2>1. OwnInv BY <1>1, OwnInit
  <2>2. channel = 0 /\ \A c \in Callers : th[c] = Idle BY <1>1 DEF Init
  <2>3. Idle.op = "none" /\ Idle.pc = "idle" BY DEF Idle
  <2>4. ProbeTurn BY <2>2, <2>3 DEF ProbeTurn, Single
  <2> QED BY <2>1, <2>4 DEF ProbeInv
<1>2. ASSUME ProbeInv, [Next]_vars PROVE ProbeInv'
  <2>1. OwnInv /\ ProbeTurn /\ OwnInv' BY <1>2, OwnStep DEF ProbeInv
  <2>2. ASSUME NEW c \in Callers, Call(c) PROVE ProbeTurn' BY <2>1, <2>2, CallProbe
  <2>3. ASSUME NEW c \in Callers, CallerStep(c) PROVE ProbeTurn'
    BY <2>1, <2>3, CheckProbe, PlanProbe, ConnectProbe, OpenProbe, DrainProbe, SendProbe,
       ClosedProbe, SendTimeoutProbe, StartRecvProbe, ChunkProbe, RecvEndProbe, VerdictProbe
    DEF CallerStep
  <2>4. ASSUME (\E ch \in 1 .. opened : Remote(ch) \/ ChannelDies(ch)) \/ TransportDies
        PROVE  ProbeTurn'
    BY <2>1, <2>4, RemoteProbe
  <2>5. ASSUME UNCHANGED vars PROVE ProbeTurn' BY <2>1, <2>5 DEF vars, ProbeTurn, Busy
  <2>6. ProbeTurn' BY <1>2, <2>2, <2>3, <2>4, <2>5 DEF Next
  <2> QED BY <2>1, <2>6 DEF ProbeInv
<1> QED BY <1>1, <1>2

\* When one thread uses the adapter, a probe that came back intact finds nothing in
\* flight afterwards, whatever answers earlier runs have lost: the next run reads its
\* own.  Only a login that failed half-way, and an earlier probe without an answer,
\* escape makesure_connection_normal.
THEOREM ProbesClear == ASSUME OneCaller PROVE Spec => []ProbeClears
<1>1. Init => ProbeInv BY ProbeStep
<1>2. ProbeInv /\ [Next]_vars => ProbeInv' BY ProbeStep
<1>3. ProbeInv => ProbeClears
  <2> SUFFICES ASSUME ProbeInv, NEW c \in Callers, \A d \in Callers : ~Busy(d),
                      res[c].clean, channel # 0,
                      ses[channel].lost \cap {"ps1", "ls"} = {}
               PROVE  Aligned(c)
    BY DEF ProbeClears
  <2>1. ~ses[channel].closed => Lasting(res[c], ses[channel]) BY DEF ProbeInv, ProbeTurn
  <2> QED BY <2>1 DEF Aligned, Active, Lasting, AtEase, Still, Quiet
<1> QED BY <1>1, <1>2, <1>3, PTL DEF Spec

=============================================================================
