---------------------------- MODULE ShellSession ----------------------------
(***************************************************************************)
(* The SSH shell session every command of the framework goes through:      *)
(* NodeAdapter in src/libs/host/node_adapter.py.                           *)
(*                                                                         *)
(* One adapter object keeps one interactive shell open and multiplexes all *)
(* commands over it.  There are no message identifiers: recv() reads the   *)
(* byte stream until a prompt pattern matches, so the answer of a command  *)
(* is whatever stands before the next prompt.  This module models the      *)
(* adapter's fields, the callers (threads of a test) that use it without a *)
(* lock, and the remote shells at the other end of its channels.           *)
(*                                                                         *)
(* Data is abstracted to what attribution needs: a line sent to the shell  *)
(* is the run it belongs to, what it is for and its index; a token of the  *)
(* output stream carries the line that produced it.  Windows hosts, output *)
(* formatting and log messages are left out.                               *)
(***************************************************************************)
EXTENDS Naturals, Sequences, FiniteSets

CONSTANTS Callers,    \* threads that share the adapter object
          Ops,        \* operations the callers use, a subset of OpNames
          Plans,      \* command specifications run() is called with
          MaxRuns,    \* bound on the operations started
          MaxChans    \* bound on the shell channels opened

OpNames == {"run", "reconnect", "sftp", "probe"}

\* The keys of cmd_spec that run() branches on.
PlanType == [cd: BOOLEAN,         \* "directory" given
             inputs: Nat,         \* number of "input" pairs
             custom: BOOLEAN,     \* caller's own "waitstr"
             raise: BOOLEAN,      \* "raise_exception_if_timeout"
             interrupt: BOOLEAN,  \* "cmd_timeout_interrupt"
             shnormal: BOOLEAN,   \* "shnormal"
             code: BOOLEAN,       \* "returnCode"
             clear: BOOLEAN]      \* "clearChannel"

\* What basic.run passes for the two commands of makesure_connection_normal.
ProbePlan == [cd |-> FALSE, inputs |-> 0, custom |-> FALSE, raise |-> TRUE,
              interrupt |-> FALSE, shnormal |-> FALSE, code |-> FALSE,
              clear |-> FALSE]

ASSUME ShellAssumption ==
    /\ Ops \subseteq OpNames
    /\ Plans \subseteq PlanType
    /\ MaxRuns \in Nat
    /\ MaxChans \in Nat

-----------------------------------------------------------------------------
(* Lines, tokens and exchanges *)

\* A line typed into the shell.  "greet" is the login banner, answered though
\* nothing was sent; "sh1"/"sh2" are the two lines of the shnormal option.
Purposes == {"greet", "ps1", "ls", "cd", "cmd", "intr", "sh1", "sh2",
             "status", "probe", "echo", "none"}
Line == [run: Nat, what: Purposes, k: Nat]
NoLine == [run |-> 0, what |-> "none", k |-> 0]

\* A piece of the output stream.  "rawprompt" is the prompt before PS1 is set,
\* "lookalike" output that the default class or a caller's pattern takes for a
\* prompt, "mimic" output that contains '@#>' itself, "digits" a line of digits
\* only, and `of' the line whose exit status the digits are.
TokenKinds == {"text", "digits", "lookalike", "mimic", "prompt", "rawprompt"}
Token == [line: Line, kind: TokenKinds, of: Line]
NoToken == [line |-> NoLine, kind |-> "text", of |-> NoLine]

\* One exec_command(): the line to send, the pattern to wait for, and whether a
\* timeout raises TimeoutException.
Exchange == [what: Purposes, k: Nat, pat: {"strict", "loose"}, raise: BOOLEAN]
X(what, k, pat, raise) == [what |-> what, k |-> k, pat |-> pat, raise |-> raise]

\* re.search(waitstr, recv_data): '@#>' matches the prompt login() sets; the
\* default class [#|>] and the callers' own patterns also match other output.
Accepts(x, t) ==
    \/ t.kind \in {"prompt", "mimic"}
    \/ x.pat = "loose" /\ t.kind \in {"rawprompt", "lookalike"}

LoginExchanges == << X("greet", 0, "loose", FALSE),
                     X("ps1", 0, "strict", TRUE),
                     X("ls", 0, "strict", TRUE) >>

\* Faulty variants: the input pairs counted from one too low; the prompt restored
\* whether asked or not.
RunExchangesOffByOne(op, p, normal) ==
    [i \in 1 .. p.inputs + 1 |-> X(IF op = "run" THEN "cmd" ELSE op, i - 2, "loose", p.raise)]
RunExchangesAlwaysNormal(op, p, normal) ==
    << X(IF op = "run" THEN "cmd" ELSE op, 0, "strict", p.raise),
       X("sh1", 0, "strict", TRUE), X("sh2", 0, "strict", TRUE),
       X("status", 0, "strict", TRUE) >>

\* The exec_command() calls of one run(), in order.  The default pattern is read
\* from waitstrDict, which login() fills only at its very end.
RunExchanges(op, p, normal) ==
    LET base == IF normal THEN "strict" ELSE "loose"
        pat  == IF p.custom THEN "loose" ELSE base
        kind == IF op \in {"probe", "echo"} THEN op ELSE "cmd"
    IN  (IF p.cd THEN << X("cd", 0, pat, FALSE) >> ELSE << >>)
        \o [i \in 1 .. p.inputs + 1 |-> X(kind, i - 1, pat, p.raise)]
        \o (IF p.shnormal
            THEN << X("sh1", 0, "strict", TRUE), X("sh2", 0, "strict", TRUE) >>
            ELSE << >>)
        \o (IF p.code THEN << X("status", 0, base, TRUE) >> ELSE << >>)

-----------------------------------------------------------------------------
VARIABLES transport,   \* self.transport: "none", "dead" or "alive"
          channel,     \* self.channel: 0 for None, else a channel number
          normal,      \* self.waitstrDict has its 'normal' entry
          clearing,    \* self.clear_channel
          ses,         \* the channels and the shells behind them
          opened,      \* number of channels opened so far
          th,          \* what each caller is doing
          res,         \* what each caller's last operation gave
          runs         \* number of operations started so far

adapter == <<transport, channel, normal, clearing>>
vars == <<transport, channel, normal, clearing, ses, opened, th, res, runs>>

\* A channel: whether it is closed, the lines its shell has not answered, the
\* output not read yet, whether the line being executed has printed, the line
\* whose status `$?' is, and whether PS1 has been set.  `lost' and `shared' are
\* history: the purposes of the lines whose prompt was not consumed by their own
\* wait, and whether two callers were ever active at once.
Session == [closed: BOOLEAN, inbox: Seq(Line), wire: Seq(Token), spoke: BOOLEAN,
            prev: Line, named: BOOLEAN, lost: SUBSET Purposes, shared: BOOLEAN]

PCs == {"idle", "check", "connect", "retry", "open", "plan", "send", "sent",
        "recv", "verdict"}

\* A caller: where it is, the exchanges left, the channel recv() reads, the
\* stream read so far (recv_data), stdout and the exit status token so far, and
\* whether the probe of makesure_connection_normal came back as sent.
\* `clean' and `good' are history: the channel was fresh enough when the run
\* started, and every wait so far has consumed its own prompt.
Thread == [pc: PCs, op: OpNames \cup {"echo", "none"}, run: Nat, plan: PlanType,
           todo: Seq(Exchange), login: BOOLEAN, intact: BOOLEAN, conn: Nat,
           got: Seq(Token), out: SUBSET Token, rc: Token,
           clean: BOOLEAN, good: BOOLEAN]
Idle == [pc |-> "idle", op |-> "none", run |-> 0, plan |-> ProbePlan,
         todo |-> << >>, login |-> FALSE, intact |-> TRUE, conn |-> 0,
         got |-> << >>, out |-> {}, rc |-> NoToken, clean |-> FALSE, good |-> TRUE]

Result == [kind: {"none", "failed", "raised", "done"},
           op: OpNames \cup {"echo", "none"}, run: Nat, plan: PlanType,
           out: SUBSET Token, rc: Token, clean: BOOLEAN, good: BOOLEAN]
NoResult == [kind |-> "none", op |-> "none", run |-> 0, plan |-> ProbePlan,
             out |-> {}, rc |-> NoToken, clean |-> FALSE, good |-> TRUE]

TypeOK ==
    /\ transport \in {"none", "dead", "alive"}
    /\ channel \in 0 .. opened
    /\ normal \in BOOLEAN
    /\ clearing \in BOOLEAN
    /\ opened \in 0 .. MaxChans
    /\ ses \in [1 .. MaxChans -> Session]
    /\ th \in [Callers -> Thread]
    /\ res \in [Callers -> Result]
    /\ runs \in 0 .. MaxRuns
    /\ \A c \in Callers : th[c].conn \in 0 .. opened

Init ==
    /\ transport = "none"
    /\ channel = 0
    /\ normal = FALSE
    /\ clearing = FALSE
    /\ opened = 0
    /\ ses = [ch \in 1 .. MaxChans |->
                [closed |-> TRUE, inbox |-> << >>, wire |-> << >>, spoke |-> FALSE,
                 prev |-> NoLine, named |-> FALSE, lost |-> {}, shared |-> FALSE]]
    /\ th = [c \in Callers |-> Idle]
    /\ res = [c \in Callers |-> NoResult]
    /\ runs = 0

Busy(c) == th[c].pc # "idle"
Alone(c) == \A d \in Callers \ {c} : ~Busy(d)
Active == channel # 0 /\ ~ses[channel].closed
Quiet(ch) == ses[ch].wire = << >> /\ ses[ch].inbox = << >>
RunPurposes == {"cd", "cmd", "intr", "sh1", "sh2", "status"}
Undisturbed(ch) == ses[ch].lost = {} /\ ~ses[ch].shared

\* The channel lost at most answers for the given purposes, and is not shared.
Fresh(purposes) == /\ channel # 0
                   /\ ses[channel].lost \subseteq purposes
                   /\ ~ses[channel].shared

Shut(s) == [s EXCEPT !.closed = TRUE, !.inbox = << >>]

-----------------------------------------------------------------------------
(* Ending a call *)

\* The caller's operation is over; `kind' is how.
Finish(c, t, kind) ==
    /\ th' = [th EXCEPT ![c] = Idle]
    /\ res' = [res EXCEPT ![c] =
                 [kind |-> kind, op |-> t.op, run |-> t.run, plan |-> t.plan,
                  out |-> t.out, rc |-> t.rc, good |-> t.good,
                  clean |-> t.clean /\ channel # 0 /\ ~ses[channel].shared]]

\* run() returned.  basic.run's command is followed by its own `echo $?', and
\* makesure_connection_normal then looks at what the first of the two printed.
Returned(c, t, kind) ==
    CASE t.op = "probe" ->
           /\ th' = [th EXCEPT ![c] = [t EXCEPT !.pc = "check", !.op = "echo",
                                       !.login = FALSE,
                                       !.intact = @ /\ kind = "done"]]
           /\ UNCHANGED res
      [] t.op = "echo" ->
           /\ th' = [th EXCEPT ![c] = [t EXCEPT !.pc = "verdict", !.login = FALSE]]
           /\ UNCHANGED res
      [] OTHER -> Finish(c, t, kind)

\* An exception inside login() becomes rc -1 in run() and False in putFile() and
\* getFile(); everywhere else it reaches the test.
Raised(c) ==
    IF th[c].login /\ th[c].op # "reconnect"
    THEN Returned(c, [th[c] EXCEPT !.todo = << >>, !.got = << >>, !.conn = 0],
                  "failed")
    ELSE Finish(c, th[c], "raised")

\* close(): a no-op unless there is a transport object.
Close ==
    IF transport = "none"
    THEN UNCHANGED <<transport, channel, ses>>
    ELSE /\ transport' = "none"
         /\ channel' = 0
         /\ ses' = [ch \in DOMAIN ses |-> Shut(ses[ch])]

-----------------------------------------------------------------------------
(* Entry points *)

MarkShared(c, s) == [ch \in DOMAIN s |-> [s[ch] EXCEPT !.shared = @ \/ ~Alone(c)]]

Start(c, op, p, pc, login) ==
    /\ th[c].pc = "idle"
    /\ runs < MaxRuns
    /\ runs' = runs + 1
    /\ th' = [th EXCEPT ![c] = [Idle EXCEPT !.pc = pc, !.op = op, !.plan = p,
                                            !.run = runs + 1, !.login = login]]
    /\ res' = [res EXCEPT ![c] = NoResult]

\* run(), and the first command of makesure_connection_normal.
CallRun(c) ==
    /\ \E op \in Ops \cap {"run", "probe"} :
         \E p \in (IF op = "run" THEN Plans ELSE {ProbePlan}) :
           Start(c, op, p, "check", FALSE)
    /\ ses' = MarkShared(c, ses)
    /\ UNCHANGED <<adapter, opened>>

\* reconnect(): close(), then login().
CallReconnect(c) ==
    /\ "reconnect" \in Ops
    /\ Start(c, "reconnect", ProbePlan, "connect", TRUE)
    /\ IF transport = "none"
       THEN /\ ses' = MarkShared(c, ses)
            /\ UNCHANGED <<transport, channel>>
       ELSE /\ transport' = "none"
            /\ channel' = 0
            /\ ses' = [ch \in DOMAIN ses |-> Shut(MarkShared(c, ses)[ch])]
    /\ UNCHANGED <<normal, clearing, opened>>

\* putFile() and getFile(): log in only when the transport is gone.
CallSftp(c) ==
    /\ "sftp" \in Ops
    /\ transport # "alive"
    /\ Start(c, "sftp", ProbePlan, "connect", TRUE)
    /\ ses' = MarkShared(c, ses)
    /\ UNCHANGED <<adapter, opened>>

\* run() logs in first when the channel is not open.
Check(c) ==
    /\ th[c].pc = "check"
    /\ th' = [th EXCEPT ![c].pc = IF Active THEN "plan" ELSE "connect",
                        ![c].login = ~Active]
    /\ UNCHANGED <<adapter, ses, opened, res, runs>>

\* run() fixes its patterns and its list of exchanges.
MakePlan(c) ==
    /\ th[c].pc = "plan"
    /\ LET t == th[c] IN
         /\ th' = [th EXCEPT ![c] =
                     [t EXCEPT !.pc = "send", !.todo = RunExchanges(t.op, t.plan, normal),
                               !.good = TRUE,
                               !.clean = CASE t.op = "run" -> Fresh({})
                                           [] t.op = "probe" -> Fresh(RunPurposes)
                                           [] OTHER -> @]]
         /\ clearing' = (clearing \/ t.plan.clear)
    /\ UNCHANGED <<transport, channel, normal, ses, opened, res, runs>>

-----------------------------------------------------------------------------
(* login() *)

\* create_client() tries three times.  A try is refused before there is a
\* Transport object, leaves a Transport whose handshake failed, or succeeds; the
\* object of a failed try is what the function returns when no later one works.
Attempts == {"refused", "unusable", "alive"}
CreateClient(tries) ==
    IF \E i \in 1 .. 3 : tries[i] = "alive" THEN "alive"
    ELSE IF \E i \in 1 .. 3 : tries[i] = "unusable" THEN "dead" ELSE "raises"
CreateOutcomes == {CreateClient(tries) : tries \in [1 .. 3 -> Attempts]}

\* An active transport is kept, else create_client() makes one; authenticate.
Connect(c) ==
    /\ th[c].pc \in {"connect", "retry"}
    /\ transport' = "alive"
    /\ th' = [th EXCEPT ![c].pc = "open"]
    /\ UNCHANGED <<channel, normal, clearing, ses, opened, res, runs>>

\* The first pass raises: close() what there is, then try once more.  The object
\* close() sees is the one create_client() returned, if it did.
ConnectRaises(c) ==
    /\ th[c].pc = "connect"
    /\ th' = [th EXCEPT ![c].pc = "retry"]
    /\ \/ /\ transport = "none" /\ "raises" \in CreateOutcomes
          /\ UNCHANGED <<transport, channel, ses>>
       \/ /\ transport' = "none"
          /\ channel' = 0
          /\ ses' = [ch \in DOMAIN ses |-> Shut(ses[ch])]
    /\ UNCHANGED <<normal, clearing, opened, res, runs>>

\* The second pass raises, from create_client() or from the authentication on
\* the transport create_client() returned.
RetryRaises(c) ==
    /\ th[c].pc = "retry"
    /\ transport' \in {IF r = "raises" THEN transport ELSE r : r \in CreateOutcomes}
    /\ Raised(c)
    /\ UNCHANGED <<channel, normal, clearing, ses, opened, runs>>

\* open_session() and invoke_shell() on the authenticated transport.
OpenSession(c) ==
    /\ th[c].pc = "open"
    /\ transport = "alive"
    /\ opened < MaxChans
    /\ opened' = opened + 1
    /\ channel' = opened + 1
    /\ LET greet == [run |-> th[c].run, what |-> "greet", k |-> 0] IN
         ses' = [ses EXCEPT ![opened + 1] =
                   [closed |-> FALSE, inbox |-> << greet >>, wire |-> << >>,
                    spoke |-> FALSE, prev |-> NoLine, named |-> FALSE,
                    lost |-> {}, shared |-> ~Alone(c)]]
    /\ th' = [th EXCEPT ![c].pc = "sent", ![c].todo = LoginExchanges]
    /\ UNCHANGED <<transport, normal, clearing, res, runs>>

OpenFails(c) ==
    /\ th[c].pc = "open"
    /\ Raised(c)
    /\ UNCHANGED <<adapter, ses, opened, runs>>

-----------------------------------------------------------------------------
(* exec_command(): send(), then recv() *)

LineOf(t) == [run |-> t.run, what |-> Head(t.todo).what, k |-> Head(t.todo).k]

\* send() empties the receive buffer once when clear_channel is set.
Drain(c) ==
    /\ th[c].pc = "send"
    /\ channel # 0
    /\ clearing
    /\ clearing' = FALSE
    /\ ses' = [ses EXCEPT ![channel].wire = << >>,
                          ![channel].lost = IF ses[channel].inbox = << >>
                                            THEN {} ELSE @]
    /\ UNCHANGED <<transport, channel, normal, opened, th, res, runs>>

\* Faulty variant: a command is sent again after a socket.timeout that came late.
SendTwice(c) ==
    /\ th[c].pc = "send"
    /\ Active
    /\ ~clearing
    /\ ses' = [ses EXCEPT ![channel].inbox =
                 @ \o [i \in 1 .. IF LineOf(th[c]).what = "cmd" THEN 2 ELSE 1 |-> LineOf(th[c])]]
    /\ th' = [th EXCEPT ![c].pc = "sent"]
    /\ UNCHANGED <<adapter, opened, res, runs>>

Send(c) ==
    /\ th[c].pc = "send"
    /\ Active
    /\ ~clearing
    /\ ses' = [ses EXCEPT ![channel].inbox = Append(@, LineOf(th[c]))]
    /\ th' = [th EXCEPT ![c].pc = "sent"]
    /\ UNCHANGED <<adapter, opened, res, runs>>

\* channel is None, or the socket is closed.
SendRaises(c) ==
    /\ th[c].pc = "send"
    /\ ~Active
    /\ clearing => channel = 0
    /\ Raised(c)
    /\ UNCHANGED <<adapter, ses, opened, runs>>

\* The exchanges that remain after the first; shnormal's two lines are skipped
\* when the last command did not match.
Remaining(todo, matched) ==
    LET rest == Tail(todo) IN
      IF rest # << >> /\ Head(rest).what = "sh1" /\ ~matched
      THEN SubSeq(rest, 3, Len(rest)) ELSE rest

Commands == {"cmd", "probe", "echo"}
Interrupted(t, x, matched) ==
    x.what \in Commands /\ ~matched /\ t.plan.interrupt

\* Faulty variant: the message may stand anywhere in stdout.
EchoWithin(got) == \E i \in DOMAIN got : got[i].line.what = "probe"

\* makesure_connection_normal: stdout is exactly the probe's message.  Prompts before
\* it stand on the line of the command itself, which run() takes away.
EchoIntact(got) ==
    /\ Len(got) >= 2
    /\ got[Len(got) - 1].line.what = "probe"
    /\ \A i \in DOMAIN got : got[i].kind = IF i = Len(got) - 1 THEN "text" ELSE "prompt"

\* _get_last_cmd_status(): the first line made of digits, None if there is none.
FirstDigits(got) ==
    LET First(i) == /\ got[i].kind = "digits"
                    /\ \A j \in 1 .. i - 1 : got[j].kind # "digits"
    IN IF \E i \in DOMAIN got : First(i)
       THEN got[CHOOSE i \in DOMAIN got : First(i)] ELSE NoToken

OwnPrompt(t) ==
    \E i \in DOMAIN t.got : t.got[i].line = LineOf(t)
                         /\ t.got[i].kind \in {"prompt", "rawprompt"}

\* exec_command() returned (got, matched): what run() or login() keeps of it.
Absorb(t, matched) ==
    LET x == Head(t.todo)
        rest == Remaining(t.todo, matched)
    IN [t EXCEPT
          !.todo = IF Interrupted(t, x, matched)
                   THEN << X("intr", x.k, x.pat, TRUE) >> \o rest ELSE rest,
          !.got = << >>,
          !.conn = 0,
          !.intact = IF x.what = "probe" THEN EchoIntact(t.got) ELSE @,
          !.out = IF x.what \in Commands
                  THEN @ \cup {t.got[i] : i \in DOMAIN t.got} ELSE @,
          !.rc = IF x.what = "status" THEN FirstDigits(t.got) ELSE @,
          !.good = @ /\ (OwnPrompt(t) \/ x.what = "greet")]

\* On to the next exchange, or out of login() or run().
Continue(c, t) ==
    \/ /\ t.todo # << >>
       /\ th' = [th EXCEPT ![c] = [t EXCEPT !.pc = "send"]]
       /\ UNCHANGED <<normal, res>>
    \/ /\ t.todo = << >> /\ t.login
       /\ normal' = TRUE
       /\ IF t.op \in {"reconnect", "sftp"}
          THEN Finish(c, t, "done")
          ELSE /\ th' = [th EXCEPT ![c] = [t EXCEPT !.pc = "plan", !.login = FALSE]]
               /\ UNCHANGED res
    \/ /\ t.todo = << >> /\ ~t.login
       /\ UNCHANGED normal
       /\ Returned(c, t, "done")

\* send() gave up after its timeout: exec_command() returns without a match and
\* without raising.  A `cd' that was not sent takes the command after it along.
SendTimeout(c) ==
    /\ th[c].pc = "send"
    /\ Active
    /\ ~clearing
    /\ LET t == th[c]
           u == IF Head(t.todo).what = "cd" /\ Tail(t.todo) # << >>
                THEN [t EXCEPT !.todo = Tail(@)] ELSE t
       IN /\ Continue(c, Absorb(u, FALSE))
          /\ ses' = [ses EXCEPT ![channel].lost =
                       IF t.login THEN @ \cup {Head(t.todo).what} ELSE @]
    /\ UNCHANGED <<transport, channel, clearing, opened, runs>>

\* recv() checks the adapter's channel and keeps reading that one.
StartRecv(c) ==
    /\ th[c].pc = "sent"
    /\ Active
    /\ th' = [th EXCEPT ![c].pc = "recv", ![c].conn = channel]
    /\ UNCHANGED <<adapter, ses, opened, res, runs>>

RecvRaises(c) ==
    /\ th[c].pc = "sent"
    /\ ~Active
    /\ Raised(c)
    /\ UNCHANGED <<adapter, ses, opened, runs>>

\* More of the stream arrives.  A chunk is any number of these steps: the pattern
\* is searched for between chunks, so a read may run past the first match.
RecvChunk(c) ==
    /\ th[c].pc = "recv"
    /\ ses[th[c].conn].wire # << >>
    /\ th' = [th EXCEPT ![c].got = Append(@, Head(ses[th[c].conn].wire))]
    /\ ses' = [ses EXCEPT ![th[c].conn].wire = Tail(@)]
    /\ UNCHANGED <<adapter, opened, res, runs>>

Sees(t) == \E i \in DOMAIN t.got : Accepts(Head(t.todo), t.got[i])

\* History: the purpose of a line whose prompt its own wait left unread.
Overlooked(t) == IF OwnPrompt(t) \/ Head(t.todo).what = "greet"
                 THEN {} ELSE {Head(t.todo).what}

Matched(c) ==
    /\ th[c].pc = "recv"
    /\ Sees(th[c])
    /\ Continue(c, Absorb(th[c], TRUE))
    /\ ses' = [ses EXCEPT ![th[c].conn].lost = @ \cup Overlooked(th[c])]
    /\ UNCHANGED <<transport, channel, clearing, opened, runs>>

\* Faulty variant: an empty read at the end of the stream is retried before the
\* deadline is looked at.
TimeoutUnlessClosed(c) ==
    /\ th[c].pc = "recv"
    /\ ~ses[th[c].conn].closed
    /\ ~Sees(th[c])
    /\ IF Head(th[c].todo).raise
       THEN /\ Raised(c)
            /\ UNCHANGED normal
       ELSE Continue(c, Absorb(th[c], FALSE))
    /\ ses' = [ses EXCEPT ![th[c].conn].lost = @ \cup Overlooked(th[c])]
    /\ UNCHANGED <<transport, channel, clearing, opened, runs>>

\* No match before the deadline, whether the shell is slow, silent or gone.
Timeout(c) ==
    /\ th[c].pc = "recv"
    /\ ~Sees(th[c])
    /\ IF Head(th[c].todo).raise
       THEN /\ Raised(c)
            /\ UNCHANGED normal
       ELSE Continue(c, Absorb(th[c], FALSE))
    /\ ses' = [ses EXCEPT ![th[c].conn].lost = @ \cup Overlooked(th[c])]
    /\ UNCHANGED <<transport, channel, clearing, opened, runs>>

\* makesure_connection_normal: reconnect unless the probe came back intact.
Verdict(c) ==
    /\ th[c].pc = "verdict"
    /\ \/ /\ th[c].intact
          /\ Finish(c, th[c], "done")
          /\ UNCHANGED <<transport, channel, ses>>
       \/ /\ ~th[c].intact
          /\ Close
          /\ th' = [th EXCEPT ![c].pc = "connect", ![c].op = "reconnect",
                              ![c].login = TRUE]
          /\ UNCHANGED res
    /\ UNCHANGED <<normal, clearing, opened, runs>>

-----------------------------------------------------------------------------
(* The remote shells and the network *)

\* The shell prints while it executes the first unanswered line.  Only output that
\* matters to a pattern or to the exit status is kept.
RemoteText(ch) ==
    /\ ses[ch].inbox # << >>
    /\ ~ses[ch].spoke
    /\ LET line == Head(ses[ch].inbox)
           kinds == CASE line.what \in {"status", "echo"} -> {"digits"}
                      [] line.what = "probe" -> {"text"}
                      [] line.what = "greet" -> {"lookalike"}
                      [] line.what \in {"cmd", "cd"} -> {"digits", "lookalike", "mimic"}
                      [] OTHER -> {}
       IN \E kind \in kinds :
            ses' = [ses EXCEPT ![ch].spoke = TRUE,
                               ![ch].wire = Append(@, [line |-> line, kind |-> kind,
                                                       of |-> ses[ch].prev])]
    /\ UNCHANGED <<adapter, opened, th, res, runs>>

\* The line is done: the shell prompts and turns to the next one.  An interrupt
\* ends in an empty line, which leaves `$?' alone.
RemotePrompt(ch) ==
    /\ ses[ch].inbox # << >>
    /\ LET line  == Head(ses[ch].inbox)
           named == ses[ch].named \/ line.what \in {"ps1", "sh1"}
       IN /\ line.what \in {"status", "echo", "probe"} => ses[ch].spoke
          /\ ses' = [ses EXCEPT
                ![ch].spoke = FALSE,
                ![ch].named = named,
                ![ch].inbox = Tail(@),
                ![ch].prev  = IF line.what = "intr" THEN @ ELSE line,
                ![ch].wire  = Append(@, [line |-> line, of |-> line,
                                         kind |-> IF named THEN "prompt"
                                                  ELSE "rawprompt"])]
    /\ UNCHANGED <<adapter, opened, th, res, runs>>

\* The remote shell exits; what it wrote before can still be read.
ChannelDies(ch) ==
    /\ ~ses[ch].closed
    /\ ses' = [ses EXCEPT ![ch] = Shut(@)]
    /\ UNCHANGED <<adapter, opened, th, res, runs>>

\* The connection drops, and every channel with it.
TransportDies ==
    /\ transport = "alive"
    /\ transport' = "dead"
    /\ ses' = [ch \in DOMAIN ses |-> Shut(ses[ch])]
    /\ UNCHANGED <<channel, normal, clearing, opened, th, res, runs>>

-----------------------------------------------------------------------------
CallerStep(c) ==
    \/ Check(c) \/ MakePlan(c)
    \/ Connect(c) \/ ConnectRaises(c) \/ RetryRaises(c)
    \/ OpenSession(c) \/ OpenFails(c)
    \/ Drain(c) \/ Send(c) \/ SendRaises(c) \/ SendTimeout(c)
    \/ StartRecv(c) \/ RecvRaises(c) \/ RecvChunk(c) \/ Matched(c) \/ Timeout(c)
    \/ Verdict(c)

Call(c) == CallRun(c) \/ CallReconnect(c) \/ CallSftp(c)

Remote(ch) == RemoteText(ch) \/ RemotePrompt(ch)

Next ==
    \/ \E c \in Callers : Call(c) \/ CallerStep(c)
    \/ \E ch \in 1 .. opened : Remote(ch) \/ ChannelDies(ch)
    \/ TransportDies

Spec == Init /\ [][Next]_vars

\* The callers' code keeps running and time passes, so every wait ends.
FairSpec == Spec /\ \A c \in Callers : WF_vars(CallerStep(c))

-----------------------------------------------------------------------------
(* Properties *)

Answered(c) == res[c].kind = "done" /\ res[c].op = "run" /\ res[c].clean

\* What a run returns as its output was printed by its own lines, when its
\* channel was undisturbed and not shared: recv() starts from an empty buffer
\* and every earlier wait has consumed its prompt.
AnswerIsOwn == \A c \in Callers :
    Answered(c) => \A t \in res[c].out : t.line.run = res[c].run

\* The rc of such a run was printed by its own `echo $?' and is the status of
\* its own last command, if every wait matched its own prompt and the shell was
\* not "restored to normal" in between.
RcIsOwn == \A c \in Callers :
    LET r == res[c] IN
      Answered(c) /\ r.good /\ r.plan.code =>
        /\ r.rc.line = [run |-> r.run, what |-> "status", k |-> 0]
        /\ ~r.plan.shnormal =>
             r.rc.of = [run |-> r.run, what |-> "cmd", k |-> r.plan.inputs]

\* Between operations nothing is in flight on an undisturbed channel: no answer
\* is left for the next run to take for its own.
QuietBetweenRuns ==
    Active /\ Undisturbed(channel) /\ (\A c \in Callers : ~Busy(c))
      => Quiet(channel)

Aligned(c) ==
    res[c].kind = "done" /\ res[c].op = "echo" /\ Active => Quiet(channel)

\* makesure_connection_normal finds every misalignment that run() left, provided
\* no earlier probe lost its answer and no login failed half-way: after a probe
\* that came back intact nothing is in flight.
ProbeClears == \A c \in Callers :
    /\ \A d \in Callers : ~Busy(d)
    /\ res[c].clean
    /\ channel # 0 /\ ses[channel].lost \cap {"ps1", "ls"} = {}
    => Aligned(c)

\* Every operation ends, whatever the remote side does: each wait has a deadline.
OperationEnds == \A c \in Callers : Busy(c) ~> ~Busy(c)

=============================================================================
