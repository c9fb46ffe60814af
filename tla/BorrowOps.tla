------------------------------ MODULE BorrowOps ------------------------------
(***************************************************************************)
(* The borrow operations of MemPoolingBaseCase and cli_api.py: scripts of  *)
(* run() calls on one node's shell session.  An operation of the tool goes *)
(* cd, start the app, give the command, exit; one of the CLI is a single   *)
(* run whose exit status counts.  The session executes the lines it is     *)
(* sent in order, in the shell or in the app, whichever reads them, and    *)
(* may be slow; a run that sees no prompt it waits for raises, and the     *)
(* operation is over wherever its script was.  ShellSession has the wire,  *)
(* MemApp the app; here a run is a line and the answers read for it.       *)
(***************************************************************************)
EXTENDS Integers, Sequences, FiniteSets

CONSTANTS Kinds,      \* the operations used, a subset of Operations
          MaxOps,     \* bound on the operations of a behaviour
          MaxDeaths   \* bound on the channels that die

Operations == {"borrow", "shm", "result", "multi", "cliMake", "cliDrop", "cliList", "cliShow"}

ASSUME BorrowOpsAssumption ==
    Kinds \subseteq Operations /\ MaxOps \in Nat /\ MaxDeaths \in Nat

\* What a step sends, whether the default pattern @#> or any prompt ends its wait,
\* and whether echo $? follows (returnCode).
Step(line, any, rc) == [line |-> line, any |-> any, rc |-> rc]
Cd == Step("cd", FALSE, TRUE)
StartApp == Step("app", TRUE, FALSE)
Cmd == Step("cmd", TRUE, FALSE)
Exit == Step("exit", FALSE, TRUE)
Cli == Step("cli", FALSE, TRUE)

ToolKinds == {"borrow", "shm", "result"}
CliKinds == {"cliMake", "cliDrop", "cliList", "cliShow"}

\* Faulty variant of Script: the directory is taken to be the right one already.
ScriptWithoutCd(kind) ==
    IF kind \in CliKinds THEN <<Cli>> ELSE <<StartApp, Cmd, Exit>>

ToolScript == <<Cd, StartApp, Cmd, Exit>>
MultiScript == <<StartApp, Cmd, Cmd, Exit>>

Script(kind) ==
    IF kind \in ToolKinds THEN ToolScript ELSE IF kind = "multi" THEN MultiScript ELSE <<Cli>>

Lines == {"cd", "app", "cmd", "exit", "cli", "rc"}
Texts == {"plain", "banner", "noapp", "notfound", "unknown", "usage", "done", "failed", "rc0", "rc1"}
Line == [op : 1..MaxOps, what : Lines]
Answer == [what : Lines, text : Texts, prompt : {"shell", "app"}]

VARIABLES mode,     \* who reads the next line: the shell, the app, or nobody
          status,   \* the shell's $?
          inbox,    \* the lines sent and not yet executed
          wire,     \* the answers not yet received
          op,       \* the operation under way
          last,     \* what the last operation returned; read by the properties only
          served,   \* the operations whose command took effect; likewise
          deaths

vars == <<mode, status, inbox, wire, op, last, served, deaths>>
remote == <<mode, status, inbox, wire>>

NoOp == [pc |-> "idle", id |-> 0, kind |-> "none", at |-> 0, behind |-> 0, synced |-> FALSE,
         heard |-> {}, rc |-> "none"]
NoReturn == [id |-> 0, kind |-> "none", behind |-> 0, synced |-> FALSE, verdict |-> "none"]

TypeOK ==
    /\ mode \in {"shell", "app", "down"}
    /\ status \in {0, 1}
    /\ inbox \in Seq(Line)
    /\ wire \in Seq(Answer)
    /\ op \in [pc : {"idle", "run", "wait", "ask", "code", "next"}, id : 0..MaxOps,
               kind : Kinds \cup {"none"}, at : 0..4, behind : Nat, synced : BOOLEAN,
               heard : SUBSET Answer, rc : {"none", "0", "1", "-1"}]
    /\ (op.pc # "idle") => op.at \in 1..Len(Script(op.kind))
    /\ last \in [id : 0..MaxOps, kind : Kinds \cup {"none"}, behind : Nat, synced : BOOLEAN,
                 verdict : {"none", "true", "false", "text", "raised"}]
    /\ served \subseteq 1..MaxOps
    /\ deaths \in 0..MaxDeaths

Init ==
    /\ mode = "down"
    /\ status = 0
    /\ inbox = <<>>
    /\ wire = <<>>
    /\ op = NoOp
    /\ last = NoReturn
    /\ served = {}
    /\ deaths = 0

---------------------------------------------------------------------------
(* The session.                                                            *)

Reply(text, prompt) ==
    wire' = Append(wire, [what |-> Head(inbox).what, text |-> text, prompt |-> prompt])

InShell(what) ==
    /\ mode = "shell"
    /\ inbox # <<>>
    /\ Head(inbox).what = what
    /\ inbox' = Tail(inbox)
    /\ UNCHANGED <<op, last, deaths>>

InApp(what) ==
    /\ mode = "app"
    /\ inbox # <<>>
    /\ Head(inbox).what = what
    /\ inbox' = Tail(inbox)
    /\ UNCHANGED <<op, last, deaths>>

Serve == served' = served \cup {Head(inbox).op}

ShellCd == InShell("cd") /\ Reply("plain", "shell") /\ status' = 0 /\ UNCHANGED <<mode, served>>

ShellEcho ==
    /\ InShell("rc")
    /\ Reply(IF status = 0 THEN "rc0" ELSE "rc1", "shell")
    /\ status' = 0
    /\ UNCHANGED <<mode, served>>

\* The app starts, or its file, its library or python3 is missing.
ShellApp ==
    /\ InShell("app")
    /\ \/ mode' = "app" /\ Reply("banner", "app") /\ status' = 0
       \/ mode' = "shell" /\ Reply("noapp", "shell") /\ status' = 1
    /\ UNCHANGED served

ShellCmd ==
    /\ InShell("cmd")
    /\ Reply("notfound", "shell")
    /\ status' = 1
    /\ UNCHANGED <<mode, served>>

\* ubsectl; one that failed may still exit with 0.
ShellCli ==
    /\ InShell("cli")
    /\ \/ Serve /\ Reply("done", "shell") /\ status' = 0
       \/ UNCHANGED served /\ Reply("failed", "shell") /\ status' \in {0, 1}
    /\ UNCHANGED mode

\* exit in the shell ends it: the channel closes and what was sent is lost.
ShellExit ==
    /\ mode = "shell"
    /\ inbox # <<>>
    /\ Head(inbox).what = "exit"
    /\ mode' = "down"
    /\ inbox' = <<>>
    /\ UNCHANGED <<status, wire, op, last, served, deaths>>

\* A command of the app: see MemApp; a usage error may end the app.
AppCmd ==
    /\ InApp("cmd")
    /\ \/ Serve /\ Reply("done", "app") /\ UNCHANGED <<mode, status>>
       \/ UNCHANGED <<served, mode, status>> /\ Reply("failed", "app")
       \/ UNCHANGED served /\ mode' = "shell" /\ Reply("usage", "shell") /\ status' = 1

AppExit ==
    /\ InApp("exit")
    /\ mode' = "shell"
    /\ Reply("plain", "shell")
    /\ status' = 0
    /\ UNCHANGED served

AppUnknown ==
    /\ \E what \in Lines \ {"cmd", "exit"} : InApp(what)
    /\ Reply("unknown", "app")
    /\ UNCHANGED <<mode, status, served>>

Die ==
    /\ mode # "down"
    /\ deaths < MaxDeaths
    /\ deaths' = deaths + 1
    /\ mode' = "down"
    /\ inbox' = <<>>
    /\ UNCHANGED <<status, wire, op, last, served>>

---------------------------------------------------------------------------
(* The operation: run() for each step of its script.                       *)

\* How many lines sent earlier are still to be executed or their answers to be
\* read; a closed channel is replaced, and what it held is gone.
Behind == IF mode = "down" THEN 0 ELSE Len(inbox) + Len(wire)
Quiet == mode # "app" /\ Behind = 0
Here == Script(op.kind)[op.at]

\* Faulty variant of Begin: the steps are counted from zero.
BeginAtZero(kind) ==
    /\ op.pc = "idle"
    /\ last.id < MaxOps
    /\ op' = [NoOp EXCEPT !.pc = "run", !.id = last.id + 1, !.kind = kind]
    /\ UNCHANGED <<remote, last, served, deaths>>

Begin(kind) ==
    /\ op.pc = "idle"
    /\ last.id < MaxOps
    /\ op' = [NoOp EXCEPT !.pc = "run", !.id = last.id + 1, !.kind = kind, !.at = 1,
                          !.behind = Behind, !.synced = Quiet]
    /\ UNCHANGED <<remote, last, served, deaths>>

Return(verdict) ==
    /\ last' = [id |-> op.id, kind |-> op.kind, behind |-> op.behind,
                 synced |-> op.synced, verdict |-> verdict]
    /\ op' = NoOp

\* A wait that times out, or a channel found closed by send() or recv(): the
\* exception leaves the operation where it is.  recv() has read what there was.
Sent == op.pc \in {"wait", "code"}
Matches(a) == a.prompt = "shell" \/ (op.pc = "wait" /\ Here.any)
Answered == \E i \in DOMAIN wire : Matches(wire[i])

Raise ==
    /\ \/ Sent /\ ~Answered
       \/ op.pc \in {"run", "wait", "ask", "code"} /\ mode = "down"
    /\ wire' = IF Sent THEN <<>> ELSE wire
    /\ Return("raised")
    /\ UNCHANGED <<mode, status, inbox, served, deaths>>

\* run() on a closed channel logs in first: a new shell, without the directory and
\* without the app.  When that fails it returns an empty stdout and -1.
Login ==
    /\ op.pc = "run"
    /\ mode = "down"
    /\ mode' = "shell"
    /\ status' = 0
    /\ wire' = <<>>
    /\ UNCHANGED <<inbox, op, last, served, deaths>>

LoginFails ==
    /\ op.pc = "run"
    /\ mode = "down"
    /\ op' = [op EXCEPT !.pc = "next", !.rc = "-1"]
    /\ UNCHANGED <<remote, last, served, deaths>>

Transmit(line, pc) ==
    /\ mode # "down"
    /\ inbox' = Append(inbox, [op |-> op.id, what |-> line])
    /\ op' = [op EXCEPT !.pc = pc]
    /\ UNCHANGED <<mode, status, wire, last, served, deaths>>

Send == op.pc = "run" /\ Transmit(Here.line, "wait")
SendEcho == op.pc = "ask" /\ Transmit("rc", "code")

\* recv() stops at the chunk in which it first sees a prompt it waits for; the
\* chunk may hold answers that came after it.
Receive(n) ==
    /\ n \in DOMAIN wire
    /\ \E i \in 1..n : Matches(wire[i])
    /\ wire' = SubSeq(wire, n + 1, Len(wire))
    /\ UNCHANGED <<mode, status, inbox, last, served, deaths>>

Read(n) == {wire[i] : i \in 1..n}

\* Faulty variant of ReceiveAnswer: the last answer is kept, not the command's.
ReceiveLastAnswer(n) ==
    /\ op.pc = "wait"
    /\ Receive(n)
    /\ op' = [op EXCEPT !.pc = IF Here.rc THEN "ask" ELSE "next", !.heard = Read(n)]

\* The answer to the command is kept, the others are not looked at.
ReceiveAnswer(n) ==
    /\ op.pc = "wait"
    /\ Receive(n)
    /\ op' = [op EXCEPT !.pc = IF Here.rc THEN "ask" ELSE "next",
                        !.heard = IF Here.line \in {"cmd", "cli"} THEN Read(n) ELSE @]

\* The first line of digits in what was read is the status; there may be none.
CodeIn(n) ==
    LET codes == {i \in 1..n : wire[i].text \in {"rc0", "rc1"}}
    IN IF codes = {} THEN "none"
       ELSE IF wire[CHOOSE i \in codes : \A j \in codes : i <= j].text = "rc0" THEN "0" ELSE "1"

ReceiveCode(n) ==
    /\ op.pc = "code"
    /\ Receive(n)
    /\ op' = [op EXCEPT !.pc = "next", !.rc = CodeIn(n)]

\* What the operation makes of the answer.  "ubse_mem_app" stands in the prompt
\* of the app and in the line that starts it.
Heard(text) == \E a \in op.heard : a.text = text
NamesApp == \E a \in op.heard : a.prompt = "app" \/ a.what = "app"
AtAppPrompt == \E a \in op.heard : a.prompt = "app"

\* Faulty variant of SendsExit: exit only after a success.
SendsExitOnSuccess == op.kind \in {"borrow", "multi"} \/ Heard("done")

\* Only mem_shm_borrow and the common operations look before they send exit.
SendsExit ==
    CASE op.kind = "shm" -> NamesApp
      [] op.kind = "result" -> AtAppPrompt
      [] OTHER -> TRUE

\* mem_fd_borrow and its like search the answer for Successfully; mem_borrow_common
\* for the log level before it too, which is the same for all of them.
ToolVerdict == IF Heard("done") THEN "true" ELSE "false"

\* Of a run with another status than 0 stdout is None, in which the create, delete,
\* attach, detach and most display operations cannot search: they raise.  Of a run
\* that could not log in it is empty.
HasStdout == op.rc \in {"0", "-1"}
MakeVerdict == IF Heard("done") /\ ~Heard("failed") THEN "true" ELSE "false"
DropVerdict == IF Heard("done") THEN "true" ELSE "false"

Verdict ==
    CASE op.kind \in {"borrow", "shm"} -> ToolVerdict
      [] op.kind \in {"result", "multi", "cliShow"} -> "text"
      [] op.kind \in {"cliMake", "cliDrop", "cliList"} /\ ~HasStdout -> "raised"
      [] op.kind = "cliMake" /\ HasStdout -> MakeVerdict
      [] op.kind = "cliDrop" /\ HasStdout -> DropVerdict
      [] op.kind = "cliList" /\ HasStdout -> "text"

AtEnd ==
    \/ op.at = Len(Script(op.kind))
    \/ Script(op.kind)[op.at + 1].line = "exit" /\ ~SendsExit

Continue ==
    /\ op.pc = "next"
    /\ IF AtEnd THEN Return(Verdict)
       ELSE op' = [op EXCEPT !.pc = "run", !.at = @ + 1] /\ UNCHANGED last
    /\ UNCHANGED <<remote, served, deaths>>

---------------------------------------------------------------------------
Remote ==
    \/ ShellCd \/ ShellEcho \/ ShellApp \/ ShellCmd \/ ShellCli \/ ShellExit
    \/ AppCmd \/ AppExit \/ AppUnknown

Tester ==
    \/ Raise \/ Login \/ LoginFails \/ Send \/ SendEcho \/ Continue
    \/ \E n \in DOMAIN wire : ReceiveAnswer(n) \/ ReceiveCode(n)

Next == Remote \/ Tester \/ Die \/ \E kind \in Kinds : Begin(kind)

Spec == Init /\ [][Next]_vars

---------------------------------------------------------------------------
(* Properties.                                                             *)

\* mem_fd_borrow, mem_numa_borrow, mem_shm_borrow, mem_borrow_common: success is
\* reported for the operation's own command, even in a session that operations
\* which raised have left behind -- late answers, an app that still runs -- as long
\* as fewer answers are outstanding than the operation waits for up to its command
\* (cd, echo $?, the app, the command).  The CLI operations wait for nothing before
\* their command: theirs holds when nothing is outstanding.
TrueIsOwn ==
    (last.verdict = "true" /\ last.behind < (IF last.kind \in CliKinds THEN 1 ELSE 4))
    => last.id \in served

\* In a session in step, an operation that reports failure has changed nothing:
\* one whose command was carried out reports it, or raises.
FalseIsFailure ==
    last.verdict = "false" /\ last.synced => last.id \notin served

\* An operation that began in a session in step and did not raise leaves it in
\* step: in the shell, out of the app, with nothing unread -- or closed, so that
\* the next run logs in.
LeavesShell ==
    (op.pc = "idle" /\ last.synced /\ last.verdict # "raised") => Quiet
=============================================================================
