--------------------------- MODULE BorrowOps_proofs ---------------------------
(***************************************************************************)
(* What a borrow operation reports is its own: the theorems behind         *)
(* TrueIsOwn, FalseIsFailure and LeavesShell of BorrowOps, for any number  *)
(* of operations and of channels that die.                                 *)
(***************************************************************************)
EXTENDS BorrowOps, SequenceTheorems, TLAPS

OpPCs == {"idle", "run", "wait", "ask", "code", "next"}
OpStates == [pc : OpPCs, id : 0..MaxOps, kind : Kinds \cup {"none"}, at : 0..4, behind : Nat,
             synced : BOOLEAN, heard : SUBSET Answer, rc : {"none", "0", "1", "-1"}]
Verdicts == {"none", "true", "false", "text", "raised"}
Returns == [id : 0..MaxOps, kind : Kinds \cup {"none"}, behind : Nat, synced : BOOLEAN,
            verdict : Verdicts]

-----------------------------------------------------------------------------
(* Sequences and scripts                                                   *)

\* The first of a queue goes.
LEMMA TailIs ==
    ASSUME NEW S, NEW s \in Seq(S), s # << >>
    PROVE  /\ Len(s) \in Nat /\ Len(s) >= 1 /\ Head(s) = s[1] /\ Head(s) \in S
           /\ Tail(s) \in Seq(S) /\ Len(Tail(s)) = Len(s) - 1
           /\ \A i \in 1..(Len(s) - 1) : Tail(s)[i] = s[i + 1]
OBVIOUS

\* One more joins it.
LEMMA AppendIs ==
    ASSUME NEW S, NEW s \in Seq(S), NEW x \in S
    PROVE  /\ Len(s) \in Nat /\ Append(s, x) \in Seq(S) /\ Len(Append(s, x)) = Len(s) + 1
           /\ \A i \in 1..Len(s) : Append(s, x)[i] = s[i]
           /\ Append(s, x)[Len(s) + 1] = x
OBVIOUS

\* The first n are read.
LEMMA RestIs ==
    ASSUME NEW S, NEW s \in Seq(S), NEW n \in 1..Len(s)
    PROVE  /\ Len(s) \in Nat /\ SubSeq(s, n + 1, Len(s)) \in Seq(S)
           /\ Len(SubSeq(s, n + 1, Len(s))) = Len(s) - n
           /\ \A i \in 1..(Len(s) - n) : SubSeq(s, n + 1, Len(s))[i] = s[i + n]
<1>1. Len(s) \in Nat /\ n \in Nat /\ \A i \in 1..Len(s) : s[i] \in S
  OBVIOUS
<1>2. SubSeq(s, n + 1, Len(s)) = [i \in 1..(Len(s) - n) |-> s[i + n]]
  BY <1>1
<1> QED BY <1>1, <1>2

\* The steps of the scripts.
LEMMA StepsAre ==
    /\ Cd.line = "cd" /\ Cd.any = FALSE /\ Cd.rc = TRUE
    /\ StartApp.line = "app" /\ StartApp.any = TRUE /\ StartApp.rc = FALSE
    /\ Cmd.line = "cmd" /\ Cmd.any = TRUE /\ Cmd.rc = FALSE
    /\ Exit.line = "exit" /\ Exit.any = FALSE /\ Exit.rc = TRUE
    /\ Cli.line = "cli" /\ Cli.any = FALSE /\ Cli.rc = TRUE
BY DEF Cd, StartApp, Cmd, Exit, Cli, Step

\* The script of each kind of operation.
LEMMA ScriptIs ==
    ASSUME NEW kind \in Kinds
    PROVE  /\ kind \in ToolKinds \/ kind = "multi" \/ kind \in CliKinds
           /\ kind \in ToolKinds =>
                 /\ kind # "multi" /\ kind \notin CliKinds /\ Len(Script(kind)) = 4
                 /\ Script(kind)[1] = Cd /\ Script(kind)[2] = StartApp
                 /\ Script(kind)[3] = Cmd /\ Script(kind)[4] = Exit
           /\ kind = "multi" =>
                 /\ kind \notin ToolKinds /\ kind \notin CliKinds /\ Len(Script(kind)) = 4
                 /\ Script(kind)[1] = StartApp /\ Script(kind)[2] = Cmd
                 /\ Script(kind)[3] = Cmd /\ Script(kind)[4] = Exit
           /\ kind \in CliKinds =>
                 /\ kind # "multi" /\ kind \notin ToolKinds /\ Len(Script(kind)) = 1
                 /\ Script(kind)[1] = Cli
<1>1. kind \in Operations BY BorrowOpsAssumption
<1>2. CASE kind \in ToolKinds
  <2>1. Script(kind) = ToolScript BY <1>2 DEF Script
  <2>2. kind # "multi" /\ kind \notin CliKinds BY <1>2 DEF ToolKinds, CliKinds
  <2> QED BY <1>2, <2>1, <2>2 DEF ToolScript
<1>3. CASE kind = "multi"
  <2>1. kind \notin ToolKinds /\ kind \notin CliKinds BY <1>3 DEF ToolKinds, CliKinds
  <2>2. Script(kind) = MultiScript BY <1>3, <2>1 DEF Script
  <2> QED BY <1>3, <2>1, <2>2 DEF MultiScript
<1>4. CASE kind \in CliKinds
  <2>1. kind # "multi" /\ kind \notin ToolKinds BY <1>4 DEF ToolKinds, CliKinds
  <2>2. Script(kind) = <<Cli>> BY <2>1 DEF Script
  <2> QED BY <1>4, <2>1, <2>2
<1> QED BY <1>1, <1>2, <1>3, <1>4 DEF Operations, ToolKinds, CliKinds

\* Where an operation can be.
LEMMA PlacesAre ==
    ASSUME NEW kind \in Kinds, NEW at \in 1..Len(Script(kind))
    PROVE  /\ at \in 1..4
           /\ Script(kind)[at].line \in {"cd", "app", "cmd", "exit", "cli"}
           /\ Script(kind)[at].line \in Lines
           /\ Script(kind)[at].rc \in BOOLEAN /\ Script(kind)[at].any \in BOOLEAN
           /\ Script(kind)[at].line \in {"cd", "exit", "cli"} => Script(kind)[at].rc = TRUE
           /\ Script(kind)[at].line \in {"app", "cmd"} => Script(kind)[at].rc = FALSE
<1>1. \A s \in {Cd, StartApp, Cmd, Exit, Cli} :
         /\ s.line \in {"cd", "app", "cmd", "exit", "cli"} /\ s.line \in Lines
         /\ s.rc \in BOOLEAN /\ s.any \in BOOLEAN
         /\ s.line \in {"cd", "exit", "cli"} => s.rc = TRUE
         /\ s.line \in {"app", "cmd"} => s.rc = FALSE
  BY StepsAre DEF Lines
<1>2. CASE kind \in CliKinds
  <2>1. Len(Script(kind)) = 1 /\ Script(kind)[1] = Cli BY <1>2, ScriptIs
  <2>2. at = 1 BY <2>1
  <2>3. Script(kind)[at] = Cli BY <2>1, <2>2
  <2> QED BY <1>1, <2>2, <2>3
<1>3. CASE kind \in ToolKinds \/ kind = "multi"
  <2>1. /\ Len(Script(kind)) = 4
        /\ \A i \in 1..4 : Script(kind)[i] \in {Cd, StartApp, Cmd, Exit}
    <3>1. \A i \in 1..4 : i = 1 \/ i = 2 \/ i = 3 \/ i = 4 OBVIOUS
    <3> QED BY <1>3, <3>1, ScriptIs
  <2>2. at \in 1..4 /\ Script(kind)[at] \in {Cd, StartApp, Cmd, Exit} BY <2>1
  <2> QED BY <1>1, <2>2
<1> QED BY <1>2, <1>3, ScriptIs

-----------------------------------------------------------------------------
(* Types                                                                   *)

\* Whose lines there may be.
Now == IF op.pc = "idle" THEN last.id ELSE op.id

Typed ==
    /\ TypeOK
    /\ op.pc # "idle" => op.kind \in Kinds /\ op.id = last.id + 1
    /\ \A i \in DOMAIN inbox : inbox[i].op <= Now
    /\ \A k \in served : k <= Now

\* Typed with these names.
LEMMA TypedIs ==
    Typed <=> /\ mode \in {"shell", "app", "down"} /\ status \in {0, 1}
              /\ inbox \in Seq(Line) /\ wire \in Seq(Answer)
              /\ op \in OpStates /\ last \in Returns
              /\ served \subseteq 1..MaxOps /\ deaths \in 0..MaxDeaths
              /\ op.pc # "idle" => /\ op.kind \in Kinds /\ op.id = last.id + 1
                                   /\ op.at \in 1..Len(Script(op.kind))
              /\ \A i \in DOMAIN inbox : inbox[i].op <= Now
              /\ \A k \in served : k <= Now
BY Zenon DEF Typed, TypeOK, OpStates, OpPCs, Returns, Verdicts

\* The step an operation is at.
LEMMA HereIs ==
    ASSUME Typed, op.pc # "idle"
    PROVE  /\ op.kind \in Kinds /\ op.at \in 1..Len(Script(op.kind)) /\ op.at \in 1..4
           /\ op.id \in 1..MaxOps /\ op.id = last.id + 1 /\ Now = op.id
           /\ Here.line \in {"cd", "app", "cmd", "exit", "cli"} /\ Here.line \in Lines
           /\ Here.line \in {"cd", "exit", "cli"} => Here.rc = TRUE
           /\ Here.line \in {"app", "cmd"} => Here.rc = FALSE
<1>1. /\ op.kind \in Kinds /\ op.at \in 1..Len(Script(op.kind)) /\ op.id = last.id + 1
      /\ op \in OpStates /\ last \in Returns
  BY TypedIs
<1>2. op.id \in 0..MaxOps /\ last.id \in 0..MaxOps BY <1>1 DEF OpStates, Returns
<1>3. op.id \in 1..MaxOps BY <1>1, <1>2, BorrowOpsAssumption
<1>4. Now = op.id BY DEF Now
<1> QED BY <1>1, <1>3, <1>4, PlacesAre DEF Here

\* A line executed and answered by the shell or the app.
Executes(text, prompt) ==
    /\ inbox # << >> /\ mode # "down" /\ prompt \in {"shell", "app"} /\ text \in Texts
    /\ inbox' = Tail(inbox)
    /\ wire' = Append(wire, [what |-> Head(inbox).what, text |-> text, prompt |-> prompt])
    /\ mode' = prompt /\ status' \in {0, 1}
    /\ UNCHANGED <<op, last, deaths>>
    /\ \/ text = "done" /\ Head(inbox).what \in {"cmd", "cli"} /\ Serve
       \/ text # "done" /\ UNCHANGED served
    /\ prompt = "app" => (mode = "app" /\ Head(inbox).what # "exit") \/ Head(inbox).what = "app"

\* The channel closes and what was sent is lost.
Closes ==
    /\ mode' = "down" /\ inbox' = << >>
    /\ UNCHANGED <<status, wire, op, last, served>>
    /\ deaths' \in 0..MaxDeaths

\* Every line is executed in one of these ways.
LEMMA RemoteIs ==
    ASSUME Typed, Remote \/ Die
    PROVE  Closes \/ \E text \in Texts, prompt \in {"shell", "app"} : Executes(text, prompt)
<1>1. /\ mode \in {"shell", "app", "down"} /\ status \in {0, 1} /\ deaths \in 0..MaxDeaths
  BY TypedIs
<1> USE DEF InShell, InApp, Reply, Serve, Texts
<1>2. CASE ShellCd
  <2>1. Executes("plain", "shell") BY <1>1, <1>2 DEF ShellCd, Executes
  <2> QED BY <2>1
<1>3. CASE ShellEcho
  <2>1. Executes(IF status = 0 THEN "rc0" ELSE "rc1", "shell") BY <1>1, <1>3 DEF ShellEcho, Executes
  <2> QED BY <2>1
<1>4. CASE ShellApp
  <2>1. Executes("banner", "app") \/ Executes("noapp", "shell") BY <1>1, <1>4 DEF ShellApp, Executes
  <2> QED BY <2>1
<1>5. CASE ShellCmd
  <2>1. Executes("notfound", "shell") BY <1>1, <1>5 DEF ShellCmd, Executes
  <2> QED BY <2>1
<1>6. CASE ShellCli
  <2>1. Executes("done", "shell") \/ Executes("failed", "shell")
    BY <1>1, <1>6 DEF ShellCli, Executes
  <2> QED BY <2>1
<1>7. CASE ShellExit BY <1>1, <1>7 DEF ShellExit, Closes
<1>8. CASE AppCmd
  <2>1. Executes("done", "app") \/ Executes("failed", "app") \/ Executes("usage", "shell")
    BY <1>1, <1>8 DEF AppCmd, Executes
  <2> QED BY <2>1
<1>9. CASE AppExit
  <2>1. Executes("plain", "shell") BY <1>1, <1>9 DEF AppExit, Executes
  <2> QED BY <2>1
<1>10. CASE AppUnknown
  <2>1. PICK what \in Lines \ {"cmd", "exit"} : InApp(what) BY <1>10 DEF AppUnknown
  <2>2. Executes("unknown", "app") BY <1>1, <1>10, <2>1 DEF AppUnknown, Executes
  <2> QED BY <2>2
<1>11. CASE Die
  <2>1. deaths' \in 0..MaxDeaths BY <1>1, <1>11, BorrowOpsAssumption DEF Die
  <2> QED BY <1>11, <2>1 DEF Die, Closes
<1> QED BY <1>2, <1>3, <1>4, <1>5, <1>6, <1>7, <1>8, <1>9, <1>10, <1>11, Zenon DEF Remote

\* A line executed keeps the types.
LEMMA ExecutesTyped ==
    ASSUME Typed, NEW text \in Texts, NEW prompt \in {"shell", "app"}, Executes(text, prompt)
    PROVE  Typed'
<1>1. /\ inbox \in Seq(Line) /\ wire \in Seq(Answer) /\ op \in OpStates /\ last \in Returns
      /\ served \subseteq 1..MaxOps /\ deaths \in 0..MaxDeaths
      /\ op.pc # "idle" => /\ op.kind \in Kinds /\ op.id = last.id + 1
                           /\ op.at \in 1..Len(Script(op.kind))
      /\ \A i \in DOMAIN inbox : inbox[i].op <= Now
      /\ \A k \in served : k <= Now
  BY TypedIs
<1>2. /\ inbox # << >> /\ inbox' = Tail(inbox) /\ mode' = prompt /\ status' \in {0, 1}
      /\ wire' = Append(wire, [what |-> Head(inbox).what, text |-> text, prompt |-> prompt])
      /\ UNCHANGED <<op, last, deaths>>
      /\ served' = served \/ Serve
  BY Zenon DEF Executes
<1>3. /\ Head(inbox) = inbox[1] /\ Head(inbox) \in Line /\ 1 \in DOMAIN inbox
      /\ inbox' \in Seq(Line) /\ Len(inbox') = Len(inbox) - 1
      /\ \A i \in 1..(Len(inbox) - 1) : inbox'[i] = inbox[i + 1]
  BY <1>1, <1>2, TailIs
<1>4. wire' \in Seq(Answer)
  <2>1. [what |-> Head(inbox).what, text |-> text, prompt |-> prompt] \in Answer
    BY <1>3 DEF Line, Answer
  <2> QED BY <1>1, <1>2, <2>1, AppendIs
<1>5. Now' = Now BY <1>2 DEF Now
<1>6. \A i \in DOMAIN inbox' : inbox'[i].op <= Now
  <2>1. DOMAIN inbox = 1..Len(inbox) /\ DOMAIN inbox' = 1..Len(inbox') /\ Len(inbox) \in Nat
    BY <1>1, <1>3
  <2>2. \A i \in 1..(Len(inbox) - 1) : i + 1 \in 1..Len(inbox) BY <2>1
  <2> QED BY <1>1, <1>3, <2>1, <2>2
<1>7. served' \subseteq 1..MaxOps /\ \A k \in served' : k <= Now
  <2>1. Head(inbox).op \in 1..MaxOps /\ Head(inbox).op <= Now BY <1>1, <1>3 DEF Line
  <2> QED BY <1>1, <1>2, <2>1 DEF Serve
<1>8. mode' \in {"shell", "app", "down"} BY <1>2
<1> QED BY <1>1, <1>2, <1>3, <1>4, <1>5, <1>6, <1>7, <1>8 DEF Typed, TypeOK, OpStates, OpPCs,
                                                             Returns, Verdicts

\* A channel that closes keeps the types.
LEMMA ClosesTyped == ASSUME Typed, Closes PROVE Typed'
<1>1. /\ mode' = "down" /\ inbox' = << >> /\ deaths' \in 0..MaxDeaths
      /\ UNCHANGED <<status, wire, op, last, served>>
  BY DEF Closes
<1>2. inbox' \in Seq(Line) /\ DOMAIN inbox' = {} BY <1>1
<1>3. Now' = Now BY <1>1 DEF Now
<1> QED BY <1>1, <1>2, <1>3 DEF Typed, TypeOK

-----------------------------------------------------------------------------
(* The steps of an operation                                               *)

\* What an operation keeps from step to step.
SameOp == /\ op'.id = op.id /\ op'.kind = op.kind /\ op'.behind = op.behind
          /\ op'.synced = op.synced

\* No operation.
LEMMA NoOpIs ==
    /\ NoOp \in OpStates /\ NoOp.pc = "idle" /\ NoOp.id = 0 /\ NoOp.heard = {}
BY BorrowOpsAssumption DEF NoOp, OpStates, OpPCs

\* It begins.
LEMMA BeginGives ==
    ASSUME Typed, NEW kind \in Kinds, Begin(kind)
    PROVE  /\ op.pc = "idle" /\ op' \in OpStates /\ op'.pc = "run" /\ op'.id = last.id + 1
           /\ op'.kind = kind /\ op'.at = 1 /\ op'.behind = Behind /\ op'.synced = Quiet
           /\ op'.heard = {} /\ Behind \in Nat
           /\ UNCHANGED <<mode, status, inbox, wire, last, served, deaths>>
<1>1. op.pc = "idle" /\ last.id < MaxOps /\ UNCHANGED <<mode, status, inbox, wire, last, served, deaths>>
  BY DEF Begin, remote
<1>2. Behind \in Nat BY TypedIs DEF Behind
<1>3. last.id \in 0..MaxOps BY TypedIs DEF Returns
<1>4. Quiet \in BOOLEAN BY <1>2 DEF Quiet
<1> DEFINE b == Behind
           q == Quiet
<1>5. op' = [NoOp EXCEPT !.pc = "run", !.id = last.id + 1, !.kind = kind, !.at = 1,
                         !.behind = b, !.synced = q]
  BY DEF Begin
<1>6. last.id + 1 \in 0..MaxOps BY <1>1, <1>3, BorrowOpsAssumption
<1>7. b \in Nat /\ q \in BOOLEAN BY <1>2, <1>4
<1> HIDE DEF b, q
<1>8. /\ op' \in OpStates /\ op'.pc = "run" /\ op'.id = last.id + 1 /\ op'.kind = kind /\ op'.at = 1
      /\ op'.behind = b /\ op'.synced = q /\ op'.heard = {}
  <2>1. op' = [pc |-> "run", id |-> last.id + 1, kind |-> kind, at |-> 1, behind |-> b,
               synced |-> q, heard |-> {}, rc |-> "none"]
    BY <1>5 DEF NoOp
  <2>2. "run" \in OpPCs /\ kind \in Kinds \cup {"none"} /\ 1 \in 0..4 /\ {} \in SUBSET Answer
    BY DEF OpPCs
  <2> QED BY <1>6, <1>7, <2>1, <2>2 DEF OpStates
<1> QED BY <1>1, <1>2, <1>8 DEF b, q

\* It ends with a verdict.
LEMMA ReturnGives ==
    ASSUME Typed, op.pc # "idle", NEW verdict \in Verdicts, Return(verdict)
    PROVE  /\ op' = NoOp /\ op'.pc = "idle" /\ last' \in Returns
           /\ last'.id = op.id /\ last'.kind = op.kind /\ last'.behind = op.behind
           /\ last'.synced = op.synced /\ last'.verdict = verdict
<1>1. op \in OpStates BY TypedIs
<1>2. /\ op' = NoOp
      /\ last' = [id |-> op.id, kind |-> op.kind, behind |-> op.behind,
                  synced |-> op.synced, verdict |-> verdict]
  BY DEF Return
<1> QED BY <1>1, <1>2, NoOpIs DEF OpStates, Returns

\* It raises.
LEMMA RaiseGives ==
    ASSUME Typed, Raise
    PROVE  /\ op.pc # "idle" /\ op' = NoOp /\ op'.pc = "idle" /\ last' \in Returns
           /\ last'.id = op.id /\ last'.kind = op.kind /\ last'.behind = op.behind
           /\ last'.synced = op.synced /\ last'.verdict = "raised"
           /\ wire' \in {wire, << >>} /\ UNCHANGED <<mode, status, inbox, served, deaths>>
<1>1. op.pc # "idle" BY DEF Raise, Sent
<1>2. Return("raised") /\ UNCHANGED <<mode, status, inbox, served, deaths>> BY DEF Raise
<1>3. wire' \in {wire, << >>} BY DEF Raise
<1>4. "raised" \in Verdicts BY DEF Verdicts
<1> QED BY <1>1, <1>2, <1>3, <1>4, ReturnGives

\* A run logs in.
LEMMA LoginGives ==
    ASSUME Login
    PROVE  /\ op.pc = "run" /\ mode = "down" /\ mode' = "shell" /\ status' = 0 /\ wire' = << >>
           /\ UNCHANGED <<inbox, op, last, served, deaths>>
BY DEF Login

\* It cannot.
LEMMA LoginFailsGives ==
    ASSUME Typed, LoginFails
    PROVE  /\ op.pc = "run" /\ mode = "down" /\ op' \in OpStates /\ op'.pc = "next" /\ SameOp
           /\ op'.at = op.at /\ op'.heard = op.heard /\ Here' = Here
           /\ UNCHANGED <<mode, status, inbox, wire, last, served, deaths>>
<1>1. op \in OpStates BY TypedIs
<1>2. /\ op.pc = "run" /\ mode = "down" /\ op' = [op EXCEPT !.pc = "next", !.rc = "-1"]
      /\ UNCHANGED <<mode, status, inbox, wire, last, served, deaths>>
  BY DEF LoginFails, remote
<1>3. /\ op' \in OpStates /\ op'.pc = "next" /\ SameOp /\ op'.at = op.at /\ op'.heard = op.heard
  BY <1>1, <1>2 DEF OpStates, OpPCs, SameOp
<1> QED BY <1>2, <1>3 DEF Here, SameOp

\* A line is sent.
LEMMA TransmitGives ==
    ASSUME Typed, Send \/ SendEcho
    PROVE  /\ mode # "down" /\ op' \in OpStates /\ SameOp /\ op'.at = op.at
           /\ op'.heard = op.heard /\ Here' = Here
           /\ UNCHANGED <<mode, status, wire, last, served, deaths>>
           /\ \/ /\ op.pc = "run" /\ op'.pc = "wait"
                 /\ inbox' = Append(inbox, [op |-> op.id, what |-> Here.line])
              \/ /\ op.pc = "ask" /\ op'.pc = "code"
                 /\ inbox' = Append(inbox, [op |-> op.id, what |-> "rc"])
<1>1. op \in OpStates BY TypedIs
<1>2. /\ mode # "down" /\ UNCHANGED <<mode, status, wire, last, served, deaths>>
      /\ \/ /\ op.pc = "run" /\ op' = [op EXCEPT !.pc = "wait"]
            /\ inbox' = Append(inbox, [op |-> op.id, what |-> Here.line])
         \/ /\ op.pc = "ask" /\ op' = [op EXCEPT !.pc = "code"]
            /\ inbox' = Append(inbox, [op |-> op.id, what |-> "rc"])
  BY Zenon DEF Send, SendEcho, Transmit
<1>3. /\ op' \in OpStates /\ SameOp /\ op'.at = op.at /\ op'.heard = op.heard
      /\ \/ op.pc = "run" /\ op'.pc = "wait"
         \/ op.pc = "ask" /\ op'.pc = "code"
  BY <1>1, <1>2 DEF OpStates, OpPCs, SameOp
<1>4. Here' = Here BY <1>3 DEF Here, SameOp
<1> QED BY <1>2, <1>3, <1>4

\* The answer to a command is read.
LEMMA ReceiveAnswerGives ==
    ASSUME Typed, NEW n \in DOMAIN wire, ReceiveAnswer(n)
    PROVE  /\ op.pc = "wait" /\ op' \in OpStates /\ SameOp /\ op'.at = op.at /\ Here' = Here
           /\ op'.pc = (IF Here.rc THEN "ask" ELSE "next")
           /\ op'.heard = (IF Here.line \in {"cmd", "cli"} THEN Read(n) ELSE op.heard)
           /\ n \in 1..Len(wire) /\ wire' = SubSeq(wire, n + 1, Len(wire))
           /\ UNCHANGED <<mode, status, inbox, last, served, deaths>>
<1>1. op \in OpStates /\ wire \in Seq(Answer) BY TypedIs
<1>2. n \in 1..Len(wire) BY <1>1
<1>3. Read(n) \in SUBSET Answer BY <1>1, <1>2 DEF Read
<1> DEFINE pc == IF Here.rc THEN "ask" ELSE "next"
           heard == IF Here.line \in {"cmd", "cli"} THEN Read(n) ELSE op.heard
<1>4. /\ op.pc = "wait" /\ op' = [op EXCEPT !.pc = pc, !.heard = heard]
      /\ wire' = SubSeq(wire, n + 1, Len(wire))
      /\ UNCHANGED <<mode, status, inbox, last, served, deaths>>
  BY DEF ReceiveAnswer, Receive
<1>5. pc \in OpPCs /\ heard \in SUBSET Answer
  <2>1. op.heard \in SUBSET Answer BY <1>1 DEF OpStates
  <2> QED BY <1>3, <2>1 DEF OpPCs
<1> HIDE DEF pc, heard
<1>6. /\ op' \in OpStates /\ SameOp /\ op'.at = op.at /\ op'.pc = pc /\ op'.heard = heard
  BY <1>1, <1>4, <1>5 DEF OpStates, SameOp
<1>7. Here' = Here BY <1>6 DEF Here, SameOp
<1> QED BY <1>2, <1>4, <1>6, <1>7 DEF pc, heard

\* The status is read.
LEMMA ReceiveCodeGives ==
    ASSUME Typed, NEW n \in DOMAIN wire, ReceiveCode(n)
    PROVE  /\ op.pc = "code" /\ op' \in OpStates /\ SameOp /\ op'.at = op.at /\ Here' = Here
           /\ op'.pc = "next" /\ op'.heard = op.heard
           /\ n \in 1..Len(wire) /\ wire' = SubSeq(wire, n + 1, Len(wire))
           /\ UNCHANGED <<mode, status, inbox, last, served, deaths>>
<1>1. op \in OpStates /\ wire \in Seq(Answer) BY TypedIs
<1>2. n \in 1..Len(wire) BY <1>1
<1> DEFINE rc == CodeIn(n)
<1>3. rc \in {"none", "0", "1", "-1"}
  <2>1. rc \in {"none", "0", "1"} BY Zenon DEF CodeIn
  <2> QED BY <2>1
<1>4. /\ op.pc = "code" /\ op' = [op EXCEPT !.pc = "next", !.rc = rc]
      /\ wire' = SubSeq(wire, n + 1, Len(wire))
      /\ UNCHANGED <<mode, status, inbox, last, served, deaths>>
  BY DEF ReceiveCode, Receive
<1> HIDE DEF rc
<1>5. /\ op' \in OpStates /\ SameOp /\ op'.at = op.at /\ op'.pc = "next" /\ op'.heard = op.heard
  BY <1>1, <1>3, <1>4 DEF OpStates, OpPCs, SameOp
<1>6. Here' = Here BY <1>5 DEF Here, SameOp
<1> QED BY <1>2, <1>4, <1>5, <1>6

\* The next step, or the end.
LEMMA ContinueGives ==
    ASSUME Typed, Continue
    PROVE  /\ op.pc = "next" /\ UNCHANGED <<mode, status, inbox, wire, served, deaths>>
           /\ \/ AtEnd /\ Verdict \in Verdicts /\ Return(Verdict)
              \/ /\ ~AtEnd /\ op' \in OpStates /\ SameOp /\ op'.pc = "run" /\ op'.at = op.at + 1
                 /\ op.at + 1 \in 1..Len(Script(op.kind)) /\ op'.heard = op.heard
                 /\ UNCHANGED last
<1>1. op \in OpStates BY TypedIs
<1>2. op.pc = "next" /\ UNCHANGED <<mode, status, inbox, wire, served, deaths>>
  BY DEF Continue, remote
<1>3. op.kind \in Kinds /\ op.kind \in Operations /\ op.at \in 1..Len(Script(op.kind)) /\ op.at \in 1..4
  BY <1>2, HereIs, BorrowOpsAssumption
<1>4. CASE AtEnd
  <2>1. Return(Verdict) BY <1>4 DEF Continue
  <2>2. Verdict \in {"true", "false", "text", "raised"}
    <3>1. ToolVerdict \in {"true", "false"} BY Zenon DEF ToolVerdict
    <3>2. MakeVerdict \in {"true", "false"} BY Zenon DEF MakeVerdict
    <3>3. DropVerdict \in {"true", "false"} BY Zenon DEF DropVerdict
    <3>4. HasStdout \/ ~HasStdout OBVIOUS
    <3> QED BY <1>3, <3>1, <3>2, <3>3, <3>4 DEF Verdict, Operations
  <2>3. Verdict \in Verdicts BY <2>2 DEF Verdicts
  <2> QED BY <1>2, <1>4, <2>1, <2>3
<1>5. CASE ~AtEnd
  <2>1. op' = [op EXCEPT !.pc = "run", !.at = @ + 1] /\ UNCHANGED last BY <1>5 DEF Continue
  <2>2. op.at # Len(Script(op.kind)) BY <1>5 DEF AtEnd
  <2>3. Len(Script(op.kind)) \in 1..4 BY <1>3, ScriptIs
  <2>4. op.at + 1 \in 1..Len(Script(op.kind)) /\ op.at + 1 \in 0..4
    <3>1. \A l \in 1..4 : \A k \in 1..l : k # l => k + 1 \in 1..l /\ k + 1 \in 0..4 OBVIOUS
    <3> QED BY <1>3, <2>2, <2>3, <3>1
  <2>5. /\ op' \in OpStates /\ SameOp /\ op'.pc = "run" /\ op'.at = op.at + 1
        /\ op'.heard = op.heard
    BY <1>1, <2>1, <2>4 DEF OpStates, OpPCs, SameOp
  <2> QED BY <1>2, <1>5, <2>1, <2>4, <2>5
<1> QED BY <1>4, <1>5

\* The steps that only change the operation keep the types.
LEMMA OpTyped ==
    ASSUME Typed, op' \in OpStates, op'.pc # "idle", op'.kind = op.kind, op'.id = op.id,
           op.pc # "idle", op'.at \in 1..Len(Script(op.kind)),
           wire' \in Seq(Answer), mode' \in {"shell", "app", "down"}, status' \in {0, 1},
           UNCHANGED <<inbox, last, served, deaths>>
    PROVE  Typed'
<1>1. /\ inbox \in Seq(Line) /\ last \in Returns
      /\ served \subseteq 1..MaxOps /\ deaths \in 0..MaxDeaths
      /\ op.kind \in Kinds /\ op.id = last.id + 1
      /\ \A i \in DOMAIN inbox : inbox[i].op <= Now
      /\ \A k \in served : k <= Now
  BY TypedIs
<1>2. Now' = Now BY DEF Now
<1> QED BY <1>1, <1>2 DEF Typed, TypeOK, OpStates, OpPCs, Returns, Verdicts

\* An operation that ends keeps the types.
LEMMA EndTyped ==
    ASSUME Typed, op.pc # "idle", op' = NoOp, last' \in Returns, last'.id = op.id,
           wire' \in Seq(Answer), UNCHANGED <<mode, status, inbox, served, deaths>>
    PROVE  Typed'
<1>1. /\ inbox \in Seq(Line) /\ mode \in {"shell", "app", "down"} /\ status \in {0, 1}
      /\ served \subseteq 1..MaxOps /\ deaths \in 0..MaxDeaths
      /\ \A i \in DOMAIN inbox : inbox[i].op <= Now
      /\ \A k \in served : k <= Now
  BY TypedIs
<1>2. op' \in OpStates /\ op'.pc = "idle" BY NoOpIs
<1>3. Now' = Now BY <1>2 DEF Now
<1> QED BY <1>1, <1>2, <1>3 DEF Typed, TypeOK, OpStates, OpPCs, Returns, Verdicts

\* A line sent keeps the types.
LEMMA TransmitTyped == ASSUME Typed, Send \/ SendEcho PROVE Typed'
<1>1. /\ inbox \in Seq(Line) /\ wire \in Seq(Answer) /\ last \in Returns /\ op \in OpStates
      /\ mode \in {"shell", "app", "down"} /\ status \in {0, 1}
      /\ served \subseteq 1..MaxOps /\ deaths \in 0..MaxDeaths
      /\ \A i \in DOMAIN inbox : inbox[i].op <= Now
      /\ \A k \in served : k <= Now
  BY TypedIs
<1>2. /\ op' \in OpStates /\ SameOp /\ op'.at = op.at /\ op.pc # "idle" /\ op'.pc # "idle"
      /\ UNCHANGED <<mode, status, wire, last, served, deaths>>
  BY TransmitGives
<1>3. PICK what \in Lines : inbox' = Append(inbox, [op |-> op.id, what |-> what])
  <2>1. "rc" \in Lines /\ Here.line \in Lines BY <1>2, HereIs DEF Lines
  <2> QED BY <2>1, TransmitGives
<1>4. op.id \in 1..MaxOps /\ Now = op.id /\ op.kind \in Kinds /\ op.id = last.id + 1
      /\ op.at \in 1..Len(Script(op.kind))
  BY <1>2, HereIs
<1>5. [op |-> op.id, what |-> what] \in Line BY <1>4 DEF Line
<1>6. /\ inbox' \in Seq(Line) /\ Len(inbox') = Len(inbox) + 1 /\ Len(inbox) \in Nat
      /\ \A i \in 1..Len(inbox) : inbox'[i] = inbox[i]
      /\ inbox'[Len(inbox) + 1] = [op |-> op.id, what |-> what]
  BY <1>1, <1>3, <1>5, AppendIs
<1>7. Now' = Now BY <1>2 DEF Now, SameOp
<1>8. \A i \in DOMAIN inbox' : inbox'[i].op <= Now'
  <2>1. DOMAIN inbox' = 1..(Len(inbox) + 1) /\ DOMAIN inbox = 1..Len(inbox) BY <1>1, <1>6
  <2>2. [op |-> op.id, what |-> what].op = op.id OBVIOUS
  <2>3. \A i \in 1..(Len(inbox) + 1) : i \in 1..Len(inbox) \/ i = Len(inbox) + 1 BY <1>6
  <2>4. op.id <= Now BY <1>4
  <2> QED BY <1>1, <1>6, <1>7, <2>1, <2>2, <2>3, <2>4
<1> QED BY <1>1, <1>2, <1>4, <1>6, <1>7, <1>8 DEF SameOp, Typed, TypeOK, OpStates, OpPCs, Returns,
                                                  Verdicts

\* A step keeps the types.
LEMMA TypedStep == ASSUME Typed, [Next]_vars PROVE Typed'
<1>1. /\ wire \in Seq(Answer) /\ mode \in {"shell", "app", "down"} /\ status \in {0, 1}
  BY TypedIs
<1>2. CASE UNCHANGED vars BY <1>2 DEF vars, Typed, TypeOK, Now
<1>3. CASE Remote \/ Die BY <1>3, RemoteIs, ExecutesTyped, ClosesTyped
<1>4. ASSUME NEW kind \in Kinds, Begin(kind) PROVE Typed'
  <2>1. /\ op.pc = "idle" /\ op' \in OpStates /\ op'.pc = "run" /\ op'.id = last.id + 1
        /\ op'.kind = kind /\ op'.at = 1
        /\ UNCHANGED <<mode, status, inbox, wire, last, served, deaths>>
    BY <1>4, BeginGives
  <2>2. /\ inbox \in Seq(Line) /\ last \in Returns
        /\ served \subseteq 1..MaxOps /\ deaths \in 0..MaxDeaths
        /\ \A i \in DOMAIN inbox : inbox[i].op <= Now
        /\ \A k \in served : k <= Now
    BY TypedIs
  <2>3. Now = last.id /\ Now' = last.id + 1 BY <2>1 DEF Now
  <2>4. last.id \in Nat BY <2>2, BorrowOpsAssumption DEF Returns
  <2>5. \A i \in DOMAIN inbox : inbox[i].op \in Int
    <3>1. \A i \in DOMAIN inbox : inbox[i] \in Line BY <2>2
    <3> QED BY <3>1, BorrowOpsAssumption DEF Line
  <2>6. /\ \A i \in DOMAIN inbox' : inbox'[i].op <= Now'
        /\ \A k \in served' : k <= Now'
    <3>1. \A k \in served : k \in Int BY <2>2, BorrowOpsAssumption
    <3>2. \A i \in DOMAIN inbox : inbox[i].op <= last.id + 1 BY <2>2, <2>3, <2>4, <2>5
    <3>3. \A k \in served : k <= last.id + 1 BY <2>2, <2>3, <2>4, <3>1
    <3> QED BY <2>1, <2>3, <3>2, <3>3
  <2>7. op'.at \in 1..Len(Script(op'.kind))
    <3>1. Len(Script(kind)) \in {1, 4} BY ScriptIs
    <3> QED BY <2>1, <3>1
  <2> QED BY <1>1, <2>1, <2>2, <2>6, <2>7 DEF Typed, TypeOK, OpStates, OpPCs, Returns, Verdicts
<1>5. CASE Raise
  <2>1. wire' \in Seq(Answer)
    <3>1. wire' = wire \/ wire' = << >> BY <1>5, RaiseGives
    <3>2. << >> \in Seq(Answer) OBVIOUS
    <3> QED BY <1>1, <3>1, <3>2
  <2> QED BY <1>5, <2>1, RaiseGives, EndTyped
<1>6. CASE Login
  <2>1. /\ op.pc = "run" /\ mode' = "shell" /\ status' = 0 /\ wire' = << >>
        /\ UNCHANGED <<inbox, op, last, served, deaths>>
    BY <1>6, LoginGives
  <2>2. op \in OpStates /\ op.at \in 1..Len(Script(op.kind)) BY <2>1, TypedIs
  <2>3. wire' \in Seq(Answer) BY <2>1
  <2> QED BY <2>1, <2>2, <2>3, OpTyped
<1>7. CASE LoginFails
  <2>1. op.pc = "run" /\ op.at \in 1..Len(Script(op.kind)) BY <1>7, LoginFailsGives, TypedIs
  <2> QED BY <1>1, <1>7, <2>1, LoginFailsGives, OpTyped DEF SameOp
<1>8. CASE Send \/ SendEcho BY <1>8, TransmitTyped
<1>9. ASSUME NEW n \in DOMAIN wire, ReceiveAnswer(n) PROVE Typed'
  <2>1. /\ op.pc = "wait" /\ op' \in OpStates /\ SameOp /\ op'.at = op.at
        /\ op'.pc \in {"ask", "next"} /\ n \in 1..Len(wire)
        /\ wire' = SubSeq(wire, n + 1, Len(wire))
        /\ UNCHANGED <<mode, status, inbox, last, served, deaths>>
    BY <1>9, ReceiveAnswerGives
  <2>2. wire' \in Seq(Answer) BY <1>1, <2>1, RestIs
  <2>3. op.at \in 1..Len(Script(op.kind)) BY <2>1, TypedIs
  <2> QED BY <1>1, <2>1, <2>2, <2>3, OpTyped DEF SameOp
<1>10. ASSUME NEW n \in DOMAIN wire, ReceiveCode(n) PROVE Typed'
  <2>1. /\ op.pc = "code" /\ op' \in OpStates /\ SameOp /\ op'.at = op.at
        /\ op'.pc = "next" /\ n \in 1..Len(wire)
        /\ wire' = SubSeq(wire, n + 1, Len(wire))
        /\ UNCHANGED <<mode, status, inbox, last, served, deaths>>
    BY <1>10, ReceiveCodeGives
  <2>2. wire' \in Seq(Answer) BY <1>1, <2>1, RestIs
  <2>3. op.at \in 1..Len(Script(op.kind)) BY <2>1, TypedIs
  <2> QED BY <1>1, <2>1, <2>2, <2>3, OpTyped DEF SameOp
<1>11. CASE Continue
  <2>1. op.pc = "next" /\ UNCHANGED <<mode, status, inbox, wire, served, deaths>>
    BY <1>11, ContinueGives
  <2>2. CASE Verdict \in Verdicts /\ Return(Verdict)
    <3>1. op' = NoOp /\ last' \in Returns /\ last'.id = op.id BY <2>1, <2>2, ReturnGives
    <3> QED BY <1>1, <2>1, <3>1, EndTyped
  <2>3. CASE /\ op' \in OpStates /\ SameOp /\ op'.pc = "run" /\ op'.at = op.at + 1
             /\ op.at + 1 \in 1..Len(Script(op.kind)) /\ UNCHANGED last
    BY <1>1, <2>1, <2>3, OpTyped DEF SameOp
  <2> QED BY <1>11, <2>2, <2>3, ContinueGives
<1> QED BY <1>2, <1>3, <1>4, <1>5, <1>6, <1>7, <1>8, <1>9, <1>10, <1>11, Zenon DEF Next, Tester

\* Init.
LEMMA InitTyped == Init => Typed
<1> SUFFICES ASSUME Init PROVE Typed
  OBVIOUS
<1>1. /\ mode = "down" /\ status = 0 /\ inbox = << >> /\ wire = << >> /\ op = NoOp
      /\ last = NoReturn /\ served = {} /\ deaths = 0
  BY DEF Init
<1>2. op \in OpStates /\ op.pc = "idle" BY <1>1, NoOpIs
<1>3. last \in Returns BY <1>1, BorrowOpsAssumption DEF NoReturn, Returns, Verdicts
<1>4. inbox \in Seq(Line) /\ wire \in Seq(Answer) /\ DOMAIN inbox = {} BY <1>1
<1>5. deaths \in 0..MaxDeaths BY <1>1, BorrowOpsAssumption
<1> QED BY <1>1, <1>2, <1>3, <1>4, <1>5 DEF Typed, TypeOK, OpStates, OpPCs, Returns, Verdicts

\* Of every operation, whatever the session holds.
THEOREM TypeCorrect == Spec => []TypeOK
<1>1. Typed => TypeOK BY DEF Typed
<1> QED BY InitTyped, TypedStep, <1>1, PTL DEF Spec

-----------------------------------------------------------------------------
(* True is the operation's own                                             *)

\* The waits an operation has been through, at least: each read an answer.
Waited ==
    (IF op.kind \in ToolKinds /\ op.at > 1 THEN op.at ELSE 0)
      + (CASE op.pc \in {"ask", "code"} -> 1
           [] op.pc = "next" -> IF Here.rc THEN 2 ELSE 1
           [] OTHER -> 0)

\* How many answers of earlier operations may still come.
Left == IF op.behind > Waited THEN op.behind - Waited ELSE 0

\* After the first m answers there come only those to the operation's own lines.
OwnAfter(m) ==
    /\ \A i \in DOMAIN wire : (i > m /\ wire[i].text = "done") => op.id \in served
    /\ \A i \in DOMAIN inbox : i + Len(wire) > m => inbox[i].op = op.id

\* As long as the channel lives, or what it left is read.
OwnOutput ==
    (op.pc # "idle" /\ (mode # "down" \/ op.pc \in {"wait", "code"})) => OwnAfter(Left)

DownEmpty == mode = "down" => inbox = << >>

Limit(kind) == IF kind \in CliKinds THEN 1 ELSE 4

\* The answer that was kept, when the session was not too far behind.
OwnHeard ==
    (op.pc # "idle" /\ op.kind # "multi" /\ Heard("done") /\ op.behind < Limit(op.kind))
       => op.id \in served

\* The waits are counted.
LEMMA WaitedIs ==
    ASSUME Typed, op.pc # "idle"
    PROVE  Waited \in Nat /\ op.behind \in Nat /\ Left \in Nat
<1>1. op.at \in 1..4 BY HereIs
<1>2. op.behind \in Nat BY TypedIs DEF OpStates
<1>3. (IF op.kind \in ToolKinds /\ op.at > 1 THEN op.at ELSE 0) \in Nat BY <1>1
<1>4. (CASE op.pc \in {"ask", "code"} -> 1
         [] op.pc = "next" -> IF Here.rc THEN 2 ELSE 1
         [] OTHER -> 0) \in Nat
  OBVIOUS
<1>5. Waited \in Nat BY <1>3, <1>4 DEF Waited
<1> QED BY <1>2, <1>5 DEF Left

\* A line executed moves from the lines to the answers and keeps its place.
LEMMA OwnAfterExecuted ==
    ASSUME Typed, NEW text \in Texts, NEW prompt \in {"shell", "app"}, Executes(text, prompt),
           NEW m \in Nat, OwnAfter(m)
    PROVE  OwnAfter(m)'
<1>1. inbox \in Seq(Line) /\ wire \in Seq(Answer) BY TypedIs
<1>2. /\ inbox # << >> /\ inbox' = Tail(inbox) /\ UNCHANGED op
      /\ wire' = Append(wire, [what |-> Head(inbox).what, text |-> text, prompt |-> prompt])
      /\ served \subseteq served'
      /\ text = "done" => Head(inbox).op \in served'
  BY DEF Executes, Serve
<1>3. /\ Head(inbox) = inbox[1] /\ Head(inbox) \in Line /\ Len(inbox) \in Nat /\ Len(inbox) >= 1
      /\ inbox' \in Seq(Line) /\ Len(inbox') = Len(inbox) - 1
      /\ \A i \in 1..(Len(inbox) - 1) : inbox'[i] = inbox[i + 1]
  BY <1>1, <1>2, TailIs
<1> DEFINE a == [what |-> Head(inbox).what, text |-> text, prompt |-> prompt]
<1>4. a \in Answer /\ a.text = text BY <1>3 DEF Line, Answer
<1>5. /\ wire' \in Seq(Answer) /\ Len(wire') = Len(wire) + 1 /\ Len(wire) \in Nat
      /\ \A i \in 1..Len(wire) : wire'[i] = wire[i]
      /\ wire'[Len(wire) + 1] = a
  BY <1>1, <1>2, <1>4, AppendIs
<1> HIDE DEF a
<1>6. /\ DOMAIN inbox = 1..Len(inbox) /\ DOMAIN inbox' = 1..Len(inbox')
      /\ DOMAIN wire = 1..Len(wire) /\ DOMAIN wire' = 1..Len(wire')
  BY <1>1, <1>3, <1>5
<1>7. ASSUME NEW i \in DOMAIN wire', i > m, wire'[i].text = "done" PROVE op.id \in served'
  <2>1. CASE i \in 1..Len(wire)
    <3>1. i \in DOMAIN wire /\ wire[i].text = "done" BY <1>5, <1>6, <1>7, <2>1
    <3>2. op.id \in served BY <1>7, <3>1 DEF OwnAfter
    <3> QED BY <1>2, <3>2
  <2>2. CASE i = Len(wire) + 1
    <3>1. text = "done" BY <1>4, <1>5, <1>7, <2>2
    <3>2. 1 \in DOMAIN inbox /\ 1 + Len(wire) > m BY <1>3, <1>5, <1>6, <1>7, <2>2
    <3>3. inbox[1].op = op.id BY <3>2 DEF OwnAfter
    <3>4. Head(inbox).op = op.id /\ Head(inbox).op \in served' BY <1>2, <1>3, <3>1, <3>3
    <3> QED BY <3>4
  <2> QED BY <1>5, <1>6, <1>7, <2>1, <2>2
<1>8. ASSUME NEW i \in DOMAIN inbox', i + Len(wire') > m PROVE inbox'[i].op = op.id
  <2>1. i \in 1..(Len(inbox) - 1) /\ i + 1 \in DOMAIN inbox /\ (i + 1) + Len(wire) > m
    BY <1>3, <1>5, <1>6, <1>8
  <2>2. inbox[i + 1].op = op.id BY <2>1 DEF OwnAfter
  <2> QED BY <1>3, <2>1, <2>2
<1> QED BY <1>2, <1>7, <1>8 DEF OwnAfter

\* An answer read leaves one less to come.
LEMMA OwnAfterRead ==
    ASSUME Typed, NEW n \in 1..Len(wire), wire' = SubSeq(wire, n + 1, Len(wire)),
           UNCHANGED <<inbox, served>>, op'.id = op.id,
           NEW m \in Nat, NEW k \in Nat, m <= k + 1, OwnAfter(m)
    PROVE  /\ \A i \in DOMAIN wire' : (i > k /\ wire'[i].text = "done") => op'.id \in served'
           /\ \A i \in DOMAIN inbox' : i + Len(wire') > k => inbox'[i].op = op'.id
<1>1. inbox \in Seq(Line) /\ wire \in Seq(Answer) BY TypedIs
<1>2. /\ Len(wire) \in Nat /\ wire' \in Seq(Answer) /\ Len(wire') = Len(wire) - n
      /\ \A i \in 1..(Len(wire) - n) : wire'[i] = wire[i + n]
  BY <1>1, RestIs
<1>3. /\ DOMAIN inbox = 1..Len(inbox) /\ Len(inbox) \in Nat
      /\ DOMAIN wire = 1..Len(wire) /\ DOMAIN wire' = 1..Len(wire')
  BY <1>1, <1>2
<1>4. n \in Nat /\ n >= 1 BY <1>2
<1>5. ASSUME NEW i \in DOMAIN wire', i > k, wire'[i].text = "done" PROVE op'.id \in served'
  <2>1. i \in 1..(Len(wire) - n) /\ i > k BY <1>2, <1>3, <1>5
  <2>2. i + n \in 1..Len(wire) /\ i + n > m BY <1>2, <1>4, <2>1
  <2>3. i + n \in DOMAIN wire BY <1>3, <2>2
  <2>4. wire[i + n].text = "done" BY <1>2, <1>5, <2>1
  <2>5. op.id \in served BY <2>2, <2>3, <2>4 DEF OwnAfter
  <2> QED BY <2>5
<1>6. ASSUME NEW i \in DOMAIN inbox', i + Len(wire') > k PROVE inbox'[i].op = op'.id
  <2>1. inbox' = inbox /\ i \in 1..Len(inbox) BY <1>3
  <2>2. PICK a \in Nat : a = Len(wire) BY <1>2
  <2>3. i + (a - n) > k BY <1>2, <1>6, <2>2
  <2>4. PICK l \in Nat : l = Len(inbox) BY <1>3
  <2>5. i \in 1..l BY <2>1, <2>4
  <2>6. i + a > m BY <1>4, <2>3, <2>5
  <2>7. i \in DOMAIN inbox /\ i + Len(wire) > m BY <1>3, <2>1, <2>2, <2>6
  <2> QED BY <2>1, <2>7 DEF OwnAfter
<1> QED BY <1>5, <1>6

\* More may be left than there is.
LEMMA OwnAfterMore ==
    ASSUME Typed, NEW m \in Nat, NEW k \in Nat, m <= k, OwnAfter(m)
    PROVE  OwnAfter(k)
<1>1. inbox \in Seq(Line) /\ wire \in Seq(Answer) BY TypedIs
<1>2. /\ DOMAIN inbox = 1..Len(inbox) /\ DOMAIN wire = 1..Len(wire)
      /\ Len(inbox) \in Nat /\ Len(wire) \in Nat
  BY <1>1
<1>3. \A i \in DOMAIN wire : i > k => i > m BY <1>2
<1>4. \A i \in DOMAIN inbox : i + Len(wire) > k => i + Len(wire) > m BY <1>2
<1> QED BY <1>3, <1>4 DEF OwnAfter

\* A line of its own joins the others.
LEMMA OwnAfterSent ==
    ASSUME Typed, NEW m \in Nat, OwnAfter(m), NEW what \in Lines, op.id \in 1..MaxOps,
           inbox' = Append(inbox, [op |-> op.id, what |-> what]),
           UNCHANGED <<wire, served>>, op'.id = op.id
    PROVE  OwnAfter(m)'
<1>1. inbox \in Seq(Line) BY TypedIs
<1> DEFINE line == [op |-> op.id, what |-> what]
<1>2. line \in Line /\ line.op = op.id BY DEF Line
<1>3. /\ inbox' \in Seq(Line) /\ Len(inbox') = Len(inbox) + 1 /\ Len(inbox) \in Nat
      /\ \A i \in 1..Len(inbox) : inbox'[i] = inbox[i]
      /\ inbox'[Len(inbox) + 1] = line
  BY <1>1, <1>2, AppendIs
<1> HIDE DEF line
<1>4. /\ DOMAIN inbox' = 1..(Len(inbox) + 1) /\ DOMAIN inbox = 1..Len(inbox)
      /\ \A i \in 1..(Len(inbox) + 1) : i \in 1..Len(inbox) \/ i = Len(inbox) + 1
  BY <1>1, <1>3
<1>5. \A i \in DOMAIN inbox' : i + Len(wire') > m => inbox'[i].op = op'.id
  BY <1>2, <1>3, <1>4 DEF OwnAfter
<1> QED BY <1>5 DEF OwnAfter

\* A closed channel holds no lines.
LEMMA DownEmptyKept == ASSUME Typed, DownEmpty, [Next]_vars PROVE DownEmpty'
<1>1. CASE UNCHANGED vars BY <1>1 DEF vars, DownEmpty
<1>2. CASE Remote \/ Die BY <1>2, RemoteIs DEF Closes, Executes, DownEmpty
<1>3. CASE Tester
  <2>1. CASE Raise BY <2>1, RaiseGives DEF DownEmpty
  <2>2. CASE Login BY <2>2, LoginGives DEF DownEmpty
  <2>3. CASE LoginFails BY <2>3, LoginFailsGives DEF DownEmpty
  <2>4. CASE Send \/ SendEcho BY <2>4, TransmitGives DEF DownEmpty
  <2>5. ASSUME NEW n \in DOMAIN wire, ReceiveAnswer(n) PROVE DownEmpty'
    BY <2>5, ReceiveAnswerGives DEF DownEmpty
  <2>6. ASSUME NEW n \in DOMAIN wire, ReceiveCode(n) PROVE DownEmpty'
    BY <2>6, ReceiveCodeGives DEF DownEmpty
  <2>7. CASE Continue BY <2>7, ContinueGives DEF DownEmpty
  <2> QED BY <1>3, <2>1, <2>2, <2>3, <2>4, <2>5, <2>6, <2>7, Zenon DEF Tester
<1>4. ASSUME NEW kind \in Kinds, Begin(kind) PROVE DownEmpty' BY <1>4, BeginGives DEF DownEmpty
<1> QED BY <1>1, <1>2, <1>3, <1>4, Zenon DEF Next

\* Sending counts as no wait, reading as one at most, and going on forgets none.
LEMMA WaitedGoes ==
    ASSUME Typed, op.pc # "idle", op' \in OpStates, SameOp
    PROVE  /\ (op'.pc = op.pc /\ op'.at = op.at) => Waited' = Waited
           /\ (op.pc = "run" /\ op'.pc = "wait" /\ op'.at = op.at) => Waited' = Waited
           /\ (op.pc = "ask" /\ op'.pc = "code" /\ op'.at = op.at) => Waited' = Waited
           /\ (/\ op.pc = "wait" /\ op'.at = op.at
               /\ op'.pc = (IF Here.rc THEN "ask" ELSE "next")) => Waited' = Waited + 1
           /\ (op.pc = "code" /\ op'.pc = "next" /\ op'.at = op.at) => Waited' <= Waited + 1
           /\ (op.pc = "next" /\ op'.pc = "run" /\ op'.at = op.at + 1) => Waited' <= Waited
<1>1. op.at \in 1..4 /\ op.kind \in Kinds BY HereIs
<1> DEFINE b == IF op.kind \in ToolKinds /\ op.at > 1 THEN op.at ELSE 0
<1>2. b \in Nat BY <1>1
<1>3. /\ op.pc \in {"run", "wait"} => Waited = b
      /\ op.pc \in {"ask", "code"} => Waited = b + 1
      /\ op.pc = "next" => Waited = b + (IF Here.rc THEN 2 ELSE 1)
  BY <1>2 DEF Waited
<1>4. ASSUME op'.at = op.at
      PROVE  /\ Here' = Here
             /\ op'.pc \in {"run", "wait"} => Waited' = b
             /\ op'.pc \in {"ask", "code"} => Waited' = b + 1
             /\ op'.pc = "next" => Waited' = b + (IF Here.rc THEN 2 ELSE 1)
  <2>1. Here' = Here /\ op'.kind = op.kind BY <1>4 DEF Here, SameOp
  <2> QED BY <1>2, <1>4, <2>1 DEF Waited
<1>5. ASSUME op.pc = "next", op'.pc = "run", op'.at = op.at + 1
      PROVE  Waited' <= Waited
  <2>1. op'.kind = op.kind BY DEF SameOp
  <2>2. Waited' = IF op.kind \in ToolKinds /\ op.at + 1 > 1 THEN op.at + 1 ELSE 0
    BY <1>1, <1>5, <2>1 DEF Waited
  <2>3. CASE op.kind \in ToolKinds /\ op.at = 1
    <3>1. Here.rc = TRUE
      <4>1. Here = Cd BY <1>1, <2>3, ScriptIs DEF Here
      <4> QED BY <4>1, StepsAre
    <3> QED BY <1>3, <1>5, <2>2, <2>3, <3>1
  <2>4. CASE op.kind \in ToolKinds /\ op.at # 1 BY <1>1, <1>3, <1>5, <2>2, <2>4
  <2>5. CASE op.kind \notin ToolKinds BY <1>1, <1>3, <1>5, <2>2, <2>5
  <2> QED BY <2>3, <2>4, <2>5
<1>6. CASE op'.at = op.at
  <2> HIDE DEF b
  <2>1. op'.pc = op.pc => Waited' = Waited
    <3>1. op.pc \in {"run", "wait", "ask", "code", "next"} BY TypedIs DEF OpStates, OpPCs
    <3> QED BY <1>3, <1>4, <1>6, <3>1
  <2>2. op'.at # op.at + 1 BY <1>1, <1>6
  <2> QED BY <1>2, <1>3, <1>4, <1>6, <2>1, <2>2
<1>7. CASE op'.at # op.at BY <1>5, <1>7
<1> QED BY <1>6, <1>7

\* A step keeps what is to come apart from what came before.
LEMMA OwnOutputKept == ASSUME Typed, DownEmpty, OwnOutput, [Next]_vars PROVE OwnOutput'
<1>1. CASE UNCHANGED vars
  BY <1>1 DEF vars, OwnOutput, OwnAfter, Left, Waited, Here
<1>2. ASSUME op'.pc = "idle" PROVE OwnOutput' BY <1>2 DEF OwnOutput
<1>3. ASSUME op.pc # "idle" PROVE Waited \in Nat /\ op.behind \in Nat /\ Left \in Nat
  BY <1>3, WaitedIs
<1>4. ASSUME NEW text \in Texts, NEW prompt \in {"shell", "app"}, Executes(text, prompt)
      PROVE  OwnOutput'
  <2>1. mode # "down" /\ UNCHANGED op BY <1>4 DEF Executes
  <2>2. CASE op.pc # "idle"
    <3>1. PICK m \in Nat : m = Left BY <1>3, <2>2
    <3>2. OwnAfter(m) BY <2>1, <2>2, <3>1 DEF OwnOutput
    <3>3. OwnAfter(m)' BY <1>4, <3>2, OwnAfterExecuted
    <3>4. Left' = m BY <2>1, <3>1 DEF Left, Waited, Here
    <3> QED BY <3>3, <3>4 DEF OwnOutput, OwnAfter
  <2> QED BY <1>2, <2>1, <2>2
<1>5. CASE Closes
  <2>1. mode' = "down" /\ inbox' = << >> /\ UNCHANGED <<wire, op, served>> BY <1>5 DEF Closes
  <2>2. Left' = Left BY <2>1 DEF Left, Waited, Here
  <2>3. CASE op.pc \in {"wait", "code"}
    <3>1. OwnAfter(Left) BY <2>3 DEF OwnOutput
    <3>2. OwnAfter(Left)'
      <4>1. DOMAIN inbox' = {} BY <2>1
      <4> QED BY <2>1, <2>2, <3>1, <4>1 DEF OwnAfter
    <3> QED BY <3>2 DEF OwnOutput
  <2> QED BY <2>1, <2>3 DEF OwnOutput
<1>6. ASSUME NEW kind \in Kinds, Begin(kind) PROVE OwnOutput'
  <2>1. /\ op'.pc = "run" /\ op'.at = 1 /\ op'.behind = Behind /\ Behind \in Nat
        /\ UNCHANGED <<mode, inbox, wire>>
    BY <1>6, BeginGives
  <2>2. Waited' = 0 BY <2>1 DEF Waited
  <2>3. Left' = Behind BY <2>1, <2>2 DEF Left
  <2>4. CASE mode # "down"
    <3>1. Behind = Len(inbox) + Len(wire) BY <2>4 DEF Behind
    <3>2. inbox \in Seq(Line) /\ wire \in Seq(Answer) BY TypedIs
    <3>3. /\ \A i \in DOMAIN wire' : ~(i > Left')
          /\ \A i \in DOMAIN inbox' : ~(i + Len(wire') > Left')
      BY <2>1, <2>3, <3>1, <3>2
    <3> QED BY <3>3 DEF OwnOutput, OwnAfter
  <2>5. CASE mode = "down" BY <2>1, <2>5 DEF OwnOutput
  <2> QED BY <2>4, <2>5
<1>7. CASE Raise BY <1>2, <1>7, RaiseGives
<1>8. CASE Login
  <2>1. wire' = << >> /\ inbox' = << >> BY <1>8, LoginGives DEF DownEmpty
  <2>2. DOMAIN wire' = {} /\ DOMAIN inbox' = {} BY <2>1
  <2> QED BY <2>2 DEF OwnOutput, OwnAfter
<1>9. CASE LoginFails BY <1>9, LoginFailsGives DEF OwnOutput
<1>10. CASE Send \/ SendEcho
  <2>1. /\ mode # "down" /\ op' \in OpStates /\ SameOp /\ op'.at = op.at
        /\ UNCHANGED <<wire, served>>
        /\ \/ op.pc = "run" /\ op'.pc = "wait"
           \/ op.pc = "ask" /\ op'.pc = "code"
    BY <1>10, TransmitGives
  <2>2. PICK what \in Lines : inbox' = Append(inbox, [op |-> op.id, what |-> what])
    <3>1. "rc" \in Lines /\ Here.line \in Lines BY <2>1, HereIs DEF Lines
    <3> QED BY <1>10, <3>1, TransmitGives
  <2>3. PICK m \in Nat : m = Left BY <1>3, <2>1
  <2>4. OwnAfter(m) BY <2>1, <2>3 DEF OwnOutput
  <2>5. Waited' = Waited BY <2>1, WaitedGoes
  <2>6. Left' = m BY <2>1, <2>3, <2>5 DEF Left, SameOp
  <2>7. op.id \in 1..MaxOps BY <2>1, HereIs
  <2>8. OwnAfter(m)' BY <2>1, <2>2, <2>4, <2>7, OwnAfterSent DEF SameOp
  <2> QED BY <2>6, <2>8 DEF OwnOutput, OwnAfter
<1>11. ASSUME NEW n \in 1..Len(wire), wire' = SubSeq(wire, n + 1, Len(wire)),
              UNCHANGED <<inbox, served>>, SameOp, op.pc \in {"wait", "code"},
              Waited' <= Waited + 1, Waited' \in Nat
       PROVE  OwnOutput'
  <2>1. PICK m \in Nat : m = Left BY <1>3, <1>11
  <2>2. OwnAfter(m) BY <1>11, <2>1 DEF OwnOutput
  <2>3. Left' \in Nat /\ m <= Left' + 1
    <3>1. op'.behind = op.behind BY <1>11 DEF SameOp
    <3>2. /\ op.behind \in Nat /\ Waited \in Nat
          /\ m = IF op.behind > Waited THEN op.behind - Waited ELSE 0
          /\ Left' = IF op.behind > Waited' THEN op.behind - Waited' ELSE 0
      BY <1>3, <1>11, <2>1, <3>1 DEF Left
    <3>3. PICK x \in Nat, y \in Nat, z \in Nat : x = op.behind /\ y = Waited /\ z = Waited'
      BY <1>11, <3>2
    <3>4. z <= y + 1 BY <1>11, <3>3
    <3>5. /\ m = IF x > y THEN x - y ELSE 0
          /\ Left' = IF x > z THEN x - z ELSE 0
      BY <3>2, <3>3
    <3> QED BY <3>4, <3>5, SMTT(30)
  <2>4. PICK k \in Nat : k = Left' BY <2>3
  <2>5. m <= k + 1 BY <2>3, <2>4
  <2>6. /\ \A i \in DOMAIN wire' : (i > k /\ wire'[i].text = "done") => op'.id \in served'
        /\ \A i \in DOMAIN inbox' : i + Len(wire') > k => inbox'[i].op = op'.id
    BY <1>11, <2>2, <2>5, OwnAfterRead DEF SameOp
  <2> QED BY <2>4, <2>6 DEF OwnOutput, OwnAfter
<1>12. ASSUME NEW n \in DOMAIN wire, ReceiveAnswer(n) PROVE OwnOutput'
  <2>1. /\ op.pc = "wait" /\ op' \in OpStates /\ SameOp /\ op'.at = op.at
        /\ op'.pc = (IF Here.rc THEN "ask" ELSE "next")
        /\ n \in 1..Len(wire) /\ wire' = SubSeq(wire, n + 1, Len(wire))
        /\ UNCHANGED <<inbox, served>>
    BY <1>12, ReceiveAnswerGives
  <2>2. Waited' = Waited + 1 BY <2>1, WaitedGoes
  <2>3. Waited' <= Waited + 1 /\ Waited' \in Nat BY <1>3, <2>1, <2>2
  <2> QED BY <1>11, <2>1, <2>3
<1>13. ASSUME NEW n \in DOMAIN wire, ReceiveCode(n) PROVE OwnOutput'
  <2>1. /\ op.pc = "code" /\ op' \in OpStates /\ SameOp /\ op'.at = op.at /\ op'.pc = "next"
        /\ n \in 1..Len(wire) /\ wire' = SubSeq(wire, n + 1, Len(wire))
        /\ UNCHANGED <<inbox, served>>
    BY <1>13, ReceiveCodeGives
  <2>2. Waited' <= Waited + 1 BY <2>1, WaitedGoes
  <2>3. Waited' \in Nat
    <3>1. op.at \in 1..4 BY <2>1, HereIs
    <3> QED BY <2>1, <3>1 DEF Waited
  <2> QED BY <1>11, <2>1, <2>2, <2>3
<1>14. CASE Continue
  <2>1. op.pc = "next" /\ UNCHANGED <<mode, status, inbox, wire, served, deaths>>
    BY <1>14, ContinueGives
  <2>2. CASE Return(Verdict) BY <1>2, <2>2, NoOpIs DEF Return
  <2>3. CASE op' \in OpStates /\ SameOp /\ op'.pc = "run" /\ op'.at = op.at + 1
    <3>1. Waited' <= Waited BY <2>1, <2>3, WaitedGoes
    <3>2. Waited' \in Nat
      <4>1. op.at \in 1..4 BY <2>1, HereIs
      <4> QED BY <2>3, <4>1 DEF Waited
    <3>3. op'.behind = op.behind /\ op'.id = op.id BY <2>3 DEF SameOp
    <3>4. /\ op.behind \in Nat /\ Waited \in Nat /\ Left \in Nat
          /\ Left = IF op.behind > Waited THEN op.behind - Waited ELSE 0
          /\ Left' = IF op.behind > Waited' THEN op.behind - Waited' ELSE 0
      BY <1>3, <2>1, <3>3 DEF Left
    <3>5. Left' \in Nat /\ Left <= Left' BY <3>1, <3>2, <3>4
    <3>6. PICK k \in Nat : k = Left' BY <3>5
    <3>7. ASSUME mode # "down" PROVE OwnAfter(k)
      <4>1. OwnAfter(Left) BY <2>1, <3>7 DEF OwnOutput
      <4> QED BY <3>4, <3>5, <3>6, <4>1, OwnAfterMore
    <3> QED BY <2>1, <2>3, <3>3, <3>6, <3>7 DEF OwnOutput, OwnAfter
  <2> QED BY <1>14, <2>2, <2>3, ContinueGives
<1>15. CASE Remote \/ Die BY <1>4, <1>5, <1>15, RemoteIs
<1> QED BY <1>1, <1>6, <1>7, <1>8, <1>9, <1>10, <1>12, <1>13, <1>14, <1>15, Zenon DEF Next, Tester

\* The answer to the command was read when nothing older could come.
LEMMA CommandIsNext ==
    ASSUME Typed, op.pc = "wait", op.kind # "multi", Here.line \in {"cmd", "cli"},
           op.behind < Limit(op.kind)
    PROVE  Left = 0
<1>1. /\ op.kind \in Kinds /\ op.at \in 1..Len(Script(op.kind)) /\ op.at \in 1..4
      /\ op.behind \in Nat
  BY HereIs, WaitedIs
<1>2. CASE op.kind \in CliKinds
  <2>1. op.behind = 0 BY <1>1, <1>2 DEF Limit
  <2>2. Waited \in Nat BY WaitedIs
  <2> QED BY <2>1, <2>2 DEF Left
<1>3. CASE op.kind \in ToolKinds
  <2>1. op.kind \notin CliKinds BY <1>1, <1>3, ScriptIs
  <2>2. op.at = 3
    <3>1. /\ Script(op.kind)[1] = Cd /\ Script(op.kind)[2] = StartApp /\ Script(op.kind)[4] = Exit
      BY <1>1, <1>3, ScriptIs
    <3>2. op.at = 1 \/ op.at = 2 \/ op.at = 3 \/ op.at = 4 BY <1>1
    <3>3. Cd.line = "cd" /\ StartApp.line = "app" /\ Exit.line = "exit" BY StepsAre
    <3> QED BY <3>1, <3>2, <3>3 DEF Here
  <2>3. Waited = 3 BY <1>3, <2>2 DEF Waited
  <2>4. op.behind < 4 BY <2>1 DEF Limit
  <2> QED BY <1>1, <2>3, <2>4 DEF Left
<1> QED BY <1>1, <1>2, <1>3, ScriptIs

\* A step keeps the answer the operation's own.
LEMMA OwnHeardKept == ASSUME Typed, OwnOutput, OwnHeard, [Next]_vars PROVE OwnHeard'
<1>1. ASSUME op'.pc = "idle" PROVE OwnHeard' BY <1>1 DEF OwnHeard
<1>2. ASSUME op.pc # "idle", SameOp, op'.heard = op.heard, served \subseteq served'
      PROVE  OwnHeard'
  BY <1>2 DEF OwnHeard, SameOp, Heard
<1>3. ASSUME UNCHANGED op, served \subseteq served' PROVE OwnHeard'
  BY <1>3 DEF OwnHeard, Heard
<1>4. CASE UNCHANGED vars BY <1>3, <1>4 DEF vars
<1>5. CASE Remote \/ Die
  <2>1. CASE Closes BY <1>3, <2>1 DEF Closes
  <2>2. ASSUME NEW text \in Texts, NEW prompt \in {"shell", "app"}, Executes(text, prompt)
        PROVE  OwnHeard'
    BY <1>3, <2>2 DEF Executes, Serve
  <2> QED BY <1>5, <2>1, <2>2, RemoteIs
<1>6. ASSUME NEW kind \in Kinds, Begin(kind) PROVE OwnHeard'
  BY <1>6, BeginGives DEF OwnHeard, Heard
<1>7. CASE Raise BY <1>1, <1>7, RaiseGives
<1>8. CASE Login BY <1>3, <1>8, LoginGives
<1>9. CASE LoginFails BY <1>2, <1>9, LoginFailsGives
<1>10. CASE Send \/ SendEcho
  <2>1. op.pc # "idle" BY <1>10, TransmitGives
  <2> QED BY <1>2, <1>10, <2>1, TransmitGives
<1>11. ASSUME NEW n \in DOMAIN wire, ReceiveAnswer(n) PROVE OwnHeard'
  <2>1. /\ op.pc = "wait" /\ SameOp /\ n \in 1..Len(wire) /\ UNCHANGED served
        /\ op'.heard = (IF Here.line \in {"cmd", "cli"} THEN Read(n) ELSE op.heard)
    BY <1>11, ReceiveAnswerGives
  <2>2. CASE Here.line \notin {"cmd", "cli"} BY <1>2, <2>1, <2>2
  <2>3. CASE Here.line \in {"cmd", "cli"}
    <3> SUFFICES ASSUME op'.kind # "multi", Heard("done")', op'.behind < Limit(op'.kind)
                 PROVE  op'.id \in served'
      BY DEF OwnHeard
    <3>1. op.kind # "multi" /\ op.behind < Limit(op.kind) BY <2>1 DEF SameOp
    <3>2. Left = 0 BY <2>1, <2>3, <3>1, CommandIsNext
    <3>3. OwnAfter(0) BY <2>1, <3>2 DEF OwnOutput
    <3>4. PICK i \in 1..n : wire[i].text = "done" BY <2>1, <2>3 DEF Heard, Read
    <3>5. i \in DOMAIN wire /\ i > 0
      <4>1. wire \in Seq(Answer) BY TypedIs
      <4> QED BY <2>1, <4>1
    <3> QED BY <2>1, <3>3, <3>4, <3>5 DEF OwnAfter, SameOp
  <2> QED BY <2>2, <2>3
<1>12. ASSUME NEW n \in DOMAIN wire, ReceiveCode(n) PROVE OwnHeard'
  <2>1. op.pc # "idle" BY <1>12, ReceiveCodeGives
  <2> QED BY <1>2, <1>12, <2>1, ReceiveCodeGives
<1>13. CASE Continue
  <2>1. CASE Return(Verdict) BY <1>1, <2>1, NoOpIs DEF Return
  <2>2. CASE ~Return(Verdict)
    <3>1. op.pc # "idle" /\ SameOp /\ op'.heard = op.heard /\ UNCHANGED served
      BY <1>13, <2>2, ContinueGives
    <3> QED BY <1>2, <3>1
  <2> QED BY <2>1, <2>2
<1> QED BY <1>4, <1>5, <1>6, <1>7, <1>8, <1>9, <1>10, <1>11, <1>12, <1>13, Zenon DEF Next, Tester

\* What the verdicts are made of.
LEMMA VerdictIs ==
    ASSUME Typed, op.pc # "idle"
    PROVE  /\ Verdict = "true" => op.kind # "multi" /\ Heard("done")
           /\ Verdict = "false" => op.kind # "multi" /\ (Heard("done") => Heard("failed"))
<1>1. op.kind \in Operations BY HereIs, BorrowOpsAssumption
<1>2. ToolVerdict = IF Heard("done") THEN "true" ELSE "false" BY Zenon DEF ToolVerdict
<1>3. MakeVerdict = IF Heard("done") /\ ~Heard("failed") THEN "true" ELSE "false"
  BY Zenon DEF MakeVerdict
<1>4. DropVerdict = IF Heard("done") THEN "true" ELSE "false" BY Zenon DEF DropVerdict
<1>5. CASE op.kind \in {"borrow", "shm"}
  <2>1. Verdict = ToolVerdict BY <1>5 DEF Verdict
  <2> QED BY <1>2, <1>5, <2>1
<1>6. CASE op.kind \in {"result", "multi", "cliShow"}
  <2>1. Verdict = "text" BY <1>6 DEF Verdict
  <2> QED BY <2>1
<1>7. CASE op.kind \in {"cliMake", "cliDrop", "cliList"} /\ ~HasStdout
  <2>1. Verdict = "raised" BY <1>7 DEF Verdict
  <2> QED BY <2>1
<1>8. CASE op.kind = "cliMake" /\ HasStdout
  <2>1. Verdict = MakeVerdict BY <1>8 DEF Verdict
  <2> QED BY <1>3, <1>8, <2>1
<1>9. CASE op.kind = "cliDrop" /\ HasStdout
  <2>1. Verdict = DropVerdict BY <1>9 DEF Verdict
  <2> QED BY <1>4, <1>9, <2>1
<1>10. CASE op.kind = "cliList" /\ HasStdout
  <2>1. Verdict = "text" BY <1>10 DEF Verdict
  <2> QED BY <2>1
<1> QED BY <1>1, <1>5, <1>6, <1>7, <1>8, <1>9, <1>10 DEF Operations

\* A step that does not end an operation leaves what the last one returned.
LEMMA LastIs ==
    ASSUME Typed, [Next]_vars
    PROVE  /\ served \subseteq served'
           /\ \/ UNCHANGED last
              \/ Raise
              \/ op.pc = "next" /\ Continue /\ Return(Verdict) /\ Verdict \in Verdicts
<1>1. CASE UNCHANGED vars BY <1>1 DEF vars
<1>2. CASE Remote \/ Die
  <2>1. CASE Closes BY <2>1 DEF Closes
  <2>2. ASSUME NEW text \in Texts, NEW prompt \in {"shell", "app"}, Executes(text, prompt)
        PROVE  UNCHANGED last /\ served \subseteq served'
    BY <2>2 DEF Executes, Serve
  <2> QED BY <1>2, <2>1, <2>2, RemoteIs
<1>3. ASSUME NEW kind \in Kinds, Begin(kind) PROVE UNCHANGED <<last, served>>
  BY <1>3, BeginGives
<1>4. CASE Raise BY <1>4, RaiseGives
<1>5. CASE Login BY <1>5, LoginGives
<1>6. CASE LoginFails BY <1>6, LoginFailsGives
<1>7. CASE Send \/ SendEcho BY <1>7, TransmitGives
<1>8. ASSUME NEW n \in DOMAIN wire, ReceiveAnswer(n) PROVE UNCHANGED <<last, served>>
  BY <1>8, ReceiveAnswerGives
<1>9. ASSUME NEW n \in DOMAIN wire, ReceiveCode(n) PROVE UNCHANGED <<last, served>>
  BY <1>9, ReceiveCodeGives
<1>10. CASE Continue BY <1>10, ContinueGives
<1> QED BY <1>1, <1>2, <1>3, <1>4, <1>5, <1>6, <1>7, <1>8, <1>9, <1>10, Zenon DEF Next, Tester

\* A step keeps TrueIsOwn.
LEMMA TrueKept == ASSUME Typed, OwnHeard, TrueIsOwn, [Next]_vars PROVE TrueIsOwn'
<1>1. served \subseteq served' BY LastIs
<1>2. CASE UNCHANGED last BY <1>1, <1>2 DEF TrueIsOwn
<1>3. CASE Raise BY <1>3, RaiseGives DEF TrueIsOwn
<1>4. CASE op.pc = "next" /\ Return(Verdict) /\ Verdict \in Verdicts
  <2>1. /\ last'.id = op.id /\ last'.kind = op.kind /\ last'.behind = op.behind
        /\ last'.verdict = Verdict
    BY <1>4, ReturnGives
  <2>2. Verdict = "true" => op.kind # "multi" /\ Heard("done") BY <1>4, VerdictIs
  <2>3. (Verdict = "true" /\ op.behind < Limit(op.kind)) => op.id \in served
    BY <1>4, <2>2 DEF OwnHeard
  <2> QED BY <1>1, <2>1, <2>3 DEF TrueIsOwn, Limit
<1> QED BY <1>2, <1>3, <1>4, LastIs

\* Init.
LEMMA InitOwn == Init => DownEmpty /\ OwnOutput /\ OwnHeard /\ TrueIsOwn
<1> SUFFICES ASSUME Init PROVE DownEmpty /\ OwnOutput /\ OwnHeard /\ TrueIsOwn
  OBVIOUS
<1>1. inbox = << >> /\ op = NoOp /\ last = NoReturn BY DEF Init
<1>2. op.pc = "idle" BY <1>1, NoOpIs
<1>3. last.verdict = "none" BY <1>1 DEF NoReturn
<1> QED BY <1>1, <1>2, <1>3 DEF DownEmpty, OwnOutput, OwnHeard, TrueIsOwn

\* In however bad a session, with fewer answers outstanding than the operation waits
\* for before its command's: an operation that says True was carried out itself.
THEOREM TrueOwn == Spec => []TrueIsOwn
<1> DEFINE Inv == Typed /\ DownEmpty /\ OwnOutput /\ OwnHeard /\ TrueIsOwn
<1>1. Init => Inv BY InitTyped, InitOwn
<1>2. Inv /\ [Next]_vars => Inv'
  BY TypedStep, DownEmptyKept, OwnOutputKept, OwnHeardKept, TrueKept
<1>3. Inv => TrueIsOwn OBVIOUS
<1> HIDE DEF Inv
<1> QED BY <1>1, <1>2, <1>3, PTL DEF Spec

-----------------------------------------------------------------------------
(* A session in step                                                       *)

\* What the operation has just sent.
Sending == IF op.pc = "wait" THEN Here.line ELSE "rc"

\* At most one line of the operation is out, or the answer to it.
OneOut ==
    op.pc \in {"wait", "code"} =>
        /\ Len(inbox) + Len(wire) <= 1
        /\ \A i \in DOMAIN inbox : inbox[i] = [op |-> op.id, what |-> Sending]
        /\ mode # "down" => \A i \in DOMAIN wire : wire[i].prompt = mode

\* Between two runs nothing is out.
NoneOut == (op.pc \in {"run", "ask", "next"} /\ mode # "down") => inbox = << >> /\ wire = << >>

\* Where the operation is while the app reads.
AppReads ==
    mode = "app" =>
        \/ Here.line = "app" /\ op.pc \in {"wait", "next"}
        \/ Here.line = "cmd" /\ op.pc \in {"run", "wait"}
        \/ Here.line = "cmd" /\ op.pc = "next" /\ AtAppPrompt
        \/ Here.line = "exit" /\ op.pc = "run"
        \/ Here.line = "exit" /\ op.pc = "wait" /\ inbox # << >>

\* An operation that began in step stays in step.
InStep == (op.pc # "idle" /\ op.synced) => OneOut /\ NoneOut /\ AppReads

\* The step of the operation's command.
CmdAt == IF op.kind \in CliKinds THEN 1 ELSE 3

\* Its answer has been read.
Given == op.at > CmdAt \/ (op.at = CmdAt /\ op.pc \in {"ask", "code", "next"})

Answering ==
    /\ op.at = CmdAt /\ op.pc = "wait" /\ inbox = << >>
    /\ \E i \in DOMAIN wire : wire[i].text = "done"

\* A command carried out is answered so, and that answer is the one kept.
Reports ==
    (op.pc # "idle" /\ op.synced /\ op.kind # "multi" /\ op.id \in served)
       => Answering \/ (Given /\ Heard("done") /\ ~Heard("failed"))

\* Nothing of an operation that has returned is still to be executed.
Over == (last.synced /\ last.verdict # "raised") => \A i \in DOMAIN inbox : inbox[i].op # last.id

\* What follows a step.
LEMMA FollowsIs ==
    ASSUME NEW kind \in Kinds, NEW at \in 1..Len(Script(kind))
    PROVE  /\ Script(kind)[at].line = "app" =>
                 at + 1 \in 1..Len(Script(kind)) /\ at # Len(Script(kind)) /\ Script(kind)[at + 1].line = "cmd"
           /\ Script(kind)[at].line = "cmd" =>
                 /\ at + 1 \in 1..Len(Script(kind)) /\ at # Len(Script(kind))
                 /\ Script(kind)[at + 1].line \in {"cmd", "exit"}
           /\ (kind # "multi" /\ Script(kind)[at].line \in {"cmd", "cli"})
                 => at = (IF kind \in CliKinds THEN 1 ELSE 3)
           /\ (kind # "multi" /\ at = (IF kind \in CliKinds THEN 1 ELSE 3))
                 => Script(kind)[at].line \in {"cmd", "cli"}
           /\ (kind # "multi" /\ at > (IF kind \in CliKinds THEN 1 ELSE 3))
                 => Script(kind)[at].line = "exit"
<1>1. at \in 1..4 BY PlacesAre
<1>2. CASE kind \in CliKinds
  <2>1. kind # "multi" /\ Len(Script(kind)) = 1 /\ Script(kind)[1] = Cli BY <1>2, ScriptIs
  <2>2. at = 1 BY <2>1
  <2> QED BY <1>2, <2>1, <2>2, StepsAre
<1>3. CASE kind \in ToolKinds
  <2>1. /\ kind # "multi" /\ kind \notin CliKinds /\ Len(Script(kind)) = 4
        /\ Script(kind)[1].line = "cd" /\ Script(kind)[2].line = "app"
        /\ Script(kind)[3].line = "cmd" /\ Script(kind)[4].line = "exit"
    BY <1>3, ScriptIs, StepsAre
  <2>2. CASE at = 1 BY <2>1, <2>2
  <2>3. CASE at = 2 BY <2>1, <2>3
  <2>4. CASE at = 3 BY <2>1, <2>4
  <2>5. CASE at = 4 BY <2>1, <2>5
  <2> QED BY <1>1, <2>2, <2>3, <2>4, <2>5
<1>4. CASE kind = "multi"
  <2>1. /\ Len(Script(kind)) = 4
        /\ Script(kind)[1].line = "app" /\ Script(kind)[2].line = "cmd"
        /\ Script(kind)[3].line = "cmd" /\ Script(kind)[4].line = "exit"
    BY <1>4, ScriptIs, StepsAre
  <2>2. CASE at = 1 BY <1>4, <2>1, <2>2
  <2>3. CASE at = 2 BY <1>4, <2>1, <2>3
  <2>4. CASE at = 3 BY <1>4, <2>1, <2>4
  <2>5. CASE at = 4 BY <1>4, <2>1, <2>5
  <2> QED BY <1>1, <2>2, <2>3, <2>4, <2>5
<1> QED BY <1>2, <1>3, <1>4, ScriptIs

\* In step, the line executed is the one just sent, and the answer is the only one.
LEMMA ExecutesInStep ==
    ASSUME Typed, InStep, op.pc # "idle", op.synced,
           NEW text \in Texts, NEW prompt \in {"shell", "app"}, Executes(text, prompt)
    PROVE  /\ op.pc \in {"wait", "code"} /\ Head(inbox) = [op |-> op.id, what |-> Sending]
           /\ inbox' = << >> /\ Len(wire') = 1 /\ DOMAIN wire' = {1}
           /\ wire'[1].text = text /\ wire'[1].prompt = prompt
<1>1. inbox \in Seq(Line) /\ wire \in Seq(Answer) /\ op \in OpStates BY TypedIs
<1>2. /\ inbox # << >> /\ mode # "down" /\ inbox' = Tail(inbox)
      /\ wire' = Append(wire, [what |-> Head(inbox).what, text |-> text, prompt |-> prompt])
  BY Zenon DEF Executes
<1>3. OneOut /\ NoneOut BY DEF InStep
<1>4. op.pc \in {"wait", "code"} BY <1>1, <1>2, <1>3 DEF OpStates, OpPCs, NoneOut
<1>5. /\ Len(inbox) + Len(wire) <= 1
      /\ \A i \in DOMAIN inbox : inbox[i] = [op |-> op.id, what |-> Sending]
  BY <1>3, <1>4 DEF OneOut
<1>6. /\ Head(inbox) = inbox[1] /\ Len(inbox) \in Nat /\ Len(inbox) >= 1 /\ Head(inbox) \in Line
      /\ inbox' \in Seq(Line) /\ Len(inbox') = Len(inbox) - 1
  BY <1>1, <1>2, TailIs
<1>7. Len(wire) \in Nat BY <1>1
<1>8. Len(inbox) = 1 /\ Len(wire) = 0 BY <1>5, <1>6, <1>7
<1>9. 1 \in DOMAIN inbox BY <1>1, <1>8
<1>10. inbox' = << >> BY <1>6, <1>8
<1> DEFINE a == [what |-> Head(inbox).what, text |-> text, prompt |-> prompt]
<1>11. a \in Answer /\ a.text = text /\ a.prompt = prompt BY <1>6 DEF Line, Answer
<1>12. wire' \in Seq(Answer) /\ Len(wire') = 1 /\ wire'[1] = a
  <2> HIDE DEF a
  <2>1. /\ Append(wire, a) \in Seq(Answer) /\ Len(Append(wire, a)) = Len(wire) + 1
        /\ Append(wire, a)[Len(wire) + 1] = a
    BY <1>1, <1>11, AppendIs
  <2>2. wire' = Append(wire, a) BY <1>2 DEF a
  <2> QED BY <1>8, <2>1, <2>2
<1> HIDE DEF a
<1>13. DOMAIN wire' = {1} BY <1>12
<1> QED BY <1>4, <1>5, <1>6, <1>9, <1>10, <1>11, <1>12, <1>13

\* In step, what is read is the only answer there is, and nothing is left.
LEMMA ReadInStep ==
    ASSUME Typed, InStep, op.synced, op.pc \in {"wait", "code"}, NEW n \in 1..Len(wire),
           wire' = SubSeq(wire, n + 1, Len(wire)), UNCHANGED inbox
    PROVE  /\ inbox = << >> /\ wire' = << >> /\ n = 1 /\ Len(wire) = 1
           /\ Read(n) = {wire[1]} /\ (mode # "down" => wire[1].prompt = mode)
<1>1. inbox \in Seq(Line) /\ wire \in Seq(Answer) BY TypedIs
<1>2. OneOut BY DEF InStep
<1>3. Len(inbox) + Len(wire) <= 1 /\ (mode # "down" => \A i \in DOMAIN wire : wire[i].prompt = mode)
  BY <1>2 DEF OneOut
<1>4. Len(inbox) \in Nat /\ Len(wire) \in Nat BY <1>1
<1>5. Len(inbox) = 0 /\ Len(wire) = 1 /\ n = 1
  <2>1. n \in Nat /\ n >= 1 /\ n <= Len(wire) BY <1>4
  <2>2. \A a, b, c \in Nat : a + b <= 1 /\ c >= 1 /\ c <= b => a = 0 /\ b = 1 /\ c = 1 OBVIOUS
  <2>3. Len(inbox) + Len(wire) <= 1 BY <1>3
  <2> QED BY <1>4, <2>1, <2>2, <2>3
<1>6. /\ wire' \in Seq(Answer) /\ Len(wire') = 0 BY <1>1, <1>5, RestIs
<1>7. inbox = << >> /\ wire' = << >> BY <1>1, <1>5, <1>6
<1>8. 1 \in DOMAIN wire BY <1>1, <1>5
<1>9. Read(n) = {wire[1]} BY <1>5 DEF Read
<1> QED BY <1>3, <1>5, <1>7, <1>8, <1>9

\* A session in step does not run the app when the operation ends.
LEMMA OutOfApp ==
    ASSUME Typed, InStep, op.synced, op.pc = "next", AtEnd
    PROVE  mode # "app"
<1> SUFFICES ASSUME mode = "app" PROVE FALSE
  OBVIOUS
<1>1. AppReads BY DEF InStep
<1>2. op.kind \in Kinds /\ op.at \in 1..Len(Script(op.kind)) BY HereIs
<1>3. Here.line = "app" \/ (Here.line = "cmd" /\ AtAppPrompt) BY <1>1 DEF AppReads
<1>4. AtEnd => op.at = Len(Script(op.kind)) \/ (Script(op.kind)[op.at + 1].line = "exit" /\ ~SendsExit)
  BY DEF AtEnd
<1>5. CASE Here.line = "app"
  <2>1. op.at # Len(Script(op.kind)) /\ Script(op.kind)[op.at + 1].line = "cmd"
    BY <1>2, <1>5, FollowsIs DEF Here
  <2> QED BY <1>4, <2>1
<1>6. CASE Here.line = "cmd" /\ AtAppPrompt
  <2>1. op.at # Len(Script(op.kind)) BY <1>2, <1>6, FollowsIs DEF Here
  <2>2. AtAppPrompt => NamesApp BY DEF AtAppPrompt, NamesApp
  <2>3. SendsExit
    <3>1. CASE op.kind = "shm" BY <1>6, <2>2, <3>1 DEF SendsExit
    <3>2. CASE op.kind = "result" BY <1>6, <3>2 DEF SendsExit
    <3>3. CASE op.kind \notin {"shm", "result"} BY <3>3 DEF SendsExit
    <3> QED BY <3>1, <3>2, <3>3
  <2> QED BY <1>4, <2>1, <2>3
<1> QED BY <1>3, <1>5, <1>6

\* A step keeps a session in step.
LEMMA InStepKept == ASSUME Typed, DownEmpty, InStep, [Next]_vars PROVE InStep'
<1> USE DEF OneOut, NoneOut, AppReads
<1>1. ASSUME op'.pc = "idle" PROVE InStep' BY <1>1 DEF InStep
<1>2. CASE UNCHANGED vars
  BY <1>2 DEF vars, InStep, Sending, Here, AtAppPrompt
<1>3. inbox \in Seq(Line) /\ wire \in Seq(Answer) /\ Len(inbox) \in Nat /\ Len(wire) \in Nat
  BY TypedIs
<1>4. ASSUME NEW text \in Texts, NEW prompt \in {"shell", "app"}, Executes(text, prompt)
      PROVE  InStep'
  <2> SUFFICES ASSUME op'.pc # "idle", op'.synced PROVE OneOut' /\ NoneOut' /\ AppReads'
    BY DEF InStep
  <2>1. UNCHANGED op /\ mode' = prompt BY <1>4 DEF Executes
  <2>2. /\ op.pc \in {"wait", "code"} /\ Head(inbox).what = Sending
        /\ inbox' = << >> /\ Len(wire') = 1 /\ DOMAIN wire' = {1} /\ wire'[1].prompt = prompt
    BY <1>4, <2>1, ExecutesInStep
  <2>3. OneOut'
    <3>1. Len(inbox') = 0 /\ DOMAIN inbox' = {} BY <2>2
    <3> QED BY <2>1, <2>2, <3>1
  <2>4. NoneOut' BY <2>1, <2>2
  <2>5. AppReads'
    <3> SUFFICES ASSUME prompt = "app" PROVE Here.line \in {"app", "cmd"} /\ op.pc = "wait"
      BY <2>1 DEF Here
    <3>1. (mode = "app" /\ Sending # "exit") \/ Sending = "app" BY <1>4, <2>2 DEF Executes
    <3>2. AppReads BY <2>1 DEF InStep
    <3>3. op.pc = "code" => Sending = "rc" BY DEF Sending
    <3>4. op.pc = "wait" BY <2>2, <3>1, <3>2, <3>3
    <3>5. Sending = Here.line BY <3>4 DEF Sending
    <3> QED BY <3>1, <3>2, <3>4, <3>5
  <2> QED BY <2>3, <2>4, <2>5
<1>5. CASE Closes
  <2>1. mode' = "down" /\ inbox' = << >> /\ UNCHANGED <<wire, op>> BY <1>5 DEF Closes
  <2>2. Len(inbox') = 0 /\ DOMAIN inbox' = {} BY <2>1
  <2>3. OneOut => OneOut' BY <1>3, <2>1, <2>2
  <2> QED BY <2>1, <2>3 DEF InStep
<1>6. ASSUME NEW kind \in Kinds, Begin(kind) PROVE InStep'
  <2>1. op'.pc = "run" /\ op'.synced = Quiet /\ UNCHANGED <<mode, inbox, wire>>
    BY <1>6, BeginGives
  <2>2. Quiet => mode # "app" /\ (mode # "down" => Len(inbox) = 0 /\ Len(wire) = 0)
    BY <1>3 DEF Quiet, Behind
  <2>3. Quiet => mode # "app" /\ (mode # "down" => inbox = << >> /\ wire = << >>)
    BY <1>3, <2>2
  <2> QED BY <2>1, <2>3 DEF InStep
<1>7. CASE Raise BY <1>1, <1>7, RaiseGives
<1>8. CASE Login
  <2>1. op.pc = "run" /\ mode' = "shell" /\ wire' = << >> /\ inbox' = << >> /\ UNCHANGED op
    BY <1>8, LoginGives DEF DownEmpty
  <2> QED BY <2>1 DEF InStep
<1>9. CASE LoginFails
  <2>1. op'.pc = "next" /\ mode = "down" /\ mode' = "down" BY <1>9, LoginFailsGives
  <2> QED BY <2>1 DEF InStep
<1>10. CASE Send \/ SendEcho
  <2> SUFFICES ASSUME op'.pc # "idle", op'.synced PROVE OneOut' /\ NoneOut' /\ AppReads'
    BY DEF InStep
  <2>1. /\ mode # "down" /\ op' \in OpStates /\ SameOp /\ op'.at = op.at
        /\ UNCHANGED <<mode, wire>>
        /\ \/ op.pc = "run" /\ op'.pc = "wait" /\ inbox' = Append(inbox, [op |-> op.id, what |-> Here.line])
           \/ op.pc = "ask" /\ op'.pc = "code" /\ inbox' = Append(inbox, [op |-> op.id, what |-> "rc"])
    BY <1>10, TransmitGives
  <2>2. Here' = Here /\ op'.id = op.id /\ op.synced BY <2>1 DEF Here, SameOp
  <2>3. inbox = << >> /\ wire = << >> /\ AppReads BY <2>1, <2>2 DEF InStep
  <2>4. /\ Len(inbox') = 1 /\ Len(wire') = 0 /\ DOMAIN inbox' = {1} /\ DOMAIN wire' = {}
        /\ inbox'[1] = [op |-> op'.id, what |-> Sending']
        /\ inbox' # << >>
    BY <2>1, <2>2, <2>3 DEF Sending
  <2>5. OneOut' BY <2>4
  <2>6. AppReads' BY <2>1, <2>2, <2>3, <2>4
  <2> QED BY <2>1, <2>5, <2>6
<1>11. ASSUME NEW n \in DOMAIN wire, ReceiveAnswer(n) PROVE InStep'
  <2> SUFFICES ASSUME op'.pc # "idle", op'.synced PROVE OneOut' /\ NoneOut' /\ AppReads'
    BY DEF InStep
  <2>1. /\ op.pc = "wait" /\ SameOp /\ Here' = Here
        /\ op'.pc = (IF Here.rc THEN "ask" ELSE "next")
        /\ op'.heard = (IF Here.line \in {"cmd", "cli"} THEN Read(n) ELSE op.heard)
        /\ n \in 1..Len(wire) /\ wire' = SubSeq(wire, n + 1, Len(wire))
        /\ UNCHANGED <<mode, inbox>>
    BY <1>11, ReceiveAnswerGives
  <2>2. op.synced BY <2>1 DEF SameOp
  <2>3. /\ inbox = << >> /\ wire' = << >> /\ Read(n) = {wire[1]}
        /\ mode # "down" => wire[1].prompt = mode
    BY <2>1, <2>2, ReadInStep
  <2>4. OneOut' /\ NoneOut' BY <2>1, <2>3
  <2>5. AppReads'
    <3> SUFFICES ASSUME mode = "app"
                 PROVE  \/ Here.line = "app" /\ op'.pc = "next"
                        \/ Here.line = "cmd" /\ op'.pc = "next" /\ AtAppPrompt'
      BY <2>1
    <3>1. Here.line \in {"app", "cmd"}
      <4>1. AppReads BY <2>1, <2>2 DEF InStep
      <4> QED BY <2>1, <2>3, <4>1
    <3>2. op'.pc = "next" BY <2>1, <3>1, HereIs
    <3>3. Here.line = "cmd" => AtAppPrompt' BY <2>1, <2>3 DEF AtAppPrompt
    <3> QED BY <3>1, <3>2, <3>3
  <2> QED BY <2>4, <2>5
<1>12. ASSUME NEW n \in DOMAIN wire, ReceiveCode(n) PROVE InStep'
  <2> SUFFICES ASSUME op'.pc # "idle", op'.synced PROVE OneOut' /\ NoneOut' /\ AppReads'
    BY DEF InStep
  <2>1. /\ op.pc = "code" /\ SameOp /\ op'.pc = "next"
        /\ n \in 1..Len(wire) /\ wire' = SubSeq(wire, n + 1, Len(wire))
        /\ UNCHANGED <<mode, inbox>>
    BY <1>12, ReceiveCodeGives
  <2>2. op.synced BY <2>1 DEF SameOp
  <2>3. inbox = << >> /\ wire' = << >> BY <2>1, <2>2, ReadInStep
  <2>4. mode # "app" BY <2>1, <2>2 DEF InStep
  <2> QED BY <2>1, <2>3, <2>4
<1>13. CASE Continue
  <2>1. op.pc = "next" /\ UNCHANGED <<mode, inbox, wire>> BY <1>13, ContinueGives
  <2>2. CASE Return(Verdict) BY <1>1, <2>2, NoOpIs DEF Return
  <2>3. CASE SameOp /\ op'.pc = "run" /\ op'.at = op.at + 1
    <3> SUFFICES ASSUME op'.synced PROVE NoneOut' /\ AppReads'
      BY <2>3 DEF InStep
    <3>1. op.synced /\ op'.kind = op.kind BY <2>3 DEF SameOp
    <3>2. NoneOut /\ AppReads BY <2>1, <3>1 DEF InStep
    <3>3. mode = "app" => Here.line \in {"app", "cmd"} BY <2>1, <3>2
    <3>4. Here.line \in {"app", "cmd"} => Here'.line \in {"cmd", "exit"}
      <4>1. op.kind \in Kinds /\ op.at \in 1..Len(Script(op.kind)) BY <2>1, HereIs
      <4>2. Here' = Script(op.kind)[op.at + 1] BY <2>3, <3>1 DEF Here
      <4> QED BY <4>1, <4>2, FollowsIs DEF Here
    <3> QED BY <2>1, <2>3, <3>2, <3>3, <3>4
  <2> QED BY <1>13, <2>2, <2>3, ContinueGives
<1>14. CASE Remote \/ Die BY <1>4, <1>5, <1>14, RemoteIs
<1> QED BY <1>2, <1>6, <1>7, <1>8, <1>9, <1>10, <1>11, <1>12, <1>13, <1>14, Zenon DEF Next, Tester

\* A step keeps what an operation knows of its command.
LEMMA ReportsKept == ASSUME Typed, DownEmpty, InStep, Reports, [Next]_vars PROVE Reports'
<1> DEFINE Told == Given /\ Heard("done") /\ ~Heard("failed")
<1>1. ASSUME op'.pc = "idle" PROVE Reports' BY <1>1 DEF Reports
<1>2. ASSUME SameOp, op'.at = op.at, UNCHANGED served, op'.heard = op.heard, op.pc # "idle",
             (op.pc = "wait" /\ op.at = CmdAt) =>
                op'.pc = "wait" /\ (inbox = << >> => inbox' = << >>) /\ UNCHANGED wire,
             Given => Given'
      PROVE  Reports'
  <2> SUFFICES ASSUME op'.synced, op'.kind # "multi", op'.id \in served' PROVE Answering' \/ Told'
    BY DEF Reports
  <2>1. Answering \/ Told BY <1>2 DEF Reports, SameOp
  <2>2. CmdAt' = CmdAt BY <1>2 DEF CmdAt, SameOp
  <2>3. Answering => Answering' BY <1>2, <2>2 DEF Answering
  <2>4. Told => Told' BY <1>2 DEF Heard
  <2> QED BY <2>1, <2>3, <2>4
<1>3. CASE UNCHANGED vars
  BY <1>3 DEF vars, Reports, Answering, Given, CmdAt, Heard
<1>4. ASSUME NEW text \in Texts, NEW prompt \in {"shell", "app"}, Executes(text, prompt)
      PROVE  Reports'
  <2> SUFFICES ASSUME op'.pc # "idle", op'.synced, op'.kind # "multi", op'.id \in served'
               PROVE  Answering' \/ Told'
    BY DEF Reports
  <2>1. UNCHANGED op /\ inbox # << >> BY <1>4 DEF Executes
  <2>2. /\ op.pc \in {"wait", "code"} /\ Head(inbox).what = Sending
        /\ inbox' = << >> /\ DOMAIN wire' = {1} /\ wire'[1].text = text
    BY <1>4, <2>1, ExecutesInStep
  <2>3. CASE text = "done"
    <3>1. Sending \in {"cmd", "cli"} BY <1>4, <2>2, <2>3 DEF Executes
    <3>2. op.pc = "wait" /\ Here.line \in {"cmd", "cli"} BY <2>2, <3>1 DEF Sending
    <3>3. op.at = CmdAt
      <4>1. op.kind \in Kinds /\ op.at \in 1..Len(Script(op.kind)) BY <3>2, HereIs
      <4> QED BY <2>1, <3>2, <4>1, FollowsIs DEF Here, CmdAt
    <3> QED BY <2>1, <2>2, <2>3, <3>2, <3>3 DEF Answering, CmdAt
  <2>4. CASE text # "done"
    <3>1. UNCHANGED served BY <1>4, <2>4 DEF Executes
    <3>2. Answering \/ Told BY <2>1, <3>1 DEF Reports
    <3>3. Told BY <2>1, <3>2 DEF Answering
    <3> QED BY <2>1, <3>3 DEF Given, CmdAt, Heard
  <2> QED BY <2>3, <2>4
<1>5. CASE Closes
  <2>1. inbox' = << >> /\ UNCHANGED <<wire, op, served>> BY <1>5 DEF Closes
  <2> QED BY <2>1 DEF Reports, Answering, Given, CmdAt, Heard
<1>6. ASSUME NEW kind \in Kinds, Begin(kind) PROVE Reports'
  <2>1. op.pc = "idle" /\ op'.id = last.id + 1 /\ UNCHANGED served BY <1>6, BeginGives
  <2>2. last.id \in Nat BY TypedIs, BorrowOpsAssumption DEF Returns
  <2>3. \A k \in served : k <= last.id /\ k \in Int
    BY <2>1, TypedIs, BorrowOpsAssumption DEF Now
  <2>4. op'.id \notin served' BY <2>1, <2>2, <2>3
  <2> QED BY <2>4 DEF Reports
<1>7. CASE Raise BY <1>1, <1>7, RaiseGives
<1>8. CASE Login
  <2>1. op.pc = "run" /\ UNCHANGED <<op, served>> BY <1>8, LoginGives
  <2> QED BY <2>1 DEF Reports, Answering, Given, CmdAt, Heard
<1>9. CASE LoginFails
  <2>1. /\ op.pc = "run" /\ op'.pc = "next" /\ SameOp /\ op'.at = op.at /\ op'.heard = op.heard
        /\ UNCHANGED served
    BY <1>9, LoginFailsGives
  <2>2. Given => Given' BY <2>1 DEF Given, CmdAt, SameOp
  <2> QED BY <1>2, <2>1, <2>2
<1>10. CASE Send \/ SendEcho
  <2>1. /\ SameOp /\ op'.at = op.at /\ op'.heard = op.heard /\ UNCHANGED served
        /\ op.pc = "run" \/ (op.pc = "ask" /\ op'.pc = "code")
    BY <1>10, TransmitGives
  <2>2. Given => Given' BY <2>1 DEF Given, CmdAt, SameOp
  <2> QED BY <1>2, <2>1, <2>2
<1>11. ASSUME NEW n \in DOMAIN wire, ReceiveAnswer(n) PROVE Reports'
  <2> SUFFICES ASSUME op'.pc # "idle", op'.synced, op'.kind # "multi", op'.id \in served'
               PROVE  Told'
    BY DEF Reports
  <2>1. /\ op.pc = "wait" /\ SameOp /\ op'.at = op.at
        /\ op'.pc = (IF Here.rc THEN "ask" ELSE "next")
        /\ op'.heard = (IF Here.line \in {"cmd", "cli"} THEN Read(n) ELSE op.heard)
        /\ n \in 1..Len(wire) /\ wire' = SubSeq(wire, n + 1, Len(wire))
        /\ UNCHANGED <<inbox, served>>
    BY <1>11, ReceiveAnswerGives
  <2>2. op.synced /\ op.kind # "multi" /\ op.id \in served BY <2>1 DEF SameOp
  <2>3. Answering \/ Told BY <2>1, <2>2 DEF Reports
  <2>4. Read(n) = {wire[1]} /\ DOMAIN wire = {1}
    <3>1. Read(n) = {wire[1]} /\ Len(wire) = 1 BY <2>1, <2>2, ReadInStep
    <3>2. wire \in Seq(Answer) BY TypedIs
    <3> QED BY <3>1, <3>2
  <2>5. op.kind \in Kinds /\ op.at \in 1..Len(Script(op.kind)) BY <2>1, HereIs
  <2>6. CmdAt' = CmdAt BY <2>1 DEF CmdAt, SameOp
  <2>7. op'.pc \in {"ask", "next"} BY <2>1
  <2>8. CASE Answering
    <3>1. Here.line \in {"cmd", "cli"} BY <2>2, <2>5, <2>8, FollowsIs DEF Here, Answering, CmdAt
    <3>2. wire[1].text = "done" BY <2>4, <2>8 DEF Answering
    <3>3. op'.heard = {wire[1]} BY <2>1, <2>4, <3>1
    <3>4. Given' BY <2>1, <2>6, <2>7, <2>8 DEF Given, Answering
    <3>5. Heard("done")' /\ ~Heard("failed")' BY <3>2, <3>3 DEF Heard
    <3> QED BY <3>4, <3>5
  <2>9. CASE Told
    <3>1. op.at > CmdAt BY <2>1, <2>9 DEF Given
    <3>2. Here.line = "exit" BY <2>2, <2>5, <3>1, FollowsIs DEF Here, CmdAt
    <3>3. op'.heard = op.heard BY <2>1, <3>2
    <3>4. Given' BY <2>1, <2>6, <3>1 DEF Given
    <3>5. Heard("done")' /\ ~Heard("failed")' BY <2>9, <3>3 DEF Heard
    <3> QED BY <3>4, <3>5
  <2> QED BY <2>3, <2>8, <2>9
<1>12. ASSUME NEW n \in DOMAIN wire, ReceiveCode(n) PROVE Reports'
  <2>1. /\ op.pc = "code" /\ SameOp /\ op'.at = op.at /\ op'.pc = "next" /\ op'.heard = op.heard
        /\ UNCHANGED served
    BY <1>12, ReceiveCodeGives
  <2>2. Given => Given' BY <2>1 DEF Given, CmdAt, SameOp
  <2> QED BY <1>2, <2>1, <2>2
<1>13. CASE Continue
  <2>1. op.pc = "next" /\ UNCHANGED served BY <1>13, ContinueGives
  <2>2. CASE Return(Verdict) BY <1>1, <2>2, NoOpIs DEF Return
  <2>3. CASE SameOp /\ op'.pc = "run" /\ op'.at = op.at + 1 /\ op'.heard = op.heard
    <3> SUFFICES ASSUME op'.synced, op'.kind # "multi", op'.id \in served' PROVE Told'
      BY DEF Reports
    <3>1. Told BY <2>1, <2>3 DEF Reports, SameOp, Answering
    <3>2. CmdAt' = CmdAt /\ CmdAt \in Nat BY <2>3 DEF CmdAt, SameOp
    <3>3. op.at \in Nat /\ op.at >= CmdAt
      <4>1. op.at \in 1..4 BY <2>1, HereIs
      <4> QED BY <3>1, <3>2, <4>1 DEF Given
    <3>4. Given' BY <2>3, <3>2, <3>3 DEF Given
    <3>5. Heard("done")' /\ ~Heard("failed")' BY <2>3, <3>1 DEF Heard
    <3> QED BY <3>4, <3>5
  <2> QED BY <1>13, <2>2, <2>3, ContinueGives
<1>14. CASE Remote \/ Die BY <1>4, <1>5, <1>14, RemoteIs
<1> QED BY <1>3, <1>6, <1>7, <1>8, <1>9, <1>10, <1>11, <1>12, <1>13, <1>14, Zenon DEF Next, Tester

\* What an operation in step sent has been executed when it returns.
LEMMA NothingOut ==
    ASSUME Typed, DownEmpty, InStep, op.pc = "next", op.synced
    PROVE  inbox = << >> /\ (mode # "down" => wire = << >>)
<1>1. NoneOut BY DEF InStep
<1> QED BY <1>1 DEF NoneOut, DownEmpty

\* A step keeps Over.
LEMMA OverKept == ASSUME Typed, DownEmpty, InStep, Over, [Next]_vars PROVE Over'
<1>1. inbox \in Seq(Line) BY TypedIs
<1>2. ASSUME UNCHANGED <<inbox, last>> PROVE Over' BY <1>2 DEF Over
<1>3. ASSUME inbox' = << >> PROVE Over'
  <2>1. DOMAIN inbox' = {} BY <1>3
  <2> QED BY <2>1 DEF Over
<1>4. CASE UNCHANGED vars BY <1>2, <1>4 DEF vars
<1>5. ASSUME NEW text \in Texts, NEW prompt \in {"shell", "app"}, Executes(text, prompt)
      PROVE  Over'
  <2>1. inbox # << >> /\ inbox' = Tail(inbox) /\ UNCHANGED last BY <1>5 DEF Executes
  <2>2. /\ Len(inbox) \in Nat /\ inbox' \in Seq(Line) /\ Len(inbox') = Len(inbox) - 1
        /\ \A i \in 1..(Len(inbox) - 1) : inbox'[i] = inbox[i + 1]
    BY <1>1, <2>1, TailIs
  <2>3. \A i \in DOMAIN inbox' : i + 1 \in DOMAIN inbox /\ inbox'[i] = inbox[i + 1]
    BY <1>1, <2>2
  <2> QED BY <2>1, <2>3 DEF Over
<1>6. CASE Closes BY <1>3, <1>6 DEF Closes
<1>7. ASSUME NEW kind \in Kinds, Begin(kind) PROVE Over' BY <1>2, <1>7, BeginGives
<1>8. CASE Raise BY <1>8, RaiseGives DEF Over
<1>9. CASE Login BY <1>2, <1>9, LoginGives
<1>10. CASE LoginFails BY <1>2, <1>10, LoginFailsGives
<1>11. CASE Send \/ SendEcho
  <2>1. op.pc # "idle" /\ UNCHANGED last BY <1>11, TransmitGives
  <2>2. op.id \in 1..MaxOps /\ op.id = last.id + 1 BY <2>1, HereIs
  <2>3. last.id \in Nat BY TypedIs, BorrowOpsAssumption DEF Returns
  <2>4. op.id # last.id BY <2>2, <2>3
  <2>5. PICK what \in Lines : inbox' = Append(inbox, [op |-> op.id, what |-> what])
    <3>1. "rc" \in Lines /\ Here.line \in Lines BY <2>1, HereIs DEF Lines
    <3> QED BY <1>11, <3>1, TransmitGives
  <2> DEFINE line == [op |-> op.id, what |-> what]
  <2>6. line \in Line /\ line.op = op.id BY <2>2 DEF Line
  <2> HIDE DEF line
  <2>7. /\ inbox' \in Seq(Line) /\ Len(inbox') = Len(inbox) + 1 /\ Len(inbox) \in Nat
        /\ \A i \in 1..Len(inbox) : inbox'[i] = inbox[i]
        /\ inbox'[Len(inbox) + 1] = line
    <3>1. inbox' = Append(inbox, line) BY <2>5 DEF line
    <3> QED BY <1>1, <2>6, <3>1, AppendIs
  <2>8. \A i \in DOMAIN inbox' : (i \in DOMAIN inbox /\ inbox'[i] = inbox[i]) \/ inbox'[i] = line
    BY <1>1, <2>7
  <2> QED BY <2>1, <2>4, <2>6, <2>8 DEF Over
<1>12. ASSUME NEW n \in DOMAIN wire, ReceiveAnswer(n) PROVE Over' BY <1>2, <1>12, ReceiveAnswerGives
<1>13. ASSUME NEW n \in DOMAIN wire, ReceiveCode(n) PROVE Over' BY <1>2, <1>13, ReceiveCodeGives
<1>14. CASE Continue
  <2>1. op.pc = "next" /\ UNCHANGED inbox BY <1>14, ContinueGives
  <2>2. CASE UNCHANGED last BY <1>2, <2>1, <2>2
  <2>3. CASE Return(Verdict) /\ Verdict \in Verdicts
    <3>1. last'.synced = op.synced BY <2>1, <2>3, ReturnGives
    <3>2. CASE op.synced BY <1>3, <2>1, <3>2, NothingOut
    <3>3. CASE ~op.synced BY <3>1, <3>3 DEF Over
    <3> QED BY <3>2, <3>3
  <2> QED BY <1>14, <2>2, <2>3, ContinueGives
<1>15. CASE Remote \/ Die BY <1>5, <1>6, <1>15, RemoteIs
<1> QED BY <1>4, <1>7, <1>8, <1>9, <1>10, <1>11, <1>12, <1>13, <1>14, <1>15, Zenon DEF Next, Tester

\* A step keeps FalseIsFailure.
LEMMA FalseKept ==
    ASSUME Typed, InStep, Reports, Over, FalseIsFailure, [Next]_vars
    PROVE  FalseIsFailure'
<1>1. CASE UNCHANGED <<last, served>> BY <1>1 DEF FalseIsFailure
<1>2. ASSUME NEW text \in Texts, NEW prompt \in {"shell", "app"}, Executes(text, prompt)
      PROVE  FalseIsFailure'
  <2> SUFFICES ASSUME last'.verdict = "false", last'.synced PROVE last'.id \notin served'
    BY DEF FalseIsFailure
  <2>1. inbox # << >> /\ UNCHANGED last /\ (served' = served \/ served' = served \cup {Head(inbox).op})
    BY <1>2 DEF Executes, Serve
  <2>2. Head(inbox) = inbox[1] /\ 1 \in DOMAIN inbox
    <3>1. inbox \in Seq(Line) BY TypedIs
    <3> QED BY <2>1, <3>1, TailIs
  <2>3. inbox[1].op # last.id BY <2>1, <2>2 DEF Over
  <2> QED BY <2>1, <2>2, <2>3 DEF FalseIsFailure
<1>3. CASE Raise BY <1>3, RaiseGives DEF FalseIsFailure
<1>4. CASE op.pc = "next" /\ Continue /\ Return(Verdict) /\ Verdict \in Verdicts
  <2>1. /\ last'.id = op.id /\ last'.synced = op.synced /\ last'.verdict = Verdict
        /\ UNCHANGED served
    BY <1>4, ReturnGives, ContinueGives
  <2>2. Verdict = "false" => op.kind # "multi" /\ (Heard("done") => Heard("failed"))
    BY <1>4, VerdictIs
  <2>3. (op.synced /\ op.kind # "multi" /\ op.id \in served) => Heard("done") /\ ~Heard("failed")
    BY <1>4 DEF Reports, Answering
  <2> QED BY <2>1, <2>2, <2>3 DEF FalseIsFailure
<1>5. CASE Remote \/ Die
  <2>1. CASE Closes BY <1>1, <2>1 DEF Closes
  <2> QED BY <1>2, <1>5, <2>1, RemoteIs
<1>6. CASE UNCHANGED vars BY <1>1, <1>6 DEF vars
<1>7. ASSUME NEW kind \in Kinds, Begin(kind) PROVE FalseIsFailure' BY <1>1, <1>7, BeginGives
<1>8. CASE Login BY <1>1, <1>8, LoginGives
<1>9. CASE LoginFails BY <1>1, <1>9, LoginFailsGives
<1>10. CASE Send \/ SendEcho BY <1>1, <1>10, TransmitGives
<1>11. ASSUME NEW n \in DOMAIN wire, ReceiveAnswer(n) PROVE FalseIsFailure'
  BY <1>1, <1>11, ReceiveAnswerGives
<1>12. ASSUME NEW n \in DOMAIN wire, ReceiveCode(n) PROVE FalseIsFailure'
  BY <1>1, <1>12, ReceiveCodeGives
<1>13. CASE Continue
  <2>1. op.pc = "next" /\ UNCHANGED served BY <1>13, ContinueGives
  <2>2. UNCHANGED last \/ (Return(Verdict) /\ Verdict \in Verdicts) BY <1>13, ContinueGives
  <2> QED BY <1>1, <1>4, <1>13, <2>1, <2>2
<1> QED BY <1>3, <1>5, <1>6, <1>7, <1>8, <1>9, <1>10, <1>11, <1>12, <1>13, Zenon DEF Next, Tester

\* In step, failure is the truth: an operation whose command was carried out says so or raises.
THEOREM FalseTrue == Spec => []FalseIsFailure
<1> DEFINE Inv == Typed /\ DownEmpty /\ InStep /\ Reports /\ Over /\ FalseIsFailure
<1>1. Init => Inv
  <2> SUFFICES ASSUME Init PROVE Inv
    OBVIOUS
  <2>1. op = NoOp /\ last = NoReturn BY DEF Init
  <2>2. op.pc = "idle" /\ last.synced = FALSE BY <2>1, NoOpIs DEF NoReturn
  <2> QED BY <2>2, InitTyped, InitOwn DEF InStep, Reports, Over, FalseIsFailure
<1>2. Inv /\ [Next]_vars => Inv'
  BY TypedStep, DownEmptyKept, InStepKept, ReportsKept, OverKept, FalseKept
<1>3. Inv => FalseIsFailure OBVIOUS
<1> HIDE DEF Inv
<1> QED BY <1>1, <1>2, <1>3, PTL DEF Spec

\* A step keeps LeavesShell.
LEMMA LeavesShellKept ==
    ASSUME Typed, DownEmpty, InStep, LeavesShell, [Next]_vars
    PROVE  LeavesShell'
<1>1. ASSUME op'.pc # "idle" PROVE LeavesShell' BY <1>1 DEF LeavesShell
<1>2. inbox \in Seq(Line) /\ wire \in Seq(Answer) /\ Len(inbox) \in Nat /\ Len(wire) \in Nat
  BY TypedIs
<1>3. CASE UNCHANGED vars
  BY <1>3 DEF vars, LeavesShell, Quiet, Behind
<1>4. ASSUME NEW text \in Texts, NEW prompt \in {"shell", "app"}, Executes(text, prompt)
      PROVE  LeavesShell'
  <2>1. inbox # << >> /\ mode # "down" /\ UNCHANGED <<op, last>> BY <1>4 DEF Executes
  <2>2. Len(inbox) >= 1 BY <1>2, <2>1, TailIs
  <2>3. ~Quiet BY <1>2, <2>1, <2>2 DEF Quiet, Behind
  <2> QED BY <2>1, <2>3 DEF LeavesShell
<1>5. CASE Closes BY <1>5 DEF Closes, LeavesShell, Quiet, Behind
<1>6. ASSUME NEW kind \in Kinds, Begin(kind) PROVE LeavesShell' BY <1>1, <1>6, BeginGives
<1>7. CASE Raise BY <1>7, RaiseGives DEF LeavesShell
<1>8. CASE Login BY <1>1, <1>8, LoginGives
<1>9. CASE LoginFails BY <1>1, <1>9, LoginFailsGives
<1>10. CASE Send \/ SendEcho BY <1>1, <1>10, TransmitGives
<1>11. ASSUME NEW n \in DOMAIN wire, ReceiveAnswer(n) PROVE LeavesShell'
  <2>1. op'.pc = (IF Here.rc THEN "ask" ELSE "next") BY <1>11, ReceiveAnswerGives
  <2> QED BY <1>1, <2>1
<1>12. ASSUME NEW n \in DOMAIN wire, ReceiveCode(n) PROVE LeavesShell'
  BY <1>1, <1>12, ReceiveCodeGives
<1>13. CASE Continue
  <2>1. op.pc = "next" /\ UNCHANGED <<mode, inbox, wire>> BY <1>13, ContinueGives
  <2>2. CASE op'.pc = "run" BY <1>1, <2>2
  <2>3. CASE AtEnd /\ Return(Verdict) /\ Verdict \in Verdicts
    <3>1. last'.synced = op.synced BY <2>1, <2>3, ReturnGives
    <3>2. ASSUME op.synced PROVE Quiet'
      <4>1. mode # "app" BY <2>1, <2>3, <3>2, OutOfApp
      <4>2. inbox = << >> /\ (mode # "down" => wire = << >>) BY <2>1, <3>2, NothingOut
      <4>3. Behind' = 0 BY <2>1, <4>2 DEF Behind
      <4> QED BY <2>1, <4>1, <4>3 DEF Quiet
    <3> QED BY <3>1, <3>2 DEF LeavesShell
  <2> QED BY <1>13, <2>2, <2>3, ContinueGives
<1>14. CASE Remote \/ Die BY <1>4, <1>5, <1>14, RemoteIs
<1> QED BY <1>3, <1>6, <1>7, <1>8, <1>9, <1>10, <1>11, <1>12, <1>13, <1>14, Zenon DEF Next, Tester

\* An operation that began in step and did not raise leaves the session in step.
THEOREM ShellLeft == Spec => []LeavesShell
<1> DEFINE Inv == Typed /\ DownEmpty /\ InStep /\ LeavesShell
<1>1. Init => Inv
  <2> SUFFICES ASSUME Init PROVE Inv
    OBVIOUS
  <2>1. op = NoOp /\ last = NoReturn BY DEF Init
  <2>2. op.pc = "idle" /\ last.synced = FALSE BY <2>1, NoOpIs DEF NoReturn
  <2> QED BY <2>2, InitTyped, InitOwn DEF InStep, LeavesShell
<1>2. Inv /\ [Next]_vars => Inv' BY TypedStep, DownEmptyKept, InStepKept, LeavesShellKept
<1>3. Inv => LeavesShell OBVIOUS
<1> HIDE DEF Inv
<1> QED BY <1>1, <1>2, <1>3, PTL DEF Spec
=============================================================================
