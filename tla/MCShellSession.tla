--------------------------- MODULE MCShellSession ---------------------------
(* Values of the constants of ShellSession for model checking. *)
EXTENDS ShellSession

PlanOf(on) == [cd        |-> "cd" \in on,
               inputs    |-> IF "input" \in on THEN 1 ELSE 0,
               custom    |-> "custom" \in on,
               raise     |-> ~("noraise" \in on),
               interrupt |-> "interrupt" \in on,
               shnormal  |-> "shnormal" \in on,
               code      |-> ~("nocode" \in on),
               clear     |-> "clear" \in on]

\* run() as most callers use it.
PlainPlans == {PlanOf({})}

\* An interactive command with its own pattern after clearing the channel, a
\* command that is interrupted when it does not end, and one that restores the
\* prompt.
OptionPlans == {PlanOf({"custom", "input", "clear", "nocode"}),
                PlanOf({"cd", "noraise", "interrupt", "nocode"}),
                PlanOf({"shnormal", "nocode"})}
====
