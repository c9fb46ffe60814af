------------------------------ MODULE LifeCycle ------------------------------
(***************************************************************************)
(* A pytest session over the test packages: the hooks that the cases name  *)
(* are run by the runtestloop wrapper of testcases/ubse/conftest.py around *)
(* all tests, the hook of --test-hook by the package fixture around the    *)
(* tests of each package, setup_method and teardown_method around each     *)
(* test, and the cleanup actions after it.  With pytest-xdist every worker *)
(* is such a session, and the workers share the tests and the nodes.       *)
(***************************************************************************)
EXTENDS Integers, Sequences

CONSTANTS Workers,     \* the processes of the session: one, or those of -n
          Items,       \* the packages of the tests, in the order of collection
          Collected,   \* the hooks the cases name
          TestHook,    \* whether --test-hook names one
          Fixtured,    \* the packages whose conftest imports package_hook_fixture
          ExitFirst,   \* whether a failure ends the session (-x)
          MaxActions,  \* bound on the cleanup actions a test adds
          None

Packages == {Items[i] : i \in DOMAIN Items}
Origins == Collected \cup Packages

\* pytest groups the tests that share a fixture: those of a package come together.
ASSUME LifeCycleAssumption ==
    /\ Items \in Seq(Packages)
    /\ \A i, j, k \in DOMAIN Items : i <= j /\ j <= k /\ Items[i] = Items[k] => Items[j] = Items[i]
    /\ Collected \cap Packages = {} /\ None \notin Origins
    /\ Fixtured \subseteq Packages
    /\ TestHook \in BOOLEAN /\ ExitFirst \in BOOLEAN
    /\ MaxActions \in Nat

VARIABLES
    hooked,     \* the hook of --test-hook is named and loads, and there are nodes
    pool,       \* the next test nobody has
    proc,       \* per worker: where it is, and what it holds
    completed,  \* per worker: how often each beforePreTestSet() returned
    after,      \* per worker: how often each afterPostTestSet() was called
    begun,      \* the packages of which some test has begun
    late        \* the packages whose hook ran after one of their tests had begun

vars == <<hooked, pool, proc, completed, after, begun, late>>

Proc == [pc : {"hooks", "next", "closing", "package", "setup", "body", "teardown", "cleanup",
               "afters", "over"},
         item : 0..Len(Items),                        \* the test it runs, or will run
         left : SUBSET Collected,                     \* hooks still to run
         executed : SUBSET Collected,                 \* _hooks_executed
         package : Packages \cup {None},              \* whose package fixture is set up
         fixture : {"new", "off", "up", "raised"},
         stack : 0..2 * MaxActions,                   \* _cleanup_stack
         failed : BOOLEAN, stopped : BOOLEAN]

TypeOK ==
    /\ hooked \in BOOLEAN
    /\ pool \in 1..(Len(Items) + 1)
    /\ proc \in [Workers -> Proc]
    /\ \A w \in Workers : (proc[w].fixture = "new") <=> (proc[w].package = None)
    /\ completed \in [Workers -> [Origins -> 0..1]] /\ after \in [Workers -> [Origins -> 0..1]]
    /\ begun \subseteq Packages /\ late \subseteq begun

\* A session without nodes runs no hook.
Init ==
    /\ hooked \in {FALSE, TestHook}
    /\ pool = 1
    /\ \E left \in {Collected, {}} :
          /\ hooked => left = Collected
          /\ proc = [w \in Workers |->
                       [pc |-> "hooks", item |-> 0, left |-> left, executed |-> {}, package |-> None,
                        fixture |-> "new", stack |-> 0, failed |-> FALSE, stopped |-> FALSE]]
    /\ completed = [w \in Workers |-> [o \in Origins |-> 0]]
    /\ after = [w \in Workers |-> [o \in Origins |-> 0]]
    /\ begun = {} /\ late = {}

At(w, pc) == proc[w].pc = pc
Step(w, new) == proc' = [proc EXCEPT ![w] = new]
Go(w, pc) == Step(w, [proc[w] EXCEPT !.pc = pc])
Count(log, w, o) == [log EXCEPT ![w][o] = @ + 1]

---------------------------------------------------------------------------
(* pytest_runtestloop: the hooks the cases name, before and after.         *)

\* A hook that cannot be imported, or raises, is logged, and the tests run.
LoopHook(w) ==
    /\ At(w, "hooks")
    /\ \E h \in proc[w].left :
          \/ /\ Step(w, [proc[w] EXCEPT !.left = @ \ {h}, !.executed = @ \cup {h}])
             /\ completed' = Count(completed, w, h)
          \/ /\ Step(w, [proc[w] EXCEPT !.left = @ \ {h}])
             /\ UNCHANGED completed
    /\ UNCHANGED <<hooked, pool, after, begun, late>>

StartTests(w) ==
    /\ At(w, "hooks")
    /\ proc[w].left = {}
    /\ Go(w, "next")
    /\ UNCHANGED <<hooked, pool, completed, after, begun, late>>

LoopAfter(w) ==
    /\ At(w, "afters")
    /\ \/ \E h \in proc[w].executed :
             /\ Step(w, [proc[w] EXCEPT !.executed = @ \ {h}])
             /\ after' = Count(after, w, h)
       \/ proc[w].executed = {} /\ Go(w, "over") /\ UNCHANGED after
    /\ UNCHANGED <<hooked, pool, completed, begun, late>>

---------------------------------------------------------------------------
(* The tests, and package_hook_fixture around those of a package.          *)

NextItem(w) == IF pool <= Len(Items) /\ ~proc[w].stopped THEN pool ELSE 0

\* The package fixture ends when the next test is of another package, or none is left.
Closes(w, item) == proc[w].package # None /\ (item = 0 \/ Items[item] # proc[w].package)

Whereto(item, stopped) ==
    IF stopped THEN "over" ELSE IF item # 0 THEN "package" ELSE "afters"

\* The worker takes its next item; a failure under -x has stopped it.
TakeNext(w) ==
    /\ At(w, "next")
    /\ LET item == NextItem(w)
       IN  /\ pool' = IF item = 0 THEN pool ELSE pool + 1
           /\ Step(w, [proc[w] EXCEPT !.item = item, !.failed = FALSE,
                         !.pc = IF Closes(w, item) THEN "closing"
                                ELSE IF proc[w].package # None THEN "setup"
                                ELSE Whereto(item, proc[w].stopped)])
    /\ UNCHANGED <<hooked, completed, after, begun, late>>

\* Faulty variant: the next package is taken for one whose hook has run.
CloseKeepingFixture(w) ==
    /\ At(w, "closing")
    /\ Step(w, [proc[w] EXCEPT !.package = None,
                               !.pc = Whereto(proc[w].item, proc[w].stopped)])
    /\ after' = IF proc[w].fixture = "up" THEN Count(after, w, proc[w].package) ELSE after
    /\ UNCHANGED <<hooked, pool, completed, begun, late>>

\* afterPostTestSet() of the package's hook, when its beforePreTestSet() returned.
\* What it raises is an error of the package's last test, and counts under -x.
Close(w) ==
    /\ At(w, "closing")
    /\ \E raises \in {FALSE, proc[w].fixture = "up"} :
          LET stopped == proc[w].stopped \/ (ExitFirst /\ raises)
          IN  Step(w, [proc[w] EXCEPT !.package = None, !.fixture = "new", !.stopped = stopped,
                                      !.pc = Whereto(proc[w].item, stopped)])
    /\ after' = IF proc[w].fixture = "up" THEN Count(after, w, proc[w].package) ELSE after
    /\ UNCHANGED <<hooked, pool, completed, begun, late>>

Fixture(w, state) ==
    Step(w, [proc[w] EXCEPT !.pc = "setup", !.package = Items[proc[w].item], !.fixture = state])

Hooked(p) == hooked /\ p \in Fixtured

HookRuns(p) == late' = IF p \in begun THEN late \cup {p} ELSE late

\* Faulty variant: what the hook raises is logged, and the tests run.
OpenAnyhow(w) ==
    /\ At(w, "package")
    /\ \/ ~Hooked(Items[proc[w].item]) /\ Fixture(w, "off") /\ UNCHANGED <<completed, late>>
       \/ /\ Hooked(Items[proc[w].item])
          /\ HookRuns(Items[proc[w].item])
          /\ Fixture(w, "up")
          /\ completed' \in {completed, Count(completed, w, Items[proc[w].item])}
    /\ UNCHANGED <<hooked, pool, after, begun>>

\* The package has no such fixture, no hook is named, it cannot be loaded, or there
\* are no nodes: the tests run without.  One that raises fails every test of the package.
Open(w) ==
    /\ At(w, "package")
    /\ \/ ~Hooked(Items[proc[w].item]) /\ Fixture(w, "off") /\ UNCHANGED <<completed, late>>
       \/ /\ Hooked(Items[proc[w].item])
          /\ HookRuns(Items[proc[w].item])
          /\ \/ Fixture(w, "up") /\ completed' = Count(completed, w, Items[proc[w].item])
             \/ Fixture(w, "raised") /\ UNCHANGED completed
    /\ UNCHANGED <<hooked, pool, after, begun>>

---------------------------------------------------------------------------
(* One test.                                                               *)

\* Cleanup actions may be added by the set-up and by the test.
Proceeds(w, pc, fails) ==
    \E n \in 0..MaxActions :
       Step(w, [proc[w] EXCEPT !.pc = pc, !.failed = @ \/ fails, !.stack = @ + n])

Setup(w) ==
    /\ At(w, "setup")
    /\ proc[w].fixture # "raised"
    /\ \/ Proceeds(w, "body", FALSE) /\ begun' = begun \cup {proc[w].package}
       \/ Proceeds(w, "cleanup", TRUE) /\ UNCHANGED begun
    /\ UNCHANGED <<hooked, pool, completed, after, late>>

\* The fixture's exception is kept and raised again for each test of the package.
SetupErrors(w) ==
    /\ At(w, "setup")
    /\ proc[w].fixture = "raised"
    /\ Step(w, [proc[w] EXCEPT !.pc = "cleanup", !.failed = TRUE])
    /\ UNCHANGED <<hooked, pool, completed, after, begun, late>>

Body(w) ==
    /\ At(w, "body")
    /\ \E fails \in BOOLEAN : Proceeds(w, "teardown", fails)
    /\ UNCHANGED <<hooked, pool, completed, after, begun, late>>

\* teardown_method(), which may raise; the fixtures end all the same.
Teardown(w) ==
    /\ At(w, "teardown")
    /\ \E fails \in BOOLEAN : Step(w, [proc[w] EXCEPT !.pc = "cleanup", !.failed = @ \/ fails])
    /\ UNCHANGED <<hooked, pool, completed, after, begun, late>>

TestOver(w, rest) ==
    Step(w, [proc[w] EXCEPT !.pc = "next", !.stack = rest, !.stopped = ExitFirst /\ proc[w].failed])

\* Faulty variant: the last action is performed, the others stay.
PerformOne(w) ==
    /\ At(w, "cleanup")
    /\ TestOver(w, IF proc[w].stack = 0 THEN 0 ELSE proc[w].stack - 1)
    /\ UNCHANGED <<hooked, pool, completed, after, begun, late>>

\* performCleanUp() of the test_case fixture: the stack is an attribute of the class,
\* so it is the stack the test itself filled.  What an action raises is logged.
PerformCleanUp(w) ==
    /\ At(w, "cleanup")
    /\ IF proc[w].stack = 0 THEN TestOver(w, 0)
       ELSE Step(w, [proc[w] EXCEPT !.stack = @ - 1])
    /\ UNCHANGED <<hooked, pool, completed, after, begun, late>>

Next ==
    \E w \in Workers :
       \/ LoopHook(w) \/ StartTests(w) \/ LoopAfter(w)
       \/ TakeNext(w) \/ Close(w) \/ Open(w)
       \/ Setup(w) \/ SetupErrors(w) \/ Body(w) \/ Teardown(w) \/ PerformCleanUp(w)

Spec == Init /\ [][Next]_vars

---------------------------------------------------------------------------

\* The package hook that was set up is undone by exactly one afterPostTestSet() of the
\* same process, one that raised by none, also when tests and teardowns fail and -x
\* cuts the session short; so are the hooks of the cases when it is not cut short
\* (HooksUndone is about the other sessions).  Between the two run the tests of the
\* package, and no test of a package whose hook raised.
\* (hook_runner.py:119, conftest.py:53)
HooksPaired ==
    \A w \in Workers :
        /\ At(w, "over") => \A p \in Packages : after[w][p] = completed[w][p]
        /\ At(w, "over") /\ ~proc[w].stopped =>
             \A h \in Collected : after[w][h] = completed[w][h]
        /\ At(w, "body") /\ proc[w].fixture # "off" =>
             completed[w][proc[w].package] = 1 /\ after[w][proc[w].package] = 0

\* Every hook of the cases that was set up is undone when the session is over:
\* "Cleans up all hooks after tests complete".  (conftest.py:6)
HooksUndone ==
    \A w \in Workers : At(w, "over") => \A h \in Collected : after[w][h] = completed[w][h]

\* No test begins with cleanup actions of an earlier test still pending: the whole
\* stack is performed however the earlier test ended.  (base.py:485, fixtures.py:75)
CleanupDone ==
    \A w \in Workers : At(w, "next") \/ At(w, "closing") \/ At(w, "package") \/ At(w, "over") =>
        proc[w].stack = 0

\* beforePreTestSet() of a package's hook runs before any test of the package:
\* "called before all tests in the package".  (hook_runner.py:83)  Several workers do
\* not keep this.
BeforeAllTests == late = {}
=============================================================================
