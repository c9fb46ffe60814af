-------------------------- MODULE LifeCycle_proofs --------------------------
(***************************************************************************)
(* Proofs about the session, for any number of worker processes, packages, *)
(* tests, hooks and cleanup actions: what the hook of a package did is     *)
(* undone once, so is what the hooks of the cases did unless the session   *)
(* is cut short, and no test finds cleanup actions of another.             *)
(***************************************************************************)
EXTENDS LifeCycle, TLAPS

-----------------------------------------------------------------------------
(* The inductive invariant, one worker at a time *)

Running == {"setup", "body", "teardown", "cleanup"}

\* The hooks of the cases: those that returned and are not undone yet are recorded.
LoopHooks(w) ==
    /\ \A h \in Collected :
          /\ h \in proc[w].left => completed[w][h] = 0 /\ h \notin proc[w].executed
          /\ h \in proc[w].executed => completed[w][h] = 1 /\ after[w][h] = 0
          /\ h \notin proc[w].executed => after[w][h] = completed[w][h]
          /\ ~At(w, "afters") /\ ~At(w, "over") => after[w][h] = 0
          /\ proc[w].stopped => after[w][h] = 0
    /\ At(w, "over") /\ ~proc[w].stopped => proc[w].executed = {}
    /\ At(w, "afters") => ~proc[w].stopped

\* The hook of a package is undone unless its fixture is up.
PackageHooks(w) ==
    \A p \in Packages :
       IF p = proc[w].package /\ proc[w].fixture = "up"
       THEN completed[w][p] = 1 /\ after[w][p] = 0
       ELSE after[w][p] = completed[w][p]

\* Where the worker is tells what it holds.
Place(w) ==
    /\ proc[w].pc \in Running => proc[w].package # None
    /\ proc[w].pc \in {"body", "teardown"} => proc[w].fixture # "raised"
    /\ proc[w].pc \in {"hooks", "package", "afters", "over"} => proc[w].package = None
    /\ At(w, "package") => proc[w].item # 0
    /\ proc[w].item < pool
    /\ proc[w].package # None => \E j \in 1..(pool - 1) : Items[j] = proc[w].package

\* The packages that lie ahead have not been opened.
Ahead(w) ==
    /\ ~At(w, "closing") /\ ~At(w, "package") /\ ~At(w, "afters") /\ ~At(w, "over") =>
          \A k \in DOMAIN Items : k >= pool =>
             Items[k] = proc[w].package \/ completed[w][Items[k]] = 0
    /\ (At(w, "closing") \/ At(w, "package")) /\ proc[w].item # 0 =>
          \A k \in DOMAIN Items : k >= proc[w].item =>
             Items[k] # proc[w].package /\ completed[w][Items[k]] = 0

\* The cleanup actions that may be pending.
Stack(w) ==
    /\ ~At(w, "body") /\ ~At(w, "teardown") /\ ~At(w, "cleanup") => proc[w].stack = 0
    /\ At(w, "body") => proc[w].stack <= MaxActions

\* The types of what belongs to one worker.
Typed(w) ==
    /\ proc[w] \in Proc
    /\ (proc[w].fixture = "new") <=> (proc[w].package = None)
    /\ completed[w] \in [Origins -> 0..1]
    /\ after[w] \in [Origins -> 0..1]

Worker(w) ==
    Typed(w) /\ LoopHooks(w) /\ PackageHooks(w) /\ Place(w) /\ Ahead(w) /\ Stack(w)

Functions ==
    /\ hooked \in BOOLEAN
    /\ pool \in 1..(Len(Items) + 1)
    /\ proc \in [Workers -> Proc]
    /\ completed \in [Workers -> [Origins -> 0..1]]
    /\ after \in [Workers -> [Origins -> 0..1]]
    /\ begun \subseteq Packages /\ late \subseteq begun

IInv == Functions /\ \A w \in Workers : Worker(w)

\* What the assumption on the constants gives.
LEMMA ItemFacts ==
    /\ Len(Items) \in Nat
    /\ DOMAIN Items = 1..Len(Items)
    /\ \A i \in DOMAIN Items : Items[i] \in Packages
    /\ None \notin Packages
    /\ Packages \subseteq Origins /\ Collected \subseteq Origins
    /\ Packages \cap Collected = {}
    /\ MaxActions \in Nat
  <1>1. Len(Items) \in Nat /\ DOMAIN Items = 1..Len(Items)
    BY LifeCycleAssumption
  <1> QED
    BY <1>1, LifeCycleAssumption DEF Packages, Origins

\* The tests that were taken stay taken.
LEMMA Grows ==
  ASSUME NEW n \in Nat, NEW m \in Nat, n <= m
  PROVE  \A j \in 1..(n - 1) : j \in 1..(m - 1)
  OBVIOUS

\* IInv holds at the start.
LEMMA InitIInv == Init => IInv
  <1> SUFFICES ASSUME Init PROVE IInv
    OBVIOUS
  <1>1. PICK left \in {Collected, {}} :
          proc = [w \in Workers |->
                    [pc |-> "hooks", item |-> 0, left |-> left, executed |-> {}, package |-> None,
                     fixture |-> "new", stack |-> 0, failed |-> FALSE, stopped |-> FALSE]]
    BY DEF Init
  <1>2. Functions
    <2>1. [pc |-> "hooks", item |-> 0, left |-> left, executed |-> {}, package |-> None,
           fixture |-> "new", stack |-> 0, failed |-> FALSE, stopped |-> FALSE] \in Proc
      BY ItemFacts DEF Proc
    <2>2. proc \in [Workers -> Proc]
      BY <1>1, <2>1
    <2>3. hooked \in BOOLEAN
      BY LifeCycleAssumption DEF Init
    <2>4. /\ completed \in [Workers -> [Origins -> 0..1]]
          /\ after \in [Workers -> [Origins -> 0..1]]
      BY DEF Init
    <2>5. pool \in 1..(Len(Items) + 1)
      BY ItemFacts DEF Init
    <2>6. begun \subseteq Packages /\ late \subseteq begun
      BY DEF Init
    <2> QED
      BY <2>2, <2>3, <2>4, <2>5, <2>6 DEF Functions
  <1>3. ASSUME NEW w \in Workers PROVE Worker(w)
    <2>1. Typed(w)
      BY <1>1, <1>2 DEF Functions, Typed
    <2>2. LoopHooks(w)
      BY <1>1, ItemFacts DEF LoopHooks, Init, At
    <2>3. PackageHooks(w)
      BY <1>1, ItemFacts DEF PackageHooks, Init
    <2>4. Place(w)
      BY <1>1, ItemFacts DEF Place, Init, Running, At
    <2>5. Ahead(w)
      BY <1>1, ItemFacts DEF Ahead, Init, At
    <2>6. Stack(w)
      BY <1>1, ItemFacts DEF Stack, Init, At
    <2> QED
      BY <2>1, <2>2, <2>3, <2>4, <2>5, <2>6 DEF Worker
  <1> QED
    BY <1>2, <1>3 DEF IInv

\* A worker whose own state stays is not disturbed by the others taking tests.
LEMMA Untouched ==
  ASSUME IInv, NEW w \in Workers, pool' \in Nat, pool <= pool',
         proc'[w] = proc[w], completed'[w] = completed[w], after'[w] = after[w]
  PROVE  Worker(w)'
  <1>1. Worker(w) /\ pool \in Nat
    BY ItemFacts DEF IInv, Functions
  <1>2. Typed(w)'
    BY <1>1 DEF Worker, Typed
  <1>3. LoopHooks(w)'
    BY <1>1 DEF Worker, LoopHooks, At
  <1>4. PackageHooks(w)'
    BY <1>1 DEF Worker, PackageHooks
  <1>5. Place(w)'
    <2>1. proc[w].item \in Nat
      BY <1>1, ItemFacts DEF Worker, Typed, Proc
    <2>2. proc[w].package # None => \E j \in 1..(pool' - 1) : Items[j] = proc[w].package
      <3>1. \A j \in 1..(pool - 1) : j \in 1..(pool' - 1)
        BY <1>1, Grows
      <3> QED
        BY <1>1, <3>1 DEF Worker, Place
    <2>3. proc[w].item < pool'
      BY <1>1, <2>1 DEF Worker, Place
    <2> QED
      BY <1>1, <2>2, <2>3 DEF Worker, Place, At
  <1>6. Ahead(w)'
    BY <1>1, ItemFacts DEF Worker, Ahead, At
  <1>7. Stack(w)'
    BY <1>1 DEF Worker, Stack, At
  <1> QED
    BY <1>2, <1>3, <1>4, <1>5, <1>6, <1>7 DEF Worker

\* A step of worker w leaves the others alone.
Own(w, new) ==
    /\ proc' = [proc EXCEPT ![w] = new]
    /\ new \in Proc
    /\ hooked' = hooked
    /\ pool' \in 1..(Len(Items) + 1) /\ pool <= pool'
    /\ completed' \in [Workers -> [Origins -> 0..1]]
    /\ after' \in [Workers -> [Origins -> 0..1]]
    /\ \A v \in Workers \ {w} : completed'[v] = completed[v] /\ after'[v] = after[v]
    /\ begun' \subseteq Packages /\ late' \subseteq begun'

\* So it is enough to look at the worker that moves.
LEMMA Moves ==
  ASSUME IInv, NEW w \in Workers, NEW new, Own(w, new),
         Worker(w)'
  PROVE  IInv'
  <1>1. Functions'
    BY DEF IInv, Functions, Own
  <1>2. ASSUME NEW v \in Workers PROVE Worker(v)'
    <2>1. CASE v = w
      BY <2>1
    <2>2. CASE v # w
      <3>1. /\ proc'[v] = proc[v] /\ completed'[v] = completed[v] /\ after'[v] = after[v]
            /\ pool' \in Nat /\ pool <= pool'
        BY <2>2, ItemFacts DEF IInv, Functions, Own
      <3> QED
        BY <3>1, Untouched
    <2> QED
      BY <2>1, <2>2
  <1> QED
    BY <1>1, <1>2 DEF IInv

\* A step that moves worker w only and calls no hook.
LEMMA OwnQuiet ==
  ASSUME IInv, NEW w \in Workers, NEW new \in Proc, Step(w, new),
         UNCHANGED <<hooked, completed, after>>, pool' \in 1..(Len(Items) + 1), pool <= pool',
         begun' \subseteq Packages, late' \subseteq begun'
  PROVE  Own(w, new) /\ proc'[w] = new
  BY DEF IInv, Functions, Own, Step

\* A step of worker w in which one hook is called.
LEMMA OwnCalls ==
  ASSUME IInv, NEW w \in Workers, NEW new \in Proc, Step(w, new),
         NEW o \in Origins,
         \/ completed[w][o] = 0 /\ completed' = Count(completed, w, o) /\ UNCHANGED after
         \/ after[w][o] = 0 /\ after' = Count(after, w, o) /\ UNCHANGED completed,
         UNCHANGED <<hooked, pool>>,
         begun' \subseteq Packages, late' \subseteq begun'
  PROVE  Own(w, new) /\ proc'[w] = new
  <1>1. /\ completed \in [Workers -> [Origins -> 0..1]]
        /\ after \in [Workers -> [Origins -> 0..1]]
        /\ proc \in [Workers -> Proc]
        /\ pool \in 1..(Len(Items) + 1)
    BY DEF IInv, Functions
  <1>2. /\ completed' \in [Workers -> [Origins -> 0..1]]
        /\ after' \in [Workers -> [Origins -> 0..1]]
        /\ \A v \in Workers \ {w} : completed'[v] = completed[v] /\ after'[v] = after[v]
    <2>1. CASE completed[w][o] = 0 /\ completed' = Count(completed, w, o) /\ UNCHANGED after
      BY <1>1, <2>1 DEF Count
    <2>2. CASE after[w][o] = 0 /\ after' = Count(after, w, o) /\ UNCHANGED completed
      BY <1>1, <2>2 DEF Count
    <2> QED
      BY <2>1, <2>2
  <1>3. proc' = [proc EXCEPT ![w] = new] /\ proc'[w] = new
    BY <1>1 DEF Step
  <1>4. pool' \in 1..(Len(Items) + 1) /\ pool <= pool'
    BY <1>1, ItemFacts
  <1> QED
    BY <1>2, <1>3, <1>4 DEF Own

-----------------------------------------------------------------------------
(* One lemma per action *)

\* A hook of the cases is run.
LEMMA LoopHookIInv ==
  ASSUME IInv, NEW w \in Workers, LoopHook(w)
  PROVE  IInv'
  <1>0. Worker(w) /\ Functions
    BY DEF IInv
  <1>1. PICK h \in proc[w].left :
          \/ /\ Step(w, [proc[w] EXCEPT !.left = @ \ {h}, !.executed = @ \cup {h}])
             /\ completed' = Count(completed, w, h)
          \/ /\ Step(w, [proc[w] EXCEPT !.left = @ \ {h}])
             /\ UNCHANGED completed
    BY DEF LoopHook
  <1>2. At(w, "hooks") /\ h \in Collected /\ completed[w][h] = 0 /\ proc[w] \in Proc
        /\ UNCHANGED <<hooked, pool, after, begun, late>>
    BY <1>0, <1>1 DEF LoopHook, Worker, Typed, Proc, LoopHooks
  <1>3. CASE /\ Step(w, [proc[w] EXCEPT !.left = @ \ {h}, !.executed = @ \cup {h}])
             /\ completed' = Count(completed, w, h)
    <2> DEFINE new == [proc[w] EXCEPT !.left = @ \ {h}, !.executed = @ \cup {h}]
    <2>1. new \in Proc
      BY <1>2 DEF Proc
    <2>2. Own(w, new) /\ proc'[w] = new
      <3>1. Step(w, new) /\ h \in Origins
        BY <1>2, <1>3, ItemFacts
      <3> HIDE DEF new
      <3> QED
        BY <1>0, <1>2, <1>3, <2>1, <3>1, OwnCalls DEF Functions
    <2>3. completed'[w] = [completed[w] EXCEPT ![h] = 1] /\ after'[w] = after[w]
      BY <1>0, <1>2, <1>3, ItemFacts DEF Functions, Count
    <2>4. Worker(w)'
      <3>1. Typed(w)'
        BY <1>0, <1>2, <2>2, <2>3, ItemFacts DEF Worker, Typed, Proc, Own
      <3>2. LoopHooks(w)'
        BY <1>0, <1>2, <2>2, <2>3, ItemFacts DEF Worker, Typed, LoopHooks, At, Proc
      <3>3. PackageHooks(w)'
        BY <1>0, <1>2, <2>2, <2>3, ItemFacts DEF Worker, Typed, PackageHooks, Proc
      <3>4. Place(w)'
        BY <1>0, <1>2, <2>2 DEF Worker, Place, At, Running, Proc
      <3>5. Ahead(w)'
        BY <1>0, <1>2, <2>2, <2>3, ItemFacts DEF Worker, Typed, Ahead, At, Proc
      <3>6. Stack(w)'
        BY <1>0, <1>2, <2>2 DEF Worker, Stack, At, Proc
      <3> QED
        BY <3>1, <3>2, <3>3, <3>4, <3>5, <3>6 DEF Worker
    <2> QED
      BY <2>2, <2>4, Moves
  <1>4. CASE Step(w, [proc[w] EXCEPT !.left = @ \ {h}]) /\ UNCHANGED completed
    <2> DEFINE new == [proc[w] EXCEPT !.left = @ \ {h}]
    <2>1. new \in Proc
      BY <1>2 DEF Proc
    <2>2. Own(w, new) /\ proc'[w] = new
      <3>1. Step(w, new) /\ pool <= pool
        BY <1>0, <1>4, ItemFacts DEF Functions
      <3> HIDE DEF new
      <3> QED
        BY <1>0, <1>2, <1>4, <2>1, <3>1, OwnQuiet DEF Functions
    <2>3. completed'[w] = completed[w] /\ after'[w] = after[w]
      BY <1>2, <1>4
    <2>4. Worker(w)'
      BY <1>0, <1>2, <2>2, <2>3 DEF Worker, Typed, LoopHooks, PackageHooks, Place, Ahead, Stack,
                                    At, Running, Proc
    <2> QED
      BY <2>2, <2>4, Moves
  <1> QED
    BY <1>1, <1>3, <1>4

\* What a step between two places needs when it calls no hook and keeps the fixture.
LEMMA Goes ==
  ASSUME IInv, NEW w \in Workers, NEW new \in Proc, Step(w, new),
         UNCHANGED <<hooked, pool, completed, after>>,
         begun' \subseteq Packages, late' \subseteq begun',
         \A f \in {"item", "left", "executed", "package", "fixture"} : new[f] = proc[w][f],
         new.pc \in Running \cup {"next"},
         proc[w].pc \in Running,
         new.pc \in {"body", "teardown"} => proc[w].fixture # "raised",
         new.pc \in {"setup", "next"} => new.stack = 0,
         new.pc = "body" => new.stack <= MaxActions
  PROVE  IInv'
  <1>0. Worker(w) /\ Functions
    BY DEF IInv
  <1>1. Own(w, new) /\ proc'[w] = new /\ pool' = pool /\ completed' = completed /\ after' = after
    BY <1>0, OwnQuiet DEF Functions
  <1>2. Typed(w)'
    BY <1>0, <1>1 DEF Worker, Typed
  <1>3. LoopHooks(w)'
    BY <1>0, <1>1 DEF Worker, LoopHooks, At, Running
  <1>4. PackageHooks(w)'
    BY <1>0, <1>1 DEF Worker, PackageHooks
  <1>5. Place(w)'
    BY <1>0, <1>1 DEF Worker, Place, At, Running
  <1>6. Ahead(w)'
    BY <1>0, <1>1 DEF Worker, Ahead, At, Running
  <1>7. Stack(w)'
    BY <1>0, <1>1 DEF Worker, Stack, At, Running
  <1>8. Worker(w)'
    BY <1>2, <1>3, <1>4, <1>5, <1>6, <1>7 DEF Worker
  <1> QED
    BY <1>1, <1>8, Moves

\* The tests begin when no hook is left.
LEMMA StartTestsIInv ==
  ASSUME IInv, NEW w \in Workers, StartTests(w)
  PROVE  IInv'
  <1>0. Worker(w) /\ Functions
    BY DEF IInv
  <1> DEFINE new == [proc[w] EXCEPT !.pc = "next"]
  <1>1. new \in Proc /\ Step(w, new) /\ At(w, "hooks") /\ pool <= pool
    <2>1. new \in Proc
      BY <1>0 DEF Worker, Typed, Proc
    <2>2. Step(w, new) /\ At(w, "hooks")
      BY DEF StartTests, Go
    <2>3. pool <= pool
      BY <1>0, ItemFacts DEF Functions
    <2> QED
      BY <2>1, <2>2, <2>3
  <1>2. Own(w, new) /\ proc'[w] = new
    <2> HIDE DEF new
    <2> QED
      BY <1>0, <1>1, OwnQuiet DEF StartTests, Functions
  <1>3. completed'[w] = completed[w] /\ after'[w] = after[w] /\ pool' = pool
    BY DEF StartTests
  <1>4. Worker(w)'
    BY <1>0, <1>1, <1>2, <1>3 DEF Worker, Typed, LoopHooks, PackageHooks, Place, Ahead, Stack,
                                  At, Running, Proc
  <1> QED
    BY <1>2, <1>4, Moves

\* The hooks of the cases are undone, one after the other.
LEMMA LoopAfterIInv ==
  ASSUME IInv, NEW w \in Workers, LoopAfter(w)
  PROVE  IInv'
  <1>0. Worker(w) /\ Functions
    BY DEF IInv
  <1>1. CASE \E h \in proc[w].executed :
               /\ Step(w, [proc[w] EXCEPT !.executed = @ \ {h}])
               /\ after' = Count(after, w, h)
    <2>1. PICK h \in proc[w].executed :
                 /\ Step(w, [proc[w] EXCEPT !.executed = @ \ {h}])
                 /\ after' = Count(after, w, h)
      BY <1>1
    <2> DEFINE new == [proc[w] EXCEPT !.executed = @ \ {h}]
    <2>2. /\ h \in Collected /\ h \in Origins /\ At(w, "afters")
          /\ after[w][h] = 0 /\ completed[w][h] = 1
          /\ new \in Proc /\ Step(w, new)
          /\ UNCHANGED <<hooked, pool, completed, begun, late>>
      BY <1>0, <2>1, ItemFacts DEF LoopAfter, Worker, Typed, Proc, LoopHooks
    <2>3. Own(w, new) /\ proc'[w] = new
      <3> HIDE DEF new
      <3> QED
        BY <1>0, <2>1, <2>2, OwnCalls DEF Functions
    <2>4. after'[w] = [after[w] EXCEPT ![h] = 1] /\ completed'[w] = completed[w]
      BY <1>0, <2>1, <2>2, ItemFacts DEF Functions, Count
    <2>5. Worker(w)'
      <3>0. proc'[w].fixture = proc[w].fixture /\ proc'[w].package = proc[w].package
        BY <1>0, <2>3 DEF Worker, Typed, Proc
      <3>1. Typed(w)'
        <4> HIDE DEF new
        <4> QED
          BY <1>0, <2>2, <2>3, <3>0 DEF Worker, Typed, Own
      <3>2. LoopHooks(w)'
        BY <1>0, <2>2, <2>3, <2>4, ItemFacts DEF Worker, Typed, LoopHooks, At, Proc
      <3>3. PackageHooks(w)'
        BY <1>0, <2>2, <2>3, <2>4, ItemFacts DEF Worker, Typed, PackageHooks, Proc
      <3>4. Place(w)' /\ Ahead(w)' /\ Stack(w)'
        BY <1>0, <2>2, <2>3, <2>4 DEF Worker, Place, Ahead, Stack, At, Running, Proc
      <3> QED
        BY <3>1, <3>2, <3>3, <3>4 DEF Worker
    <2> QED
      BY <2>3, <2>5, Moves
  <1>2. CASE proc[w].executed = {} /\ Go(w, "over") /\ UNCHANGED after
    <2> DEFINE new == [proc[w] EXCEPT !.pc = "over"]
    <2>1. new \in Proc /\ Step(w, new) /\ At(w, "afters") /\ pool <= pool
      <3>1. new \in Proc
        BY <1>0 DEF Worker, Typed, Proc
      <3>2. Step(w, new) /\ At(w, "afters")
        BY <1>2 DEF LoopAfter, Go
      <3>3. pool <= pool
        BY <1>0, ItemFacts DEF Functions
      <3> QED
        BY <3>1, <3>2, <3>3
    <2>2. Own(w, new) /\ proc'[w] = new
      <3> HIDE DEF new
      <3> QED
        BY <1>0, <1>2, <2>1, OwnQuiet DEF LoopAfter, Functions
    <2>3. completed'[w] = completed[w] /\ after'[w] = after[w] /\ pool' = pool
      BY <1>2 DEF LoopAfter
    <2>4. Worker(w)'
      BY <1>0, <1>2, <2>1, <2>2, <2>3
         DEF Worker, Typed, LoopHooks, PackageHooks, Place, Ahead, Stack, At, Running, Proc
    <2> QED
      BY <2>2, <2>4, Moves
  <1> QED
    BY <1>1, <1>2 DEF LoopAfter

\* The next test is taken; the tests of a package come together, so that a package
\* whose fixture ends now does not come again.
LEMMA TakeNextIInv ==
  ASSUME IInv, NEW w \in Workers, TakeNext(w)
  PROVE  IInv'
  <1>0. Worker(w) /\ Functions
    BY DEF IInv
  <1> DEFINE item == NextItem(w)
             pc == IF Closes(w, item) THEN "closing"
                   ELSE IF proc[w].package # None THEN "setup"
                   ELSE Whereto(item, proc[w].stopped)
             new == [proc[w] EXCEPT !.item = item, !.failed = FALSE, !.pc = pc]
  <1>1. /\ item \in 0..Len(Items)
        /\ item # 0 => item = pool /\ item \in DOMAIN Items /\ ~proc[w].stopped
        /\ item = 0 => pool = Len(Items) + 1 \/ proc[w].stopped
        /\ pool' = IF item = 0 THEN pool ELSE pool + 1
        /\ pool \in Nat /\ pool >= 1 /\ pool' \in 1..(Len(Items) + 1) /\ pool <= pool'
    BY <1>0, ItemFacts DEF NextItem, TakeNext, Functions
  <1>2. /\ pc \in {"closing", "setup", "package", "over", "afters"}
        /\ pc = "closing" <=>
             proc[w].package # None /\ (item = 0 \/ Items[item] # proc[w].package)
        /\ pc = "setup" => proc[w].package # None /\ item # 0 /\ Items[item] = proc[w].package
        /\ pc = "package" => proc[w].package = None /\ item # 0
        /\ pc = "over" => proc[w].package = None /\ item = 0 /\ proc[w].stopped
        /\ pc = "afters" => proc[w].package = None /\ item = 0 /\ ~proc[w].stopped
    BY <1>1 DEF Closes, Whereto
  <1>3. At(w, "next") /\ Step(w, new) /\ UNCHANGED <<hooked, completed, after, begun, late>>
    BY DEF TakeNext
  <1> HIDE DEF item, pc
  <1>4. new \in Proc
    BY <1>0, <1>1, <1>2 DEF Worker, Typed, Proc
  <1>5. Own(w, new) /\ proc'[w] = new
    <2> HIDE DEF new
    <2> QED
      BY <1>0, <1>1, <1>3, <1>4, OwnQuiet DEF Functions
  <1>6. completed'[w] = completed[w] /\ after'[w] = after[w]
    BY <1>3
  <1>7. /\ proc'[w].pc = pc /\ proc'[w].item = item /\ proc'[w].package = proc[w].package
        /\ proc'[w].fixture = proc[w].fixture /\ proc'[w].left = proc[w].left
        /\ proc'[w].executed = proc[w].executed /\ proc'[w].stack = proc[w].stack
        /\ proc'[w].stopped = proc[w].stopped
    BY <1>0, <1>5 DEF Worker, Typed, Proc
  <1>8. proc[w].pc = "next"
    BY <1>3 DEF At
  <1>9. Worker(w)'
    <2> HIDE DEF new
    <2>1. Typed(w)'
      BY <1>0, <1>4, <1>5, <1>6, <1>7 DEF Worker, Typed
    <2>2. LoopHooks(w)'
      BY <1>0, <1>2, <1>6, <1>7, <1>8 DEF Worker, LoopHooks, At
    <2>3. PackageHooks(w)'
      BY <1>0, <1>6, <1>7 DEF Worker, PackageHooks
    <2>4. Place(w)'
      <3>1. proc[w].package # None => \E j \in 1..(pool' - 1) : Items[j] = proc[w].package
        <4>1. \A j \in 1..(pool - 1) : j \in 1..(pool' - 1)
          BY <1>1, Grows
        <4> QED
          BY <1>0, <4>1 DEF Worker, Place
      <3>2. item < pool'
        BY <1>1
      <3> QED
        BY <1>2, <1>7, <3>1, <3>2 DEF Place, At, Running
    <2>5. Ahead(w)'
      <3>1. \A k \in DOMAIN Items : k >= pool =>
               Items[k] = proc[w].package \/ completed[w][Items[k]] = 0
        BY <1>0, <1>8 DEF Worker, Ahead, At
      <3>2. CASE pc = "setup"
        BY <1>1, <1>6, <1>7, <3>1, <3>2, ItemFacts DEF Ahead, At
      <3>3. CASE pc = "package"
        <4>1. \A k \in DOMAIN Items : Items[k] # None
          BY ItemFacts
        <4> QED
          BY <1>1, <1>2, <1>6, <1>7, <3>1, <3>3, <4>1, ItemFacts DEF Ahead, At
      <3>4. CASE pc = "closing"
        <4>1. ASSUME item # 0, NEW k \in DOMAIN Items, k >= item
              PROVE  Items[k] # proc[w].package
          <5>1. PICK j \in 1..(pool - 1) : Items[j] = proc[w].package
            BY <1>0, <1>2, <3>4 DEF Worker, Place
          <5>2. j \in DOMAIN Items /\ j <= item
            BY <1>1, <4>1, ItemFacts
          <5>3. SUFFICES ASSUME Items[k] = proc[w].package PROVE FALSE
            OBVIOUS
          <5>4. Items[item] = Items[j]
            BY <1>1, <4>1, <5>1, <5>2, <5>3, LifeCycleAssumption
          <5> QED
            BY <1>2, <3>4, <4>1, <5>1, <5>4
        <4>2. item # 0 => \A k \in DOMAIN Items : k >= item => completed[w][Items[k]] = 0
          BY <1>1, <3>1, <4>1
        <4> QED
          BY <1>6, <1>7, <3>4, <4>1, <4>2 DEF Ahead, At
      <3>5. CASE pc \in {"over", "afters"}
        BY <1>7, <3>5 DEF Ahead, At
      <3> QED
        BY <1>2, <3>2, <3>3, <3>4, <3>5
    <2>6. Stack(w)'
      BY <1>0, <1>2, <1>7, <1>8 DEF Worker, Stack, At
    <2> QED
      BY <2>1, <2>2, <2>3, <2>4, <2>5, <2>6 DEF Worker
  <1> QED
    BY <1>5, <1>9, Moves

\* The fixture of a package ends; its hook is undone when it was up.
LEMMA CloseIInv ==
  ASSUME IInv, NEW w \in Workers, Close(w)
  PROVE  IInv'
  <1>0. Worker(w) /\ Functions
    BY DEF IInv
  <1>r. PICK raises \in {FALSE, proc[w].fixture = "up"} :
          LET stopped == proc[w].stopped \/ (ExitFirst /\ raises)
          IN  Step(w, [proc[w] EXCEPT !.package = None, !.fixture = "new", !.stopped = stopped,
                                      !.pc = Whereto(proc[w].item, stopped)])
    BY DEF Close
  <1> DEFINE q == proc[w].package
             stopped == proc[w].stopped \/ (ExitFirst /\ raises)
             pc == Whereto(proc[w].item, stopped)
             new == [proc[w] EXCEPT !.package = None, !.fixture = "new", !.stopped = stopped,
                                    !.pc = pc]
  <1>1. /\ At(w, "closing") /\ Step(w, new)
        /\ UNCHANGED <<hooked, pool, completed, begun, late>>
        /\ after' = IF proc[w].fixture = "up" THEN Count(after, w, q) ELSE after
    BY <1>r DEF Close
  <1>2. /\ pc \in {"package", "over", "afters"}
        /\ pc = "package" => proc[w].item # 0
        /\ pc = "over" => stopped
        /\ pc = "afters" => ~stopped
        /\ stopped \in BOOLEAN
    <2>1. stopped \in BOOLEAN
      BY <1>0, LifeCycleAssumption DEF Worker, Typed, Proc
    <2> HIDE DEF stopped
    <2> QED
      BY <2>1 DEF Whereto
  <1> HIDE DEF pc, stopped
  <1>3. new \in Proc
    BY <1>0, <1>2 DEF Worker, Typed, Proc
  <1>4. proc[w].fixture = "up" => q \in Packages /\ q \in Origins /\ after[w][q] = 0 /\ completed[w][q] = 1
    <2>1. proc[w].fixture = "up" => q \in Packages
      BY <1>0 DEF Worker, Typed, Proc
    <2> QED
      BY <1>0, <2>1, ItemFacts DEF Worker, PackageHooks
  <1>5. Own(w, new) /\ proc'[w] = new
    <2>1. pool <= pool
      BY <1>0, ItemFacts DEF Functions
    <2> HIDE DEF new, q
    <2>2. CASE proc[w].fixture = "up"
      BY <1>0, <1>1, <1>3, <1>4, <2>2, OwnCalls DEF Functions
    <2>3. CASE proc[w].fixture # "up"
      BY <1>0, <1>1, <1>3, <2>1, <2>3, OwnQuiet DEF Functions
    <2> QED
      BY <2>2, <2>3
  <1>6. /\ completed'[w] = completed[w]
        /\ proc[w].fixture = "up" => after'[w] = [after[w] EXCEPT ![q] = 1]
        /\ proc[w].fixture # "up" => after'[w] = after[w]
    <2> HIDE DEF new
    <2>1. ASSUME proc[w].fixture = "up"
          PROVE  after'[w] = [after[w] EXCEPT ![q] = 1]
      <3>1. after' = Count(after, w, q)
        BY <1>1, <2>1
      <3>2. after \in [Workers -> [Origins -> 0..1]] /\ q \in Origins /\ after[w][q] = 0
        BY <1>0, <1>4, <2>1 DEF Functions
      <3> HIDE DEF q
      <3> QED
        BY <3>1, <3>2 DEF Count
    <2> QED
      BY <1>1, <2>1
  <1>7. /\ proc'[w].pc = pc /\ proc'[w].package = None /\ proc'[w].fixture = "new"
        /\ proc'[w].item = proc[w].item /\ proc'[w].left = proc[w].left
        /\ proc'[w].executed = proc[w].executed /\ proc'[w].stack = proc[w].stack
        /\ proc'[w].stopped = stopped
    BY <1>0, <1>5 DEF Worker, Typed, Proc
  <1>8. proc[w].pc = "closing"
    BY <1>1 DEF At
  <1>9. Worker(w)'
    <2> HIDE DEF new
    <2>1. Typed(w)'
      BY <1>0, <1>1, <1>3, <1>5, <1>7 DEF Worker, Typed, Own
    <2>2. \A h \in Collected : after'[w][h] = after[w][h] /\ completed'[w][h] = completed[w][h]
      BY <1>0, <1>4, <1>6, ItemFacts DEF Worker, Typed
    <2>3. LoopHooks(w)'
      BY <1>0, <1>2, <1>7, <1>8, <2>2 DEF Worker, LoopHooks, At
    <2>4. PackageHooks(w)'
      BY <1>0, <1>4, <1>6, <1>7, ItemFacts DEF Worker, Typed, PackageHooks
    <2>5. Place(w)'
      BY <1>0, <1>1, <1>2, <1>7 DEF Worker, Place, At, Running
    <2>6. Ahead(w)'
      <3>1. \A k \in DOMAIN Items : Items[k] # None
        BY ItemFacts
      <3> QED
        BY <1>0, <1>2, <1>6, <1>7, <1>8, <3>1 DEF Worker, Ahead, At
    <2>7. Stack(w)'
      BY <1>0, <1>2, <1>7, <1>8 DEF Worker, Stack, At
    <2> QED
      BY <2>1, <2>3, <2>4, <2>5, <2>6, <2>7 DEF Worker
  <1> QED
    BY <1>5, <1>9, Moves

\* The fixture of a package begins; its hook has not run before.
LEMMA OpenIInv ==
  ASSUME IInv, NEW w \in Workers, Open(w)
  PROVE  IInv'
  <1>0. Worker(w) /\ Functions
    BY DEF IInv
  <1> DEFINE q == Items[proc[w].item]
             new(state) == [proc[w] EXCEPT !.pc = "setup", !.package = q, !.fixture = state]
  <1>1. proc[w].item \in DOMAIN Items /\ proc[w].item < pool /\ At(w, "package")
    BY <1>0, ItemFacts DEF Open, Worker, Typed, Proc, Place
  <1>2. /\ q \in Packages /\ q \in Origins /\ q # None
        /\ completed[w][q] = 0 /\ after[w][q] = 0
        /\ proc[w].package = None
    <2>1. q \in Packages /\ q \in Origins /\ q # None
      BY <1>1, ItemFacts
    <2>2. completed[w][q] = 0
      BY <1>0, <1>1, ItemFacts DEF Worker, Ahead
    <2>3. proc[w].package = None
      BY <1>0, <1>1 DEF Worker, Place, At
    <2> QED
      BY <1>0, <2>1, <2>2, <2>3 DEF Worker, PackageHooks
  <1>3. /\ UNCHANGED <<hooked, pool, after, begun>>
        /\ late' \subseteq begun'
        /\ begun' \subseteq Packages
    BY <1>0 DEF Open, HookRuns, Functions
  <1>4. PICK state \in {"off", "up", "raised"} :
          /\ Step(w, new(state))
          /\ IF state = "up" THEN completed' = Count(completed, w, q) ELSE completed' = completed
    BY DEF Open, Fixture
  <1>5. new(state) \in Proc
    BY <1>0, <1>2 DEF Worker, Typed, Proc
  <1>6. Own(w, new(state)) /\ proc'[w] = new(state)
    <2>1. pool <= pool
      BY <1>0, ItemFacts DEF Functions
    <2> HIDE DEF new, q
    <2>2. CASE state = "up"
      BY <1>0, <1>2, <1>3, <1>4, <1>5, <2>2, OwnCalls DEF Functions
    <2>3. CASE state # "up"
      BY <1>0, <1>3, <1>4, <1>5, <2>1, <2>3, OwnQuiet DEF Functions
    <2> QED
      BY <2>2, <2>3
  <1>7. /\ after'[w] = after[w]
        /\ completed'[w] = IF state = "up" THEN [completed[w] EXCEPT ![q] = 1] ELSE completed[w]
    BY <1>0, <1>2, <1>3, <1>4 DEF Functions, Count
  <1>8. /\ proc'[w].pc = "setup" /\ proc'[w].package = q /\ proc'[w].fixture = state
        /\ proc'[w].item = proc[w].item /\ proc'[w].left = proc[w].left
        /\ proc'[w].executed = proc[w].executed /\ proc'[w].stack = proc[w].stack
        /\ proc'[w].stopped = proc[w].stopped
    BY <1>0, <1>6 DEF Worker, Typed, Proc
  <1>9. proc[w].pc = "package"
    BY <1>1 DEF At
  <1>10. Worker(w)'
    <2> HIDE DEF new
    <2>1. Typed(w)'
      <3>1. proc'[w] \in Proc
        BY <1>5, <1>6
      <3>2. completed'[w] \in [Origins -> 0..1] /\ after'[w] \in [Origins -> 0..1]
        BY <1>6 DEF Own
      <3>3. state # "new"
        BY <1>4
      <3> QED
        BY <1>2, <1>8, <3>1, <3>2, <3>3 DEF Typed
    <2>2. \A h \in Collected : after'[w][h] = after[w][h] /\ completed'[w][h] = completed[w][h]
      BY <1>0, <1>2, <1>7, ItemFacts DEF Worker, Typed
    <2>3. LoopHooks(w)'
      BY <1>0, <1>8, <1>9, <2>2 DEF Worker, LoopHooks, At
    <2>4. PackageHooks(w)'
      BY <1>0, <1>2, <1>7, <1>8, ItemFacts DEF Worker, Typed, PackageHooks
    <2>5. Place(w)'
      <3>1. proc[w].item \in 1..(pool - 1)
        BY <1>0, <1>1, ItemFacts DEF Functions
      <3> QED
        BY <1>0, <1>1, <1>2, <1>3, <1>8, <3>1 DEF Worker, Place, At, Running
    <2>6. Ahead(w)'
      <3>1. \A k \in DOMAIN Items : k >= pool => completed[w][Items[k]] = 0
        BY <1>0, <1>1, ItemFacts DEF Worker, Ahead, Functions
      <3>2. \A k \in DOMAIN Items : k >= pool =>
              Items[k] = q \/ completed'[w][Items[k]] = 0
        BY <1>0, <1>2, <1>7, <3>1, ItemFacts DEF Worker, Typed
      <3> QED
        BY <1>3, <1>8, <3>2 DEF Ahead, At
    <2>7. Stack(w)'
      BY <1>0, <1>8, <1>9 DEF Worker, Stack, At
    <2> QED
      BY <2>1, <2>3, <2>4, <2>5, <2>6, <2>7 DEF Worker
  <1> QED
    BY <1>6, <1>10, Moves

\* What is known where a test runs.
LEMMA RunningFacts ==
  ASSUME IInv, NEW w \in Workers, proc[w].pc \in Running
  PROVE  /\ proc[w] \in Proc
         /\ proc[w].package \in Packages
         /\ proc[w].pc = "setup" => proc[w].stack = 0
         /\ proc[w].pc = "body" => proc[w].stack <= MaxActions
         /\ proc[w].pc \in {"body", "teardown"} => proc[w].fixture # "raised"
         /\ proc[w].stack \in 0..2 * MaxActions
         /\ begun \subseteq Packages /\ late \subseteq begun
         /\ pool \in 1..(Len(Items) + 1)
  <1>1. Worker(w) /\ Functions
    BY DEF IInv
  <1>2. proc[w].package \in Packages /\ proc[w].stack \in 0..2 * MaxActions
    BY <1>1 DEF Worker, Typed, Proc, Place
  <1> QED
    BY <1>1, <1>2 DEF Worker, Typed, Place, Stack, At, Running, Functions

\* A part of a test that ends leaves a record of the right type.
LEMMA PartDone ==
  ASSUME NEW q \in Proc, NEW failed \in BOOLEAN, NEW stack \in 0..2 * MaxActions,
         NEW pc \in {"body", "teardown", "cleanup"}
  PROVE  /\ [q EXCEPT !.pc = pc, !.failed = failed, !.stack = stack] \in Proc
         /\ [q EXCEPT !.pc = pc, !.failed = failed] \in Proc
  <1>1. pc \in {"hooks", "next", "closing", "package", "setup", "body", "teardown", "cleanup",
                "afters", "over"}
    OBVIOUS
  <1>2. [q EXCEPT !.pc = pc, !.failed = failed, !.stack = stack] \in Proc
    BY <1>1 DEF Proc
  <1>3. [q EXCEPT !.pc = pc, !.failed = failed] \in Proc
    BY <1>1 DEF Proc
  <1> QED
    BY <1>2, <1>3

\* A part of a test may add cleanup actions.
LEMMA ProceedsIInv ==
  ASSUME IInv, NEW w \in Workers, NEW pc \in {"body", "teardown", "cleanup"}, NEW fails \in BOOLEAN,
         proc[w].pc \in {"setup", "body"}, proc[w].fixture # "raised",
         pc = "body" => proc[w].pc = "setup",
         Proceeds(w, pc, fails), UNCHANGED <<hooked, pool, completed, after>>,
         begun' \subseteq Packages, late' \subseteq begun'
  PROVE  IInv'
  <1>1. PICK n \in 0..MaxActions :
          Step(w, [proc[w] EXCEPT !.pc = pc, !.failed = @ \/ fails, !.stack = @ + n])
    BY DEF Proceeds
  <1> DEFINE new == [proc[w] EXCEPT !.pc = pc, !.failed = @ \/ fails, !.stack = @ + n]
  <1>2. proc[w].pc \in Running
    BY DEF Running
  <1>3. proc[w].stack + n \in 0..2 * MaxActions /\ (pc = "body" => proc[w].stack + n <= MaxActions)
    BY <1>2, RunningFacts, ItemFacts
  <1>4. (proc[w].failed \/ fails) \in BOOLEAN
    BY <1>2, RunningFacts DEF Proc
  <1>5. new \in Proc
    <2>1. proc[w].stack + n \in 0..2 * MaxActions /\ proc[w] \in Proc
      BY <1>2, <1>3, RunningFacts
    <2> QED
      BY <1>4, <2>1, PartDone
  <1>6. /\ \A f \in {"item", "left", "executed", "package", "fixture"} : new[f] = proc[w][f]
        /\ new.pc = pc /\ new.stack = proc[w].stack + n
    BY <1>2, RunningFacts DEF Proc
  <1>7. pc \in Running
    BY DEF Running
  <1> HIDE DEF new
  <1>8. Step(w, new)
    BY <1>1 DEF new
  <1> QED
    BY <1>2, <1>3, <1>5, <1>6, <1>7, <1>8, Goes

\* The set-up of a test.
LEMMA SetupIInv ==
  ASSUME IInv, NEW w \in Workers, Setup(w)
  PROVE  IInv'
  <1>1. proc[w].pc = "setup" /\ proc[w].fixture # "raised"
        /\ UNCHANGED <<hooked, pool, completed, after, late>>
    BY DEF Setup, At
  <1>2. proc[w].package \in Packages /\ begun \subseteq Packages /\ late \subseteq begun
    BY <1>1, RunningFacts DEF Running
  <1>3. CASE Proceeds(w, "body", FALSE) /\ begun' = begun \cup {proc[w].package}
    BY <1>1, <1>2, <1>3, ProceedsIInv
  <1>4. CASE Proceeds(w, "cleanup", TRUE) /\ UNCHANGED begun
    BY <1>1, <1>2, <1>4, ProceedsIInv
  <1> QED
    BY <1>3, <1>4 DEF Setup

\* A test of a package whose fixture raised.
LEMMA SetupErrorsIInv ==
  ASSUME IInv, NEW w \in Workers, SetupErrors(w)
  PROVE  IInv'
  <1> DEFINE new == [proc[w] EXCEPT !.pc = "cleanup", !.failed = TRUE]
  <1>1. /\ proc[w].pc = "setup" /\ Step(w, new)
        /\ UNCHANGED <<hooked, pool, completed, after, begun, late>>
    BY DEF SetupErrors, At
  <1>2. proc[w].pc \in Running /\ "cleanup" \in Running
    BY <1>1 DEF Running
  <1>3. new \in Proc
    <2>1. TRUE \in BOOLEAN /\ 0 \in 0..2 * MaxActions
      BY ItemFacts
    <2> QED
      BY <1>2, <2>1, RunningFacts, PartDone
  <1>4. /\ \A f \in {"item", "left", "executed", "package", "fixture"} : new[f] = proc[w][f]
        /\ new.pc = "cleanup"
    BY <1>2, RunningFacts DEF Proc
  <1> HIDE DEF new
  <1> QED
    BY <1>1, <1>2, <1>3, <1>4, RunningFacts, Goes

\* The test itself.
LEMMA BodyIInv ==
  ASSUME IInv, NEW w \in Workers, Body(w)
  PROVE  IInv'
  <1>1. /\ proc[w].pc = "body"
        /\ UNCHANGED <<hooked, pool, completed, after, begun, late>>
        /\ \E fails \in BOOLEAN : Proceeds(w, "teardown", fails)
    BY DEF Body, At
  <1>2. proc[w].fixture # "raised" /\ begun \subseteq Packages /\ late \subseteq begun
    BY <1>1, RunningFacts DEF Running
  <1> QED
    BY <1>1, <1>2, ProceedsIInv

\* The teardown of a test.
LEMMA TeardownIInv ==
  ASSUME IInv, NEW w \in Workers, Teardown(w)
  PROVE  IInv'
  <1>1. PICK fails \in BOOLEAN : Step(w, [proc[w] EXCEPT !.pc = "cleanup", !.failed = @ \/ fails])
    BY DEF Teardown
  <1> DEFINE new == [proc[w] EXCEPT !.pc = "cleanup", !.failed = @ \/ fails]
  <1>2. /\ proc[w].pc = "teardown"
        /\ UNCHANGED <<hooked, pool, completed, after, begun, late>>
    BY DEF Teardown, At
  <1>3. proc[w].pc \in Running /\ "cleanup" \in Running
    BY <1>2 DEF Running
  <1>4. (proc[w].failed \/ fails) \in BOOLEAN
    BY <1>3, RunningFacts DEF Proc
  <1>5. new \in Proc
    <2>1. 0 \in 0..2 * MaxActions
      BY ItemFacts
    <2> QED
      BY <1>3, <1>4, <2>1, RunningFacts, PartDone
  <1>6. /\ \A f \in {"item", "left", "executed", "package", "fixture"} : new[f] = proc[w][f]
        /\ new.pc = "cleanup"
    BY <1>3, RunningFacts DEF Proc
  <1>7. Step(w, new)
    BY <1>1
  <1> HIDE DEF new
  <1> QED
    BY <1>2, <1>3, <1>5, <1>6, <1>7, RunningFacts, Goes

\* The cleanup actions are performed, all of them, before the next test.
LEMMA PerformCleanUpIInv ==
  ASSUME IInv, NEW w \in Workers, PerformCleanUp(w)
  PROVE  IInv'
  <1>1. /\ proc[w].pc = "cleanup"
        /\ UNCHANGED <<hooked, pool, completed, after, begun, late>>
    BY DEF PerformCleanUp, At
  <1>2. proc[w].pc \in Running /\ proc[w] \in Proc /\ proc[w].stack \in 0..2 * MaxActions
        /\ begun \subseteq Packages /\ late \subseteq begun
    BY <1>1, RunningFacts DEF Running
  <1>3. CASE proc[w].stack = 0
    <2> DEFINE stops == ExitFirst /\ proc[w].failed
               new == [proc[w] EXCEPT !.pc = "next", !.stack = 0, !.stopped = stops]
    <2>1. Step(w, new)
      BY <1>3 DEF PerformCleanUp, TestOver
    <2>2. stops \in BOOLEAN
      OBVIOUS
    <2> HIDE DEF stops
    <2>3. new \in Proc
      <3>1. 0 \in 0..2 * MaxActions
        BY ItemFacts
      <3> QED
        BY <1>2, <2>2, <3>1 DEF Proc
    <2>4. /\ \A f \in {"item", "left", "executed", "package", "fixture"} : new[f] = proc[w][f]
          /\ new.pc = "next" /\ new.stack = 0
      BY <1>2 DEF Proc
    <2> HIDE DEF new
    <2> QED
      BY <1>1, <1>2, <2>1, <2>3, <2>4, Goes
  <1>4. CASE proc[w].stack # 0
    <2> DEFINE new == [proc[w] EXCEPT !.stack = @ - 1]
    <2>1. Step(w, new)
      BY <1>4 DEF PerformCleanUp
    <2>2. proc[w].stack - 1 \in 0..2 * MaxActions
      BY <1>2, <1>4, ItemFacts
    <2>3. new \in Proc
      BY <1>2, <2>2 DEF Proc
    <2>4. /\ \A f \in {"item", "left", "executed", "package", "fixture"} : new[f] = proc[w][f]
          /\ new.pc = "cleanup"
      BY <1>1, <1>2 DEF Proc
    <2> HIDE DEF new
    <2> QED
      BY <1>1, <1>2, <2>1, <2>3, <2>4, Goes
  <1> QED
    BY <1>3, <1>4

-----------------------------------------------------------------------------
(* The theorems *)

\* Every step preserves the invariant.
LEMMA NextIInv == IInv /\ [Next]_vars => IInv'
  <1> SUFFICES ASSUME IInv, [Next]_vars PROVE IInv'
    OBVIOUS
  <1>1. CASE UNCHANGED vars
    <2>1. hooked' = hooked /\ pool' = pool /\ proc' = proc /\ completed' = completed
          /\ after' = after /\ begun' = begun /\ late' = late
      BY <1>1 DEF vars
    <2>2. Functions' /\ pool' \in Nat /\ pool <= pool'
      BY <2>1, ItemFacts DEF IInv, Functions
    <2> QED
      BY <2>1, <2>2, Untouched DEF IInv
  <1>2. ASSUME NEW w \in Workers,
               \/ LoopHook(w) \/ StartTests(w) \/ LoopAfter(w)
               \/ TakeNext(w) \/ Close(w) \/ Open(w)
               \/ Setup(w) \/ SetupErrors(w) \/ Body(w) \/ Teardown(w) \/ PerformCleanUp(w)
        PROVE  IInv'
    BY <1>2, LoopHookIInv, StartTestsIInv, LoopAfterIInv, TakeNextIInv, CloseIInv, OpenIInv,
       SetupIInv, SetupErrorsIInv, BodyIInv, TeardownIInv, PerformCleanUpIInv
  <1> QED
    BY <1>1, <1>2 DEF Next

\* IInv holds in every reachable state.
LEMMA Invariance == Spec => []IInv
  BY InitIInv, NextIInv, PTL DEF Spec

\* Every variable has its type; above all, no hook is run or undone twice in one
\* process.  (conftest.py:28, hook_runner.py:76)
THEOREM TypeCorrect == Spec => []TypeOK
  <1>1. IInv => TypeOK
    BY DEF IInv, Functions, Worker, Typed, TypeOK
  <1> QED
    BY <1>1, Invariance, PTL

\* What the hook of a package set up is undone exactly once by the same process, for
\* any tests, any number of workers and any failures, -x included, and the tests of the
\* package run between the two; the hooks of the cases are undone once in a session
\* that is not cut short.  (hook_runner.py:119, conftest.py:53)
THEOREM PairedHooks == Spec => []HooksPaired
  <1>1. IInv => HooksPaired
    <2> SUFFICES ASSUME IInv, NEW w \in Workers
                 PROVE  /\ At(w, "over") => \A p \in Packages : after[w][p] = completed[w][p]
                        /\ At(w, "over") /\ ~proc[w].stopped =>
                             \A h \in Collected : after[w][h] = completed[w][h]
                        /\ At(w, "body") /\ proc[w].fixture # "off" =>
                             completed[w][proc[w].package] = 1 /\ after[w][proc[w].package] = 0
      BY DEF HooksPaired
    <2>1. Worker(w)
      BY DEF IInv
    <2>2. ASSUME At(w, "over")
          PROVE  \A p \in Packages : after[w][p] = completed[w][p]
      BY <2>1, <2>2, ItemFacts DEF Worker, Place, PackageHooks, At
    <2>3. ASSUME At(w, "over"), ~proc[w].stopped, NEW h \in Collected
          PROVE  after[w][h] = completed[w][h]
      BY <2>1, <2>3 DEF Worker, LoopHooks
    <2>4. ASSUME At(w, "body"), proc[w].fixture # "off"
          PROVE  completed[w][proc[w].package] = 1 /\ after[w][proc[w].package] = 0
      <3>1. proc[w].fixture = "up" /\ proc[w].package \in Packages
        BY <2>1, <2>4 DEF Worker, Place, At, Running, Typed, Proc
      <3> QED
        BY <2>1, <3>1 DEF Worker, PackageHooks
    <2> QED
      BY <2>2, <2>3, <2>4
  <1> QED
    BY <1>1, Invariance, PTL

\* No test begins with cleanup actions of an earlier one, however many actions a
\* test adds and however it ends.  (base.py:485, fixtures.py:75)
THEOREM StackEmptied == Spec => []CleanupDone
  <1>1. IInv => CleanupDone
    BY DEF IInv, Worker, Stack, CleanupDone, At
  <1> QED
    BY <1>1, Invariance, PTL
=============================================================================
