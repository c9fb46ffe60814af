-------------------------- MODULE BorrowClear_proofs --------------------------
(***************************************************************************)
(* Clearing gives everything back and the roles it finds are the           *)
(* cluster's: the theorems behind ClearSucceeds and RolesAreRight of       *)
(* BorrowClear, for any nodes, memory, attempts and elections.             *)
(***************************************************************************)
EXTENDS BorrowClear, FiniteSetTheorems, SequenceTheorems, TLAPS

PCs == Lists \cup Loops \cup {"roles", "final", "over"}
Jobs == [pc : PCs, at : Nodes, todo : SUBSET Listed, names : SUBSET Names]
RolePCs == {"out", "master", "standby", "check", "found"}
RoleStates == [pc : RolePCs, tries : 0..WaitTimes, masterId : Ids \cup {Nobody},
               standbyId : Ids \cup {Nobody}, at : Nodes, master : Nodes \cup {Nobody},
               standby : Nodes \cup {Nobody}, agents : Seq(Nodes), stable : BOOLEAN]
Views == [master : Ids \cup {Nobody}, standby : Ids \cup {Nobody}]

-----------------------------------------------------------------------------
(* Types                                                                   *)

\* TypeOK with these names.
LEMMA TypeIs ==
    TypeOK <=> /\ ledger \subseteq Memory
               /\ attached \subseteq Ids \X Shared
               /\ view \in [Nodes -> Views]
               /\ job \in Jobs
               /\ roles \in RoleStates
               /\ result \in {"none", "true", "false", "raised"}
               /\ fault \in BOOLEAN
               /\ elections \in 0..MaxElections
BY DEF TypeOK, Jobs, PCs, RoleStates, RolePCs, Views

\* The nodes.
LEMMA NodesAre ==
    /\ N \in Nat /\ 1 \in Nodes /\ N \in Nodes /\ Nodes \subseteq Nat \ {0}
    /\ Nobody \notin Nodes /\ Nobody \notin Ids /\ Nodes \subseteq Ids /\ Ids \subseteq Nat \ {0}
    /\ \A n \in Nodes : n <= N /\ n >= 1 /\ (n < N => n + 1 \in Nodes)
BY BorrowClearAssumption DEF Nodes, Nobody

\* Where clear_all_borrow_mem() begins one of its loops.
LEMMA JobIs ==
    ASSUME NEW pc \in PCs, NEW at \in Nodes, NEW todo \in SUBSET Listed
    PROVE  Job(pc, at, todo) \in Jobs
BY DEF Job, Jobs

\* Where return_nodes_by_all_role() begins, for the first time and again.
LEMMA NoRolesIs == NoRoles \in RoleStates
<1>1. 0 \in 0..WaitTimes /\ 1 \in Nodes BY NodesAre, BorrowClearAssumption
<1>2. << >> \in Seq(Nodes) OBVIOUS
<1> DEFINE e == << >>
<1> HIDE DEF e
<1> QED BY <1>1, <1>2 DEF NoRoles, RoleStates, RolePCs

\* What a list of one node gives.
LEMMA OwnIs ==
    ASSUME TypeOK, NEW kind, NEW n \in Nodes
    PROVE  Own(kind, n) \in SUBSET Listed
<1> SUFFICES ASSUME NEW i \in ledger
             PROVE  [name |-> i.name, node |-> n] \in Listed
  BY DEF Own
<1>1. i.name \in Names /\ n \in Ids BY TypeIs, NodesAre DEF Names
<1> QED BY <1>1 DEF Listed

\* What the list of the ledger gives.
LEMMA DetailIs ==
    ASSUME TypeOK
    PROVE  Detail \in SUBSET Listed
<1>1. ASSUME NEW i \in ledger
      PROVE  /\ [name |-> i.name, node |-> i.node] \in Listed
             /\ [name |-> i.name, node |-> Nobody] \in Listed
  <2>1. i \in Memory /\ i.name \in Names BY TypeIs DEF Names
  <2>2. i.node \in Ids \cup {Nobody} BY <2>1, BorrowClearAssumption
  <2> QED BY <2>1, <2>2 DEF Listed
<1>2. ASSUME NEW a \in attached PROVE [name |-> a[2], node |-> a[1]] \in Listed
  <2>1. a[1] \in Ids /\ a[2] \in Shared BY TypeIs
  <2>2. a[2] \in Names BY <2>1 DEF Shared, Names
  <2> QED BY <2>1, <2>2 DEF Listed
<1> QED BY <1>1, <1>2 DEF Detail

\* A step of a loop leaves less to do, and ends when nothing is left.
LEMMA TakeIs ==
    ASSUME TypeOK, NEW i
    PROVE  [job EXCEPT !.todo = Take(i)] \in Jobs
<1>1. job \in Jobs BY TypeIs
<1>2. Take(i) \in SUBSET Listed BY <1>1 DEF Take, Jobs
<1> QED BY <1>1, <1>2 DEF Jobs

\* What clears, and does not ask for roles, keeps the types.
LEMMA ClearingTyped == ASSUME TypeOK, Clearing PROVE TypeOK'
<1>1. /\ ledger \subseteq Memory /\ attached \subseteq Ids \X Shared /\ view \in [Nodes -> Views]
      /\ job \in Jobs /\ roles \in RoleStates /\ result \in {"none", "true", "false", "raised"}
      /\ fault \in BOOLEAN /\ elections \in 0..MaxElections
      /\ job.at \in Nodes /\ 1 \in Nodes
  BY TypeIs, NodesAre DEF Jobs
<1>2. PCs = {"fdList", "numaList", "shmList", "detail", "fdDelete", "numaDelete", "detach",
             "delete", "roles", "final", "over"}
  BY DEF PCs, Lists, Loops
<1>3. ASSUME NEW kind \in {"fd", "numa"}, ListOwn(kind) PROVE TypeOK'
  <2>1. DeleteOf(kind) \in PCs BY <1>2 DEF DeleteOf
  <2>2. job' \in Jobs /\ fault' \in BOOLEAN
    <3>1. Own(kind, job.at) \in SUBSET Listed BY <1>1, OwnIs
    <3>2. {} \in SUBSET Listed OBVIOUS
    <3> QED BY <1>1, <1>3, <2>1, <3>1, <3>2, JobIs DEF ListOwn
  <2> QED BY <1>1, <1>3, <2>2, TypeIs DEF ListOwn, Silent, cluster, TypeOK, Jobs, PCs, RoleStates,
                                          RolePCs, Views
<1>4. ASSUME NEW kind \in {"fd", "numa"}, DeleteOwn(kind) PROVE TypeOK'
  <2>1. job' \in Jobs /\ ledger' \subseteq Memory /\ fault' \in BOOLEAN
    BY <1>1, <1>4, TakeIs DEF DeleteOwn
  <2> QED BY <1>1, <1>4, <2>1 DEF DeleteOwn, Silent, cluster, TypeOK, Jobs, PCs, RoleStates,
                                  RolePCs, Views
<1>5. ASSUME NEW kind \in {"fd", "numa"}, OwnDeleted(kind) PROVE TypeOK'
  <2>1. job' \in Jobs
    <3>1. ListOf(kind) \in PCs /\ "numaList" \in PCs /\ "shmList" \in PCs /\ {} \in SUBSET Listed
      BY <1>2 DEF ListOf
    <3>2. job.at < N => job.at + 1 \in Nodes BY <1>1, NodesAre
    <3> QED BY <1>1, <1>5, <3>1, <3>2, JobIs, Zenon DEF OwnDeleted, AfterNode
  <2> QED BY <1>1, <1>5, <2>1 DEF OwnDeleted, Silent, cluster, TypeOK, Jobs, PCs, RoleStates,
                                  RolePCs, Views
<1>6. CASE ListShared
  <2>1. job' \in Jobs
    <3>1. "detail" \in PCs /\ {} \in SUBSET Listed BY <1>2
    <3> QED BY <1>1, <1>6, <3>1, JobIs DEF ListShared
  <2> QED BY <1>1, <1>6, <2>1 DEF ListShared, Silent, cluster, TypeOK, Jobs, PCs, RoleStates,
                                  RolePCs, Views
<1>7. CASE ListDetail
  <2>1. PICK lines \in {Detail, {}} :
           /\ job' = [Job("detach", 1, {l \in lines : l.node # Nobody})
                        EXCEPT !.names = {l.name : l \in lines}]
           /\ fault' = (fault \/ lines # Detail)
    BY <1>7 DEF ListDetail
  <2>2. lines \in SUBSET Listed BY DetailIs
  <2>3. job' \in Jobs
    <3> DEFINE todo == {l \in lines : l.node # Nobody}
               names == {l.name : l \in lines}
    <3>1. todo \in SUBSET Listed BY <2>2
    <3>2. names \in SUBSET Names BY <2>2 DEF Listed
    <3>3. "detach" \in PCs BY <1>2
    <3>4. job' = [Job("detach", 1, todo) EXCEPT !.names = names] BY <2>1
    <3> HIDE DEF todo, names
    <3>5. Job("detach", 1, todo) \in Jobs BY <1>1, <3>1, <3>3, JobIs
    <3> QED BY <3>2, <3>4, <3>5 DEF Jobs
  <2>4. fault' \in BOOLEAN BY <1>1, <2>1
  <2> QED BY <1>1, <1>7, <2>3, <2>4 DEF ListDetail, Silent, cluster, TypeOK, Jobs, PCs, RoleStates,
                                        RolePCs, Views
<1>8. CASE Detach
  <2>1. job' \in Jobs /\ attached' \subseteq Ids \X Shared /\ fault' \in BOOLEAN
    BY <1>1, <1>8, TakeIs DEF Detach
  <2> QED BY <1>1, <1>8, <2>1 DEF Detach, Silent, cluster, TypeOK, Jobs, PCs, RoleStates,
                                  RolePCs, Views
<1>9. CASE Detached
  <2>1. job' \in Jobs BY <1>1, <1>2, <1>9 DEF Detached, Jobs
  <2>2. roles' \in RoleStates
    <3>1. roles' = [NoRoles EXCEPT !.pc = "master"] BY <1>9 DEF Detached
    <3> QED BY <3>1, NoRolesIs DEF RoleStates, RolePCs
  <2> QED BY <1>1, <1>9, <2>1, <2>2 DEF Detached, cluster, TypeOK, Jobs, PCs, RoleStates,
                                        RolePCs, Views
<1>10. CASE Delete
  <2>1. job' \in Jobs /\ ledger' \subseteq Memory /\ fault' \in BOOLEAN
    BY <1>1, <1>10, TakeIs DEF Delete
  <2> QED BY <1>1, <1>10, <2>1 DEF Delete, Silent, cluster, TypeOK, Jobs, PCs, RoleStates,
                                   RolePCs, Views
<1>11. CASE Deleted
  <2>1. job' \in Jobs BY <1>1, <1>2, <1>11 DEF Deleted, Jobs
  <2> QED BY <1>1, <1>11, <2>1 DEF Deleted, Silent, cluster, TypeOK, Jobs, PCs, RoleStates,
                                   RolePCs, Views
<1>12. CASE Final
  <2>1. job' \in Jobs BY <1>1, <1>2, <1>12 DEF Final, Jobs
  <2>2. result' \in {"none", "true", "false", "raised"} /\ fault' \in BOOLEAN
    BY <1>1, <1>12 DEF Final
  <2> QED BY <1>1, <1>12, <2>1, <2>2 DEF Final, Silent, cluster, TypeOK, Jobs, PCs, RoleStates,
                                         RolePCs, Views
<1>13. CASE CallRaises
  <2>1. job' \in Jobs BY <1>1, <1>2, <1>13 DEF CallRaises, Abort, Jobs
  <2> QED BY <1>1, <1>13, <2>1 DEF CallRaises, Abort, Silent, cluster, TypeOK, Jobs, PCs,
                                   RoleStates, RolePCs, Views
<1>14. CASE DetachOutside
  <2>1. job' \in Jobs BY <1>1, <1>2, <1>14 DEF DetachOutside, Abort, Jobs
  <2> QED BY <1>1, <1>14, <2>1 DEF DetachOutside, Abort, Silent, cluster, TypeOK, Jobs, PCs,
                                   RoleStates, RolePCs, Views
<1> QED BY <1>3, <1>4, <1>5, <1>6, <1>7, <1>8, <1>9, <1>10, <1>11, <1>12, <1>13, <1>14,
           Zenon DEF Clearing

\* A node names a node of the cluster, or none.
LEMMA SaysIs ==
    ASSUME TypeOK, NEW n \in Nodes, NEW role \in {"master", "standby"}
    PROVE  Says(n, role) \subseteq Ids \cup {Nobody}
<1>1. view[n] \in Views BY TypeIs
<1>2. view[n][role] \in Ids \cup {Nobody} BY <1>1 DEF Views
<1> QED BY <1>2 DEF Says

\* An answer may be that of a query that failed.
LEMMA Heard ==
    ASSUME fault \in BOOLEAN, AskMaster \/ AskStandby \/ Disagree
    PROVE  fault' \in BOOLEAN /\ (~fault' => ~fault)
<1>1. CASE AskMaster
  <2>1. PICK m \in Says(1, "master") : Hears(1, "master", m) BY <1>1 DEF AskMaster
  <2> QED BY <2>1 DEF Hears
<1>2. CASE AskStandby
  <2>1. PICK s \in Says(1, "standby") : Hears(1, "standby", s) BY <1>2 DEF AskStandby
  <2> QED BY <2>1 DEF Hears
<1>3. CASE Disagree
  <2>1. PICK m \in Says(roles.at, "master") : Hears(roles.at, "master", m) BY <1>3 DEF Disagree
  <2> QED BY <2>1 DEF Hears
<1> QED BY <1>1, <1>2, <1>3

\* What a retry keeps is its count.
LEMMA RetryIs ==
    ASSUME TypeOK, roles.tries < WaitTimes
    PROVE  Retry \in RoleStates
<1>1. roles \in RoleStates BY TypeIs
<1>2. roles.tries + 1 \in 0..WaitTimes /\ roles.stable \in BOOLEAN
  BY <1>1, BorrowClearAssumption DEF RoleStates
<1>3. NoRoles \in RoleStates BY NoRolesIs
<1> QED BY <1>2, <1>3 DEF Retry, RoleStates, RolePCs

\* Between its questions return_nodes_by_all_role() has attempts left.
Tries == roles.pc \in {"standby", "check", "found"} => roles.tries < WaitTimes

\* The role of one more node.
LEMMA AssignIs ==
    ASSUME NEW r \in RoleStates
    PROVE  Assign(r) \in RoleStates
<1>1. r.at \in Nodes /\ r.agents \in Seq(Nodes) BY DEF RoleStates
<1>2. [r EXCEPT !.master = r.at] \in RoleStates BY <1>1 DEF RoleStates
<1>3. [r EXCEPT !.standby = r.at] \in RoleStates BY <1>1 DEF RoleStates
<1>4. [r EXCEPT !.agents = Append(@, r.at)] \in RoleStates
  <2>1. Append(r.agents, r.at) \in Seq(Nodes) BY <1>1
  <2> DEFINE more == Append(r.agents, r.at)
  <2> HIDE DEF more
  <2>2. more \in Seq(Nodes) BY <2>1 DEF more
  <2>3. [r EXCEPT !.agents = more] \in RoleStates BY <2>2 DEF RoleStates
  <2> QED BY <2>3 DEF more
<1> QED BY <1>2, <1>3, <1>4, Zenon DEF Assign

\* Asking keeps the types.
LEMMA RolesTyped == ASSUME TypeOK, Tries, Roles PROVE TypeOK'
<1>1. /\ ledger \subseteq Memory /\ attached \subseteq Ids \X Shared /\ view \in [Nodes -> Views]
      /\ job \in Jobs /\ roles \in RoleStates /\ result \in {"none", "true", "false", "raised"}
      /\ fault \in BOOLEAN /\ elections \in 0..MaxElections
      /\ 1 \in Nodes /\ roles.at \in Nodes
  BY TypeIs, NodesAre DEF RoleStates
<1>2. PCs = {"fdList", "numaList", "shmList", "detail", "fdDelete", "numaDelete", "detach",
             "delete", "roles", "final", "over"}
  BY DEF PCs, Lists, Loops
<1>3. ASSUME roles' \in RoleStates, fault' \in BOOLEAN, RolesStep PROVE TypeOK'
  BY <1>1, <1>3 DEF RolesStep, cluster, TypeOK, Jobs, PCs, RoleStates, RolePCs, Views
<1>4. CASE AskMaster
  <2>1. PICK m \in Says(1, "master") : roles' = [roles EXCEPT !.pc = "standby", !.masterId = m]
    BY <1>4 DEF AskMaster
  <2>h. fault' \in BOOLEAN BY <1>1, <1>4, Heard
  <2>2. m \in Ids \cup {Nobody} BY <1>1, SaysIs
  <2>3. roles' \in RoleStates BY <1>1, <2>1, <2>2 DEF RoleStates, RolePCs
  <2> QED BY <1>3, <1>4, <2>h, <2>3 DEF AskMaster
<1>5. CASE AskStandby
  <2>1. PICK s \in Says(1, "standby") :
           roles' = IF roles.masterId = Nobody \/ s = Nobody THEN Retry
                    ELSE [roles EXCEPT !.pc = "check", !.standbyId = s]
    BY <1>5 DEF AskStandby
  <2>h. fault' \in BOOLEAN BY <1>1, <1>5, Heard
  <2>2. s \in Ids \cup {Nobody} BY <1>1, SaysIs
  <2>3. Retry \in RoleStates BY <1>5, RetryIs DEF AskStandby, Asking, Tries
  <2>4. [roles EXCEPT !.pc = "check", !.standbyId = s] \in RoleStates
    BY <1>1, <2>2 DEF RoleStates, RolePCs
  <2> DEFINE next == [roles EXCEPT !.pc = "check", !.standbyId = s]
  <2> HIDE DEF next
  <2>5. roles' = IF roles.masterId = Nobody \/ s = Nobody THEN Retry ELSE next
    BY <2>1 DEF next
  <2>6. next \in RoleStates BY <2>4 DEF next
  <2>7. roles' \in RoleStates BY <2>3, <2>5, <2>6
  <2> QED BY <1>3, <1>5, <2>h, <2>7 DEF AskStandby
<1>6. CASE Agree
  <2>1. Assign(roles) \in RoleStates BY <1>1, AssignIs
  <2>2. Assign(roles).at = roles.at
    <3>1. [roles EXCEPT !.agents = Append(@, roles.at)].at = roles.at BY <1>1 DEF RoleStates
    <3> QED BY <1>1, <3>1 DEF Assign, RoleStates
  <2>3. [Assign(roles) EXCEPT !.pc = "found"] \in RoleStates BY <2>1 DEF RoleStates, RolePCs
  <2>4. roles.at # N => [Assign(roles) EXCEPT !.at = @ + 1] \in RoleStates
    <3> DEFINE a == Assign(roles)
    <3> HIDE DEF a
    <3>1. a \in RoleStates /\ a.at = roles.at BY <2>1, <2>2 DEF a
    <3>2. roles.at # N => a.at + 1 \in Nodes
      <4>1. \A k \in Nodes : k # N => k + 1 \in Nodes BY BorrowClearAssumption DEF Nodes
      <4> QED BY <1>1, <3>1, <4>1
    <3>3. roles.at # N => [a EXCEPT !.at = @ + 1] \in RoleStates BY <3>1, <3>2 DEF RoleStates
    <3> QED BY <3>3 DEF a
  <2>5. roles' \in RoleStates BY <1>6, <2>3, <2>4 DEF Agree
  <2> QED BY <1>1, <1>3, <1>6, <2>5 DEF Agree
<1>7. CASE Disagree
  <2>1. roles' \in RoleStates BY <1>7, RetryIs DEF Disagree, Asking, Tries
  <2>2. fault' \in BOOLEAN BY <1>1, <1>7, Heard
  <2> QED BY <1>3, <1>7, <2>1, <2>2 DEF Disagree
<1>8. CASE RolesFound
  <2> DEFINE todo == {[name |-> n, node |-> roles.master] : n \in job.names}
  <2>1. todo \in SUBSET Listed
    <3>1. roles.master \in Nodes \cup {Nobody} BY <1>1 DEF RoleStates
    <3>2. roles.master \in Ids \cup {Nobody} BY <3>1, NodesAre
    <3>3. job.names \subseteq Names BY <1>1 DEF Jobs
    <3> QED BY <3>2, <3>3 DEF Listed
  <2>2. [job EXCEPT !.pc = "delete", !.todo = todo] \in Jobs
    <3> HIDE DEF todo
    <3> QED BY <1>1, <1>2, <2>1 DEF Jobs
  <2>3. /\ [job EXCEPT !.pc = "over"] \in Jobs /\ [job EXCEPT !.pc = "final"] \in Jobs
    BY <1>1, <1>2 DEF Jobs
  <2>4. /\ job' \in {[job EXCEPT !.pc = "delete", !.todo = todo], [job EXCEPT !.pc = "over"],
                     [job EXCEPT !.pc = "final"]}
        /\ result' \in {result, "raised"}
    BY <1>8, Zenon DEF RolesFound, Abort
  <2>5. job' \in Jobs /\ result' \in {"none", "true", "false", "raised"}
    <3> HIDE DEF todo
    <3> QED BY <1>1, <2>2, <2>3, <2>4
  <2> QED BY <1>1, <1>8, <2>5 DEF RolesFound, Silent, cluster, TypeOK, Jobs, PCs, RoleStates,
                                  RolePCs, Views
<1>9. CASE RolesExhausted
  <2>1. job' \in Jobs BY <1>1, <1>2, <1>9 DEF RolesExhausted, Abort, Jobs
  <2> QED BY <1>1, <1>9, <2>1 DEF RolesExhausted, Abort, Silent, cluster, TypeOK, Jobs, PCs,
                                  RoleStates, RolePCs, Views
<1> QED BY <1>4, <1>5, <1>6, <1>7, <1>8, <1>9, Zenon DEF Roles

\* Another view keeps the types.
LEMMA ElectTyped ==
    ASSUME TypeOK, NEW n \in Nodes, NEW m \in Ids, NEW s \in Ids, Elect(n, m, s)
    PROVE  TypeOK'
<1>1. /\ view \in [Nodes -> Views] /\ roles \in RoleStates /\ elections \in 0..MaxElections
  BY TypeIs
<1>2. view' \in [Nodes -> Views]
  <2>1. [master |-> m, standby |-> s] \in Views BY DEF Views
  <2> QED BY <1>1, <2>1 DEF Elect
<1>3. roles' \in RoleStates BY <1>1 DEF Elect, RoleStates
<1>4. elections' \in 0..MaxElections BY <1>1, BorrowClearAssumption DEF Elect
<1> QED BY <1>2, <1>3, <1>4 DEF Elect, TypeOK, Jobs, PCs, RoleStates, RolePCs, Views

\* The count of the attempts.
LEMMA TriesKept == ASSUME TypeOK, Tries, [Next]_vars PROVE Tries'
<1>1. roles \in RoleStates BY TypeIs
<1>2. ASSUME UNCHANGED roles PROVE Tries' BY <1>2 DEF Tries
<1>3. CASE UNCHANGED vars BY <1>2, <1>3 DEF vars
<1>4. ASSUME Clearing, ~Detached PROVE Tries'
  <2>1. UNCHANGED roles
    BY <1>4, Zenon DEF Clearing, ListOwn, DeleteOwn, OwnDeleted, ListShared, ListDetail, Detach,
                       DetachOutside, Delete, Deleted, Final, CallRaises, Silent
  <2> QED BY <1>2, <2>1
<1>5. CASE Detached
  <2>1. roles' = [NoRoles EXCEPT !.pc = "master"] BY <1>5 DEF Detached
  <2>2. roles'.pc = "master" BY <2>1 DEF NoRoles
  <2> QED BY <2>2 DEF Tries
<1>6. Retry.pc = "master" BY DEF Retry, NoRoles
<1>7. CASE AskMaster
  <2>1. PICK m \in Says(1, "master") : roles' = [roles EXCEPT !.pc = "standby", !.masterId = m]
    BY <1>7 DEF AskMaster
  <2>2. roles'.tries = roles.tries BY <1>1, <2>1 DEF RoleStates
  <2> QED BY <1>7, <2>2 DEF AskMaster, Tries
<1>8. CASE AskStandby
  <2>1. PICK s \in Says(1, "standby") :
           roles' = IF roles.masterId = Nobody \/ s = Nobody THEN Retry
                    ELSE [roles EXCEPT !.pc = "check", !.standbyId = s]
    BY <1>8 DEF AskStandby
  <2>2. [roles EXCEPT !.pc = "check", !.standbyId = s].tries = roles.tries
    BY <1>1 DEF RoleStates
  <2>3. roles.tries < WaitTimes BY <1>8 DEF AskStandby, Asking, Tries
  <2> QED BY <1>6, <2>1, <2>2, <2>3 DEF Tries
<1>9. CASE Agree
  <2>1. Assign(roles) \in RoleStates /\ Assign(roles).tries = roles.tries
    <3>1. [roles EXCEPT !.agents = Append(@, roles.at)].tries = roles.tries
      BY <1>1 DEF RoleStates
    <3> QED BY <1>1, <3>1, AssignIs DEF Assign, RoleStates
  <2>2. roles'.tries = roles.tries
    <3> DEFINE a == Assign(roles)
    <3>1. roles' \in {[a EXCEPT !.pc = "found"], [a EXCEPT !.at = @ + 1]} BY <1>9 DEF Agree
    <3>2. a \in RoleStates /\ a.tries = roles.tries BY <2>1
    <3> HIDE DEF a
    <3> QED BY <3>1, <3>2 DEF RoleStates
  <2> QED BY <1>9, <2>2 DEF Agree, Asking, Tries
<1>10. CASE Disagree BY <1>6, <1>10 DEF Disagree, Tries
<1>11. CASE RolesFound BY <1>2, <1>11 DEF RolesFound, Silent
<1>12. CASE RolesExhausted BY <1>2, <1>12 DEF RolesExhausted, Silent
<1>13. ASSUME NEW n \in Nodes, NEW m \in Ids, NEW s \in Ids, Elect(n, m, s) PROVE Tries'
  <2>1. roles'.tries = roles.tries /\ roles'.pc = roles.pc
    BY <1>1, <1>13 DEF Elect, RoleStates
  <2> QED BY <2>1 DEF Tries
<1> QED BY <1>3, <1>4, <1>5, <1>7, <1>8, <1>9, <1>10, <1>11, <1>12, <1>13, Zenon DEF Next, Roles

\* Init.
LEMMA InitTyped == Init => TypeOK /\ Tries
<1> SUFFICES ASSUME Init PROVE TypeOK /\ Tries
  OBVIOUS
<1>1. job \in Jobs
  <2>1. "fdList" \in PCs /\ {} \in SUBSET Listed BY DEF PCs, Lists
  <2> QED BY <2>1, JobIs, NodesAre DEF Init
<1>2. roles \in RoleStates /\ Tries
  <2>1. roles = NoRoles BY DEF Init
  <2>2. roles.pc = "out" BY <2>1 DEF NoRoles
  <2> QED BY <2>1, <2>2, NoRolesIs DEF Tries
<1>3. view \in [Nodes -> Views]
  <2>1. PICK m \in Ids, s \in Ids \cup {Nobody} :
           view = [n \in Nodes |-> [master |-> m, standby |-> s]]
    BY DEF Init
  <2> QED BY <2>1 DEF Views
<1>4. attached \subseteq Ids \X Shared
  <2>1. ledger \subseteq Memory BY DEF Init
  <2>2. \A i \in {j \in ledger : j.kind = "shm"} : i.name \in Shared BY <2>1 DEF Shared
  <2>3. {<<n, i.name>> : n \in Ids, i \in {j \in ledger : j.kind = "shm"}} \subseteq Ids \X Shared
    BY <2>2
  <2> QED BY <2>3 DEF Init
<1>5. elections \in 0..MaxElections BY BorrowClearAssumption DEF Init
<1>6. /\ ledger \subseteq Memory /\ fault \in BOOLEAN
      /\ result \in {"none", "true", "false", "raised"}
  <2>1. ledger \subseteq Memory BY DEF Init
  <2>2. fault = FALSE BY Zenon DEF Init
  <2>3. result = "none" BY Zenon DEF Init
  <2> QED BY <2>1, <2>2, <2>3
<1> QED BY <1>1, <1>2, <1>3, <1>4, <1>5, <1>6, TypeIs, Zenon

\* A step keeps the types.
LEMMA StepTyped == ASSUME TypeOK, Tries, [Next]_vars PROVE TypeOK'
<1>1. CASE UNCHANGED vars
  BY <1>1 DEF vars, TypeOK
<1> QED BY <1>1, ClearingTyped, RolesTyped, ElectTyped, Zenon DEF Next

\* Of every clearing, every attempt to find the roles and every election.
THEOREM TypeCorrect == Spec => []TypeOK
<1>1. Init => TypeOK /\ Tries BY InitTyped
<1>2. TypeOK /\ Tries /\ [Next]_vars => (TypeOK /\ Tries)' BY StepTyped, TriesKept
<1> QED BY <1>1, <1>2, PTL DEF Spec

-----------------------------------------------------------------------------
(* The roles found                                                         *)

\* What return_nodes_by_all_role() has found of k nodes: each has one role.
Has(r) == {r.master, r.standby} \ {Nobody}
Round(r, k) ==
    /\ Sent(r.agents) \cup Has(r) = 1..k
    /\ Len(r.agents) + Cardinality(Has(r)) = k
    /\ r.master = IF r.masterId \in 1..k THEN r.masterId ELSE Nobody
    /\ r.standby = IF r.standbyId \in 1..k /\ r.standbyId # r.masterId THEN r.standbyId ELSE Nobody

Fresh(r) == r.agents = << >> /\ r.master = Nobody /\ r.standby = Nobody /\ r.at = 1

\* Every step that asks, and what the others leave alone.
LEMMA OthersDoNotAsk ==
    [Next]_vars => \/ UNCHANGED <<roles, view>>
                   \/ Detached \/ AskMaster \/ AskStandby \/ Agree \/ Disagree
                   \/ \E n \in Nodes, m \in Ids, s \in Ids : Elect(n, m, s)
<1> SUFFICES ASSUME [Next]_vars, ~Detached, ~AskMaster, ~AskStandby, ~Agree, ~Disagree,
                    ~\E n \in Nodes, m \in Ids, s \in Ids : Elect(n, m, s)
             PROVE  UNCHANGED <<roles, view>>
  OBVIOUS
<1>1. CASE UNCHANGED vars BY <1>1 DEF vars
<1>2. CASE Clearing
  <2>1. Silent
    BY <1>2, Zenon DEF Clearing, ListOwn, DeleteOwn, OwnDeleted, ListShared, ListDetail, Detach,
                       DetachOutside, Delete, Deleted, Final, CallRaises
  <2> QED BY <2>1 DEF Silent, cluster
<1>3. CASE Roles
  <2>1. Silent BY <1>3, Zenon DEF Roles, RolesFound, RolesExhausted
  <2> QED BY <2>1 DEF Silent, cluster
<1> QED BY <1>1, <1>2, <1>3, Zenon DEF Next

\* One agent more.
LEMMA SentAppend ==
    ASSUME NEW s \in Seq(Nodes), NEW x \in Nodes
    PROVE  Sent(Append(s, x)) = Sent(s) \cup {x} /\ Len(Append(s, x)) = Len(s) + 1
<1> DEFINE t == Append(s, x)
<1>1. /\ Len(s) \in Nat /\ Len(t) = Len(s) + 1 /\ DOMAIN s = 1..Len(s) /\ DOMAIN t = 1..(Len(s) + 1)
      /\ \A i \in 1..Len(s) : t[i] = s[i]
      /\ t[Len(s) + 1] = x
  OBVIOUS
<1> HIDE DEF t
<1>2. Sent(t) \subseteq Sent(s) \cup {x} BY <1>1 DEF Sent
<1>3. Sent(s) \subseteq Sent(t) BY <1>1 DEF Sent
<1>4. x \in Sent(t)
  <2>1. Len(s) + 1 \in DOMAIN t BY <1>1
  <2> QED BY <1>1, <2>1 DEF Sent
<1> QED BY <1>1, <1>2, <1>3, <1>4 DEF t

\* The first question begins a round.
LEMMA RoundBegins ==
    ASSUME NEW r, Fresh(r)
    PROVE  Round(r, 0)
<1>1. Has(r) = {} BY DEF Fresh, Has
<1>2. Sent(r.agents) = {} /\ Len(r.agents) = 0 BY DEF Fresh, Sent
<1>3. Cardinality({}) = 0 BY FS_EmptySet
<1> QED BY <1>1, <1>2, <1>3 DEF Round, Fresh

\* What Assign changes of a round.
LEMMA AssignGives ==
    ASSUME NEW r \in RoleStates
    PROVE  /\ Assign(r).masterId = r.masterId /\ Assign(r).standbyId = r.standbyId
           /\ Assign(r).at = r.at /\ Assign(r).stable = r.stable /\ Assign(r).tries = r.tries
           /\ Assign(r).pc = r.pc
           /\ Assign(r).master = IF r.at = r.masterId THEN r.at ELSE r.master
           /\ Assign(r).standby = IF r.at # r.masterId /\ r.at = r.standbyId THEN r.at ELSE r.standby
           /\ Assign(r).agents = IF r.at # r.masterId /\ r.at # r.standbyId
                                 THEN Append(r.agents, r.at) ELSE r.agents
<1> DEFINE x == [r EXCEPT !.master = r.at]
           y == [r EXCEPT !.standby = r.at]
           more == Append(r.agents, r.at)
           z == [r EXCEPT !.agents = more]
<1>1. /\ x.masterId = r.masterId /\ x.standbyId = r.standbyId /\ x.at = r.at
      /\ x.stable = r.stable /\ x.tries = r.tries /\ x.pc = r.pc
      /\ x.master = r.at /\ x.standby = r.standby /\ x.agents = r.agents
  BY DEF RoleStates
<1>2. /\ y.masterId = r.masterId /\ y.standbyId = r.standbyId /\ y.at = r.at
      /\ y.stable = r.stable /\ y.tries = r.tries /\ y.pc = r.pc
      /\ y.master = r.master /\ y.standby = r.at /\ y.agents = r.agents
  BY DEF RoleStates
<1>3. /\ z.masterId = r.masterId /\ z.standbyId = r.standbyId /\ z.at = r.at
      /\ z.stable = r.stable /\ z.tries = r.tries /\ z.pc = r.pc
      /\ z.master = r.master /\ z.standby = r.standby /\ z.agents = more
  <2> HIDE DEF more
  <2> QED BY DEF RoleStates
<1>4. Assign(r) = IF r.at = r.masterId THEN x ELSE IF r.at = r.standbyId THEN y ELSE z
  BY Zenon DEF Assign
<1> HIDE DEF x, y, z, more
<1>5. CASE r.at = r.masterId BY <1>1, <1>4, <1>5
<1>6. CASE r.at # r.masterId /\ r.at = r.standbyId BY <1>2, <1>4, <1>6
<1>7. CASE r.at # r.masterId /\ r.at # r.standbyId
  <2>1. Assign(r) = z /\ z.agents = Append(r.agents, r.at) BY <1>3, <1>4, <1>7 DEF more
  <2> QED BY <1>3, <1>7, <2>1
<1> QED BY <1>5, <1>6, <1>7

\* A round of one node more.
LEMMA RoundGoesOn ==
    ASSUME NEW r \in RoleStates, Round(r, r.at - 1)
    PROVE  Round(Assign(r), r.at)
<1> DEFINE a == Assign(r)
           k == r.at - 1
<1>1. r.at \in Nodes /\ r.agents \in Seq(Nodes) BY DEF RoleStates
<1>2. k \in Nat /\ r.at = k + 1 /\ 1..r.at = (1..k) \cup {r.at} /\ r.at \notin 1..k /\ r.at # Nobody
  <2>1. r.at \in Int /\ r.at >= 1 BY <1>1, BorrowClearAssumption DEF Nodes
  <2>2. \A j \in Int : j >= 1 => 1..j = (1..(j - 1)) \cup {j} /\ j \notin 1..(j - 1) /\ j # 0
    OBVIOUS
  <2> QED BY <2>1, <2>2 DEF Nobody
<1>3. /\ a.masterId = r.masterId /\ a.standbyId = r.standbyId
      /\ a.master = IF r.at = r.masterId THEN r.at ELSE r.master
      /\ a.standby = IF r.at # r.masterId /\ r.at = r.standbyId THEN r.at ELSE r.standby
      /\ a.agents = IF r.at # r.masterId /\ r.at # r.standbyId
                    THEN Append(r.agents, r.at) ELSE r.agents
  BY AssignGives
<1>4. /\ Sent(r.agents) \cup Has(r) = 1..k /\ Len(r.agents) + Cardinality(Has(r)) = k
      /\ r.master = IF r.masterId \in 1..k THEN r.masterId ELSE Nobody
      /\ r.standby = IF r.standbyId \in 1..k /\ r.standbyId # r.masterId THEN r.standbyId ELSE Nobody
  BY DEF Round
<1> HIDE DEF a, k
<1>5. /\ a.master = IF a.masterId \in 1..r.at THEN a.masterId ELSE Nobody
      /\ a.standby = IF a.standbyId \in 1..r.at /\ a.standbyId # a.masterId
                     THEN a.standbyId ELSE Nobody
  BY <1>2, <1>3, <1>4
<1>6. IsFiniteSet(Has(r)) /\ Cardinality(Has(r)) \in Nat /\ Len(r.agents) \in Nat
  <2>1. IsFiniteSet({r.master, r.standby})
    <3>1. {r.master, r.standby} = {r.master} \cup {r.standby} OBVIOUS
    <3>2. IsFiniteSet({r.master}) BY FS_Singleton
    <3>3. IsFiniteSet({r.master} \cup {r.standby}) BY <3>2, FS_AddElement
    <3> QED BY <3>1, <3>3
  <2>2. IsFiniteSet(Has(r)) BY <2>1, FS_Subset DEF Has
  <2> QED BY <1>1, <2>2, FS_CardinalityType
<1>7. r.at \notin Has(r) BY <1>2, <1>4
<1>8. ASSUME a.agents = r.agents, Has(a) = Has(r) \cup {r.at}
      PROVE  Sent(a.agents) \cup Has(a) = 1..r.at /\ Len(a.agents) + Cardinality(Has(a)) = r.at
  <2>1. Cardinality(Has(a)) = Cardinality(Has(r)) + 1 BY <1>6, <1>7, <1>8, FS_AddElement
  <2> QED BY <1>2, <1>4, <1>6, <1>8, <2>1
<1>9. CASE r.at = r.masterId
  <2>1. r.master = Nobody BY <1>2, <1>4, <1>9
  <2>2. Has(a) = Has(r) \cup {r.at} BY <1>2, <1>3, <1>9, <2>1 DEF Has
  <2> QED BY <1>3, <1>5, <1>8, <1>9, <2>2 DEF Round, a
<1>10. CASE r.at # r.masterId /\ r.at = r.standbyId
  <2>1. r.standby = Nobody BY <1>2, <1>4, <1>10
  <2>2. Has(a) = Has(r) \cup {r.at} BY <1>2, <1>3, <1>10, <2>1 DEF Has
  <2> QED BY <1>3, <1>5, <1>8, <1>10, <2>2 DEF Round, a
<1>11. CASE r.at # r.masterId /\ r.at # r.standbyId
  <2>1. Has(a) = Has(r) BY <1>3, <1>11 DEF Has
  <2>2. Sent(a.agents) = Sent(r.agents) \cup {r.at} /\ Len(a.agents) = Len(r.agents) + 1
    <3>1. a.agents = Append(r.agents, r.at) BY <1>3, <1>11
    <3> QED BY <1>1, <3>1, SentAppend
  <2>3. Sent(a.agents) \cup Has(a) = 1..r.at BY <1>2, <1>4, <2>1, <2>2
  <2>4. Len(a.agents) + Cardinality(Has(a)) = r.at
    <3>1. Cardinality(Has(a)) = Cardinality(Has(r)) BY <2>1
    <3> QED BY <1>2, <1>4, <1>6, <2>2, <3>1, SMTT(30)
  <2> QED BY <1>5, <2>3, <2>4 DEF Round, a
<1> QED BY <1>9, <1>10, <1>11

\* What the node asked for the master answers.
LEMMA AskMasterGives ==
    ASSUME TypeOK, AskMaster
    PROVE  /\ roles.pc = "master" /\ roles'.pc = "standby"
           /\ roles'.masterId \in {view[1].master, Nobody}
           /\ ~fault' => roles'.masterId = view[1].master
           /\ roles'.stable = roles.stable /\ roles'.tries = roles.tries /\ UNCHANGED view
           /\ Fresh(roles) => roles'.agents = << >> /\ roles'.master = Nobody
                              /\ roles'.standby = Nobody /\ roles'.at = 1
<1>1. roles \in RoleStates BY TypeIs
<1>2. PICK m \in Says(1, "master") :
         /\ roles' = [roles EXCEPT !.pc = "standby", !.masterId = m]
         /\ fault' = (fault \/ m # view[1].master)
  BY DEF AskMaster, Hears
<1>3. m \in {view[1].master, Nobody} /\ (~fault' => m = view[1].master)
  <2>1. fault \in BOOLEAN BY TypeIs
  <2> QED BY <1>2, <2>1 DEF Says
<1>4. roles.pc = "master" /\ UNCHANGED view BY DEF AskMaster, Asking, RolesStep, cluster
<1> QED BY <1>1, <1>2, <1>3, <1>4 DEF RoleStates, Fresh

\* What the node asked for the standby answers.
LEMMA AskStandbyGives ==
    ASSUME TypeOK, AskStandby
    PROVE  /\ roles.pc = "standby" /\ UNCHANGED view
           /\ \/ /\ roles' = Retry
                 /\ fault' \/ roles.masterId = Nobody \/ view[1].standby = Nobody
              \/ /\ roles'.pc = "check"
                 /\ roles'.masterId = roles.masterId /\ roles.masterId # Nobody
                 /\ roles'.standbyId = view[1].standby /\ view[1].standby # Nobody
                 /\ roles'.stable = roles.stable /\ roles'.tries = roles.tries
                 /\ Fresh(roles) => roles'.agents = << >> /\ roles'.master = Nobody
                                    /\ roles'.standby = Nobody /\ roles'.at = 1
<1>1. roles \in RoleStates BY TypeIs
<1>2. PICK s \in Says(1, "standby") :
         /\ roles' = IF roles.masterId = Nobody \/ s = Nobody THEN Retry
                     ELSE [roles EXCEPT !.pc = "check", !.standbyId = s]
         /\ fault' = (fault \/ s # view[1].standby)
  BY DEF AskStandby, Hears
<1>3. s \in {view[1].standby, Nobody} /\ (~fault' => s = view[1].standby)
  <2>1. fault \in BOOLEAN BY TypeIs
  <2> QED BY <1>2, <2>1 DEF Says
<1>4. roles.pc = "standby" /\ UNCHANGED view BY DEF AskStandby, Asking, RolesStep, cluster
<1>5. CASE roles.masterId = Nobody \/ s = Nobody
  <2>1. roles' = Retry /\ (fault' \/ roles.masterId = Nobody \/ view[1].standby = Nobody)
    BY <1>2, <1>3, <1>5
  <2> QED BY <1>4, <2>1
<1>6. CASE roles.masterId # Nobody /\ s # Nobody
  <2>1. roles' = [roles EXCEPT !.pc = "check", !.standbyId = s] BY <1>2, <1>6
  <2> QED BY <1>1, <1>3, <1>4, <1>6, <2>1 DEF RoleStates, Fresh
<1> QED BY <1>5, <1>6

\* What a node that agrees is assigned.
LEMMA AgreeGives ==
    ASSUME TypeOK, Agree
    PROVE  /\ roles.pc = "check" /\ UNCHANGED view
           /\ \/ roles.at = N /\ roles'.pc = "found"
              \/ roles.at # N /\ roles'.pc = "check" /\ roles'.at = roles.at + 1
           /\ roles'.masterId = roles.masterId /\ roles'.standbyId = roles.standbyId
           /\ roles'.stable = roles.stable /\ roles'.tries = roles.tries /\ UNCHANGED fault
           /\ roles'.master = Assign(roles).master /\ roles'.standby = Assign(roles).standby
           /\ roles'.agents = Assign(roles).agents
<1> DEFINE a == Assign(roles)
<1>1. roles \in RoleStates BY TypeIs
<1>2. a \in RoleStates BY <1>1, AssignIs
<1>3. /\ a.masterId = roles.masterId /\ a.standbyId = roles.standbyId /\ a.at = roles.at
      /\ a.stable = roles.stable /\ a.pc = roles.pc /\ a.tries = roles.tries
  BY <1>1, AssignGives
<1>4. roles' = IF roles.at = N THEN [a EXCEPT !.pc = "found"] ELSE [a EXCEPT !.at = @ + 1]
  BY DEF Agree
<1>5. roles.pc = "check" /\ UNCHANGED <<view, fault>> BY DEF Agree, Asking, RolesStep, cluster
<1> HIDE DEF a
<1>6. CASE roles.at = N
  <2>1. roles' = [a EXCEPT !.pc = "found"] BY <1>4, <1>6
  <2>2. /\ roles'.pc = "found" /\ roles'.masterId = a.masterId /\ roles'.standbyId = a.standbyId
        /\ roles'.stable = a.stable /\ roles'.master = a.master /\ roles'.standby = a.standby
        /\ roles'.agents = a.agents /\ roles'.tries = a.tries
    BY <1>2, <2>1 DEF RoleStates
  <2> QED BY <1>3, <1>5, <1>6, <2>2 DEF a
<1>7. CASE roles.at # N
  <2>1. roles' = [a EXCEPT !.at = @ + 1] BY <1>4, <1>7
  <2>2. /\ roles'.pc = a.pc /\ roles'.masterId = a.masterId /\ roles'.standbyId = a.standbyId
        /\ roles'.stable = a.stable /\ roles'.master = a.master /\ roles'.standby = a.standby
        /\ roles'.agents = a.agents /\ roles'.at = a.at + 1 /\ roles'.tries = a.tries
    BY <1>2, <2>1 DEF RoleStates
  <2> QED BY <1>3, <1>5, <1>7, <2>2 DEF a
<1> QED BY <1>6, <1>7

\* Where the search begins, and begins again.
LEMMA Beginnings ==
    /\ Fresh(NoRoles) /\ NoRoles.pc = "out" /\ NoRoles.stable = TRUE /\ NoRoles.tries = 0
    /\ Fresh(Retry) /\ Retry.pc = "master" /\ Retry.stable = roles.stable
    /\ Detached => /\ roles' = [NoRoles EXCEPT !.pc = "master"]
                   /\ Fresh(roles') /\ roles'.pc = "master" /\ roles'.stable = TRUE /\ roles'.tries = 0
                   /\ UNCHANGED view /\ job.pc = "detach"
<1>1. Fresh(NoRoles) /\ NoRoles.pc = "out" /\ NoRoles.stable = TRUE /\ NoRoles.tries = 0 BY DEF NoRoles, Fresh
<1>2. Fresh(Retry) /\ Retry.pc = "master" /\ Retry.stable = roles.stable
  BY DEF Retry, NoRoles, Fresh
<1>3. ASSUME Detached
      PROVE  /\ roles' = [NoRoles EXCEPT !.pc = "master"]
             /\ Fresh(roles') /\ roles'.pc = "master" /\ roles'.stable = TRUE /\ roles'.tries = 0
             /\ UNCHANGED view /\ job.pc = "detach"
  <2>1. roles' = [NoRoles EXCEPT !.pc = "master"] /\ UNCHANGED view /\ job.pc = "detach"
    BY <1>3 DEF Detached, cluster
  <2> QED BY <2>1 DEF NoRoles, Fresh
<1> QED BY <1>1, <1>2, <1>3

\* An election is only recorded.
LEMMA ElectGives ==
    ASSUME TypeOK, NEW n \in Nodes, NEW m \in Ids, NEW s \in Ids, Elect(n, m, s)
    PROVE  /\ roles' = [roles EXCEPT !.stable = FALSE] /\ roles'.stable = FALSE
           /\ roles'.pc = roles.pc /\ roles'.at = roles.at /\ roles'.masterId = roles.masterId
           /\ roles'.standbyId = roles.standbyId /\ roles'.master = roles.master
           /\ roles'.standby = roles.standby /\ roles'.agents = roles.agents
           /\ job.pc = "roles" /\ UNCHANGED job /\ fault' = TRUE
<1>1. roles \in RoleStates BY TypeIs
<1>2. /\ roles' = [roles EXCEPT !.stable = FALSE]
      /\ job.pc = "roles" /\ UNCHANGED job /\ fault' = TRUE
  BY DEF Elect
<1> QED BY <1>1, <1>2 DEF RoleStates

\* Whatever was elected, each node that answered has one role.
Rounds ==
    /\ roles.pc = "check" => Round(roles, roles.at - 1)
    /\ roles.pc = "found" => Round(roles, N)
    /\ roles.pc \in {"master", "standby"} => Fresh(roles)

\* A round is of these fields.
LEMMA RoundOf ==
    ASSUME NEW r, NEW x, NEW k, Round(r, k),
           x.master = r.master, x.standby = r.standby, x.agents = r.agents,
           x.masterId = r.masterId, x.standbyId = r.standbyId
    PROVE  Round(x, k)
BY DEF Round, Has

\* A step keeps the rounds.
LEMMA RoundsKept == ASSUME TypeOK, Rounds, [Next]_vars PROVE Rounds'
<1>1. roles \in RoleStates BY TypeIs
<1>2. CASE UNCHANGED <<roles, view>> BY <1>2 DEF Rounds, Round, Has, Fresh, Sent
<1>3. ASSUME Fresh(roles'), roles'.pc = "master" PROVE Rounds' BY <1>3 DEF Rounds
<1>4. CASE Detached BY <1>3, <1>4, Beginnings
<1>5. CASE AskMaster
  <2>1. Fresh(roles) BY <1>5, AskMasterGives DEF Rounds
  <2>2. Fresh(roles') /\ roles'.pc = "standby" BY <1>5, <2>1, AskMasterGives DEF Fresh
  <2> QED BY <2>2 DEF Rounds
<1>6. CASE AskStandby
  <2>1. roles.pc = "standby" BY <1>6, AskStandbyGives
  <2>2. Fresh(roles) BY <2>1 DEF Rounds
  <2>3. CASE roles' = Retry
    <3>1. Fresh(roles') /\ roles'.pc = "master" BY <2>3, Beginnings
    <3> QED BY <1>3, <3>1
  <2>4. CASE roles' # Retry
    <3>1. Fresh(roles') /\ roles'.pc = "check" /\ roles'.at - 1 = 0
      BY <1>6, <2>2, <2>4, AskStandbyGives DEF Fresh
    <3>2. Round(roles', 0) BY <3>1, RoundBegins
    <3> QED BY <3>1, <3>2 DEF Rounds
  <2> QED BY <2>3, <2>4
<1>7. CASE Agree
  <2>1. roles.pc = "check" BY <1>7, AgreeGives
  <2>2. Round(Assign(roles), roles.at) BY <1>1, <2>1, RoundGoesOn DEF Rounds
  <2>3. /\ Assign(roles).masterId = roles.masterId /\ Assign(roles).standbyId = roles.standbyId
    BY <1>1, AssignGives
  <2>4. Round(roles', roles.at) BY <1>7, <2>2, <2>3, AgreeGives, RoundOf
  <2>5. roles.at \in Nat BY <1>1, NodesAre DEF RoleStates
  <2>6. CASE roles.at = N /\ roles'.pc = "found" BY <2>4, <2>6 DEF Rounds
  <2>7. CASE roles'.pc = "check" /\ roles'.at = roles.at + 1
    <3>1. roles'.at - 1 = roles.at BY <2>5, <2>7
    <3> QED BY <2>4, <2>7, <3>1 DEF Rounds
  <2> QED BY <1>7, <2>6, <2>7, AgreeGives
<1>8. CASE Disagree
  <2>1. roles' = Retry BY <1>8 DEF Disagree
  <2> QED BY <1>3, <2>1, Beginnings
<1>9. ASSUME NEW n \in Nodes, NEW m \in Ids, NEW s \in Ids, Elect(n, m, s) PROVE Rounds'
  <2>1. /\ roles'.pc = roles.pc /\ roles'.at = roles.at /\ roles'.masterId = roles.masterId
        /\ roles'.standbyId = roles.standbyId /\ roles'.master = roles.master
        /\ roles'.standby = roles.standby /\ roles'.agents = roles.agents
    BY <1>9, ElectGives
  <2>2. \A k : Round(roles, k) => Round(roles', k) BY <2>1, RoundOf
  <2>3. Fresh(roles) => Fresh(roles') BY <2>1 DEF Fresh
  <2> QED BY <2>1, <2>2, <2>3 DEF Rounds
<1> QED BY <1>2, <1>4, <1>5, <1>6, <1>7, <1>8, <1>9, OthersDoNotAsk, Zenon

-----------------------------------------------------------------------------
(* The steps of clear_all_borrow_mem(), and those that change its place    *)

Before == {"fdList", "fdDelete", "numaList", "numaDelete"}
Later == {"roles", "delete", "final", "over"}

\* A list of one node: when it was had, all the node borrowed is to be deleted.
LEMMA ListOwnGives ==
    ASSUME TypeOK, NEW kind \in {"fd", "numa"}, ListOwn(kind)
    PROVE  /\ job.pc = ListOf(kind) /\ job'.pc = DeleteOf(kind) /\ job'.at = job.at
           /\ UNCHANGED <<ledger, attached, roles, view>>
           /\ fault' = TRUE \/ (UNCHANGED fault /\ job'.todo = Own(kind, job.at))
<1>1. /\ job.pc = ListOf(kind)
      /\ \/ job' = Job(DeleteOf(kind), job.at, Own(kind, job.at)) /\ UNCHANGED fault
         \/ job' = Job(DeleteOf(kind), job.at, {}) /\ fault' = TRUE
      /\ UNCHANGED <<ledger, attached, roles, view>>
  BY DEF ListOwn, Silent, cluster
<1>2. \A todo : /\ Job(DeleteOf(kind), job.at, todo).pc = DeleteOf(kind)
                /\ Job(DeleteOf(kind), job.at, todo).at = job.at
                /\ Job(DeleteOf(kind), job.at, todo).todo = todo
  BY DEF Job
<1> QED BY <1>1, <1>2

\* One of them is deleted, or the call fails.
LEMMA DeleteOwnGives ==
    ASSUME TypeOK, NEW kind \in {"fd", "numa"}, DeleteOwn(kind)
    PROVE  /\ job.pc = DeleteOf(kind) /\ job'.pc = job.pc /\ job'.at = job.at
           /\ UNCHANGED <<attached, roles, view>> /\ ledger' \subseteq ledger
           /\ \/ fault' = TRUE
              \/ /\ UNCHANGED fault
                 /\ \E i \in job.todo :
                       /\ job'.todo = job.todo \ {i}
                       /\ ledger' = {j \in ledger : ~(j.kind = kind /\ j.name = i.name
                                                                    /\ j.node = job.at)}
<1>1. job \in Jobs BY TypeIs
<1>2. job.pc = DeleteOf(kind) /\ UNCHANGED <<attached, roles, view>>
  BY DEF DeleteOwn, Silent, cluster
<1>3. PICK i \in job.todo :
         /\ job' = [job EXCEPT !.todo = Take(i)]
         /\ \/ /\ ledger' = {j \in ledger : ~(j.kind = kind /\ j.name = i.name /\ j.node = job.at)}
               /\ UNCHANGED fault
            \/ UNCHANGED ledger /\ fault' = TRUE
  BY DEF DeleteOwn
<1>4. job'.pc = job.pc /\ job'.at = job.at /\ job'.todo = job.todo \ {i}
  BY <1>1, <1>3 DEF Jobs, Take
<1> QED BY <1>2, <1>3, <1>4

\* Nothing is left to delete: the next node, or the next kind.
LEMMA OwnDeletedGives ==
    ASSUME TypeOK, NEW kind \in {"fd", "numa"}, OwnDeleted(kind)
    PROVE  /\ job.pc = DeleteOf(kind) /\ job.todo = {}
           /\ UNCHANGED <<ledger, attached, roles, view, fault>>
           /\ \/ job.at < N /\ job'.pc = ListOf(kind) /\ job'.at = job.at + 1
              \/ job.at = N /\ kind = "fd" /\ job'.pc = "numaList" /\ job'.at = 1
              \/ job.at = N /\ kind = "numa" /\ job'.pc = "shmList"
<1>1. job.at \in Nodes BY TypeIs DEF Jobs
<1>2. ~(job.at < N) => job.at = N BY <1>1, BorrowClearAssumption DEF Nodes
<1>3. /\ job.pc = DeleteOf(kind) /\ job.todo = {} /\ job' = AfterNode(kind)
      /\ UNCHANGED <<ledger, attached, roles, view, fault>>
  BY DEF OwnDeleted, Silent, cluster
<1>4. \A pc, at : Job(pc, at, {}).pc = pc /\ Job(pc, at, {}).at = at BY DEF Job
<1>5. CASE job.at < N
  <2>1. job' = Job(ListOf(kind), job.at + 1, {}) BY <1>3, <1>5 DEF AfterNode
  <2> QED BY <1>3, <1>4, <1>5, <2>1
<1>6. CASE ~(job.at < N) /\ kind = "fd"
  <2>1. job' = Job("numaList", 1, {}) BY <1>3, <1>6 DEF AfterNode
  <2> QED BY <1>2, <1>3, <1>4, <1>6, <2>1
<1>7. CASE ~(job.at < N) /\ kind = "numa"
  <2>1. job' = Job("shmList", 1, {}) BY <1>3, <1>7 DEF AfterNode
  <2> QED BY <1>2, <1>3, <1>4, <1>7, <2>1
<1> QED BY <1>5, <1>6, <1>7

\* The list of the ledger: when it was had, every attachment in it is to be undone
\* and every name in it is to be deleted.
LEMMA ListDetailGives ==
    ASSUME TypeOK, ListDetail
    PROVE  /\ job.pc = "detail" /\ job'.pc = "detach"
           /\ UNCHANGED <<ledger, attached, roles, view>>
           /\ \/ fault' = TRUE
              \/ /\ UNCHANGED fault
                 /\ job'.todo = {l \in Detail : l.node # Nobody}
                 /\ job'.names = {l.name : l \in Detail}
<1>1. job.pc = "detail" /\ UNCHANGED <<ledger, attached, roles, view>>
  BY DEF ListDetail, Silent, cluster
<1>2. PICK lines \in {Detail, {}} :
         /\ job' = [Job("detach", 1, {l \in lines : l.node # Nobody})
                      EXCEPT !.names = {l.name : l \in lines}]
         /\ fault' = (fault \/ lines # Detail)
  BY DEF ListDetail
<1>3. /\ job'.pc = "detach" /\ job'.todo = {l \in lines : l.node # Nobody}
      /\ job'.names = {l.name : l \in lines}
  <2> DEFINE todo == {l \in lines : l.node # Nobody}
             names == {l.name : l \in lines}
  <2>1. job' = [Job("detach", 1, todo) EXCEPT !.names = names] BY <1>2
  <2> HIDE DEF todo, names
  <2>2. job'.pc = "detach" /\ job'.todo = todo /\ job'.names = names BY <2>1 DEF Job
  <2> QED BY <2>2 DEF todo, names
<1>4. fault \in BOOLEAN BY TypeIs
<1>5. CASE lines = Detail
  <2>1. fault' = fault BY <1>2, <1>4, <1>5
  <2> QED BY <1>1, <1>3, <1>5, <2>1
<1>6. CASE lines # Detail
  <2>1. fault' = TRUE BY <1>2, <1>4, <1>6
  <2> QED BY <1>1, <1>3, <2>1
<1> QED BY <1>5, <1>6

\* One attachment is undone, or the call fails.
LEMMA DetachGives ==
    ASSUME TypeOK, Detach
    PROVE  /\ job.pc = "detach" /\ job'.pc = "detach" /\ job'.names = job.names
           /\ UNCHANGED <<ledger, roles, view>>
           /\ \/ fault' = TRUE
              \/ /\ UNCHANGED fault
                 /\ \E i \in job.todo : /\ job'.todo = job.todo \ {i} /\ i.node \in Nodes
                                        /\ attached' = attached \ {<<i.node, i.name>>}
<1>1. job \in Jobs BY TypeIs
<1>2. job.pc = "detach" /\ UNCHANGED <<ledger, roles, view>> BY DEF Detach, Silent, cluster
<1>3. PICK i \in job.todo :
         /\ i.node \in Nodes
         /\ job' = [job EXCEPT !.todo = Take(i)]
         /\ \/ attached' = attached \ {<<i.node, i.name>>} /\ UNCHANGED fault
            \/ UNCHANGED attached /\ fault' = TRUE
  BY DEF Detach
<1>4. job'.pc = job.pc /\ job'.names = job.names /\ job'.todo = job.todo \ {i}
  BY <1>1, <1>3 DEF Jobs, Take
<1> QED BY <1>2, <1>3, <1>4

\* One name is deleted, or the call fails.
LEMMA DeleteGives ==
    ASSUME TypeOK, Delete
    PROVE  /\ job.pc = "delete" /\ job'.pc = "delete" /\ UNCHANGED <<attached, roles, view>>
           /\ ledger' \subseteq ledger
           /\ \/ fault' = TRUE
              \/ /\ UNCHANGED fault
                 /\ \E i \in job.todo :
                       /\ job'.todo = job.todo \ {i}
                       /\ ledger' = {j \in ledger :
                                       ~(j.kind = "shm" /\ j.name = i.name
                                           /\ \A n \in Ids : <<n, i.name>> \notin attached)}
<1>1. job \in Jobs BY TypeIs
<1>2. job.pc = "delete" /\ UNCHANGED <<attached, roles, view>> BY DEF Delete, Silent, cluster
<1>3. PICK i \in job.todo :
         /\ job' = [job EXCEPT !.todo = Take(i)]
         /\ \/ /\ ledger' = {j \in ledger : ~(j.kind = "shm" /\ j.name = i.name
                                                /\ \A n \in Ids : <<n, i.name>> \notin attached)}
               /\ UNCHANGED fault
            \/ UNCHANGED ledger /\ fault' = TRUE
  BY DEF Delete
<1>4. job'.pc = job.pc /\ job'.todo = job.todo \ {i} BY <1>1, <1>3 DEF Jobs, Take
<1> QED BY <1>2, <1>3, <1>4

\* The steps that only go on, and those that end it.
LEMMA OthersGive ==
    ASSUME TypeOK
    PROVE  /\ ListShared => /\ job.pc = "shmList" /\ job'.pc = "detail"
                            /\ UNCHANGED <<ledger, attached, fault, roles, view>>
           /\ Detached => /\ job.pc = "detach" /\ job'.pc = "roles" /\ job.todo = {}
                          /\ job'.names = job.names /\ UNCHANGED <<ledger, attached, fault>>
           /\ Deleted => /\ job.pc = "delete" /\ job'.pc = "final" /\ job.todo = {}
                         /\ UNCHANGED <<ledger, attached, fault, roles, view>>
           /\ Final => /\ job.pc = "final" /\ job'.pc = "over"
                       /\ UNCHANGED <<ledger, attached, roles, view>>
                       /\ \/ fault' = TRUE
                          \/ /\ UNCHANGED fault
                             /\ result' = IF ledger = {} THEN "true" ELSE "false"
           /\ CallRaises => job'.pc = "over" /\ fault' = TRUE /\ UNCHANGED <<roles, view>>
           /\ DetachOutside => /\ job.pc = "detach" /\ job'.pc = "over"
                               /\ \E i \in job.todo : i.node \notin Nodes
                               /\ UNCHANGED <<ledger, attached, fault, roles, view>>
           /\ RolesExhausted => /\ job'.pc = "over" /\ job.pc = "roles" /\ roles.pc = "master"
                                /\ roles.tries = WaitTimes
                                /\ UNCHANGED <<ledger, attached, fault, roles, view>>
<1>1. job \in Jobs BY TypeIs
<1>2. ListShared => /\ job.pc = "shmList" /\ job'.pc = "detail"
                    /\ UNCHANGED <<ledger, attached, fault, roles, view>>
  BY DEF ListShared, Job, Silent, cluster
<1>3. Detached => /\ job.pc = "detach" /\ job'.pc = "roles" /\ job.todo = {}
                  /\ job'.names = job.names /\ UNCHANGED <<ledger, attached, fault>>
  BY <1>1 DEF Detached, Jobs
<1>4. Deleted => /\ job.pc = "delete" /\ job'.pc = "final" /\ job.todo = {}
                 /\ UNCHANGED <<ledger, attached, fault, roles, view>>
  BY <1>1 DEF Deleted, Jobs, Silent, cluster
<1>5. Final => /\ job.pc = "final" /\ job'.pc = "over"
               /\ UNCHANGED <<ledger, attached, roles, view>>
               /\ \/ fault' = TRUE
                  \/ UNCHANGED fault /\ result' = IF ledger = {} THEN "true" ELSE "false"
  BY <1>1 DEF Final, Jobs, Silent, cluster
<1>6. CallRaises => job'.pc = "over" /\ fault' = TRUE /\ UNCHANGED <<roles, view>>
  BY <1>1 DEF CallRaises, Abort, Jobs, Silent, cluster
<1>7. RolesExhausted => /\ job'.pc = "over" /\ job.pc = "roles" /\ roles.pc = "master"
                        /\ roles.tries = WaitTimes
                        /\ UNCHANGED <<ledger, attached, fault, roles, view>>
  BY <1>1 DEF RolesExhausted, Asking, Abort, Jobs, Silent, cluster
<1>8. DetachOutside => /\ job.pc = "detach" /\ job'.pc = "over"
                       /\ \E i \in job.todo : i.node \notin Nodes
                       /\ UNCHANGED <<ledger, attached, fault, roles, view>>
  BY <1>1 DEF DetachOutside, Abort, Jobs, Silent, cluster
<1> QED BY <1>2, <1>3, <1>4, <1>5, <1>6, <1>7, <1>8, Zenon

\* With the roles: the names are to be deleted on the master, or there are none.
LEMMA RolesFoundGives ==
    ASSUME TypeOK, RolesFound
    PROVE  /\ job.pc = "roles" /\ roles.pc = "found"
           /\ UNCHANGED <<ledger, attached, fault, roles, view>>
           /\ \/ job'.pc = "delete" /\ {l.name : l \in job'.todo} = job.names
              \/ job'.pc = "over" /\ roles.master = Nobody
              \/ job'.pc = "final" /\ job.names = {}
<1>1. job \in Jobs BY TypeIs
<1>2. /\ job.pc = "roles" /\ roles.pc = "found"
      /\ UNCHANGED <<ledger, attached, fault, roles, view>>
  BY DEF RolesFound, Asking, Silent, cluster
<1> DEFINE todo == {[name |-> n, node |-> roles.master] : n \in job.names}
<1>3. {l.name : l \in todo} = job.names
  <2>1. \A n \in job.names : [name |-> n, node |-> roles.master].name = n OBVIOUS
  <2> QED BY <2>1
<1>4. \/ job' = [job EXCEPT !.pc = "delete", !.todo = todo]
      \/ roles.master = Nobody /\ job' = [job EXCEPT !.pc = "over"]
      \/ job.names = {} /\ job' = [job EXCEPT !.pc = "final"]
  BY Zenon DEF RolesFound, Abort
<1> HIDE DEF todo
<1>5. CASE job' = [job EXCEPT !.pc = "delete", !.todo = todo]
  <2>1. job'.pc = "delete" /\ job'.todo = todo BY <1>1, <1>5 DEF Jobs
  <2> QED BY <1>2, <1>3, <2>1
<1>6. CASE roles.master = Nobody /\ job' = [job EXCEPT !.pc = "over"]
  BY <1>1, <1>2, <1>6 DEF Jobs
<1>7. CASE job.names = {} /\ job' = [job EXCEPT !.pc = "final"]
  BY <1>1, <1>2, <1>7 DEF Jobs
<1> QED BY <1>4, <1>5, <1>6, <1>7

\* Asking changes the roles only, and notices the queries that fail.
LEMMA AskingKeeps ==
    ASSUME AskMaster \/ AskStandby \/ Agree \/ Disagree
    PROVE  job.pc = "roles" /\ UNCHANGED <<ledger, attached, job, result, view>>
<1>1. RolesStep /\ \E pc \in {"master", "standby", "check"} : Asking(pc)
  BY Zenon DEF AskMaster, AskStandby, Agree, Disagree
<1> QED BY <1>1 DEF RolesStep, Asking, cluster

-----------------------------------------------------------------------------
(* The roles of a cluster that does not change                             *)

\* The roles are asked for once, at their place.
Entered ==
    /\ roles.pc = "out" => roles.stable
    /\ roles.pc # "out" => job.pc \in Later
    /\ job.pc = "roles" => roles.pc # "out"
    /\ ~fault => roles.stable

\* As long as nothing was elected, the answers are the view every node began with.
Seen ==
    roles.stable =>
        /\ \A n \in Nodes : view[n] = view[1]
        /\ view[1].master \in Ids /\ view[1].master # view[1].standby
        /\ roles.pc = "standby" => roles.masterId \in {view[1].master, Nobody}
        /\ roles.pc \in {"check", "found"} =>
             roles.masterId = view[1].master /\ roles.standbyId = view[1].standby

\* What a clearing step does to the place and to the fault.
LEMMA PlaceGoesOn ==
    ASSUME TypeOK, Clearing
    PROVE  /\ job.pc \in Later => job'.pc \in Later
           /\ ~fault' => ~fault
           /\ Detached \/ (job'.pc # "roles" /\ UNCHANGED <<roles, view>>)
<1>1. ASSUME NEW kind \in {"fd", "numa"}, ListOwn(kind) \/ DeleteOwn(kind) \/ OwnDeleted(kind)
      PROVE  job.pc \notin Later /\ job'.pc # "roles" /\ (~fault' => ~fault) /\ UNCHANGED <<roles, view>>
  <2>1. DeleteOf(kind) \notin Later /\ ListOf(kind) \notin Later /\ "roles" \in Later
    BY DEF DeleteOf, ListOf, Later
  <2> QED BY <1>1, <2>1, ListOwnGives, DeleteOwnGives, OwnDeletedGives
<1>2. CASE ListShared BY <1>2, OthersGive DEF Later
<1>3. CASE ListDetail
  <2>1. /\ job.pc = "detail" /\ job'.pc = "detach" /\ UNCHANGED <<roles, view>>
        /\ fault' = TRUE \/ fault' = fault
    BY <1>3, ListDetailGives
  <2> QED BY <2>1 DEF Later
<1>4. CASE Detach
  <2>1. /\ job.pc = "detach" /\ job'.pc = "detach" /\ UNCHANGED <<roles, view>>
        /\ fault' = TRUE \/ fault' = fault
    BY <1>4, DetachGives
  <2> QED BY <2>1 DEF Later
<1>5. CASE Detached BY <1>5, OthersGive DEF Later
<1>6. CASE Delete
  <2>1. /\ job.pc = "delete" /\ job'.pc = "delete" /\ UNCHANGED <<roles, view>>
        /\ fault' = TRUE \/ fault' = fault
    BY <1>6, DeleteGives
  <2> QED BY <2>1 DEF Later
<1>7. CASE Deleted BY <1>7, OthersGive DEF Later
<1>8. CASE Final
  <2>1. /\ job.pc = "final" /\ job'.pc = "over" /\ UNCHANGED <<roles, view>>
        /\ fault' = TRUE \/ fault' = fault
    BY <1>8, OthersGive
  <2> QED BY <2>1 DEF Later
<1>9. CASE CallRaises BY <1>9, OthersGive DEF Later
<1>10. CASE DetachOutside BY <1>10, OthersGive DEF Later
<1> QED BY <1>1, <1>2, <1>3, <1>4, <1>5, <1>6, <1>7, <1>8, <1>9, <1>10, Zenon DEF Clearing

\* A step keeps the place of the roles.
LEMMA EnteredKept == ASSUME TypeOK, Entered, [Next]_vars PROVE Entered'
<1>f. AskMaster \/ AskStandby \/ Disagree => (~fault' => ~fault) BY TypeIs, Heard
<1>1. CASE UNCHANGED vars BY <1>1 DEF vars, Entered
<1>2. CASE Clearing
  <2>1. /\ job.pc \in Later => job'.pc \in Later
        /\ ~fault' => ~fault
        /\ Detached \/ (job'.pc # "roles" /\ UNCHANGED <<roles, view>>)
    BY <1>2, PlaceGoesOn
  <2>2. CASE job'.pc # "roles" /\ UNCHANGED <<roles, view>> BY <2>1, <2>2 DEF Entered
  <2>3. CASE Detached BY <2>3, OthersGive, Beginnings DEF Entered, Later
  <2> QED BY <2>1, <2>2, <2>3
<1>3. CASE AskMaster
  BY <1>3, <1>f, AskingKeeps, AskMasterGives DEF Entered, Later
<1>4. CASE AskStandby
  BY <1>4, <1>f, AskingKeeps, AskStandbyGives, Beginnings DEF Entered, Later
<1>5. CASE Agree
  BY <1>5, AskingKeeps, AgreeGives DEF Entered, Later
<1>6. CASE Disagree
  <2>1. roles' = Retry /\ roles.pc = "check" BY <1>6 DEF Disagree, Asking
  <2> QED BY <1>6, <1>f, <2>1, AskingKeeps, Beginnings DEF Entered, Later
<1>7. CASE RolesFound BY <1>7, RolesFoundGives DEF Entered, Later
<1>8. CASE RolesExhausted BY <1>8, OthersGive DEF Entered, Later
<1>9. ASSUME NEW n \in Nodes, NEW m \in Ids, NEW s \in Ids, Elect(n, m, s) PROVE Entered'
  <2>1. roles'.pc = roles.pc /\ job.pc = "roles" /\ UNCHANGED job /\ fault' = TRUE
    BY <1>9, ElectGives
  <2> QED BY <2>1 DEF Entered
<1> QED BY <1>1, <1>2, <1>3, <1>4, <1>5, <1>6, <1>7, <1>8, <1>9, Zenon DEF Next, Roles

\* A step of a cluster that does not change keeps its answers.
LEMMA SeenKept == ASSUME TypeOK, Entered, Seen, [Next]_vars PROVE Seen'
<1>1. CASE UNCHANGED <<roles, view>> BY <1>1 DEF Seen
<1>3. CASE Detached
  <2>1. roles.pc = "out"
    <3>1. job.pc \notin Later BY <1>3, Beginnings DEF Later
    <3> QED BY <3>1 DEF Entered
  <2> QED BY <1>3, <2>1, Beginnings DEF Entered, Seen
<1>4. CASE AskMaster BY <1>4, AskMasterGives DEF Seen
<1>5. ASSUME roles' = Retry, UNCHANGED view PROVE Seen' BY <1>5, Beginnings DEF Seen
<1>6. CASE AskStandby
  <2>1. CASE roles' = Retry BY <1>5, <1>6, <2>1, AskStandbyGives
  <2>2. CASE roles' # Retry BY <1>6, <2>2, AskStandbyGives DEF Seen
  <2> QED BY <2>1, <2>2
<1>7. CASE Agree BY <1>7, AgreeGives DEF Seen
<1>8. CASE Disagree BY <1>5, <1>8, AskingKeeps DEF Disagree
<1>9. ASSUME NEW n \in Nodes, NEW m \in Ids, NEW s \in Ids, Elect(n, m, s) PROVE Seen'
  BY <1>9, ElectGives DEF Seen
<1> QED BY <1>1, <1>3, <1>4, <1>6, <1>7, <1>8, <1>9, OthersDoNotAsk, Zenon

\* Init.
LEMMA InitAsks == Init => Rounds /\ Entered /\ Seen
<1> SUFFICES ASSUME Init PROVE Rounds /\ Entered /\ Seen
  OBVIOUS
<1>1. roles = NoRoles /\ job.pc = "fdList"
  BY Zenon DEF Init, Job
<1>2. roles.pc = "out" /\ roles.stable = TRUE BY <1>1, Beginnings
<1>3. PICK m \in Ids, t \in Ids \cup {Nobody} :
         m # t /\ view = [n \in Nodes |-> [master |-> m, standby |-> t]]
  BY DEF Init
<1>4. /\ \A n \in Nodes : view[n] = view[1]
      /\ view[1].master \in Ids /\ view[1].master # view[1].standby
  BY <1>3, NodesAre
<1> QED BY <1>1, <1>2, <1>4 DEF Rounds, Entered, Seen

\* The rounds and the answers, always.
LEMMA AlwaysAsked == Spec => [](TypeOK /\ Tries /\ Rounds /\ Entered /\ Seen)
<1>1. Init => TypeOK /\ Tries /\ Rounds /\ Entered /\ Seen BY InitTyped, InitAsks
<1>2. TypeOK /\ Tries /\ Rounds /\ Entered /\ Seen /\ [Next]_vars
        => (TypeOK /\ Tries /\ Rounds /\ Entered /\ Seen)'
  BY StepTyped, TriesKept, RoundsKept, EnteredKept, SeenKept
<1> QED BY <1>1, <1>2, PTL DEF Spec

\* The roles return_nodes_by_all_role() returns.
LEMMA RoundsAreRight == TypeOK /\ Rounds /\ Seen => RolesAreRight
<1> SUFFICES ASSUME TypeOK, Rounds, Seen, roles.pc = "found"
             PROVE  /\ Sent(roles.agents) \cup Has(roles) = Nodes
                    /\ Len(roles.agents) + Cardinality(Has(roles)) = N
                    /\ roles.master \in {Nobody, roles.masterId}
                    /\ roles.stable =>
                         /\ roles.master = IF view[1].master \in Nodes THEN view[1].master
                                           ELSE Nobody
                         /\ roles.standby = IF view[1].standby \in Nodes THEN view[1].standby
                                            ELSE Nobody
  BY DEF RolesAreRight, Has
<1>1. Round(roles, N) BY DEF Rounds
<1>2. ASSUME roles.stable
      PROVE  /\ roles.master = IF view[1].master \in Nodes THEN view[1].master ELSE Nobody
             /\ roles.standby = IF view[1].standby \in Nodes THEN view[1].standby ELSE Nobody
  <2>1. roles.masterId = view[1].master /\ roles.standbyId = view[1].standby
        /\ view[1].master # view[1].standby
    BY <1>2 DEF Seen
  <2> QED BY <1>1, <2>1 DEF Round, Nodes
<1> QED BY <1>1, <1>2 DEF Round, Nodes

\* Whatever was elected between the questions of return_nodes_by_all_role(), its
\* roles give every node one; of a cluster that did not change, the one it has, also when
\* another node than the test's is the master or the standby.
THEOREM RolesRight == Spec => []RolesAreRight
BY AlwaysAsked, RoundsAreRight, PTL

-----------------------------------------------------------------------------
(* What is given back                                                      *)

\* What ClearSucceeds speaks of.
Good == ~fault /\ WithinTest

\* It was so before, if it is so after a step.
LEMMA GoodBefore ==
    ASSUME TypeOK, [Next]_vars, Good'
    PROVE  Good /\ UNCHANGED view
<1>g. ~fault' /\ WithinTest' BY DEF Good
<1>1. ASSUME ~fault, UNCHANGED view,
             \A i \in ledger : i \in ledger' \/ i.node \in Nodes \cup {Nobody},
             \A a \in attached : a \in attached' \/ a[1] \in Nodes
      PROVE  Good
  BY <1>1, <1>g DEF Good, WithinTest
<1>2. CASE UNCHANGED vars BY <1>1, <1>2, <1>g DEF vars
<1>3. ASSUME Clearing PROVE ~fault /\ UNCHANGED view
  <2>1. ~fault BY <1>3, <1>g, PlaceGoesOn
  <2>2. UNCHANGED view BY <1>3, PlaceGoesOn, Beginnings
  <2> QED BY <2>1, <2>2
<1>4. ASSUME Clearing, UNCHANGED <<ledger, attached>> PROVE Good BY <1>1, <1>3, <1>4
<1>5. ASSUME NEW k \in {"fd", "numa"}, ListOwn(k) \/ DeleteOwn(k) \/ OwnDeleted(k) PROVE Good
  <2>1. Clearing BY <1>5, Zenon DEF Clearing
  <2>2. CASE ListOwn(k) \/ OwnDeleted(k) BY <1>4, <2>1, <2>2, ListOwnGives, OwnDeletedGives
  <2>3. CASE DeleteOwn(k)
    <3>1. UNCHANGED attached /\ job.at \in Nodes
      BY <2>3, DeleteOwnGives, TypeIs DEF Jobs
    <3>2. PICK i \in job.todo :
             ledger' = {j \in ledger : ~(j.kind = k /\ j.name = i.name /\ j.node = job.at)}
      BY <1>g, <2>3, DeleteOwnGives
    <3>3. \A j \in ledger : j \in ledger' \/ j.node \in Nodes BY <3>1, <3>2
    <3> QED BY <1>1, <1>3, <2>1, <3>1, <3>3
  <2> QED BY <1>5, <2>2, <2>3
<1>6. CASE ListShared BY <1>4, <1>6, OthersGive DEF Clearing
<1>7. CASE ListDetail BY <1>4, <1>7, ListDetailGives DEF Clearing
<1>8. CASE Detach
  <2>1. PICK i \in job.todo : i.node \in Nodes /\ attached' = attached \ {<<i.node, i.name>>}
    BY <1>8, <1>g, DetachGives
  <2>2. \A a \in attached : a \in attached' \/ a[1] \in Nodes BY <2>1
  <2>3. UNCHANGED ledger BY <1>8, DetachGives
  <2> QED BY <1>1, <1>3, <1>8, <2>2, <2>3 DEF Clearing
<1>9. CASE Detached BY <1>3, <1>4, <1>9, OthersGive DEF Clearing
<1>10. CASE DetachOutside BY <1>4, <1>10, OthersGive DEF Clearing
<1>11. CASE Delete
  <2>1. UNCHANGED attached BY <1>11, DeleteGives
  <2>2. \A j \in ledger : j \in ledger' \/ j.kind = "shm" BY <1>11, <1>g, DeleteGives
  <2>3. \A j \in ledger : j.kind = "shm" => j.node = Nobody
    <3>1. ledger \subseteq Memory BY TypeIs
    <3> QED BY <3>1, BorrowClearAssumption
  <2> QED BY <1>1, <1>3, <1>11, <2>1, <2>2, <2>3 DEF Clearing
<1>12. CASE Deleted BY <1>4, <1>12, OthersGive DEF Clearing
<1>13. CASE Final BY <1>4, <1>13, OthersGive DEF Clearing
<1>14. CASE CallRaises BY <1>g, <1>14, OthersGive
<1>15. CASE AskMaster \/ AskStandby \/ Agree \/ Disagree
  <2>1. ~fault BY <1>15, <1>g, TypeIs, Heard, AgreeGives
  <2> QED BY <1>1, <1>15, <2>1, AskingKeeps
<1>16. CASE RolesFound BY <1>1, <1>16, <1>g, RolesFoundGives
<1>17. CASE RolesExhausted BY <1>1, <1>17, <1>g, OthersGive
<1>18. ASSUME NEW n \in Nodes, NEW m \in Ids, NEW s \in Ids, Elect(n, m, s) PROVE FALSE
  BY <1>18, <1>g, ElectGives
<1>19. UNCHANGED view
  <2>1. CASE UNCHANGED vars BY <2>1 DEF vars
  <2>2. CASE Clearing BY <1>3, <2>2
  <2>3. CASE Roles BY <2>3, AskingKeeps, RolesFoundGives, OthersGive, Zenon DEF Roles
  <2> QED BY <1>18, <2>1, <2>2, <2>3, Zenon DEF Next
<1>20. Good
  BY <1>2, <1>5, <1>6, <1>7, <1>8, <1>9, <1>10, <1>11, <1>12, <1>13, <1>14, <1>15, <1>16, <1>17,
     <1>18, Zenon DEF Next, Clearing, Roles
<1> QED BY <1>19, <1>20

\* Then the first attempt to find the roles finds them.
Answered ==
    Good => roles.tries = 0 /\ (roles.pc = "standby" => roles.masterId # Nobody)

\* A step keeps it.
LEMMA AnsweredKept == ASSUME TypeOK, Entered, Seen, Answered, [Next]_vars PROVE Answered'
<1> SUFFICES ASSUME Good' PROVE roles'.tries = 0 /\ (roles'.pc = "standby" => roles'.masterId # Nobody)
  BY DEF Answered
<1>1. /\ Good /\ UNCHANGED view /\ ~fault' /\ roles.stable /\ roles.tries = 0
      /\ roles.pc = "standby" => roles.masterId # Nobody
      /\ view[1].standby # Nobody /\ view[1].master # Nobody
  <2>1. Good /\ UNCHANGED view /\ ~fault' BY GoodBefore DEF Good
  <2> QED BY <2>1, NodesAre DEF Good, WithinTest, Answered, Entered
<1>2. CASE UNCHANGED <<roles, view>> BY <1>1, <1>2
<1>3. CASE Detached BY <1>3, Beginnings
<1>4. CASE AskMaster BY <1>1, <1>4, AskMasterGives
<1>5. CASE AskStandby
  <2>1. roles.pc = "standby" BY <1>5, AskStandbyGives
  <2>2. roles'.pc = "check" /\ roles'.tries = roles.tries BY <1>1, <1>5, <2>1, AskStandbyGives
  <2> QED BY <1>1, <2>2
<1>6. CASE Agree BY <1>1, <1>6, AgreeGives
<1>7. CASE Disagree
  <2>1. PICK m \in Says(roles.at, "master") :
           m # roles.masterId /\ fault' = (fault \/ m # view[roles.at].master)
    BY <1>7 DEF Disagree, Hears
  <2>2. fault \in BOOLEAN /\ roles.at \in Nodes /\ roles.pc = "check"
    BY <1>7, TypeIs DEF RoleStates, Disagree, Asking
  <2>3. m = view[roles.at].master BY <1>1, <2>1, <2>2
  <2>4. view[roles.at] = view[1] /\ roles.masterId = view[1].master BY <1>1, <2>2 DEF Seen
  <2> QED BY <2>1, <2>3, <2>4
<1>8. ASSUME NEW n \in Nodes, NEW m \in Ids, NEW s \in Ids, Elect(n, m, s) PROVE FALSE
  BY <1>1, <1>8, ElectGives
<1> QED BY <1>2, <1>3, <1>4, <1>5, <1>6, <1>7, <1>8, OthersDoNotAsk, Zenon

\* What is left of the memory borrowed by one node, while every call is answered:
\* what its loop has not come to, and of the node it is at what it has yet to delete.
Past(kind) ==
    job.pc \notin (IF kind = "fd" THEN {"fdList", "fdDelete"} ELSE Before)

OwnLeft(kind) ==
    Good =>
        /\ job.pc \in {ListOf(kind), DeleteOf(kind)} =>
              \A i \in ledger : i.kind = kind => i.node >= job.at
        /\ job.pc = DeleteOf(kind) =>
              \A i \in ledger : (i.kind = kind /\ i.node = job.at)
                                   => [name |-> i.name, node |-> i.node] \in job.todo
        /\ Past(kind) => \A i \in ledger : i.kind # kind

\* The places of the loops.
LEMMA KindsAre ==
    /\ ListOf("fd") = "fdList" /\ DeleteOf("fd") = "fdDelete"
    /\ ListOf("numa") = "numaList" /\ DeleteOf("numa") = "numaDelete"
BY DEF ListOf, DeleteOf

\* The nodes of what is borrowed.
LEMMA BorrowerIs ==
    ASSUME TypeOK, Good, NEW i \in ledger, i.kind \in {"fd", "numa"}
    PROVE  i.node \in Nodes /\ i.node \in Int /\ i.node >= 1 /\ i.node <= N
<1>1. i \in Memory BY TypeIs
<1>2. i.kind # "shm" OBVIOUS
<1>3. i.node # Nobody BY <1>1, <1>2, BorrowClearAssumption
<1>4. i.node \in Nodes BY <1>3 DEF Good, WithinTest
<1> QED BY <1>4, BorrowClearAssumption DEF Nodes

\* What gives nothing more out and stays outside the loop changes nothing here.
LEMMA OwnLeftFrame ==
    ASSUME NEW kind \in {"fd", "numa"}, OwnLeft(kind), Good' => Good,
           ledger' \subseteq ledger, job.pc \notin Before, job'.pc \notin Before
    PROVE  OwnLeft(kind)'
<1> SUFFICES ASSUME Good' PROVE OwnLeft(kind)'
  BY DEF OwnLeft
<1>1. Past(kind) /\ {ListOf(kind), DeleteOf(kind), "fdList", "fdDelete"} \subseteq Before
  BY KindsAre DEF Past, Before
<1>2. \A i \in ledger : i.kind # kind BY <1>1 DEF OwnLeft
<1>3. \A i \in ledger' : i.kind # kind BY <1>2
<1> QED BY <1>1, <1>3 DEF OwnLeft

\* A list.
LEMMA OwnLeftListed ==
    ASSUME TypeOK, NEW kind \in {"fd", "numa"}, OwnLeft(kind), Good,
           NEW k \in {"fd", "numa"}, ListOwn(k)
    PROVE  OwnLeft(kind)'
<1> SUFFICES ASSUME Good' PROVE OwnLeft(kind)'
  BY DEF OwnLeft
<1>1. /\ job.pc = ListOf(k) /\ job'.pc = DeleteOf(k) /\ job'.at = job.at
      /\ UNCHANGED ledger /\ job'.todo = Own(k, job.at)
  BY ListOwnGives DEF Good
<1>2. CASE k = kind
  <2>1. \A i \in ledger : i.kind = kind => i.node >= job.at BY <1>1, <1>2 DEF OwnLeft
  <2>2. ASSUME NEW i \in ledger, i.kind = kind, i.node = job.at
        PROVE  [name |-> i.name, node |-> i.node] \in job'.todo
    BY <1>1, <1>2, <2>2 DEF Own
  <2>3. ~Past(kind)' BY <1>1, <1>2, KindsAre DEF Past, Before
  <2> QED BY <1>1, <2>1, <2>2, <2>3 DEF OwnLeft
<1>3. CASE k # kind
  <2>1. job'.pc # ListOf(kind) /\ job'.pc # DeleteOf(kind) BY <1>1, <1>3, KindsAre
  <2>2. Past(kind)' => Past(kind) BY <1>1, <1>3, KindsAre DEF Past, Before
  <2> QED BY <1>1, <2>1, <2>2 DEF OwnLeft
<1> QED BY <1>2, <1>3

\* A deletion.
LEMMA OwnLeftTaken ==
    ASSUME TypeOK, NEW kind \in {"fd", "numa"}, OwnLeft(kind), Good,
           NEW k \in {"fd", "numa"}, DeleteOwn(k)
    PROVE  OwnLeft(kind)'
<1> SUFFICES ASSUME Good' PROVE OwnLeft(kind)'
  BY DEF OwnLeft
<1>1. job.pc = DeleteOf(k) /\ job'.pc = job.pc /\ job'.at = job.at /\ ledger' \subseteq ledger
  BY DeleteOwnGives
<1>2. PICK t \in job.todo :
         /\ job'.todo = job.todo \ {t}
         /\ ledger' = {j \in ledger : ~(j.kind = k /\ j.name = t.name /\ j.node = job.at)}
  BY DeleteOwnGives DEF Good
<1>3. CASE k = kind
  <2>1. \A i \in ledger' : i.kind = kind => i.node >= job.at BY <1>1, <1>3 DEF OwnLeft
  <2>2. ASSUME NEW i \in ledger', i.kind = kind, i.node = job.at
        PROVE  [name |-> i.name, node |-> i.node] \in job'.todo
    <3>1. [name |-> i.name, node |-> i.node] \in job.todo
      BY <1>1, <1>3, <2>2 DEF OwnLeft
    <3>2. [name |-> i.name, node |-> i.node] # t BY <1>2, <1>3, <2>2
    <3> QED BY <1>2, <3>1, <3>2
  <2>3. ~Past(kind)' BY <1>1, <1>3, KindsAre DEF Past, Before
  <2> QED BY <1>1, <2>1, <2>2, <2>3 DEF OwnLeft
<1>4. CASE k # kind
  <2>1. job'.pc # ListOf(kind) /\ job'.pc # DeleteOf(kind) BY <1>1, <1>4, KindsAre
  <2>2. Past(kind)' => Past(kind) BY <1>1 DEF Past
  <2> QED BY <1>1, <2>1, <2>2 DEF OwnLeft
<1> QED BY <1>3, <1>4

\* The end of a node.
LEMMA OwnLeftNext ==
    ASSUME TypeOK, NEW kind \in {"fd", "numa"}, OwnLeft(kind), Good,
           NEW k \in {"fd", "numa"}, OwnDeleted(k)
    PROVE  OwnLeft(kind)'
<1> SUFFICES ASSUME Good' PROVE OwnLeft(kind)'
  BY DEF OwnLeft
<1>1. /\ job.pc = DeleteOf(k) /\ job.todo = {} /\ UNCHANGED ledger
      /\ \/ job.at < N /\ job'.pc = ListOf(k) /\ job'.at = job.at + 1
         \/ job.at = N /\ k = "fd" /\ job'.pc = "numaList" /\ job'.at = 1
         \/ job.at = N /\ k = "numa" /\ job'.pc = "shmList"
  BY OwnDeletedGives
<1>2. job.at \in Int /\ N \in Int
  <2>1. job.at \in Nodes BY TypeIs DEF Jobs
  <2> QED BY <2>1, BorrowClearAssumption DEF Nodes
<1>3. CASE k = kind
  <2>1. ASSUME NEW i \in ledger, i.kind = kind
        PROVE  i.node \in Int /\ i.node > job.at /\ i.node <= N
    <3>1. i.node \in Int /\ i.node <= N BY <2>1, BorrowerIs
    <3>2. i.node >= job.at /\ i.node # job.at BY <1>1, <1>3, <2>1 DEF OwnLeft
    <3> QED BY <1>2, <3>1, <3>2
  <2>2. CASE job.at < N /\ job'.pc = ListOf(k) /\ job'.at = job.at + 1
    <3>1. \A i \in ledger' : i.kind = kind => i.node >= job'.at BY <1>1, <1>2, <2>1, <2>2
    <3>2. job'.pc # DeleteOf(kind) /\ ~Past(kind)' BY <1>3, <2>2, KindsAre DEF Past, Before
    <3> QED BY <3>1, <3>2 DEF OwnLeft
  <2>3. CASE job.at = N /\ job'.pc \notin {ListOf(k), DeleteOf(k)}
    <3>1. \A i \in ledger : i.kind # kind BY <1>2, <2>1, <2>3, BorrowClearAssumption
    <3> QED BY <1>1, <1>3, <2>3, <3>1 DEF OwnLeft
  <2> QED BY <1>1, <2>2, <2>3, KindsAre
<1>4. CASE k = "fd" /\ kind = "numa"
  <2>1. CASE job'.pc = "fdList" BY <1>4, <2>1, KindsAre DEF OwnLeft, Past, Before
  <2>2. CASE job'.pc = "numaList" /\ job'.at = 1
    <3>1. \A i \in ledger' : i.kind = kind => i.node >= job'.at BY <1>1, <1>4, <2>2, BorrowerIs
    <3>2. job'.pc # DeleteOf(kind) /\ ~Past(kind)' BY <1>4, <2>2, KindsAre DEF Past, Before
    <3> QED BY <3>1, <3>2 DEF OwnLeft
  <2> QED BY <1>1, <1>4, <2>1, <2>2, KindsAre
<1>5. CASE k = "numa" /\ kind = "fd"
  <2>1. Past(kind) /\ job'.pc # ListOf(kind) /\ job'.pc # DeleteOf(kind)
    BY <1>1, <1>5, KindsAre DEF Past
  <2> QED BY <1>1, <2>1 DEF OwnLeft
<1> QED BY <1>3, <1>4, <1>5

\* No step but those of the loop changes what is left of it.
LEMMA OwnLeftKept ==
    ASSUME TypeOK, NEW kind \in {"fd", "numa"}, OwnLeft(kind), [Next]_vars
    PROVE  OwnLeft(kind)'
<1> SUFFICES ASSUME Good' PROVE OwnLeft(kind)'
  BY DEF OwnLeft
<1>1. CASE UNCHANGED vars
  <2>1. Good BY GoodBefore
  <2> QED BY <1>1, <2>1 DEF vars, OwnLeft, Past
<1>2. ASSUME NEW k \in {"fd", "numa"}, ListOwn(k) \/ DeleteOwn(k) \/ OwnDeleted(k)
      PROVE  OwnLeft(kind)'
  <2>1. Good BY GoodBefore
  <2> QED BY <1>2, <2>1, OwnLeftListed, OwnLeftTaken, OwnLeftNext
<1>3. ASSUME ledger' \subseteq ledger, job.pc \notin Before, job'.pc \notin Before
      PROVE  OwnLeft(kind)'
  BY <1>3, GoodBefore, OwnLeftFrame
<1>4. CASE ListShared BY <1>3, <1>4, OthersGive DEF Before
<1>5. CASE ListDetail BY <1>3, <1>5, ListDetailGives DEF Before
<1>6. CASE Detach BY <1>3, <1>6, DetachGives DEF Before
<1>7. CASE Detached BY <1>3, <1>7, OthersGive DEF Before
<1>8. CASE Delete BY <1>3, <1>8, DeleteGives DEF Before
<1>9. CASE Deleted BY <1>3, <1>9, OthersGive DEF Before
<1>10. CASE Final BY <1>3, <1>10, OthersGive DEF Before
<1>11. CASE CallRaises BY <1>11, OthersGive DEF Good
<1>12. CASE AskMaster \/ AskStandby \/ Agree \/ Disagree
  BY <1>3, <1>12, AskingKeeps DEF Before
<1>13. CASE RolesFound BY <1>3, <1>13, RolesFoundGives DEF Before
<1>14. CASE RolesExhausted BY <1>3, <1>14, OthersGive DEF Before
<1>15. ASSUME NEW n \in Nodes, NEW m \in Ids, NEW s \in Ids, Elect(n, m, s) PROVE FALSE
  BY <1>15, ElectGives DEF Good
<1>16. CASE DetachOutside BY <1>3, <1>16, OthersGive DEF Before
<1> QED BY <1>1, <1>2, <1>4, <1>5, <1>6, <1>7, <1>8, <1>9, <1>10, <1>11, <1>12, <1>13, <1>14, <1>15,
           <1>16, Zenon DEF Next, Clearing, Roles

\* What is left of the shared memory, while every call is answered: attached where
\* it has yet to be detached, and under names that have yet to be deleted.
SharedLeft == {i.name : i \in {j \in ledger : j.kind = "shm"}}

Yet ==
    Good =>
        /\ job.pc = "detach" =>
              /\ \A a \in attached : [name |-> a[2], node |-> a[1]] \in job.todo
              /\ \A l \in job.todo : l.node \in Nodes
        /\ job.pc \in Later => attached = {}
        /\ job.pc \in {"detach", "roles"} => SharedLeft \subseteq job.names
        /\ job.pc = "delete" => SharedLeft \subseteq {l.name : l \in job.todo}
        /\ job.pc \in {"final", "over"} => SharedLeft = {}
        /\ job.pc = "over" => result = IF ledger = {} THEN "true" ELSE "false"

\* The list of the ledger names all of it.
LEMMA DetailNames ==
    ASSUME TypeOK
    PROVE  /\ \A a \in attached : /\ [name |-> a[2], node |-> a[1]] \in Detail
                                  /\ a[1] # Nobody
           /\ Good => \A l \in Detail : l.node # Nobody => l.node \in Nodes
           /\ SharedLeft \subseteq {l.name : l \in Detail}
<1>1. ASSUME NEW a \in attached
      PROVE  [name |-> a[2], node |-> a[1]] \in Detail /\ a[1] # Nobody
  <2>1. a[1] \in Ids BY TypeIs
  <2>2. a[1] # Nobody BY <2>1, NodesAre
  <2>3. [name |-> a[2], node |-> a[1]] \in {[name |-> b[2], node |-> b[1]] : b \in attached}
    OBVIOUS
  <2>4. [name |-> a[2], node |-> a[1]] \in Detail BY <2>3, Zenon DEF Detail
  <2> QED BY <2>2, <2>4
<1>2. ASSUME NEW i \in ledger, i.kind = "shm"
      PROVE  \E l \in Detail : l.name = i.name
  <2>1. CASE \E n \in Ids : <<n, i.name>> \in attached
    <3>1. PICK n \in Ids : <<n, i.name>> \in attached BY <2>1
    <3> DEFINE a == <<n, i.name>>
    <3>2. [name |-> a[2], node |-> a[1]] \in Detail BY <1>1, <3>1
    <3> QED BY <3>2
  <2>2. CASE \A n \in Ids : <<n, i.name>> \notin attached
    <3>1. i \in {j \in ledger : j.kind = "shm" /\ \A n \in Ids : <<n, j.name>> \notin attached}
      BY <1>2, <2>2
    <3>2. [name |-> i.name, node |-> Nobody] \in Detail BY <3>1, Zenon DEF Detail
    <3> QED BY <3>2
  <2> QED BY <2>1, <2>2
<1>3. \A x \in SharedLeft : \E l \in Detail : l.name = x BY <1>2 DEF SharedLeft
<1>4. ASSUME Good, NEW l \in Detail, l.node # Nobody PROVE l.node \in Nodes
  <2>1. CASE \E i \in ledger : l = [name |-> i.name, node |-> i.node]
    BY <1>4, <2>1 DEF Good, WithinTest
  <2>2. CASE \E a \in attached : l = [name |-> a[2], node |-> a[1]]
    BY <1>4, <2>2 DEF Good, WithinTest
  <2> QED BY <1>4, <2>1, <2>2 DEF Detail
<1> QED BY <1>1, <1>3, <1>4

\* Detached: what is still attached is still to do.
LEMMA YetDetach == ASSUME TypeOK, Yet, Good, Detach PROVE Yet'
<1> SUFFICES ASSUME Good' PROVE Yet'
  BY DEF Yet
<1>1. /\ job.pc = "detach" /\ job'.pc = "detach" /\ job'.names = job.names /\ UNCHANGED ledger
      /\ fault' = TRUE \/ (\E i \in job.todo : /\ job'.todo = job.todo \ {i}
                                               /\ attached' = attached \ {<<i.node, i.name>>})
  BY DetachGives
<1>2. PICK i \in job.todo : /\ job'.todo = job.todo \ {i}
                            /\ attached' = attached \ {<<i.node, i.name>>}
  BY <1>1 DEF Good
<1>3. ASSUME NEW a \in attached' PROVE [name |-> a[2], node |-> a[1]] \in job'.todo
  <2>1. a \in attached /\ a # <<i.node, i.name>> BY <1>2
  <2>2. a = <<a[1], a[2]>> BY <2>1, TypeIs
  <2>3. [name |-> a[2], node |-> a[1]] \in job.todo BY <1>1, <2>1 DEF Yet
  <2>4. [name |-> a[2], node |-> a[1]] # i
    <3>1. [name |-> a[2], node |-> a[1]] = i => i.name = a[2] /\ i.node = a[1] OBVIOUS
    <3> QED BY <2>1, <2>2, <3>1
  <2> QED BY <1>2, <2>3, <2>4
<1>4. SharedLeft' = SharedLeft BY <1>1 DEF SharedLeft
<1>5. SharedLeft' \subseteq job'.names BY <1>1, <1>4 DEF Yet
<1>6. job'.pc \notin Later BY <1>1 DEF Later
<1>7. \A l \in job'.todo : l.node \in Nodes BY <1>1, <1>2 DEF Yet
<1> QED BY <1>1, <1>3, <1>5, <1>6, <1>7 DEF Yet

\* Deleted: what is still borrowed is still to do.
LEMMA YetDelete == ASSUME TypeOK, Yet, Good, Delete PROVE Yet'
<1> SUFFICES ASSUME Good' PROVE Yet'
  BY DEF Yet
<1>1. /\ job.pc = "delete" /\ job'.pc = "delete" /\ UNCHANGED attached
      /\ fault' = TRUE
           \/ \E i \in job.todo :
                 /\ job'.todo = job.todo \ {i}
                 /\ ledger' = {j \in ledger : ~(j.kind = "shm" /\ j.name = i.name
                                                  /\ \A n \in Ids : <<n, i.name>> \notin attached)}
  BY DeleteGives
<1>2. PICK i \in job.todo :
         /\ job'.todo = job.todo \ {i}
         /\ ledger' = {j \in ledger : ~(j.kind = "shm" /\ j.name = i.name
                                          /\ \A n \in Ids : <<n, i.name>> \notin attached)}
  BY <1>1 DEF Good
<1>3. attached = {} /\ SharedLeft \subseteq {l.name : l \in job.todo} BY <1>1 DEF Yet, Later
<1>4. ledger' = {j \in ledger : ~(j.kind = "shm" /\ j.name = i.name)} BY <1>2, <1>3
<1>5. ASSUME NEW j \in ledger', j.kind = "shm" PROVE j.name \in {l.name : l \in job'.todo}
  <2>1. j \in ledger /\ j.name # i.name BY <1>4, <1>5
  <2>2. j.name \in SharedLeft BY <1>5, <2>1 DEF SharedLeft
  <2>3. PICK l \in job.todo : l.name = j.name BY <1>3, <2>2
  <2>4. l \in job'.todo BY <1>2, <2>1, <2>3
  <2> QED BY <2>3, <2>4
<1>6. SharedLeft' \subseteq {l.name : l \in job'.todo} BY <1>5 DEF SharedLeft
<1> QED BY <1>1, <1>3, <1>6 DEF Yet, Later

\* A step keeps what is yet to do.
LEMMA YetKept == ASSUME TypeOK, Entered, RolesAreRight, Answered, Yet, [Next]_vars PROVE Yet'
<1> SUFFICES ASSUME Good' PROVE Yet'
  BY DEF Yet
<1>g. Good /\ ~fault /\ ~fault' BY GoodBefore DEF Good
<1>1. CASE UNCHANGED vars
  <2>1. UNCHANGED <<ledger, attached, job, result>> BY <1>1 DEF vars
  <2> QED BY <1>g, <2>1 DEF Yet, SharedLeft
<1>2. ASSUME UNCHANGED <<ledger, attached>>
      PROVE  SharedLeft' = SharedLeft
  BY <1>2 DEF SharedLeft
<1>3. ASSUME job'.pc \in Before \cup {"shmList", "detail"} PROVE Yet'
  BY <1>3 DEF Yet, Later, Before
<1>4. ASSUME NEW k \in {"fd", "numa"}, ListOwn(k) \/ DeleteOwn(k) \/ OwnDeleted(k) PROVE Yet'
  <2>1. job'.pc \in {DeleteOf(k), ListOf(k), "numaList", "shmList"}
    BY <1>4, ListOwnGives, DeleteOwnGives, OwnDeletedGives
  <2>2. DeleteOf(k) \in Before /\ ListOf(k) \in Before /\ "numaList" \in Before
    BY DEF DeleteOf, ListOf, Before
  <2> QED BY <1>3, <2>1, <2>2
<1>5. CASE ListShared BY <1>3, <1>5, OthersGive
<1>7. CASE ListDetail
  <2>1. /\ job'.pc = "detach" /\ UNCHANGED <<ledger, attached>>
        /\ job'.todo = {l \in Detail : l.node # Nobody}
        /\ job'.names = {l.name : l \in Detail}
    BY <1>7, <1>g, ListDetailGives
  <2>2. Good BY <1>g
  <2>3. SharedLeft' \subseteq job'.names BY <1>2, <2>1, <2>2, DetailNames
  <2>4. \A a \in attached' : [name |-> a[2], node |-> a[1]] \in job'.todo
    BY <2>1, DetailNames
  <2>5. \A l \in job'.todo : l.node \in Nodes BY <2>1, <2>2, DetailNames
  <2> QED BY <2>1, <2>3, <2>4, <2>5 DEF Yet, Later
<1>8. CASE Detach
  <2>1. Good BY <1>g
  <2> QED BY <1>8, <2>1, YetDetach
<1>9. CASE Detached
  <2>1. /\ job.pc = "detach" /\ job'.pc = "roles" /\ job.todo = {} /\ job'.names = job.names
        /\ UNCHANGED <<ledger, attached>>
    BY <1>9, OthersGive
  <2>2. Good BY <1>g
  <2>3. attached = {} BY <2>1, <2>2 DEF Yet
  <2>4. SharedLeft' \subseteq job'.names BY <1>2, <2>1, <2>2 DEF Yet
  <2> QED BY <2>1, <2>3, <2>4 DEF Yet, Later
<1>10. CASE Delete
  <2>1. Good BY <1>g
  <2> QED BY <1>10, <2>1, YetDelete
<1>11. CASE Deleted
  <2>1. /\ job.pc = "delete" /\ job'.pc = "final" /\ job.todo = {} /\ UNCHANGED <<ledger, attached>>
    BY <1>11, OthersGive
  <2>2. Good BY <1>g
  <2>3. attached = {} BY <2>1, <2>2 DEF Yet, Later
  <2>4. SharedLeft' = {} BY <1>2, <2>1, <2>2 DEF Yet
  <2> QED BY <2>1, <2>3, <2>4 DEF Yet, Later
<1>12. CASE Final
  <2>1. /\ job.pc = "final" /\ job'.pc = "over" /\ UNCHANGED <<ledger, attached>>
        /\ result' = IF ledger = {} THEN "true" ELSE "false"
    BY <1>12, <1>g, OthersGive
  <2>2. Good BY <1>g
  <2>3. attached = {} BY <2>1, <2>2 DEF Yet, Later
  <2>4. SharedLeft' = {} BY <1>2, <2>1, <2>2 DEF Yet
  <2> QED BY <2>1, <2>3, <2>4 DEF Yet, Later
<1>13. CASE CallRaises BY <1>13, <1>g, OthersGive
<1>14. CASE AskMaster \/ AskStandby \/ Agree \/ Disagree
  <2>1. job.pc = "roles" /\ UNCHANGED <<ledger, attached, job, result>>
    BY <1>14, AskingKeeps
  <2> QED BY <1>g, <2>1 DEF Yet, SharedLeft
<1>15. CASE RolesFound
  <2>1. /\ job.pc = "roles" /\ roles.pc = "found" /\ UNCHANGED <<ledger, attached, fault>>
        /\ \/ job'.pc = "delete" /\ {l.name : l \in job'.todo} = job.names
           \/ job'.pc = "over" /\ roles.master = Nobody
           \/ job'.pc = "final" /\ job.names = {}
    BY <1>15, RolesFoundGives
  <2>2. Good BY <1>g
  <2>3. attached = {} /\ SharedLeft' \subseteq job.names
    <3>1. SharedLeft' = SharedLeft BY <1>2, <2>1, <2>2
    <3> QED BY <2>1, <2>2, <3>1 DEF Yet, Later
  <2>4. roles.master # Nobody
    <3>1. roles.stable BY <1>g DEF Entered
    <3>2. view[1].master \in Nodes BY <1>g DEF Good, WithinTest
    <3>3. roles.master = view[1].master BY <2>1, <3>1, <3>2 DEF RolesAreRight
    <3> QED BY <3>2, <3>3, NodesAre
  <2>5. CASE job'.pc = "delete" /\ {l.name : l \in job'.todo} = job.names
    BY <2>1, <2>3, <2>5 DEF Yet, Later
  <2>6. CASE job'.pc = "final" /\ job.names = {}
    BY <2>1, <2>3, <2>6 DEF Yet, Later
  <2> QED BY <2>1, <2>4, <2>5, <2>6
<1>16. CASE RolesExhausted
  <2>1. roles.tries = 0 BY <1>g DEF Answered
  <2>2. roles.tries = WaitTimes BY <1>16, OthersGive
  <2> QED BY <2>1, <2>2, BorrowClearAssumption
<1>17. ASSUME NEW n \in Nodes, NEW m \in Ids, NEW s \in Ids, Elect(n, m, s) PROVE FALSE
  BY <1>17, <1>g, ElectGives
<1>18. CASE DetachOutside BY <1>18, <1>g, OthersGive DEF Yet
<1> QED BY <1>1, <1>4, <1>5, <1>7, <1>8, <1>9, <1>10, <1>11, <1>12, <1>13, <1>14, <1>15, <1>16,
           <1>17, <1>18, Zenon DEF Next, Clearing, Roles

\* Init.
LEMMA InitLeft == Init => Answered /\ OwnLeft("fd") /\ OwnLeft("numa") /\ Yet
<1> SUFFICES ASSUME Init PROVE Answered /\ OwnLeft("fd") /\ OwnLeft("numa") /\ Yet
  OBVIOUS
<1>1. job.pc = "fdList" /\ job.at = 1
  <2>1. job = Job("fdList", 1, {}) BY Zenon DEF Init
  <2> QED BY <2>1 DEF Job
<1>2. Good => \A i \in ledger : i.kind = "fd" => i.node >= job.at
  BY <1>1, InitTyped, BorrowerIs
<1>3. OwnLeft("fd") BY <1>1, <1>2, KindsAre DEF OwnLeft, Past
<1>4. OwnLeft("numa") BY <1>1, KindsAre DEF OwnLeft, Past, Before
<1>5. Yet BY <1>1 DEF Yet, Later
<1>6. Answered
  <2>1. roles = NoRoles BY DEF Init
  <2> QED BY <2>1, Beginnings DEF Answered
<1> QED BY <1>3, <1>4, <1>5, <1>6

\* When every call was answered, nothing was elected and no other node is concerned, only
\* memory borrowed by address is left, and the function says whether there is any.
LEMMA LeftIsNothing ==
    TypeOK /\ OwnLeft("fd") /\ OwnLeft("numa") /\ Yet => ClearSucceeds
<1> SUFFICES ASSUME TypeOK, OwnLeft("fd"), OwnLeft("numa"), Yet, job.pc = "over", Good
             PROVE  /\ ledger = {i \in ledger : i.kind = "addr"}
                    /\ attached = {}
                    /\ result = IF ledger = {} THEN "true" ELSE "false"
  BY DEF ClearSucceeds, Good
<1>1. Past("fd") /\ Past("numa") BY DEF Past, Before
<1>2. \A i \in ledger : i.kind # "fd" /\ i.kind # "numa" BY <1>1 DEF OwnLeft
<1>3. \A i \in ledger : i.kind # "shm" BY DEF Yet, SharedLeft
<1>4. \A i \in ledger : i.kind \in {"fd", "numa", "shm", "addr"}
  <2>1. ledger \subseteq Memory BY TypeIs
  <2> QED BY <2>1, BorrowClearAssumption
<1>5. \A i \in ledger : i.kind = "addr" BY <1>2, <1>3, <1>4
<1>6. attached = {} /\ result = IF ledger = {} THEN "true" ELSE "false" BY DEF Yet, Later
<1> QED BY <1>5, <1>6

\* Whatever the nodes of the test have borrowed and attached, and however many they
\* are: when every call is answered, the cluster stays as it is, its master is one of
\* them and no other node borrowed or attached anything, clear_all_borrow_mem() gives
\* everything but memory borrowed by address back, and says so.
THEOREM ClearingSucceeds == Spec => []ClearSucceeds
<1> DEFINE Inv == /\ TypeOK /\ Tries /\ Rounds /\ Entered /\ Seen
                  /\ Answered /\ OwnLeft("fd") /\ OwnLeft("numa") /\ Yet
<1>1. Init => Inv BY InitTyped, InitAsks, InitLeft
<1>2. Inv /\ [Next]_vars => Inv'
  <2> SUFFICES ASSUME Inv, [Next]_vars PROVE Inv'
    OBVIOUS
  <2>1. TypeOK' /\ Tries' /\ Rounds' /\ Entered' /\ Seen'
    BY StepTyped, TriesKept, RoundsKept, EnteredKept, SeenKept
  <2>2. OwnLeft("fd")' BY OwnLeftKept
  <2>3. OwnLeft("numa")' BY OwnLeftKept
  <2>4. Yet' BY RoundsAreRight, YetKept
  <2>5. Answered' BY AnsweredKept
  <2> QED BY <2>1, <2>2, <2>3, <2>4, <2>5
<1>3. Inv => ClearSucceeds BY LeftIsNothing
<1> HIDE DEF Inv
<1> QED BY <1>1, <1>2, <1>3, PTL DEF Spec
=============================================================================
