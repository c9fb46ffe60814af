----------------------------- MODULE BorrowClear -----------------------------
(***************************************************************************)
(* clear_all_borrow_mem(): between test cases every kind of borrowed memory*)
(* is listed and given back, node by node, with the operations BorrowOps   *)
(* models; the shared memory last, detached where it is attached, deleted  *)
(* on the master.  return_nodes_by_all_role() finds the master by asking   *)
(* node after node while the cluster may elect another one.                *)
(***************************************************************************)
EXTENDS Integers, Sequences, FiniteSets

CONSTANTS N,             \* the nodes of the test are 1..N, in the order of their slots
          Ids,           \* the nodes of the cluster; some may not be the test's
          Memory,        \* what may be borrowed: [kind, name, node]
          WaitTimes,     \* attempts of return_nodes_by_all_role
          MaxElections   \* bound on the changes of a node's view

Nodes == 1..N
Nobody == 0              \* no such node, and the node of shared memory

ASSUME BorrowClearAssumption ==
    /\ N \in Nat \ {0}
    /\ Nodes \subseteq Ids /\ Ids \subseteq Nat \ {Nobody}
    /\ WaitTimes \in Nat \ {0}
    /\ MaxElections \in Nat
    /\ \A i \in Memory :
          /\ i.kind \in {"fd", "numa", "shm", "addr"}
          /\ i.node \in IF i.kind = "shm" THEN {Nobody} ELSE Ids

Names == {i.name : i \in Memory}
Shared == {i.name : i \in {j \in Memory : j.kind = "shm"}}

VARIABLES
    ledger,     \* the memory that is borrowed
    attached,   \* the shared memory that is attached, <<node, name>>
    view,       \* per node of the test: who it takes for master and standby
    job,        \* where clear_all_borrow_mem() is, and what is left of its loop
    roles,      \* where return_nodes_by_all_role() is
    result,     \* what the clearing returned
    fault,      \* a call failed or the cluster elected; no action reads it
    elections

vars == <<ledger, attached, view, job, roles, result, fault, elections>>

NoRoles == [pc |-> "out", tries |-> 0, masterId |-> Nobody, standbyId |-> Nobody, at |-> 1,
            master |-> Nobody, standby |-> Nobody, agents |-> <<>>, stable |-> TRUE]

Lists == {"fdList", "numaList", "shmList", "detail"}
Loops == {"fdDelete", "numaDelete", "detach", "delete"}
Listed == [name : Names, node : Ids \cup {Nobody}]

TypeOK ==
    /\ ledger \subseteq Memory
    /\ attached \subseteq Ids \X Shared
    /\ view \in [Nodes -> [master : Ids \cup {Nobody}, standby : Ids \cup {Nobody}]]
    /\ job \in [pc : Lists \cup Loops \cup {"roles", "final", "over"}, at : Nodes,
                todo : SUBSET Listed, names : SUBSET Names]
    /\ roles \in [pc : {"out", "master", "standby", "check", "found"}, tries : 0..WaitTimes,
                  masterId : Ids \cup {Nobody}, standbyId : Ids \cup {Nobody}, at : Nodes,
                  master : Nodes \cup {Nobody}, standby : Nodes \cup {Nobody},
                  agents : Seq(Nodes), stable : BOOLEAN]
    /\ result \in {"none", "true", "false", "raised"}
    /\ fault \in BOOLEAN
    /\ elections \in 0..MaxElections

Job(pc, at, todo) == [pc |-> pc, at |-> at, todo |-> todo, names |-> {}]

\* The nodes of the test agree about the cluster; its master, its standby, what is
\* borrowed and what is attached may be on nodes that are not the test's.
Init ==
    /\ ledger \in SUBSET Memory
    /\ attached \in SUBSET {<<n, i.name>> : n \in Ids, i \in {j \in ledger : j.kind = "shm"}}
    /\ \E m \in Ids, s \in Ids \cup {Nobody} :
          /\ m # s
          /\ view = [n \in Nodes |-> [master |-> m, standby |-> s]]
    /\ job = Job("fdList", 1, {})
    /\ roles = NoRoles
    /\ result = "none"
    /\ fault = FALSE
    /\ elections = 0

cluster == <<view, elections>>
Silent == UNCHANGED <<roles, cluster>>

---------------------------------------------------------------------------
(* The loops over the nodes and over what a list returned.                 *)

ListOf(kind) == IF kind = "fd" THEN "fdList" ELSE "numaList"
DeleteOf(kind) == IF kind = "fd" THEN "fdDelete" ELSE "numaDelete"

Own(kind, n) == {[name |-> i.name, node |-> n] : i \in {j \in ledger : j.kind = kind /\ j.node = n}}

\* After the list of one kind of memory comes its loop; after the last node the
\* next kind.
AfterNode(kind) ==
    IF job.at < N THEN Job(ListOf(kind), job.at + 1, {})
    ELSE IF kind = "fd" THEN Job("numaList", 1, {}) ELSE Job("shmList", 1, {})

\* fd_list and numa_list on each node.  A list that could not be had is taken for
\* an empty one.
ListOwn(kind) ==
    /\ job.pc = ListOf(kind)
    /\ \/ job' = Job(DeleteOf(kind), job.at, Own(kind, job.at)) /\ UNCHANGED fault
       \/ job' = Job(DeleteOf(kind), job.at, {}) /\ fault' = TRUE
    /\ UNCHANGED <<ledger, attached, result>>
    /\ Silent

Take(i) == job.todo \ {i}

DeleteOwn(kind) ==
    /\ job.pc = DeleteOf(kind)
    /\ \E i \in job.todo :
          /\ job' = [job EXCEPT !.todo = Take(i)]
          /\ \/ /\ ledger' = {j \in ledger : ~(j.kind = kind /\ j.name = i.name /\ j.node = job.at)}
                /\ UNCHANGED fault
             \/ UNCHANGED ledger /\ fault' = TRUE
    /\ UNCHANGED <<attached, result>>
    /\ Silent

OwnDeleted(kind) ==
    /\ job.pc = DeleteOf(kind)
    /\ job.todo = {}
    /\ job' = AfterNode(kind)
    /\ UNCHANGED <<ledger, attached, result, fault>>
    /\ Silent

\* shm_list on the first node; the names it gives are not used.
ListShared ==
    /\ job.pc = "shmList"
    /\ job' = Job("detail", 1, {})
    /\ UNCHANGED <<ledger, attached, result, fault>>
    /\ Silent

\* display_mem_borrow_detail on the first node: the whole ledger, a line for each
\* node that borrowed or attached the memory, and one without a node for shared
\* memory nobody attached.
Detail ==
    {[name |-> i.name, node |-> i.node] : i \in {j \in ledger : j.kind # "shm"}}
      \cup {[name |-> a[2], node |-> a[1]] : a \in attached}
      \cup {[name |-> i.name, node |-> Nobody] :
               i \in {j \in ledger : j.kind = "shm" /\ \A n \in Ids : <<n, j.name>> \notin attached}}

ListDetail ==
    /\ job.pc = "detail"
    /\ \E lines \in {Detail, {}} :
          /\ job' = [Job("detach", 1, {l \in lines : l.node # Nobody})
                        EXCEPT !.names = {l.name : l \in lines}]
          /\ fault' = (fault \/ lines # Detail)
    /\ UNCHANGED <<ledger, attached, result>>
    /\ Silent

Abort ==
    /\ job' = [job EXCEPT !.pc = "over"]
    /\ result' = "raised"

\* Faulty variant of Detach: the node is taken from the wrong end of the list.
DetachElsewhere ==
    /\ job.pc = "detach"
    /\ \E i \in job.todo :
          /\ i.node \in Nodes
          /\ job' = [job EXCEPT !.todo = Take(i)]
          /\ attached' = attached \ {<<N + 1 - i.node, i.name>>}
    /\ UNCHANGED <<ledger, result, fault>>
    /\ Silent

\* Detaching what is not shared memory is refused and changes nothing.
Detach ==
    /\ job.pc = "detach"
    /\ \E i \in job.todo :
          /\ i.node \in Nodes
          /\ job' = [job EXCEPT !.todo = Take(i)]
          /\ \/ attached' = attached \ {<<i.node, i.name>>} /\ UNCHANGED fault
             \/ UNCHANGED attached /\ fault' = TRUE
    /\ UNCHANGED <<ledger, result>>
    /\ Silent

\* IndexError: the line's node is none of the test's.
DetachOutside ==
    /\ job.pc = "detach"
    /\ \E i \in job.todo : i.node \notin Nodes
    /\ Abort
    /\ UNCHANGED <<ledger, attached, fault>>
    /\ Silent

Detached ==
    /\ job.pc = "detach"
    /\ job.todo = {}
    /\ job' = [job EXCEPT !.pc = "roles"]
    /\ roles' = [NoRoles EXCEPT !.pc = "master"]
    /\ UNCHANGED <<ledger, attached, result, fault, cluster>>

\* Shared memory is deleted on the master, unless it is still attached somewhere.
Delete ==
    /\ job.pc = "delete"
    /\ \E i \in job.todo :
          /\ job' = [job EXCEPT !.todo = Take(i)]
          /\ \/ /\ ledger' = {j \in ledger : ~(j.kind = "shm" /\ j.name = i.name
                                                 /\ \A n \in Ids : <<n, i.name>> \notin attached)}
                /\ UNCHANGED fault
             \/ UNCHANGED ledger /\ fault' = TRUE
    /\ UNCHANGED <<attached, result>>
    /\ Silent

Deleted ==
    /\ job.pc = "delete"
    /\ job.todo = {}
    /\ job' = [job EXCEPT !.pc = "final"]
    /\ UNCHANGED <<ledger, attached, result, fault>>
    /\ Silent

\* display_memory: an empty answer, also one that is empty because run() could not
\* log in, is success.
Final ==
    /\ job.pc = "final"
    /\ job' = [job EXCEPT !.pc = "over"]
    /\ \/ result' = (IF ledger = {} THEN "true" ELSE "false") /\ UNCHANGED fault
       \/ result' = "true" /\ fault' = TRUE
    /\ UNCHANGED <<ledger, attached>>
    /\ Silent

\* Any of the calls may raise; nothing catches it.
CallRaises ==
    /\ job.pc # "over"
    /\ Abort
    /\ fault' = TRUE
    /\ UNCHANGED <<ledger, attached>>
    /\ Silent

---------------------------------------------------------------------------
(* return_nodes_by_all_role()                                              *)

Asking(pc) == job.pc = "roles" /\ roles.pc = pc
RolesStep == UNCHANGED <<ledger, attached, job, result, cluster>>

\* display_election on a node: the one it takes for master or standby, or nobody
\* when it knows none or the query fails.
Says(n, role) == {view[n][role], Nobody}

\* The query has failed when the node knows one.
Hears(n, role, x) == fault' = (fault \/ x # view[n][role])

\* Faulty variant of Retry: the agents found so far are kept.
RetryKeepsAgents == [NoRoles EXCEPT !.pc = "master", !.tries = roles.tries + 1,
                                    !.agents = roles.agents, !.stable = roles.stable]

Retry == [NoRoles EXCEPT !.pc = "master", !.tries = roles.tries + 1, !.stable = roles.stable]

\* Faulty variant of AskMaster: the attempts are not bounded.
AskMasterAgain ==
    /\ Asking("master")
    /\ \E m \in Says(1, "master") :
          /\ roles' = [roles EXCEPT !.pc = "standby", !.masterId = m]
          /\ Hears(1, "master", m)
    /\ RolesStep

AskMaster ==
    /\ Asking("master")
    /\ roles.tries < WaitTimes
    /\ \E m \in Says(1, "master") :
          /\ roles' = [roles EXCEPT !.pc = "standby", !.masterId = m]
          /\ Hears(1, "master", m)
    /\ RolesStep

AskStandby ==
    /\ Asking("standby")
    /\ \E s \in Says(1, "standby") :
          /\ roles' = IF roles.masterId = Nobody \/ s = Nobody THEN Retry
                      ELSE [roles EXCEPT !.pc = "check", !.standbyId = s]
          /\ Hears(1, "standby", s)
    /\ RolesStep

\* The role of a node that agrees about the master.
Assign(r) ==
    IF r.at = r.masterId THEN [r EXCEPT !.master = r.at]
    ELSE IF r.at = r.standbyId THEN [r EXCEPT !.standby = r.at]
    ELSE [r EXCEPT !.agents = Append(@, r.at)]

\* A node that names another master, or none: everything is forgotten.
Disagree ==
    /\ Asking("check")
    /\ \E m \in Says(roles.at, "master") : m # roles.masterId /\ Hears(roles.at, "master", m)
    /\ roles' = Retry
    /\ RolesStep

Agree ==
    /\ Asking("check")
    /\ view[roles.at].master = roles.masterId
    /\ roles' = IF roles.at = N THEN [Assign(roles) EXCEPT !.pc = "found"]
                ELSE [Assign(roles) EXCEPT !.at = @ + 1]
    /\ UNCHANGED fault
    /\ RolesStep

RolesFound ==
    /\ Asking("found")
    /\ \/ /\ roles.master # Nobody
          /\ job' = [job EXCEPT !.pc = "delete",
                                !.todo = {[name |-> n, node |-> roles.master] : n \in job.names}]
          /\ UNCHANGED result
       \/ roles.master = Nobody /\ job.names # {} /\ Abort
       \/ /\ roles.master = Nobody
          /\ job.names = {}
          /\ job' = [job EXCEPT !.pc = "final"]
          /\ UNCHANGED result
    /\ UNCHANGED <<ledger, attached, fault>>
    /\ Silent

\* RuntimeError: Failed to get master/standby nodes.
RolesExhausted ==
    /\ Asking("master")
    /\ roles.tries = WaitTimes
    /\ Abort
    /\ UNCHANGED <<ledger, attached, fault>>
    /\ Silent

---------------------------------------------------------------------------
(* The cluster elects while it is asked; one node after the other learns of *)
(* it.  An election before the first question is another initial view.      *)

Elect(n, m, s) ==
    /\ job.pc = "roles"
    /\ elections < MaxElections
    /\ m # s
    /\ view' = [view EXCEPT ![n] = [master |-> m, standby |-> s]]
    /\ view' # view
    /\ elections' = elections + 1
    /\ roles' = [roles EXCEPT !.stable = FALSE]
    /\ fault' = TRUE
    /\ UNCHANGED <<ledger, attached, job, result>>

Clearing ==
    \/ \E kind \in {"fd", "numa"} : ListOwn(kind) \/ DeleteOwn(kind) \/ OwnDeleted(kind)
    \/ ListShared \/ ListDetail \/ Detach \/ DetachOutside \/ Detached
    \/ Delete \/ Deleted \/ Final \/ CallRaises

Roles == AskMaster \/ AskStandby \/ Agree \/ Disagree \/ RolesFound \/ RolesExhausted

Next ==
    \/ Clearing
    \/ Roles
    \/ \E n \in Nodes, m \in Ids, s \in Ids : Elect(n, m, s)

Spec == Init /\ [][Next]_vars

---------------------------------------------------------------------------
Sent(s) == {s[i] : i \in DOMAIN s}

\* What clear_all_borrow_mem() takes for granted: the master is one of the nodes it
\* was given, there is a standby, and no other node has borrowed or attached anything.
WithinTest ==
    /\ view[1].master \in Nodes /\ view[1].standby # Nobody
    /\ \A i \in ledger : i.node \in Nodes \cup {Nobody}
    /\ \A a \in attached : a[1] \in Nodes

\* clear_all_borrow_mem: whatever the nodes of the test have borrowed and attached,
\* when every call is answered and the cluster stays as it is the order of the calls
\* gives everything back and the function says so, provided that it takes nothing for
\* granted that is not so.  Memory borrowed by address is the exception: no step gives
\* it back, and the function reports that.
ClearSucceeds ==
    (job.pc = "over" /\ ~fault /\ WithinTest) =>
        /\ ledger = {i \in ledger : i.kind = "addr"}
        /\ attached = {}
        /\ result = IF ledger = {} THEN "true" ELSE "false"

\* "True means cleared, False means not cleared" (mem_pooling_basecase.py:847): when
\* every call is answered and nothing is elected the function says one of the two,
\* also of a cluster that is larger than the test.  The code does not keep this:
\* it raises at a node or a master that it was not given.
ClearCompletes == (job.pc = "over" /\ ~fault) => result # "raised"

\* return_nodes_by_all_role: the roles it returns give every node of the test one
\* role and only one, whatever was elected between its questions and however often
\* it began again; of a cluster that did not change they are the roles it has, and
\* nobody's where another node than the test's has the role.
RolesAreRight ==
    roles.pc = "found" =>
        /\ Sent(roles.agents) \cup ({roles.master, roles.standby} \ {Nobody}) = Nodes
        /\ Len(roles.agents) + Cardinality({roles.master, roles.standby} \ {Nobody}) = N
        /\ roles.master \in {Nobody, roles.masterId}
        /\ roles.stable =>
             /\ roles.master = IF view[1].master \in Nodes THEN view[1].master ELSE Nobody
             /\ roles.standby = IF view[1].standby \in Nodes THEN view[1].standby ELSE Nobody
=============================================================================
