---------------------------- MODULE AddressLedger ----------------------------
(***************************************************************************)
(* What the UBS-MEM test server promises about the addresses the SDK maps  *)
(* for it, with its threads, its lock, its table and its loops left out:   *)
(* an address has one owner at a time and passes from owner to owner along *)
(* the moves below.  Only a batch or the request of the client the address *)
(* belongs to unmaps it, an answer gives it to the client that asked, and  *)
(* what was given up is never handed out again.                            *)
(***************************************************************************)
CONSTANTS Ptrs, Clients, NoClient

VARIABLES state,   \* who owns the mapping at each address
          user     \* the client it was mapped for

vars == <<state, user>>

\* free: nothing is mapped.  batch: recorded by the server.  request: a handler
\* works on it.  client: the client was given it.  lost: nobody can unmap it.
States == {"free", "batch", "request", "client", "lost"}

TypeOK ==
    /\ state \in [Ptrs -> States]
    /\ user \in [Ptrs -> Clients \cup {NoClient}]

Init ==
    /\ state = [p \in Ptrs |-> "free"]
    /\ user = [p \in Ptrs |-> NoClient]

Pass(p, from, to) ==
    /\ state[p] = from
    /\ state' = [state EXCEPT ![p] = to]

MapForBatch(p) == Pass(p, "free", "batch") /\ UNCHANGED user
UnmapBatch(p) == Pass(p, "batch", "free") /\ UNCHANGED user
AbandonBatch(p) == Pass(p, "batch", "lost") /\ UNCHANGED user

\* A batch mapped over itself: q takes the place of p.
Replace(p, q) ==
    /\ state[p] = "batch"
    /\ state[q] = "free"
    /\ state' = [state EXCEPT ![p] = "lost", ![q] = "batch"]
    /\ UNCHANGED user

MapForRequest(p, c) == Pass(p, "free", "request") /\ user' = [user EXCEPT ![p] = c]
Answer(p) == Pass(p, "request", "client") /\ UNCHANGED user
GiveBack(p) == Pass(p, "client", "request") /\ UNCHANGED user
Unmap(p) == Pass(p, "request", "free") /\ user' = [user EXCEPT ![p] = NoClient]
Abandon(p) == Pass(p, "request", "lost") /\ user' = [user EXCEPT ![p] = NoClient]

Next == \E p \in Ptrs :
    \/ MapForBatch(p) \/ UnmapBatch(p) \/ AbandonBatch(p)
    \/ \E q \in Ptrs : Replace(p, q)
    \/ \E c \in Clients : MapForRequest(p, c)
    \/ Answer(p) \/ GiveBack(p) \/ Unmap(p) \/ Abandon(p)

Spec == Init /\ [][Next]_vars
==============================================================================
