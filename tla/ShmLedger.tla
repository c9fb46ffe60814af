------------------------------ MODULE ShmLedger ------------------------------
(***************************************************************************)
(* ShmServer implements AddressLedger: the owner of an address is read off *)
(* the server's table, the clients' addresses and the threads' requests.   *)
(***************************************************************************)
EXTENDS ShmServer

Holders(p) == {c \in Clients : p \in held[c]}
Carriers(p) == {w \in Workers : work[w].ptr = p}

AddrState(p) ==
    IF live[p] = NoName THEN "free"
    ELSE IF p \in Recorded THEN "batch"
    ELSE IF Holders(p) # {} THEN "client"
    ELSE IF Carriers(p) # {} THEN "request"
    ELSE "lost"

AddrUser(p) ==
    IF AddrState(p) = "client" THEN CHOOSE c \in Clients : p \in held[c]
    ELSE IF AddrState(p) = "request"
         THEN work[CHOOSE w \in Workers : work[w].ptr = p].client
    ELSE NoClient

Ledger == INSTANCE AddressLedger
    WITH state <- [p \in Ptrs |-> AddrState(p)],
         user <- [p \in Ptrs |-> AddrUser(p)]

\* Every step of the server, of its clients and of the SDK below it moves an
\* address, or two when a batch is mapped over itself, the way the ledger allows:
\* api_handler.cpp's handlers never unmap or hand out an address of someone else,
\* whatever runs between their calls, and a late answer gives nothing away.
KeepsLedger == Ledger!Spec
==============================================================================
