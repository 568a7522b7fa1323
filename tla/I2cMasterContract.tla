------------------------- MODULE I2cMasterContract --------------------------
(***************************************************************************)
(* What an I2C master promises its clients: it holds one                   *)
(* transfer at a time; an accepted transfer moves its data on the bus once *)
(* and comes to an end there; only then is the bus given back, and the     *)
(* callback of the client that started the transfer, and of no other, is   *)
(* invoked.                                                                *)
(***************************************************************************)
CONSTANTS Clients, NoClient

VARIABLES phase,    \* of the transfer: "free", "accepted", "moving", "settled"
          client,   \* whose transfer it is
          notified  \* the client whose callback was invoked last

vars == <<phase, client, notified>>

Init == phase = "free" /\ client = NoClient /\ notified = NoClient

\* A client's transfer is accepted on a free bus.
Accept(c) ==
    /\ phase = "free" /\ phase' = "accepted"
    /\ client' = c
    /\ UNCHANGED notified

\* The master starts to move the data,
Move ==
    /\ phase = "accepted" /\ phase' = "moving"
    /\ UNCHANGED <<client, notified>>

\* is done with it, on success or on an error,
Settle ==
    /\ phase = "moving" /\ phase' = "settled"
    /\ UNCHANGED <<client, notified>>

\* and tells the client, who no longer holds the bus.
Complete ==
    /\ phase = "settled" /\ phase' = "free"
    /\ notified' = client /\ client' = NoClient

Next == (\E c \in Clients : Accept(c)) \/ Move \/ Settle \/ Complete

Spec == Init /\ [][Next]_vars
=============================================================================
