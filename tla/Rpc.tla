-------------------------------- MODULE Rpc --------------------------------
(***************************************************************************)
(* What the display server promises its clients: every request a client    *)
(* makes is carried out exactly once, and the call returns only after      *)
(* that.  DsRpc implements this as long as no client connects while the    *)
(* server is about to answer another (broken).                             *)
(***************************************************************************)
CONSTANT Clients

VARIABLES phase,    \* where the call of each client is
          broken    \* the promise was broken

vars == <<phase, broken>>

Phases == {"idle", "asked", "served", "gone"}

Init == phase = [c \in Clients |-> "idle"] /\ broken = FALSE

Move(c, from, to) ==
    /\ ~broken /\ phase[c] = from
    /\ phase' = [phase EXCEPT ![c] = to]
    /\ UNCHANGED broken

Ask(c)    == Move(c, "idle", "asked")
Serve(c)  == Move(c, "asked", "served")
Return(c) == Move(c, "served", "idle")

\* A client may end at any point, its request carried out or not.
Leave(c) ==
    /\ ~broken
    /\ phase' = [phase EXCEPT ![c] = "gone"]
    /\ UNCHANGED broken

\* From here on nothing is promised.
Break == broken' = TRUE /\ phase' \in [Clients -> Phases]

Next == Break \/ \E c \in Clients : Ask(c) \/ Serve(c) \/ Return(c) \/ Leave(c)

Spec == Init /\ [][Next]_vars
=============================================================================
