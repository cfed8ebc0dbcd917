------------------------------ MODULE MCSocket ------------------------------
(* Small instances of Socket for TLC.                                       *)
EXTENDS Socket, TLC

MCActions == {0}
MCPayload == {"m"}
MCServices ==
    0 :> {"clone", "socket", "listen", "accept", "read"}
    @@ 1 :> {"port", "socket", "connect", "write", "action", "sync", "close"}
=============================================================================
