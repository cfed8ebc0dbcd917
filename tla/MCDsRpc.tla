------------------------------ MODULE MCDsRpc ------------------------------
(* Small instances of DsRpc for TLC.                                        *)
EXTENDS DsRpc

MCKinds    == {"create", "text", "draw", "quit"}
MCServices == [p \in Procs |-> {}]
=============================================================================
