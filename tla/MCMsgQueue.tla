---------------------------- MODULE MCMsgQueue ----------------------------
(* Small instances of MsgQueue for TLC.                                     *)
EXTENDS MsgQueue

MCPoll  == {"poll"}
MCMixed == {"poll", "any"}
=============================================================================
