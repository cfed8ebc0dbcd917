---------------------------- MODULE MCSchedTurns ----------------------------
(* A small instance of SchedTurns for TLC.                                   *)
EXTENDS SchedTurns

\* A system whose programs make no mistakes: one thread per process, and the init
\* thread, which the scheduler needs as its idle thread, never sleeps.
MCSoundInit == {"unlock", "clone once unlocked", "post"}
MCSoundUser == {"yield", "sleep", "post", "exit process", "wait", "clone", "fault"}

MCAnyStray == Tids \cup {NoTid}
=============================================================================
