------------------------------ MODULE MCSched ------------------------------
(* Small instances of Sched for TLC.                                        *)
EXTENDS Sched

\* Lifecycle: threads and processes come and go, mistakes included.
MCLifeInit == {"unlock", "create", "start", "clone", "exit other"}
MCLifeUser == {"create", "create when full", "start", "start again", "clone",
               "exit", "exit process", "exit idle", "fault"}

\* Events: messages, the display server and its callback, faults.
MCEventInit == {"unlock", "clone", "post", "broadcast"}
MCEventUser == {"post", "post to dead", "broadcast", "display server", "callback",
                "wait", "exit", "fault"}

\* Quanta: everything that shortens or stretches a turn, and the two locks.
MCTurnInit == {"unlock", "lock", "clone", "sleep"}
MCTurnUser == {"sleep", "broken vessels", "foreground", "credits"}

\* Sound programs that liveness is checked on.
MCLiveInit == {"unlock", "clone once unlocked"}
MCLiveUser == {"yield", "sleep", "post", "exit"}

\* Programs for the runs that compare a comment with the code.
MCSleepInit == {"unlock", "clone once unlocked", "sleep"}
MCExitUser  == {"exit"}

MCNoStray  == {NoTid}
MCAnyStray == Tids \cup {NoTid}
=============================================================================
