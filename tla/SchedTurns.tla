----------------------------- MODULE SchedTurns -----------------------------
(***************************************************************************)
(* Sched with a history variable: due, the threads of the current round    *)
(* the switcher did not come to yet.  It turns the next pointers of the    *)
(* thread table into the round they stand for, and with it Sched           *)
(* implements RoundRobin.                                                  *)
(***************************************************************************)
EXTENDS Sched

VARIABLE due

Ready == {t \in Tids : Runnable(t)}

\* The step makes a new round: __scheduler_rr is called by ZeroGravity at the end of
\* a round, or by go_ahead because the target cannot run.
RoundMade ==
    /\ ~scheduler_locked
    /\ \/ cpu = "ZeroGravity" /\ ~EventPending /\ thread[currentq].next = NoTid
       \/ cpu = "go_ahead" /\ ~Runnable(currentq)

\* The event responder replaces the rest of the round.
RoundCut == cpu = "ZeroGravity" /\ EventPending

DueStep ==
    due' = IF RoundMade THEN Ready' \ {InitTid}
           ELSE IF RoundCut THEN {}
           ELSE due \ {currentq'}

TurnsInit == Init /\ due = {}
TurnsNext == Next /\ DueStep
TurnsSpec == TurnsInit /\ [][TurnsNext]_<<vars, due>>

----------------------------------------------------------------------------
(* The refinement mapping.                                                 *)

Phase ==
    CASE cpu = "ZeroGravity" -> "choosing"
      [] cpu = "go_ahead"    -> "chosen"
      [] OTHER               -> "away"
Holder  == IF cpu \in {"user", "tsTaskSwitch"} THEN current_thread ELSE NoTid
Leaving == {t \in Used(thread) : thread[t].exiting}
Event   == IF EventPending THEN ev_responder_thread ELSE NoTid

RR == INSTANCE RoundRobin WITH
        phase <- Phase, at <- currentq, holder <- Holder, ready <- Ready,
        leaving <- Leaving, event <- Event, locked <- scheduler_locked

\* The switcher goes round: every thread that is READY when a round is made gets its
\* turn in it, in tid order and once; a message or a target that cannot run are the
\* only things that end it early, and a spawn takes no turn of anybody
\* (ts.c:487-802, sched.c:349-666, spawn.c:225-336).
ImplementsRoundRobin == RR!Spec
=============================================================================
