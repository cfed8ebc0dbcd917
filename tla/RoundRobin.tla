----------------------------- MODULE RoundRobin -----------------------------
(***************************************************************************)
(* What the task switcher promises the threads, whatever programs, devices *)
(* and faults do between two ticks: a round holds every thread that can    *)
(* run when it is made, and each of them is chosen in tid order, once, and *)
(* gets the processor if it still can run.  A round ends early only for    *)
(* the receiver of a message, or because a chosen thread cannot run.       *)
(***************************************************************************)
EXTENDS Integers

CONSTANT MaxTid

VARIABLES
    phase,    \* "away": a thread runs; "choosing"; "chosen": at is to be dispatched
    at,       \* the thread the switcher chose last
    due,      \* the threads of this round that were not chosen yet
    holder,   \* the thread on the processor, or Nobody
    ready,    \* the threads that can run
    leaving,  \* the threads that asked to exit
    event,    \* the receiver of a message not yet attended to, or Nobody
    locked    \* no round may be made

rrvars == <<phase, at, due, holder, ready, leaving, event, locked>>

Nobody  == -1
IdleTid == 0
Threads == 0..MaxTid

First(S) == CHOOSE t \in S : \A u \in S : t <= u

Init ==
    /\ phase = "away" /\ at = IdleTid /\ due = {} /\ holder = IdleTid
    /\ ready = {} /\ leaving = {} /\ event = Nobody /\ locked = TRUE

\* Between two choices anything may become of the threads, but the round stays as it
\* is, and the processor goes only to the idle thread or to one that runs for the
\* first time and is not part of the round.
Away ==
    /\ phase = "away"
    /\ phase' \in {"away", "choosing"}
    /\ ready' \in SUBSET Threads
    /\ leaving' \in SUBSET Threads
    /\ event' \in Threads \cup {Nobody}
    /\ locked' \in BOOLEAN
    /\ \/ phase' = "away" /\ holder' \in {holder, IdleTid, Nobody}
       \/ phase' = "away" /\ holder' \in Threads \ (due \cup ready)
       \/ phase' = "choosing" /\ holder' = Nobody
    /\ UNCHANGED <<at, due>>

\* A message has precedence and ends the round.
Respond ==
    /\ phase = "choosing" /\ event # Nobody
    /\ phase' = "chosen"
    /\ at' = event /\ due' = {}
    /\ ready' = ready \cup {event}
    /\ event' = Nobody
    /\ UNCHANGED <<holder, leaving, locked>>

\* Nobody else is there.
Alone ==
    /\ phase = "choosing" /\ due = {} /\ ready \subseteq {IdleTid}
    /\ phase' = "chosen"
    /\ at' = IdleTid
    /\ UNCHANGED <<due, holder, ready, leaving, event, locked>>

\* The next thread of the round.
Turn ==
    /\ phase = "choosing" /\ event = Nobody /\ due # {}
    /\ phase' = "chosen"
    /\ at' = First(due) /\ due' = due \ {at'}
    /\ UNCHANGED <<holder, ready, leaving, event, locked>>

\* The round is over, or the thread that was chosen cannot run.
RoundEnds ==
    \/ phase = "choosing" /\ event = Nobody /\ due = {} /\ phase' = "chosen"
    \/ phase = "chosen" /\ at \notin ready /\ phase' = "choosing"

\* The next round has every thread that can run, and no thread that could run is left
\* out unless it asked to exit.
NewRound ==
    /\ RoundEnds /\ ~locked
    /\ at' = IdleTid
    /\ ready' \in SUBSET Threads
    /\ ready \ leaving \subseteq ready'
    /\ due' = ready' \ {IdleTid}
    /\ event' \in {event, Nobody}
    /\ UNCHANGED <<holder, leaving, locked>>

Refuse ==
    /\ RoundEnds /\ locked
    /\ UNCHANGED <<at, due, holder, ready, leaving, event, locked>>

\* The chosen thread gets the processor, unless the kernel stops.
Dispatch ==
    /\ phase = "chosen" /\ at \in ready
    /\ phase' = "away"
    /\ holder' \in {at, Nobody}
    /\ ready' = ready \ {at}
    /\ UNCHANGED <<at, due, leaving, event, locked>>

Next == Away \/ Respond \/ Alone \/ Turn \/ NewRound \/ Refuse \/ Dispatch

Spec == Init /\ [][Next]_rrvars
=============================================================================
