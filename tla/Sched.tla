------------------------------- MODULE Sched -------------------------------
(***************************************************************************)
(* The thread core of the Gramado kernel (kernel/core/ke/intake): thread   *)
(* table, round-robin scheduler, task switcher, dispatcher, first run of a *)
(* thread (spawn), the services a running thread calls, and the scheduling *)
(* side of message posting.                                                *)
(*                                                                         *)
(* One processor.  Every gate is an interrupt gate, so a service call, a   *)
(* fault or a device interrupt runs to its end without being preempted:    *)
(* each is one action, enabled only in cpu = "user".  The timer interrupt  *)
(* contains a loop (ZeroGravity <-> go_ahead in ts.c) and is followed step *)
(* by step through the other values of cpu.                                *)
(*                                                                         *)
(* Kept exactly: thread states, every flag the switcher reads, quanta, the *)
(* next pointers of the round.  Abstracted: jiffies to the ticks left of   *)
(* each sleep, runningCount above every quantum to that bound, user tids   *)
(* (from USER_THRESHOLD_TID) to 1..MaxTid, priorities (never read when a   *)
(* thread is chosen), register contexts, message contents.                 *)
(***************************************************************************)
EXTENDS Integers

CONSTANTS
    MaxTid,        \* user thread slots are 1..MaxTid; slot 0 is the init thread
    MaxPid,        \* process slots are 0..MaxPid; 0 is the init process
    MaxSleep,      \* bound: longest sleep, in ticks
    MaxEvents,     \* bound: messages posted in one behaviour
    Q1, Q3, Q4,    \* QUANTUM_NORMAL_THRESHOLD, .._TIME_CRITICAL, QUANTUM_SYSTEM_THRESHOLD
    QMax,          \* QUANTUM_MAX
    QBoost,        \* the 88 of "QUANTUM_MAX + 88" in sci.c
    InitServices,  \* what the init thread asks of the kernel ...
    UserServices,  \* ... and what the other threads ask
    StrayReads     \* what sched.c:430 may read through an uninitialised pointer

ASSUME SizeAssumption ==
    /\ MaxTid \in Nat \ {0}
    /\ MaxPid \in Nat \ {0}
    /\ MaxSleep \in Nat \ {0}
    /\ MaxEvents \in Nat
ASSUME QuantumAssumption ==
    /\ Q1 \in Nat \ {0} /\ Q3 \in Nat /\ Q4 \in Nat /\ QMax \in Nat
    /\ QBoost \in Nat \ {0}
    /\ Q1 <= Q3 /\ Q3 <= Q4 /\ Q4 <= QMax

NoTid    == -1                     \* NULL, or the tid -1
InitTid  == 0
UserTids == 1..MaxTid
Tids     == 0..MaxTid
InitPid  == 0
Pids     == 0..MaxPid
ASSUME StrayAssumption == StrayReads \subseteq Tids \cup {NoTid}

\* "FREE" stands for threadList[tid] = NULL.
States == {"FREE", "INITIALIZED", "STANDBY", "READY", "RUNNING", "WAITING",
           "BLOCKED", "ZOMBIE"}

\* The part of struct thread_d that scheduling reads or writes.  used stands for
\* used = TRUE and magic = 1234, which are only ever written together; sleeping is
\* desired_sleep_ms while sleep_in_progress is set, else 0; wake is what is left
\* of wake_jiffy - jiffies; credits above 2 are not told apart from 2.
Thread == [used: BOOLEAN, state: States, owner: Pids, saved: BOOLEAN,
           exiting: BOOLEAN, yielding: BOOLEAN, sleeping: 0..MaxSleep,
           wake: 0..MaxSleep, pending: BOOLEAN, responder: BOOLEAN,
           credits: 0..2, quantum: 0..(QMax + QBoost), run: 0..(QMax + QBoost),
           next: Tids \cup {NoTid}]

Process == [used: BOOLEAN, control: Tids \cup {NoTid}]

Causes == {"none", "current process validation", "spawn init", "spawn saved",
           "target process", "init not ready", "faulty process is protected",
           "exit idle", "no more slots", "post to invalid thread",
           "clone by secondary thread", "second display server",
           "callback called again", "callback for another process",
           "caller process"}

VARIABLES
    thread,               \* threadList
    proc,                 \* processList
    current_thread,       \* the thread whose context is on the processor
    currentq,             \* position of the task switcher in the round
    ev_responder_thread,  \* the thread of the last posted message, or NULL
    foreground_thread,
    display_server,       \* DisplayServerInfo.tid while initialized, else NoTid
    ws_pid,               \* gramado port GRAMADO_PORT_WS, or -1
    callback_ready,       \* ds_callback_info.ready
    taskswitch_locked, scheduler_locked,
    cpu,                  \* where the processor is
    cause,                \* why the kernel stopped
    events                \* messages posted so far (bounded by MaxEvents)

vars == <<thread, proc, current_thread, currentq, ev_responder_thread,
          foreground_thread, display_server, ws_pid, callback_ready,
          taskswitch_locked, scheduler_locked, cpu, cause, events>>

display == <<display_server, ws_pid, callback_ready>>
locks   == <<taskswitch_locked, scheduler_locked>>
switch  == <<current_thread, currentq, ev_responder_thread, foreground_thread>>

----------------------------------------------------------------------------
(* Helpers on the thread table.                                            *)

Least(S) == CHOOSE x \in S : \A y \in S : x <= y
Lower(a, b) == IF a < b THEN a ELSE b

Used(tab) == {t \in Tids : tab[t].used}
InState(tab, s) == {t \in Used(tab) : tab[t].state = s}
OnlyInit(tab) == \A t \in UserTids : tab[t].state = "FREE"

\* ithread.c: the init thread as the boot code leaves it; x64init.c makes it RUNNING.
InitThread ==
    [used |-> TRUE, state |-> "RUNNING", owner |-> InitPid, saved |-> FALSE,
     exiting |-> FALSE, yielding |-> FALSE, sleeping |-> 0, wake |-> 0,
     pending |-> FALSE, responder |-> FALSE, credits |-> 0, quantum |-> Q1,
     run |-> 0, next |-> NoTid]

\* create_thread: the new structure, before anybody starts it.
NewThread(pid) ==
    [InitThread EXCEPT !.state = "INITIALIZED", !.owner = pid]

FreeSlot == [InitThread EXCEPT !.used = FALSE, !.state = "FREE", !.quantum = 0]

\* Mutant: a destroyed structure counts as a free slot.
FreeTidsReused == {t \in UserTids : ~thread[t].used}
FreeTids == {t \in UserTids : thread[t].state = "FREE"}
FreePids == {p \in Pids : proc[p].control = NoTid}

\* ipc_post_message_to_tid / _tid2: what a post does to the receiver, whatever the
\* state it was in (set_ev_responder included).
Posted(tab, t) ==
    [tab EXCEPT ![t] = [@ EXCEPT !.pending = TRUE, !.quantum = QMax,
                                 !.state = "READY", !.responder = TRUE]]

\* ipc_post_message_to_ds gives two credits first; its wakeup_thread is subsumed by
\* the post.
Credited(tab, t) == [tab EXCEPT ![t].credits = 2]

\* The same post for every thread in S (ipc_broadcast_system_message).
Broadcast(tab, S) ==
    [t \in Tids |-> IF t \in S THEN Posted(tab, t)[t] ELSE tab[t]]

\* DeviceInterface_PIT: jiffies++ seen from the sleeping threads.
Ticked(tab) ==
    [t \in Tids |-> [tab[t] EXCEPT !.wake = IF @ = 0 THEN 0 ELSE @ - 1]]

\* dispatcher(): READY -> RUNNING with a fresh count.
Dispatched(tab, t) ==
    [tab EXCEPT ![t] = [@ EXCEPT !.state = "RUNNING", !.run = 0, !.saved = FALSE,
                                 !.quantum = IF tab[t].quantum < Q1 THEN Q1
                                             ELSE tab[t].quantum]]

----------------------------------------------------------------------------
(* __scheduler_rr: one round over the thread table.                        *)

\* sched.c:430 wakes the thread whose tid an uninitialised pointer happens to lead
\* to: any thread, or none.
StrayWoken(tab, stray) ==
    IF stray \in Used(tab) THEN [tab EXCEPT ![stray].state = "READY"] ELSE tab

Exiting(tab) == {t \in UserTids \cap Used(tab) : tab[t].exiting}
Reaped(tab)  == {t \in (UserTids \cap InState(tab, "ZOMBIE")) : ~tab[t].exiting}
\* Mutant: the wake-up test of the WAITING threads is missing.
QueuedNoWake(tab) ==
    {t \in UserTids \cap Used(tab) : ~tab[t].exiting /\ tab[t].state = "READY"}
Queued(tab)  ==
    {t \in UserTids \cap Used(tab) :
        /\ ~tab[t].exiting
        /\ \/ tab[t].state = "READY"
           \/ tab[t].state = "WAITING" /\ tab[t].wake = 0}

\* Mutants: the thread follows itself in the round; the last slot is never reached.
NextQueuedSelf(tab, t) ==
    LET after == {u \in Queued(tab) : u >= t}
    IN  IF after = {} THEN NoTid ELSE Least(after)
NextQueuedShort(tab, t) ==
    LET after == {u \in Queued(tab) : u > t /\ u < MaxTid}
    IN  IF after = {} THEN NoTid ELSE Least(after)
NextQueued(tab, t) ==
    LET after == {u \in Queued(tab) : u > t}
    IN  IF after = {} THEN NoTid ELSE Least(after)

\* The quantum a queued thread gets for its turn.
RoundQuantum(tab, t) ==
    LET base == IF tab[t].responder \/ t = display_server THEN QMax
                ELSE IF t = foreground_thread THEN Q3
                ELSE Q1
    IN  IF tab[t].credits = 2 THEN base + 1 ELSE base

RoundThread(tab, t) ==
    CASE t = InitTid -> [tab[t] EXCEPT !.quantum = Q1, !.next = NextQueued(tab, t)]
      [] t \in Exiting(tab) -> [tab[t] EXCEPT !.state = "ZOMBIE"]
      [] t \in Reaped(tab) -> [tab[t] EXCEPT !.used = FALSE]
      [] t \in Queued(tab) ->
            [tab[t] EXCEPT !.state = "READY", !.run = 0,
                           !.quantum = RoundQuantum(tab, t),
                           !.responder = FALSE,
                           !.credits = IF @ = 2 THEN 0 ELSE @,
                           !.next = NextQueued(tab, t)]
      [] OTHER -> tab[t]

Round(tab) == [t \in Tids |-> RoundThread(tab, t)]

\* psScheduler: refused while locked; with a single thread only the queue is reset.
psScheduler(tab, stray) ==
    \/ /\ scheduler_locked
       /\ current_thread' = NoTid
       /\ thread' = tab
       /\ UNCHANGED <<currentq, foreground_thread, display_server>>
    \/ /\ ~scheduler_locked /\ OnlyInit(tab)
       /\ current_thread' = InitTid /\ currentq' = InitTid
       /\ thread' = tab
       /\ UNCHANGED <<foreground_thread, display_server>>
    \/ /\ ~scheduler_locked /\ ~OnlyInit(tab)
       /\ current_thread' = InitTid /\ currentq' = InitTid
       /\ LET woken == StrayWoken(tab, stray)
          IN  /\ thread' = Round(woken)
              /\ foreground_thread' = IF foreground_thread \in Exiting(woken)
                                      THEN NoTid ELSE foreground_thread
              /\ display_server' = IF display_server \in Reaped(woken)
                                   THEN NoTid ELSE display_server

----------------------------------------------------------------------------
(* Ends of actions.                                                        *)

Running == cpu = "user"

\* panic() and die(): the kernel stops.
Halt(why) == cpu' = "halted" /\ cause' = why

Init ==
    /\ thread = [t \in Tids |-> IF t = InitTid THEN InitThread ELSE FreeSlot]
    /\ proc = [p \in Pids |-> [used    |-> p = InitPid,
                               control |-> IF p = InitPid THEN InitTid ELSE NoTid]]
    /\ current_thread = InitTid
    /\ currentq = InitTid
    /\ ev_responder_thread = NoTid
    /\ foreground_thread = InitTid
    /\ display_server = NoTid /\ ws_pid = -1 /\ callback_ready = FALSE
    /\ taskswitch_locked = TRUE /\ scheduler_locked = TRUE
    /\ cpu = "user" /\ cause = "none"
    /\ events = 0

\* ipc_post_message_to_ds on table tab, after which the processor is at after.
PostToDisplayServer(tab, after) ==
    \/ /\ display_server = NoTid
       /\ thread' = tab /\ cpu' = after
       /\ UNCHANGED <<ev_responder_thread, cause>>
    \/ /\ display_server # NoTid /\ tab[display_server].used
       /\ thread' = Posted(Credited(tab, display_server), display_server)
       /\ ev_responder_thread' = display_server
       /\ cpu' = after /\ UNCHANGED cause
    \/ /\ display_server # NoTid /\ ~tab[display_server].used
       /\ thread' = tab
       /\ Halt("post to invalid thread") /\ UNCHANGED ev_responder_thread

----------------------------------------------------------------------------
(* Interrupts.                                                             *)

\* irq0_TIMER, first half: DeviceInterface_PIT.  The once-a-second timer message
\* to the display server falls on some ticks (due); wmTimerEvent.
Irq0 ==
    /\ Running
    /\ \/ /\ thread' = Ticked(thread) /\ cpu' = "tsTaskSwitch"
          /\ UNCHANGED <<ev_responder_thread, cause, events>>
       \/ /\ events < MaxEvents /\ events' = events + 1
          /\ PostToDisplayServer(Ticked(thread), "tsTaskSwitch")
    /\ UNCHANGED <<proc, current_thread, currentq, foreground_thread, display, locks>>

\* A keyboard or mouse interrupt whose event goes to the display server.
InputEvent ==
    /\ Running
    /\ events < MaxEvents /\ events' = events + 1
    /\ PostToDisplayServer(thread, "user")
    /\ UNCHANGED <<proc, current_thread, currentq, foreground_thread, display, locks>>

\* tsTaskSwitch, second half of irq0_TIMER: a callback the display server is waiting
\* for replaces the task switch of this tick.
OwnerOf(t) == thread[t].owner
CallbackDue == OwnerOf(current_thread) = ws_pid /\ callback_ready

TsCallback ==
    /\ cpu = "tsTaskSwitch" /\ CallbackDue
    /\ callback_ready' = FALSE
    /\ cpu' = "user"
    /\ UNCHANGED <<thread, proc, switch, display_server, ws_pid, locks, cause, events>>

\* __task_switch: the owner of the current thread is gone.
TsNoProcess ==
    /\ cpu = "tsTaskSwitch" /\ ~CallbackDue
    /\ ~proc[OwnerOf(current_thread)].used
    /\ Halt("current process validation")
    /\ UNCHANGED <<thread, proc, switch, display, locks, events>>

\* The state in which __task_switch goes on: the tick is charged to the thread.
TsEntered == cpu = "tsTaskSwitch" /\ ~CallbackDue /\ proc[OwnerOf(current_thread)].used
Charged ==
    [thread EXCEPT ![current_thread].run = Lower(@ + 1, QMax + QBoost)]

TsLocked ==
    /\ TsEntered /\ taskswitch_locked
    /\ thread' = Charged
    /\ cpu' = "user"
    /\ UNCHANGED <<proc, switch, display, locks, cause, events>>

\* Still in quantum: the thread keeps the processor; a yield or a sleep it asked for
\* uses its quantum up, and the sleep makes it WAITING.
StillInQuantum(me) ==
    LET yields == me.state = "RUNNING" /\ me.yielding
        sleeps == me.state = "RUNNING" /\ me.sleeping > 0
    IN  [me EXCEPT !.run      = IF yields \/ sleeps THEN me.quantum ELSE @,
                   !.yielding = @ /\ ~yields,
                   !.state    = IF sleeps THEN "WAITING" ELSE @,
                   !.wake     = IF sleeps THEN me.sleeping ELSE @,
                   !.sleeping = IF sleeps THEN 0 ELSE @]

InQuantum(tab) == tab[current_thread].run < tab[current_thread].quantum

TsSameThread ==
    /\ TsEntered /\ ~taskswitch_locked /\ InQuantum(Charged)
    /\ thread' = [Charged EXCEPT ![current_thread] =
                        StillInQuantum([@ EXCEPT !.saved = TRUE])]
    /\ cpu' = "user"
    /\ UNCHANGED <<proc, switch, display, locks, cause, events>>

\* __tsOnFinishedExecuting: RUNNING -> READY, context saved.
\* Mutant: the context is saved but the thread is left RUNNING.
PreemptedStillRunning == [Charged EXCEPT ![current_thread].saved = TRUE]
Preempted ==
    [Charged EXCEPT ![current_thread] =
        [@ EXCEPT !.saved = TRUE,
                  !.state = IF thread[current_thread].state = "RUNNING" THEN "READY"
                            ELSE thread[current_thread].state]]

\* schedi_check_for_standby takes the first STANDBY thread ...
\* Mutant: the search does not look at used and magic.
StandbyTidUnchecked(tab) == Least({t \in Tids : tab[t].state = "STANDBY"})
StandbyTid(tab) == Least(InState(tab, "STANDBY"))

\* ... and __spawn_thread_by_tid_imp enters it for the first time.
Spawned(tab, t) ==
    [tab EXCEPT ![t] = [@ EXCEPT !.state = "RUNNING", !.saved = FALSE,
                                 !.exiting = FALSE, !.run = 0, !.next = InitTid]]

TsFinished ==
    /\ TsEntered /\ ~taskswitch_locked /\ ~InQuantum(Charged)
    /\ \/ /\ InState(Preempted, "STANDBY") = {}
          /\ thread' = Preempted
          /\ cpu' = "ZeroGravity"
          /\ UNCHANGED <<current_thread, locks, cause>>
       \/ /\ InState(Preempted, "STANDBY") # {}
          /\ StandbyTid(Preempted) = InitTid
          /\ thread' = Preempted
          /\ Halt("spawn init") /\ UNCHANGED <<current_thread, locks>>
       \/ /\ InState(Preempted, "STANDBY") # {}
          /\ LET t == StandbyTid(Preempted)
             IN  /\ t # InitTid
                 /\ current_thread' = t
                 /\ \/ /\ Preempted[t].saved
                       /\ thread' = Preempted
                       /\ Halt("spawn saved") /\ UNCHANGED locks
                    \/ /\ ~Preempted[t].saved
                       /\ thread' = Spawned(Preempted, t)
                       /\ taskswitch_locked' = FALSE /\ scheduler_locked' = FALSE
                       /\ cpu' = "user" /\ UNCHANGED cause
    /\ UNCHANGED <<proc, currentq, ev_responder_thread, foreground_thread, display, events>>

\* ZeroGravity: choose where the switcher looks next.
EventPending ==
    /\ ev_responder_thread # NoTid
    /\ thread[ev_responder_thread].used
    /\ thread[ev_responder_thread].pending

\* Mutants: the responder keeps its old place in a round; its message stays pending.
ServedKeepsNext(tab, t) ==
    [tab EXCEPT ![t] = [@ EXCEPT !.run = 0, !.quantum = QMax, !.state = "READY",
                                 !.pending = FALSE]]
ServedKeepsPending(tab, t) ==
    [tab EXCEPT ![t] = [@ EXCEPT !.run = 0, !.quantum = QMax, !.state = "READY",
                                 !.next = NoTid]]
ServedResponder(tab, t) ==
    [tab EXCEPT ![t] = [@ EXCEPT !.run = 0, !.quantum = QMax, !.state = "READY",
                                 !.pending = FALSE, !.next = NoTid]]

ZeroGravity ==
    /\ cpu = "ZeroGravity"
    /\ \/ /\ OnlyInit(thread)
          /\ currentq' = InitTid
          /\ UNCHANGED <<thread, current_thread, foreground_thread, display_server>>
       \/ /\ ~OnlyInit(thread) /\ EventPending
          /\ thread' = ServedResponder(thread, ev_responder_thread)
          /\ currentq' = ev_responder_thread
          /\ UNCHANGED <<current_thread, foreground_thread, display_server>>
       \/ /\ ~OnlyInit(thread) /\ ~EventPending
          /\ thread[currentq].next = NoTid
          /\ \E stray \in StrayReads : psScheduler(thread, stray)
       \/ /\ ~OnlyInit(thread) /\ ~EventPending
          /\ thread[currentq].next # NoTid
          /\ currentq' = thread[currentq].next
          /\ UNCHANGED <<thread, current_thread, foreground_thread, display_server>>
    /\ cpu' = "go_ahead"
    /\ UNCHANGED <<proc, ev_responder_thread, ws_pid, callback_ready, locks, cause, events>>

\* go_ahead: a target that cannot run starts another round; otherwise it is dispatched.
Runnable(t) == thread[t].used /\ thread[t].state = "READY"

Retry ==
    /\ cpu = "go_ahead" /\ ~Runnable(currentq)
    /\ \E stray \in StrayReads : psScheduler(thread, stray)
    /\ cpu' = "ZeroGravity"
    /\ UNCHANGED <<proc, ev_responder_thread, ws_pid, callback_ready, locks, cause, events>>

DispatchCurrent ==
    /\ cpu = "go_ahead" /\ Runnable(currentq)
    /\ current_thread' = currentq
    /\ thread' = Dispatched([thread EXCEPT ![currentq].quantum = Lower(@, QMax)], currentq)
    /\ \/ /\ proc[OwnerOf(currentq)].used
          /\ cpu' = "user" /\ UNCHANGED cause
       \/ /\ ~proc[OwnerOf(currentq)].used
          /\ Halt("target process")
    /\ UNCHANGED <<proc, currentq, ev_responder_thread, foreground_thread, display,
                   locks, events>>

\* x64_all_faults (divide, general protection, page fault): the thread on the
\* processor and its process are destroyed and the init thread is dispatched.
Protected(t) ==
    \/ t = InitTid \/ OwnerOf(t) = InitPid
    \/ ~proc[OwnerOf(t)].used

Destroyed(tab, t) == [tab EXCEPT ![t].used = FALSE]

Fault ==
    /\ Running
    /\ "fault" \in (IF current_thread = InitTid THEN InitServices ELSE UserServices)
    /\ \/ /\ Protected(current_thread)
          /\ Halt("faulty process is protected")
          /\ UNCHANGED <<thread, proc, current_thread>>
       \/ /\ ~Protected(current_thread)
          /\ proc' = [proc EXCEPT ![OwnerOf(current_thread)].used = FALSE]
          /\ current_thread' = InitTid
          /\ \/ /\ thread[InitTid].state # "READY"
                /\ thread' = Destroyed(thread, current_thread)
                /\ Halt("init not ready")
             \/ /\ thread[InitTid].state = "READY"
                /\ thread' = Dispatched(Destroyed(thread, current_thread), InitTid)
                /\ UNCHANGED <<cpu, cause>>
    /\ UNCHANGED <<currentq, ev_responder_thread, foreground_thread, display, locks, events>>

----------------------------------------------------------------------------
(* Services the thread on the processor calls.  The names in InitServices  *)
(* and UserServices are the classes of calls its program makes.            *)

Calls(service) ==
    /\ Running
    /\ proc[OwnerOf(current_thread)].used
    /\ service \in (IF current_thread = InitTid THEN InitServices ELSE UserServices)

Me == current_thread

\* sci0, sci1, sci2: every service first looks at the process of its caller, which is
\* gone when a thread was started after a fault destroyed its process.
sci_validation ==
    /\ Running
    /\ ~proc[OwnerOf(current_thread)].used
    /\ Halt("caller process")
    /\ UNCHANGED <<thread, proc, switch, display, locks, events>>

sys_yield ==
    /\ Calls("yield")
    /\ thread' = [thread EXCEPT ![Me].yielding = TRUE]
    /\ UNCHANGED <<proc, switch, display, locks, cpu, cause, events>>

sys_sleep ==
    /\ Calls("sleep")
    /\ \E ms \in 1..MaxSleep : thread' = [thread EXCEPT ![Me].sleeping = ms]
    /\ UNCHANGED <<proc, switch, display, locks, cpu, cause, events>>

\* sys_broken_vessels: one more tick, up to QUANTUM_MAX.
\* Mutant: the quantum is not held at QUANTUM_MAX.
BrokenVesselsUnbounded ==
    /\ Calls("broken vessels")
    /\ thread' = [thread EXCEPT ![Me].quantum = @ + 1]
    /\ UNCHANGED <<proc, switch, display, locks, cpu, cause, events>>
sys_broken_vessels ==
    /\ Calls("broken vessels")
    /\ thread' = [thread EXCEPT ![Me].quantum = Lower(@ + 1, QMax)]
    /\ UNCHANGED <<proc, switch, display, locks, cpu, cause, events>>

\* sys_exit_thread takes any tid.  Asking for the idle thread stops the kernel; a
\* tid that names no thread is refused.
sys_exit_thread ==
    /\ \/ /\ Calls("exit") /\ Me # InitTid
          /\ thread' = [thread EXCEPT ![Me].exiting = TRUE]
          /\ UNCHANGED <<cpu, cause>>
       \/ /\ Calls("exit other")
          /\ \E t \in (UserTids \cap Used(thread)) \ {Me} :
                thread' = [thread EXCEPT ![t].exiting = TRUE]
          /\ UNCHANGED <<cpu, cause>>
       \/ /\ Calls("exit idle")
          /\ Halt("exit idle") /\ UNCHANGED thread
    /\ UNCHANGED <<proc, switch, display, locks, events>>

\* SCI_EXIT, the exit of a process, marks its control thread only.
sci_exit ==
    /\ Calls("exit process")
    /\ LET control == proc[OwnerOf(Me)].control
       IN  thread' = IF control \in Used(thread)
                     THEN [thread EXCEPT ![control].exiting = TRUE] ELSE thread
    /\ UNCHANGED <<proc, switch, display, locks, cpu, cause, events>>

\* do_waitpid blocks the control thread of the caller's process at once, whatever its
\* children do.
do_waitpid ==
    /\ Calls("wait")
    /\ thread' = [thread EXCEPT ![proc[OwnerOf(Me)].control].state = "BLOCKED"]
    /\ UNCHANGED <<proc, switch, display, locks, cpu, cause, events>>

\* do_credits: taking a message and the socket services credit their caller.
do_credits ==
    /\ Calls("credits")
    /\ thread' = [thread EXCEPT ![Me].credits = Lower(@ + 1, 2)]
    /\ UNCHANGED <<proc, switch, display, locks, cpu, cause, events>>

\* sys_create_thread: the first free slot, for the caller's process.
sys_create_thread ==
    /\ \/ /\ Calls("create") /\ FreeTids # {}
          /\ thread' = [thread EXCEPT ![Least(FreeTids)] = NewThread(OwnerOf(Me))]
          /\ UNCHANGED <<cpu, cause>>
       \/ /\ Calls("create when full") /\ FreeTids = {}
          /\ Halt("no more slots") /\ UNCHANGED thread
    /\ UNCHANGED <<proc, switch, display, locks, events>>

\* core_start_thread: the caller hands in a thread of its own and only used and
\* magic are looked at.
core_start_thread ==
    /\ \E t \in Used(thread) :
        /\ \/ Calls("start") /\ thread[t].state = "INITIALIZED"
           \/ Calls("start again") /\ thread[t].state # "INITIALIZED"
        /\ thread[t].owner = OwnerOf(Me)
        /\ thread' = [thread EXCEPT ![t].state = "STANDBY"]
    /\ UNCHANGED <<proc, switch, display, locks, cpu, cause, events>>

\* copy_process (clone.c): only the control thread of a process may call it.  The
\* child is built BLOCKED; when its image loads it becomes STANDBY, and when the
\* image does not load the half-built thread and process stay in their tables.  With
\* no process slot left it fails; with no thread slot left create_thread stops the
\* kernel, the new process already in its table.
\* (The init program unlocks the scheduler before its first clone, init/main.c:1071.)
\* Mutant: the child inherits the saved flag of its parent.
CloneKeepsSaved(pid, loaded) ==
    [NewThread(pid) EXCEPT !.state = IF loaded THEN "STANDBY" ELSE "BLOCKED",
                           !.saved = thread[Me].saved, !.quantum = Q4]
CloneThread(pid, loaded) ==
    IF loaded
    THEN [NewThread(pid) EXCEPT !.state = "STANDBY", !.quantum = Q4]
    ELSE [NewThread(pid) EXCEPT !.state = "BLOCKED", !.saved = thread[Me].saved,
                                !.quantum = Lower(thread[Me].quantum, QMax)]

CloneParent(tab, loaded) ==
    [tab EXCEPT ![Me] = [@ EXCEPT !.state = "RUNNING",
                                  !.quantum = IF loaded THEN Q4 ELSE tab[Me].quantum]]

copy_process ==
    /\ \/ Calls("clone")
       \/ Calls("clone once unlocked") /\ ~taskswitch_locked /\ ~scheduler_locked
    /\ LET control == proc[OwnerOf(Me)].control
       IN  \/ /\ Me # control
             /\ thread' = [thread EXCEPT ![control].state = "RUNNING"]
             /\ Halt("clone by secondary thread") /\ UNCHANGED proc
          \/ /\ Me = control /\ FreePids = {}
             /\ thread' = CloneParent(thread, FALSE)
             /\ UNCHANGED <<proc, cpu, cause>>
          \/ /\ Me = control /\ FreePids # {} /\ FreeTids = {}
             /\ thread' = CloneParent(thread, FALSE)
             /\ proc' = [proc EXCEPT ![Least(FreePids)].used = TRUE]
             /\ Halt("no more slots")
          \/ /\ Me = control /\ FreePids # {} /\ FreeTids # {}
             /\ \E loaded \in BOOLEAN :
                    LET child == Least(FreeTids)
                        pid   == Least(FreePids)
                    IN  /\ thread' = [CloneParent(thread, loaded) EXCEPT
                                        ![child] = CloneThread(pid, loaded)]
                        /\ proc' = [proc EXCEPT ![pid] = [used |-> TRUE, control |-> child]]
             /\ UNCHANGED <<cpu, cause>>
    /\ UNCHANGED <<switch, display, locks, events>>

\* sys_post_message_to_tid: a tid without a thread stops the kernel.
sys_post_message_to_tid ==
    /\ events < MaxEvents /\ events' = events + 1
    /\ \E t \in Tids :
        \/ /\ Calls("post") /\ thread[t].used
           /\ thread' = Posted(thread, t)
           /\ ev_responder_thread' = t
           /\ UNCHANGED <<cpu, cause>>
        \/ /\ Calls("post to dead") /\ ~thread[t].used
           /\ Halt("post to invalid thread")
           /\ UNCHANGED <<thread, ev_responder_thread>>
    /\ UNCHANGED <<proc, current_thread, currentq, foreground_thread, display, locks>>

\* sys_broadcast_system_message: every thread in the table; the last one posted to
\* stays the event responder.
sys_broadcast_system_message ==
    /\ Calls("broadcast")
    /\ events < MaxEvents /\ events' = events + 1
    /\ thread' = Broadcast(thread, Used(thread))
    /\ \E last \in Used(thread) :
        /\ \A t \in Used(thread) : t <= last
        /\ ev_responder_thread' = last
    /\ UNCHANGED <<proc, current_thread, currentq, foreground_thread, display, locks,
                   cpu, cause>>

\* Services 640..643: init locks and unlocks the task switcher and the scheduler.
taskswitch_lock ==
    /\ Calls("lock") /\ Me = InitTid
    /\ taskswitch_locked' = TRUE
    /\ UNCHANGED <<thread, proc, switch, display, scheduler_locked, cpu, cause, events>>

scheduler_lock ==
    /\ Calls("lock") /\ Me = InitTid
    /\ scheduler_locked' = TRUE
    /\ UNCHANGED <<thread, proc, switch, display, taskswitch_locked, cpu, cause, events>>

taskswitch_unlock ==
    /\ Calls("unlock") /\ Me = InitTid
    /\ taskswitch_locked' = FALSE
    /\ UNCHANGED <<thread, proc, switch, display, scheduler_locked, cpu, cause, events>>

scheduler_unlock ==
    /\ Calls("unlock") /\ Me = InitTid
    /\ scheduler_locked' = FALSE
    /\ UNCHANGED <<thread, proc, switch, display, taskswitch_locked, cpu, cause, events>>

\* Services 10011 and 10012: choose the foreground thread, or none.  The two
\* do_credits calls of 10011 pass the tid where a pointer is expected and credit
\* no thread.
set_foreground ==
    /\ Calls("foreground")
    /\ \E t \in InState(thread, "RUNNING") \cup InState(thread, "READY") :
        \/ /\ foreground_thread' = t
           /\ thread' = [thread EXCEPT ![t].quantum = QMax + QBoost]
        \/ /\ foreground_thread = t /\ foreground_thread' = NoTid
           /\ UNCHANGED thread
    /\ UNCHANGED <<proc, current_thread, currentq, ev_responder_thread, display, locks,
                   cpu, cause, events>>

\* network_register_ring3_display_server: the control thread of the caller's process
\* becomes the display server.
register_display_server ==
    /\ Calls("display server")
    /\ ws_pid' = OwnerOf(Me)
    /\ \/ /\ display_server # NoTid
          /\ Halt("second display server") /\ UNCHANGED <<display_server, thread>>
       \/ /\ display_server = NoTid
          /\ LET c == proc[OwnerOf(Me)].control
             IN  \/ /\ thread[c].used
                   /\ display_server' = c
                   /\ thread' = [thread EXCEPT ![c].quantum = QMax]
                \/ (~thread[c].used /\ UNCHANGED <<display_server, thread>>)
          /\ UNCHANGED <<cpu, cause>>
    /\ UNCHANGED <<proc, switch, callback_ready, locks, events>>

\* Service 44000: the display server asks for a callback at its next tick.
setup_callback ==
    /\ Calls("callback")
    /\ \/ /\ OwnerOf(Me) # ws_pid
          /\ Halt("callback for another process") /\ UNCHANGED callback_ready
       \/ /\ OwnerOf(Me) = ws_pid /\ callback_ready
          /\ Halt("callback called again") /\ UNCHANGED callback_ready
       \/ /\ OwnerOf(Me) = ws_pid /\ ~callback_ready
          /\ callback_ready' = TRUE /\ UNCHANGED <<cpu, cause>>
    /\ UNCHANGED <<thread, proc, switch, display_server, ws_pid, locks, events>>

----------------------------------------------------------------------------

TimerStep ==
    \/ Irq0 \/ TsCallback \/ TsNoProcess \/ TsLocked \/ TsSameThread \/ TsFinished
    \/ ZeroGravity \/ Retry \/ DispatchCurrent

Service ==
    \/ sci_validation
    \/ sys_yield \/ sys_sleep \/ sys_broken_vessels \/ do_credits
    \/ sci_exit \/ do_waitpid \/ sys_exit_thread \/ sys_create_thread
    \/ core_start_thread \/ copy_process
    \/ sys_post_message_to_tid \/ sys_broadcast_system_message
    \/ taskswitch_lock \/ scheduler_lock \/ taskswitch_unlock \/ scheduler_unlock
    \/ set_foreground \/ register_display_server \/ setup_callback

\* A stopped kernel stays stopped.
Halted == cpu = "halted" /\ UNCHANGED vars

Next == TimerStep \/ InputEvent \/ Fault \/ Service \/ Halted

Spec == Init /\ [][Next]_vars

\* The timer keeps interrupting and an interrupt handler keeps running.  Init unlocks
\* the switcher and the scheduler at the start of its program (init/main.c:1071);
\* ticks interrupt it, so that it gets there needs strong fairness.
Fairness ==
    /\ WF_vars(TimerStep)
    /\ SF_vars(taskswitch_unlock)
    /\ SF_vars(scheduler_unlock)

FairSpec == Spec /\ Fairness

----------------------------------------------------------------------------
(* Properties.                                                             *)

\* Every field of every thread and process stays in its range, and the switcher's
\* pointers name slots of the table.
TypeOK ==
    /\ thread \in [Tids -> Thread]
    /\ proc \in [Pids -> Process]
    /\ current_thread \in Tids \cup {NoTid}
    /\ currentq \in Tids
    /\ ev_responder_thread \in Tids \cup {NoTid}
    /\ foreground_thread \in Tids \cup {NoTid}
    /\ display_server \in Tids \cup {NoTid}
    /\ ws_pid \in Pids \cup {-1}
    /\ callback_ready \in BOOLEAN
    /\ taskswitch_locked \in BOOLEAN /\ scheduler_locked \in BOOLEAN
    /\ cpu \in {"user", "tsTaskSwitch", "ZeroGravity", "go_ahead", "halted"}
    /\ cause \in Causes
    /\ events \in 0..MaxEvents

\* A thread is in state RUNNING only while it is the thread on the processor: the
\* switcher never leaves two threads RUNNING, and none while it is choosing.
OneRunning ==
    \A t \in Tids :
        thread[t].used /\ thread[t].state = "RUNNING" /\ cpu # "halted"
            => t = current_thread /\ cpu \in {"user", "tsTaskSwitch"}

\* The thread on the processor is a live structure whenever a tick can hit it, so the
\* "CurrentThread validation" panic of __task_switch cannot happen.
CurrentIsValid ==
    cpu \in {"user", "tsTaskSwitch"} =>
        current_thread \in Tids /\ thread[current_thread].used

\* The switcher walks a round in ascending tid order and never turns back inside it,
\* so no thread gets two turns of one round: spawn, faults and messages in the middle
\* of a round must not bend the list (ts.c:601-613 follows next blindly).
RoundGoesForward ==
    LET n == thread[currentq].next IN n = NoTid \/ n > currentq

\* A destroyed thread never comes back: no step gives its slot to another thread or
\* makes the structure valid again, so an old tid cannot name a new thread.
DestroyedStaysDestroyed ==
    [][\A t \in Tids : thread[t].state # "FREE" /\ ~thread[t].used
            => ~thread'[t].used]_vars

\* No panic and no die() is reached by sound programs, whatever the interleaving of
\* ticks, services, messages and faults: the one thing that stops the kernel is a clone
\* that finds every thread slot taken (create_thread, thread.c:1376).
StopsOnlyWhenFull ==
    cpu = "halted" => cause = "no more slots" /\ FreeTids = {}

\* The timer handler returns: the ZeroGravity / go_ahead loop of __task_switch finds
\* a READY thread.
SwitchEnds == cpu # "user" ~> cpu \in {"user", "halted"}

\* A READY thread gets the processor, or leaves the table, whatever its tid: rounds
\* cut short by messages and restarted from the head do not starve it.
NoStarvation ==
    \A t \in Tids :
        (thread[t].used /\ thread[t].state = "READY")
            ~> (~thread[t].used \/ thread[t].state \in {"RUNNING", "ZOMBIE"} \/ cpu = "halted")

\* A sleeping thread does not sleep for ever.
SleepersWake ==
    \A t \in UserTids :
        (thread[t].used /\ thread[t].state = "WAITING")
            ~> (~thread[t].used \/ thread[t].state # "WAITING" \/ cpu = "halted")

----------------------------------------------------------------------------
(* What comments of the code say and the code does not do.                 *)

\* sched.c:429 "Wake up init thread.": the scheduler wakes a sleeping init thread.
InitWakes ==
    thread[InitTid].state = "WAITING" ~> (thread[InitTid].state # "WAITING" \/ cpu = "halted")

\* thread.c:740 "Outra rotina destruira as informacoes de uma estrutura de thread
\* zombie": a ZOMBIE thread is destroyed in the end.
ZombieIsDestroyed ==
    \A t \in UserTids :
        (thread[t].used /\ thread[t].state = "ZOMBIE") ~> (~thread[t].used \/ cpu = "halted")
=============================================================================
