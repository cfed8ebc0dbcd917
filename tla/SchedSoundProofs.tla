-------------------------- MODULE SchedSoundProofs --------------------------
(***************************************************************************)
(* What can stop the kernel when its programs are sound: only a clone that *)
(* finds no thread slot.                                                   *)
(*                                                                         *)
(* Each panic of the thread core has a condition; SoundInv is what makes   *)
(* all of them false.  A thread in use owns its process alone and is its   *)
(* control thread (so a fault never leaves a thread without a process, and *)
(* clone is always called by the control thread), a thread that waits for  *)
(* its first run was never saved, the init thread is READY or RUNNING (so  *)
(* a fault can fall back on it), and there is no display server.           *)
(***************************************************************************)
EXTENDS SchedRoundProofs

\* Sound programs: no second thread in a process, no thread started twice, no message
\* to a tid without a thread, no exit of the idle thread and no display server; the init
\* program, which is the idle thread, does not sleep, wait or fault.
SoundPrograms ==
    LET unsound == {"create", "create when full", "start again", "exit idle",
                    "post to dead", "display server", "callback"}
    IN  /\ UserServices \cap unsound = {}
        /\ InitServices \cap (unsound \cup {"sleep", "wait", "fault"}) = {}

\* Every thread in use is the control thread of a process in use.
OwnsProcess ==
    \A t \in Tids : thread[t].used =>
        proc[thread[t].owner].used /\ proc[thread[t].owner].control = t

\* A thread in use was started, and one that has not run yet was not saved either.
Started ==
    \A t \in Tids : thread[t].used =>
        /\ thread[t].state \notin {"FREE", "INITIALIZED"}
        /\ thread[t].state = "STANDBY" => ~thread[t].saved

\* The init thread can be dispatched at any time.
InitIsIdle == thread[InitTid].owner = InitPid /\ Idle(thread[InitTid])

NoDisplayServer == display_server = NoTid /\ ~callback_ready

\* The thread on the processor has had its first run.
CurrentStarted ==
    cpu \in {"user", "tsTaskSwitch"} => thread[current_thread].state # "STANDBY"

SoundInv ==
    /\ cpu # "halted"
    /\ OwnsProcess /\ Started /\ InitIsIdle /\ NoDisplayServer /\ CurrentStarted

Full == cpu = "halted" /\ cause = "no more slots" /\ FreeTids = {}

\* The inductive invariant.
KInv == SoundInv \/ Full

----------------------------------------------------------------------------

\* A step that keeps the processes and goes on with every thread.
LEMMA KinSound ==
    ASSUME IInv, SoundInv, NEW S, Kin(thread, thread', S), IdleKept(thread, thread'),
           \A s \in S : s \in Tids => thread[s].state \notin Fresh,
           proc' = proc, display_server' = NoTid, ~callback_ready',
           cpu' # "halted",
           cpu' \in {"user", "tsTaskSwitch"} => thread'[current_thread'].state # "STANDBY"
    PROVE  SoundInv'
<1>1. OwnsProcess'
    BY DEF SoundInv, OwnsProcess, Kin
<1>2. Started'
    BY DEF SoundInv, Started, Kin, Fresh
<1>3. InitIsIdle'
    BY TidFacts DEF SoundInv, InitIsIdle, Kin, IdleKept
<1>4. NoDisplayServer' /\ CurrentStarted'
    BY DEF NoDisplayServer, CurrentStarted
<1> QED BY <1>1, <1>2, <1>3, <1>4 DEF SoundInv

\* What the actions of the thread on the processor may assume.
LEMMA CurrentFacts ==
    ASSUME IInv, SoundInv, cpu \in {"user", "tsTaskSwitch"}
    PROVE  /\ thread \in Table /\ current_thread \in Tids /\ Me = current_thread
           /\ thread[current_thread].used /\ thread[current_thread].state \notin Fresh
           /\ OwnerOf(current_thread) \in Pids
           /\ proc[OwnerOf(current_thread)].used
           /\ proc[OwnerOf(current_thread)].control = current_thread
<1>1. /\ thread \in Table /\ current_thread \in Tids /\ thread[current_thread].used
      /\ Me = current_thread /\ OwnerOf(current_thread) \in Pids
    BY UserFacts
<1>2. thread[current_thread].state \notin Fresh
    BY <1>1 DEF SoundInv, Started, CurrentStarted, Fresh
<1> QED BY <1>1, <1>2 DEF SoundInv, OwnsProcess, OwnerOf

\* The steps that go on with the same thread on the processor.
LEMMA OnwardSound ==
    ASSUME IInv, SoundInv, cpu \in {"user", "tsTaskSwitch"},
           Kin(thread, thread', {current_thread}), IdleKept(thread, thread'),
           proc' = proc, display_server' = display_server, callback_ready' = callback_ready,
           current_thread' = current_thread, cpu' # "halted"
    PROVE  SoundInv'
<1>1. current_thread \in Tids /\ thread[current_thread].state \notin Fresh
    BY CurrentFacts
<1>2. thread'[current_thread'].state # "STANDBY"
    BY <1>1 DEF Kin, Fresh
<1>3. display_server' = NoTid /\ ~callback_ready'
    BY DEF SoundInv, NoDisplayServer
<1>4. \A s \in {current_thread} : s \in Tids => thread[s].state \notin Fresh
    BY <1>1
<1>5. cpu' \in {"user", "tsTaskSwitch"} => thread'[current_thread'].state # "STANDBY"
    BY <1>2
<1> QED BY <1>3, <1>4, <1>5, KinSound

\* The boot state: the init thread owns the init process.
LEMMA InitSound == Init => SoundInv
<1> SUFFICES ASSUME Init PROVE SoundInv
    OBVIOUS
<1>1. thread[InitTid] = InitThread /\ \A t \in Tids \ {InitTid} : ~thread[t].used
    BY TidFacts DEF Init, FreeSlot, InitThread
<1>2. proc[InitPid].used /\ proc[InitPid].control = InitTid
    BY TidFacts DEF Init
<1>3. OwnsProcess
    BY <1>1, <1>2 DEF OwnsProcess, InitThread
<1>4. Started
    BY <1>1 DEF Started, InitThread
<1>5. InitIsIdle
    BY <1>1 DEF InitIsIdle, InitThread, Idle
<1>6. CurrentStarted
    BY <1>1 DEF Init, CurrentStarted, InitThread
<1> QED BY <1>3, <1>4, <1>5, <1>6 DEF Init, SoundInv, NoDisplayServer

----------------------------------------------------------------------------
(* Interrupts.                                                             *)

\* Without a display server the timer and input interrupts post nothing.
LEMMA InterruptSound ==
    ASSUME IInv, SoundInv, Irq0 \/ InputEvent
    PROVE  SoundInv'
<1>1. Onward(thread, thread', {current_thread})
    BY Irq0Onward, InputEventOnward
<1>2. cpu = "user" /\ cpu' # "halted"
    BY DEF Irq0, InputEvent, Running, PostToDisplayServer, SoundInv, NoDisplayServer
<1>3. /\ proc' = proc /\ display_server' = display_server /\ callback_ready' = callback_ready
      /\ current_thread' = current_thread
    BY DEF Irq0, InputEvent, display
<1> QED BY <1>1, <1>2, <1>3, OnwardSound DEF Onward

\* A tick that leaves the processor to the thread it interrupted.
LEMMA TickSound ==
    ASSUME IInv, SoundInv, TsCallback \/ TsNoProcess \/ TsLocked \/ TsSameThread
    PROVE  SoundInv'
<1>0. cpu = "tsTaskSwitch"
    BY DEF TsCallback, TsNoProcess, TsLocked, TsSameThread, TsEntered
<1>1. ~TsCallback /\ ~TsNoProcess
    BY <1>0, CurrentFacts DEF TsCallback, TsNoProcess, CallbackDue, SoundInv, NoDisplayServer
<1>2. Onward(thread, thread', {current_thread})
    BY <1>1, TsLockedOnward, TsSameThreadOnward
<1>3. /\ proc' = proc /\ display_server' = display_server /\ callback_ready' = callback_ready
      /\ current_thread' = current_thread /\ cpu' # "halted"
    BY <1>1 DEF TsLocked, TsSameThread, switch, display
<1> QED BY <1>0, <1>2, <1>3, OnwardSound DEF Onward

\* The end of a turn: whoever is STANDBY is not the init thread and was never saved.
LEMMA TsFinishedSound ==
    ASSUME IInv, SoundInv, TsFinished
    PROVE  SoundInv'
<1> DEFINE s == StandbyTid(Preempted)
           c == current_thread
<1>0. cpu = "tsTaskSwitch" /\ thread \in Table /\ c \in Tids /\ thread[c].state \notin Fresh
    BY CurrentFacts DEF TsFinished, TsEntered
<1>1. Onward(thread, Preempted, {c}) /\ Preempted \in Table
    BY <1>0, PreemptedOnward, PreemptedStep DEF Step
<1>2. /\ proc' = proc /\ display_server' = NoTid /\ ~callback_ready'
    BY DEF TsFinished, display, SoundInv, NoDisplayServer
<1>n. \A u \in {c} : u \in Tids => thread[u].state \notin Fresh
    BY <1>0
<1>3. CASE thread' = Preempted /\ cpu' = "ZeroGravity"
  <2>1. Kin(thread, thread', {c}) /\ IdleKept(thread, thread')
    BY <1>1, <1>3 DEF Onward
  <2>2. cpu' # "halted" /\ ~(cpu' \in {"user", "tsTaskSwitch"})
    BY <1>3
  <2> QED BY <1>2, <1>n, <2>1, <2>2, KinSound
<1>4. CASE InState(Preempted, "STANDBY") # {}
  <2>1. s \in Tids /\ Preempted[s].used /\ Preempted[s].state = "STANDBY"
    <3>1. InState(Preempted, "STANDBY") \in SUBSET Nat
        BY TidFacts DEF InState, Used
    <3>2. s \in InState(Preempted, "STANDBY")
        BY <1>4, <3>1, LeastInSet DEF StandbyTid
    <3> QED BY <3>2 DEF InState, Used
  <2> HIDE DEF s
  <2>2. thread[s].used /\ thread[s].state = "STANDBY" /\ s # c
        /\ Preempted[s].saved = thread[s].saved
    BY <1>0, <1>1, <2>1 DEF Onward, Kin, Fresh
  <2>3. s # InitTid
    BY <2>2 DEF SoundInv, InitIsIdle, Idle
  <2>4. ~Preempted[s].saved
    BY <2>1, <2>2 DEF SoundInv, Started
  <2>5. /\ thread' = Spawned(Preempted, s) /\ current_thread' = s /\ cpu' = "user"
    BY <1>4, <2>3, <2>4 DEF TsFinished, s
  <2>6. /\ thread'[s].state = "RUNNING" /\ thread'[s].owner = Preempted[s].owner
        /\ thread'[s].used = Preempted[s].used
        /\ \A u \in Tids \ {s} : thread'[u] = Preempted[u]
    BY <1>1, <2>1, <2>5 DEF Spawned, Table, Thread
  <2>7. Kin(thread, thread', {c})
    BY <1>1, <2>1, <2>6 DEF Onward, Kin, Fresh
  <2>8. IdleKept(thread, thread')
    BY <1>1, <2>3, <2>6, TidFacts DEF Onward, IdleKept
  <2>9. cpu' # "halted" /\ thread'[current_thread'].state # "STANDBY"
    BY <2>5, <2>6
  <2> QED BY <1>2, <1>n, <2>7, <2>8, <2>9, KinSound
<1> QED BY <1>3, <1>4 DEF TsFinished

\* psScheduler finds nobody to forget: the display server stays absent.
LEMMA psSchedulerSound ==
    ASSUME IInv, SoundInv, NEW stray \in StrayReads, psScheduler(thread, stray),
           proc' = proc, callback_ready' = callback_ready,
           cpu' \in {"ZeroGravity", "go_ahead"}
    PROVE  SoundInv'
<1> DEFINE woken == StrayWoken(thread, stray)
<1>0. thread \in Table /\ stray \in Tids \cup {NoTid}
    BY StrayAssumption DEF IInv, TypeOK, Table
<1>1. Onward(thread, woken, {}) /\ Step(thread, woken, {})
    BY <1>0, StrayOnward, StrayStep
<1>2. woken \in Table
    BY <1>1 DEF Step
<1>3. thread' \in {thread, Round(woken)} /\ display_server' \in {display_server, NoTid}
    BY DEF psScheduler
<1> HIDE DEF woken
<1>4. Kin(woken, Round(woken), {}) /\ IdleKept(woken, Round(woken))
    BY <1>2, RoundKin
<1>5. Kin(thread, Round(woken), {}) /\ IdleKept(thread, Round(woken))
    BY <1>1, <1>4 DEF Onward, Kin, IdleKept
<1>6. Kin(thread, thread', {}) /\ IdleKept(thread, thread')
    BY <1>3, <1>5, OnwardRefl DEF Onward
<1>7. display_server' = NoTid /\ ~callback_ready'
    BY <1>3 DEF SoundInv, NoDisplayServer
<1>8. cpu' # "halted" /\ ~(cpu' \in {"user", "tsTaskSwitch"})
    OBVIOUS
<1> QED BY <1>6, <1>7, <1>8, KinSound

\* Choosing the next thread.
LEMMA ChooseSound ==
    ASSUME IInv, SoundInv, ZeroGravity \/ Retry
    PROVE  SoundInv'
<1>0. /\ proc' = proc /\ callback_ready' = callback_ready
      /\ cpu' \in {"ZeroGravity", "go_ahead"}
    BY DEF ZeroGravity, Retry
<1>1. CASE \E stray \in StrayReads : psScheduler(thread, stray)
    BY <1>0, <1>1, psSchedulerSound
<1>2. CASE /\ Kin(thread, thread', {}) /\ IdleKept(thread, thread')
           /\ display_server' = display_server
  <2>1. display_server' = NoTid /\ ~callback_ready'
    BY <1>0, <1>2 DEF SoundInv, NoDisplayServer
  <2>2. cpu' # "halted" /\ ~(cpu' \in {"user", "tsTaskSwitch"})
    BY <1>0
  <2> QED BY <1>0, <1>2, <2>1, <2>2, KinSound
<1>3. CASE /\ ~OnlyInit(thread) /\ EventPending
           /\ thread' = ServedResponder(thread, ev_responder_thread)
           /\ display_server' = display_server
  <2>1. thread \in Table /\ ev_responder_thread \in Tids
    BY <1>3 DEF IInv, TypeOK, Table, EventPending
  <2>2. Kin(thread, thread', {}) /\ IdleKept(thread, thread')
    BY <1>3, <2>1, ServedKin
  <2> QED BY <1>2, <1>3, <2>2
<1>4. CASE thread' = thread /\ display_server' = display_server
  <2>1. Onward(thread, thread', {})
    BY <1>4, OnwardRefl
  <2> QED BY <1>2, <1>4, <2>1 DEF Onward
<1>5. CASE Retry
    BY <1>1, <1>5 DEF Retry
<1>6. CASE ZeroGravity
    BY <1>1, <1>3, <1>4, <1>6 DEF ZeroGravity
<1> QED BY <1>5, <1>6

\* The process of a dispatched thread is in use.
LEMMA DispatchSound ==
    ASSUME IInv, SoundInv, DispatchCurrent
    PROVE  SoundInv'
<1>1. Onward(thread, thread', {}) /\ thread'[currentq].state = "RUNNING"
    BY DispatchCurrentOnward
<1>2. proc[OwnerOf(currentq)].used
    BY DEF DispatchCurrent, Runnable, SoundInv, OwnsProcess, OwnerOf, IInv, TypeOK
<1>3. /\ proc' = proc /\ display_server' = NoTid /\ ~callback_ready'
      /\ current_thread' = currentq /\ cpu' = "user"
    BY <1>2 DEF DispatchCurrent, display, SoundInv, NoDisplayServer
<1>4. Kin(thread, thread', {}) /\ IdleKept(thread, thread')
    BY <1>1 DEF Onward
<1>5. cpu' # "halted" /\ thread'[current_thread'].state # "STANDBY"
    BY <1>1, <1>3
<1> QED BY <1>3, <1>4, <1>5, KinSound

\* A fault destroys a thread together with its process, which no other thread has, and
\* the init thread is READY because it is not the one RUNNING.
LEMMA FaultSound ==
    ASSUME SoundPrograms, IInv, SoundInv, Fault
    PROVE  SoundInv'
<1> DEFINE c == current_thread
           p == OwnerOf(c)
           tab == Destroyed(thread, c)
<1>0. /\ cpu = "user" /\ thread \in Table /\ c \in Tids /\ thread[c].used
      /\ thread[c].state \notin Fresh /\ p \in Pids /\ proc[p].used /\ proc[p].control = c
    BY CurrentFacts DEF Fault, Running
<1>1. c # InitTid
    BY DEF Fault, SoundPrograms
<1>2. p # InitPid
  <2>1. proc[InitPid].control = InitTid
    BY TidFacts DEF IInv, InitAlive, SoundInv, InitIsIdle, OwnsProcess
  <2> QED BY <1>0, <1>1, <2>1
<1>3. ~Protected(c)
    BY <1>0, <1>1, <1>2 DEF Protected
<1>4. thread[InitTid].state = "READY"
  <2>1. thread[InitTid].used /\ thread[InitTid].state \in {"READY", "RUNNING"}
    BY DEF IInv, InitAlive, SoundInv, InitIsIdle, Idle
  <2>2. thread[InitTid].state # "RUNNING"
    BY <1>0, <1>1, <2>1, TidFacts DEF IInv, OneRunning
  <2> QED BY <2>1, <2>2
<1>5. /\ proc' = [proc EXCEPT ![p].used = FALSE] /\ current_thread' = InitTid
      /\ thread' = Dispatched(tab, InitTid) /\ cpu' = cpu
      /\ display_server' = display_server /\ callback_ready' = callback_ready
    BY <1>3, <1>4 DEF Fault, display
<1>6. tab \in Table /\ ~tab[c].used
  <2> DEFINE r == [thread[c] EXCEPT !.used = FALSE]
  <2>1. tab = [thread EXCEPT ![c] = r] /\ thread[c] \in Thread
    BY <1>0 DEF Destroyed, Table
  <2>2. r \in Thread /\ ~r.used
    BY <2>1, SetUsed
  <2> HIDE DEF r, tab
  <2> QED BY <1>0, <2>1, <2>2 DEF Table
<1>7. Onward(thread, thread', {c})
    BY FaultOnward
<1>8. thread'[InitTid].state = "RUNNING" /\ \A u \in Tids : thread'[u].used = tab[u].used
  <2>1. Step(tab, thread', {InitTid})
    BY <1>5, <1>6, TidFacts, DispatchedStep
  <2> QED BY <1>5, <1>6, <2>1, TidFacts, DispatchedOnward DEF Step
<1> HIDE DEF tab
<1>9. \A t \in Tids : thread'[t].used =>
            thread[t].used /\ t # c /\ thread'[t].owner = thread[t].owner
    BY <1>6, <1>7, <1>8 DEF Onward, Kin
<1>10. OwnsProcess'
  <2> SUFFICES ASSUME NEW t \in Tids, thread'[t].used
               PROVE  proc'[thread'[t].owner].used /\ proc'[thread'[t].owner].control = t
    BY DEF OwnsProcess
  <2>1. thread[t].used /\ t # c /\ thread'[t].owner = thread[t].owner
    BY <1>9
  <2>2. proc[thread[t].owner].used /\ proc[thread[t].owner].control = t
    BY <2>1 DEF SoundInv, OwnsProcess
  <2>3. thread[t].owner # p
    BY <1>0, <2>1, <2>2
  <2>4. thread[t].owner \in Pids /\ proc \in [Pids -> Process]
    BY <1>0 DEF Table, Thread, IInv, TypeOK
  <2>5. proc'[thread[t].owner] = proc[thread[t].owner]
    BY <1>5, <2>3, <2>4
  <2> QED BY <2>1, <2>2, <2>5
<1>11. Started'
  <2>1. \A t \in Tids : thread'[t].used => thread[t].used /\ t # c
    BY <1>9
  <2> QED BY <1>7, <2>1 DEF SoundInv, Started, Onward, Kin, Fresh
<1>12. InitIsIdle'
    BY <1>7, TidFacts DEF SoundInv, InitIsIdle, Onward, Kin, IdleKept
<1>13. NoDisplayServer'
    BY <1>5 DEF SoundInv, NoDisplayServer
<1>14. CurrentStarted'
    BY <1>5, <1>8 DEF CurrentStarted
<1> QED BY <1>0, <1>5, <1>10, <1>11, <1>12, <1>13, <1>14 DEF SoundInv

----------------------------------------------------------------------------
(* Services.                                                               *)

\* The services sound programs do not call.
LEMMA NeverCalled ==
    ASSUME SoundPrograms, IInv, SoundInv
    PROVE  /\ ~sci_validation /\ ~sys_create_thread /\ ~core_start_thread
           /\ ~register_display_server /\ ~setup_callback
<1>1. ~sci_validation
    BY CurrentFacts DEF sci_validation, Running
<1>2. ~sys_create_thread
    BY DEF sys_create_thread, Calls, SoundPrograms
<1>3. ~core_start_thread
    BY DEF core_start_thread, Calls, SoundPrograms, SoundInv, Started, Used
<1>4. ~register_display_server /\ ~setup_callback
    BY DEF register_display_server, setup_callback, Calls, SoundPrograms
<1> QED BY <1>1, <1>2, <1>3, <1>4

\* Services that go on with every thread.
LEMMA QuietSound ==
    ASSUME SoundPrograms, IInv, SoundInv,
           sys_yield \/ sys_broken_vessels \/ do_credits \/ sci_exit \/ sys_exit_thread
             \/ set_foreground
    PROVE  SoundInv'
<1>1. Onward(thread, thread', {current_thread})
    BY QuietServiceOnward
<1>2. cpu = "user"
    BY DEF sys_yield, sys_broken_vessels, do_credits, sci_exit, sys_exit_thread,
           set_foreground, Calls, Running
<1>3. cpu' = cpu
    BY DEF sys_yield, sys_broken_vessels, do_credits, sci_exit, sys_exit_thread,
           set_foreground, Calls, SoundPrograms
<1>4. /\ proc' = proc /\ display_server' = display_server /\ callback_ready' = callback_ready
      /\ current_thread' = current_thread
    BY DEF sys_yield, sys_broken_vessels, do_credits, sci_exit, sys_exit_thread,
           set_foreground, switch, display
<1> QED BY <1>1, <1>2, <1>3, <1>4, OnwardSound DEF Onward, SoundInv

\* Sound programs post to threads that exist.
LEMMA PostSound ==
    ASSUME SoundPrograms, IInv, SoundInv,
           sys_post_message_to_tid \/ sys_broadcast_system_message
    PROVE  SoundInv'
<1>1. Onward(thread, thread', {current_thread})
    BY PostOnward
<1>2. cpu = "user" /\ cpu' = cpu
    BY DEF sys_post_message_to_tid, sys_broadcast_system_message, Calls, Running, SoundPrograms
<1>3. /\ proc' = proc /\ display_server' = display_server /\ callback_ready' = callback_ready
      /\ current_thread' = current_thread
    BY DEF sys_post_message_to_tid, sys_broadcast_system_message, display
<1> QED BY <1>1, <1>2, <1>3, OnwardSound DEF Onward, SoundInv

\* Sleeping and waiting stop the caller, which is not the init thread.
LEMMA StopSound ==
    ASSUME SoundPrograms, IInv, SoundInv, sys_sleep \/ do_waitpid
    PROVE  SoundInv'
<1>0. cpu = "user" /\ Me # InitTid
    BY DEF sys_sleep, do_waitpid, Calls, Running, Me, SoundPrograms
<1>1. Me = current_thread /\ proc[OwnerOf(Me)].control = Me
    BY <1>0, CurrentFacts
<1>2. /\ Kin(thread, thread', {current_thread})
      /\ \A t \in Tids \ {Me, proc[OwnerOf(Me)].control} : thread'[t] = thread[t]
    BY StopOnward
<1>3. IdleKept(thread, thread')
    BY <1>0, <1>1, <1>2, TidFacts DEF IdleKept
<1>4. /\ proc' = proc /\ display_server' = display_server /\ callback_ready' = callback_ready
      /\ current_thread' = current_thread /\ cpu' = cpu
    BY DEF sys_sleep, do_waitpid, switch, display
<1> QED BY <1>0, <1>2, <1>3, <1>4, OnwardSound DEF SoundInv

\* Locking and unlocking.
LEMMA LocksSound ==
    ASSUME IInv, SoundInv,
           taskswitch_lock \/ scheduler_lock \/ taskswitch_unlock \/ scheduler_unlock
    PROVE  SoundInv'
<1>1. /\ cpu = "user" /\ thread' = thread /\ proc' = proc
      /\ display_server' = display_server /\ callback_ready' = callback_ready
      /\ current_thread' = current_thread /\ cpu' = cpu
    BY DEF taskswitch_lock, scheduler_lock, taskswitch_unlock, scheduler_unlock, Calls,
           Running, switch, display
<1>2. Kin(thread, thread', {current_thread}) /\ IdleKept(thread, thread')
    BY <1>1, OnwardRefl DEF Onward
<1> QED BY <1>1, <1>2, OnwardSound DEF SoundInv

\* copy_thread_struct: the child belongs to its new process; it is STANDBY only with a
\* clean saved flag.
LEMMA CloneThreadFields ==
    ASSUME NEW p, NEW loaded \in BOOLEAN
    PROVE  LET r == CloneThread(p, loaded)
           IN  /\ r.owner = p /\ r.state \in {"STANDBY", "BLOCKED"}
               /\ r.state = "STANDBY" => ~r.saved
<1>1. NewThread(p).owner = p /\ ~NewThread(p).saved
    BY DEF NewThread, InitThread
<1>2. CASE loaded
    BY <1>2 DEF CloneThread, NewThread, InitThread
<1>3. CASE ~loaded
    BY <1>3 DEF CloneThread, NewThread, InitThread
<1> QED BY <1>2, <1>3

\* clone: the child gets a process nobody has and a slot nobody uses.
LEMMA CopySound ==
    ASSUME IInv, SoundInv, copy_process
    PROVE  KInv'
<1> DEFINE child == Least(FreeTids)
           pid == Least(FreePids)
<1>0. /\ cpu = "user" /\ thread \in Table /\ current_thread \in Tids
      /\ Me = current_thread /\ thread[Me].used /\ proc[OwnerOf(Me)].control = Me
    BY CurrentFacts DEF copy_process, Calls, Running
<1>1. /\ display_server' = display_server /\ callback_ready' = callback_ready
      /\ current_thread' = current_thread
    BY DEF copy_process, switch, display
<1>2. CASE thread' = CloneParent(thread, FALSE) /\ UNCHANGED <<proc, cpu, cause>>
  <2>1. Onward(thread, thread', {current_thread})
    BY <1>0, <1>2, CloneParentOnward
  <2>2. SoundInv'
    BY <1>0, <1>1, <1>2, <2>1, OnwardSound DEF Onward, SoundInv
  <2> QED BY <2>2 DEF KInv
<1>3. CASE FreeTids = {} /\ thread' = CloneParent(thread, FALSE) /\ Halt("no more slots")
  <2>1. Onward(thread, thread', {})
    BY <1>0, <1>3, CloneParentOnward
  <2>2. \A t \in UserTids : thread[t].state # "FREE"
    BY <1>3 DEF FreeTids
  <2>3. \A t \in UserTids : thread'[t].state # "FREE"
    BY <2>1, <2>2, TidFacts DEF Onward, Kin, Fresh
  <2> QED BY <1>3, <2>3 DEF KInv, Full, Halt, FreeTids
<1>4. CASE /\ FreePids # {} /\ FreeTids # {}
           /\ \E loaded \in BOOLEAN :
                 /\ thread' = [CloneParent(thread, loaded) EXCEPT
                                 ![child] = CloneThread(pid, loaded)]
                 /\ proc' = [proc EXCEPT ![pid] = [used |-> TRUE, control |-> child]]
           /\ UNCHANGED <<cpu, cause>>
  <2>1. PICK loaded \in BOOLEAN :
                 /\ thread' = [CloneParent(thread, loaded) EXCEPT
                                 ![child] = CloneThread(pid, loaded)]
                 /\ proc' = [proc EXCEPT ![pid] = [used |-> TRUE, control |-> child]]
    BY <1>4
  <2> DEFINE tab == CloneParent(thread, loaded)
             r == CloneThread(pid, loaded)
  <2>2. child \in UserTids /\ child \in Tids /\ thread[child].state = "FREE"
    <3>1. FreeTids \in SUBSET Nat
        BY TidFacts DEF FreeTids
    <3>2. child \in FreeTids
        BY <1>4, <3>1, LeastInSet
    <3> QED BY <3>2, TidFacts DEF FreeTids
  <2>3. pid \in Pids /\ proc[pid].control = NoTid
    <3>1. FreePids \in SUBSET Nat
        BY TidFacts DEF FreePids
    <3>2. pid \in FreePids
        BY <1>4, <3>1, LeastInSet
    <3> QED BY <3>2 DEF FreePids
  <2>4. r.owner = pid /\ r.state \in {"STANDBY", "BLOCKED"} /\ (r.state = "STANDBY" => ~r.saved)
    BY CloneThreadFields
  <2>5. /\ tab \in Table /\ Onward(thread, tab, {}) /\ tab[current_thread].state = "RUNNING"
    BY <1>0, CloneParentOnward, CloneParentStep DEF Step
  <2>6. \A t \in Tids : thread'[t] = IF t = child THEN r ELSE tab[t]
    BY <2>1, <2>2, <2>5 DEF Table
  <2>7. proc \in [Pids -> Process]
    BY DEF IInv, TypeOK
  <2>8. \A p \in Pids : proc'[p] = IF p = pid THEN [used |-> TRUE, control |-> child] ELSE proc[p]
    BY <2>1, <2>3, <2>7
  <2> HIDE DEF child, pid, tab, r
  <2>9. ~thread[child].used /\ child # current_thread /\ child # InitTid
    BY <1>0, <2>2, TidFacts DEF SoundInv, Started
  <2>10. OwnsProcess'
    <3> SUFFICES ASSUME NEW t \in Tids, thread'[t].used
                 PROVE  proc'[thread'[t].owner].used /\ proc'[thread'[t].owner].control = t
        BY DEF OwnsProcess
    <3>1. CASE t = child
        <4>1. thread'[t].owner = pid
            BY <2>4, <2>6, <3>1
        <4>2. proc'[pid] = [used |-> TRUE, control |-> child]
            BY <2>3, <2>8
        <4> QED BY <3>1, <4>1, <4>2
    <3>2. CASE t # child
        <4>1. thread[t].used /\ thread'[t].owner = thread[t].owner
            BY <2>5, <2>6, <3>2 DEF Onward, Kin
        <4>2. proc[thread[t].owner].used /\ proc[thread[t].owner].control = t
            BY <4>1 DEF SoundInv, OwnsProcess
        <4>3. thread[t].owner # pid /\ thread[t].owner \in Pids
            BY <1>0, <2>3, <4>2, TidFacts DEF Table, Thread
        <4> QED BY <2>8, <4>1, <4>2, <4>3
    <3> QED BY <3>1, <3>2
  <2>11. Started'
    <3>1. ASSUME NEW t \in Tids, thread'[t].used
          PROVE  thread'[t].state \notin {"FREE", "INITIALIZED"}
                 /\ (thread'[t].state = "STANDBY" => ~thread'[t].saved)
        <4>1. CASE t = child
            BY <2>4, <2>6, <4>1
        <4>2. CASE t # child
            BY <2>5, <2>6, <3>1, <4>2 DEF SoundInv, Started, Onward, Kin, Fresh
        <4> QED BY <4>1, <4>2
    <3> QED BY <3>1 DEF Started
  <2>12. InitIsIdle'
    BY <2>5, <2>6, <2>9, TidFacts DEF SoundInv, InitIsIdle, Onward, Kin, IdleKept
  <2>13. NoDisplayServer'
    BY <1>1 DEF SoundInv, NoDisplayServer
  <2>14. CurrentStarted'
    BY <1>0, <1>1, <2>5, <2>6, <2>9 DEF CurrentStarted
  <2>15. cpu' # "halted"
    BY <1>0, <1>4
  <2> QED BY <2>10, <2>11, <2>12, <2>13, <2>14, <2>15 DEF SoundInv, KInv
<1> QED BY <1>0, <1>2, <1>3, <1>4 DEF copy_process

----------------------------------------------------------------------------
(* Theorems.                                                               *)

\* Nothing moves once the kernel has stopped.
LEMMA FullStays ==
    ASSUME Full, [Next]_vars
    PROVE  Full'
<1>1. cpu = "halted"
    BY DEF Full
<1>2. ~TimerStep
    BY <1>1 DEF TimerStep, Irq0, Running, TsCallback, TsNoProcess, TsLocked, TsSameThread,
                TsFinished, TsEntered, ZeroGravity, Retry, DispatchCurrent
<1>3. ~InputEvent /\ ~Fault
    BY <1>1 DEF InputEvent, Fault, Running
<1>4. ~Service
    BY <1>1 DEF Service, sci_validation, Calls, Running, sys_yield, sys_sleep,
                sys_broken_vessels, do_credits, sci_exit, do_waitpid, sys_exit_thread,
                sys_create_thread, core_start_thread, copy_process,
                sys_post_message_to_tid, sys_broadcast_system_message, taskswitch_lock,
                scheduler_lock, taskswitch_unlock, scheduler_unlock, set_foreground,
                register_display_server, setup_callback
<1>5. UNCHANGED vars
    BY <1>2, <1>3, <1>4 DEF Next, Halted
<1>6. cpu' = cpu /\ cause' = cause /\ thread' = thread
    BY <1>5 DEF vars
<1> QED BY <1>6 DEF Full, FreeTids

\* Every step of a sound system keeps the invariant.
LEMMA NextSound ==
    ASSUME SoundPrograms, IInv, SoundInv, [Next]_vars
    PROVE  KInv'
<1>1. CASE TimerStep
  <2>1. SoundInv'
    BY <1>1, InterruptSound, TickSound, TsFinishedSound, ChooseSound, DispatchSound, Zenon
       DEF TimerStep
  <2> QED BY <2>1 DEF KInv
<1>2. CASE InputEvent \/ Fault
  <2>1. SoundInv'
    BY <1>2, InterruptSound, FaultSound, Zenon
  <2> QED BY <2>1 DEF KInv
<1>3. CASE Service
    BY <1>3, NeverCalled, QuietSound, PostSound, StopSound, LocksSound, CopySound, Zenon
       DEF Service, KInv
<1>4. CASE Halted \/ UNCHANGED vars
  <2>1. UNCHANGED vars
    BY <1>4 DEF Halted
  <2>2. /\ cpu' = cpu /\ thread' = thread /\ proc' = proc /\ current_thread' = current_thread
        /\ display_server' = display_server /\ callback_ready' = callback_ready
    BY <2>1 DEF vars
  <2>3. SoundInv'
    BY <2>2 DEF SoundInv, OwnsProcess, Started, InitIsIdle, NoDisplayServer, CurrentStarted
  <2> QED BY <2>3 DEF KInv
<1> QED BY <1>1, <1>2, <1>3, <1>4 DEF Next

\* The inductive invariant of a sound system holds in every reachable state.
THEOREM SoundInvariance == SoundPrograms => (Spec => []KInv)
<1> SUFFICES ASSUME SoundPrograms PROVE Spec => []KInv
    OBVIOUS
<1>1. Init => KInv
    BY InitSound DEF KInv
<1>2. IInv /\ KInv /\ [Next]_vars => KInv'
    BY NextSound, FullStays DEF KInv
<1> QED BY <1>1, <1>2, Invariance, PTL DEF Spec

\* No interleaving of ticks, services, messages, failed clones and faults of sound
\* programs reaches a panic or die() of the thread core, except the one of create_thread
\* when all thread slots are taken.
THEOREM KernelStopsOnlyWhenFull == SoundPrograms => (Spec => []StopsOnlyWhenFull)
<1> SUFFICES ASSUME SoundPrograms PROVE Spec => []StopsOnlyWhenFull
    OBVIOUS
<1>1. KInv => StopsOnlyWhenFull
    BY DEF KInv, SoundInv, Full, StopsOnlyWhenFull
<1> QED BY <1>1, SoundInvariance, PTL

=============================================================================
