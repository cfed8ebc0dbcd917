-------------------------- MODULE SchedTurnsProofs --------------------------
(***************************************************************************)
(* The switcher implements RoundRobin, for every size of the thread table, *)
(* all quanta and all programs that start each thread once.                *)
(*                                                                         *)
(* The next pointers and the history variable due say the same (DueInv):   *)
(* from the thread at currentq, and from each thread that is due, next     *)
(* leads to the least due thread after it.  Between two choices of the     *)
(* switcher only fresh threads have their next written (RoundKept), and no *)
(* thread of the round is fresh.                                           *)
(***************************************************************************)
EXTENDS SchedTurns, SchedRoundProofs

NextDue(t) ==
    LET after == {u \in due : u > t} IN IF after = {} THEN NoTid ELSE Least(after)

\* The inductive invariant: the links of the round lead through the due threads.
DueInv ==
    /\ due \in SUBSET UserTids
    /\ \A u \in due : u > currentq
    /\ \A t \in due \cup {currentq} :
            thread[t].next = NextDue(t) /\ thread[t].state \notin Fresh

\* The step leaves the round alone.
RoundKept ==
    /\ currentq' = currentq
    /\ \A t \in Tids : thread[t].state \notin Fresh =>
            thread'[t].next = thread[t].next /\ thread'[t].state \notin Fresh

\* The switcher is choosing.
Choosing == cpu \in {"ZeroGravity", "go_ahead"}

----------------------------------------------------------------------------
(* Between two choices.                                                    *)

\* The steps of SchedRoundProofs that write no link.
LEMMA OnwardKeeps ==
    ASSUME NEW S, Onward(thread, thread', S), currentq' = currentq
    PROVE  RoundKept
BY DEF RoundKept, Onward, LinksKept, Kin

\* Filling a free slot, after a step that writes no link.
LEMMA FillKeeps ==
    ASSUME NEW tab \in Table, Onward(thread, tab, {}), NEW t \in FreeTids, NEW r,
           thread' = [tab EXCEPT ![t] = r], currentq' = currentq
    PROVE  RoundKept
<1>0. t \in Tids /\ thread[t].state \in Fresh
    BY TidFacts DEF FreeTids, Fresh
<1>1. \A u \in Tids : thread'[u] = IF u = t THEN r ELSE tab[u]
    BY DEF Table
<1> QED BY <1>0, <1>1 DEF RoundKept, Onward, LinksKept, Kin

\* A spawn writes the next of a STANDBY thread; the end of a turn writes none.
LEMMA TsFinishedKeeps ==
    ASSUME IInv, TsFinished
    PROVE  /\ RoundKept
           /\ \/ cpu' \in {"ZeroGravity", "halted"}
              \/ /\ cpu' = "user" /\ current_thread' \in Tids
                 /\ thread[current_thread'].state = "STANDBY"
<1> DEFINE s == StandbyTid(Preempted)
<1>0. thread \in Table /\ current_thread \in Tids /\ currentq' = currentq
    BY UserFacts DEF TsFinished, TsEntered
<1>1. Onward(thread, Preempted, {current_thread}) /\ Preempted \in Table
    BY <1>0, PreemptedOnward, PreemptedStep DEF Step
<1>2. CASE thread' = Preempted /\ cpu' \in {"ZeroGravity", "halted"}
    BY <1>0, <1>1, <1>2, OnwardKeeps
<1>3. CASE /\ InState(Preempted, "STANDBY") # {} /\ thread' = Spawned(Preempted, s)
           /\ cpu' = "user" /\ current_thread' = s
  <2>1. s \in Tids /\ Preempted[s].state = "STANDBY"
    <3>1. InState(Preempted, "STANDBY") \in SUBSET Nat
        BY TidFacts DEF InState, Used
    <3>2. s \in InState(Preempted, "STANDBY")
        BY <1>3, <3>1, LeastInSet DEF StandbyTid
    <3> QED BY <3>2 DEF InState, Used
  <2>2. thread[s].state = "STANDBY"
    BY <1>1, <2>1 DEF Onward, Kin, Fresh
  <2> HIDE DEF s
  <2>3. \A u \in Tids \ {s} : thread'[u] = Preempted[u]
    BY <1>1, <1>3, <2>1 DEF Spawned, Table
  <2>4. RoundKept
    BY <1>0, <1>1, <2>2, <2>3 DEF RoundKept, Onward, LinksKept, Kin, Fresh
  <2> QED BY <1>3, <2>1, <2>2, <2>4
<1> QED BY <1>2, <1>3 DEF TsFinished, Halt

\* sys_create_thread leaves the round alone.
LEMMA CreateKeeps ==
    ASSUME IInv, sys_create_thread
    PROVE  RoundKept
<1>0. cpu = "user" /\ currentq' = currentq
    BY DEF sys_create_thread, Calls, Running, switch
<1>1. thread \in Table
    BY <1>0, UserFacts
<1>2. CASE thread' = thread
    BY <1>0, <1>2 DEF RoundKept
<1>3. CASE /\ FreeTids # {}
           /\ thread' = [thread EXCEPT ![Least(FreeTids)] = NewThread(OwnerOf(Me))]
  <2>1. Least(FreeTids) \in FreeTids
    <3>1. FreeTids \in SUBSET Nat
        BY TidFacts DEF FreeTids
    <3> QED BY <1>3, <3>1, LeastInSet
  <2>2. Onward(thread, thread, {})
    BY OnwardRefl
  <2> QED BY <1>0, <1>1, <1>3, <2>1, <2>2, FillKeeps
<1> QED BY <1>2, <1>3 DEF sys_create_thread

\* So does copy_process.
LEMMA CopyKeeps ==
    ASSUME IInv, copy_process
    PROVE  RoundKept
<1> DEFINE control == proc[OwnerOf(Me)].control
<1>0. cpu = "user" /\ currentq' = currentq
    BY DEF copy_process, Calls, Running, switch
<1>1. thread \in Table /\ current_thread \in Tids
    BY <1>0, UserFacts
<1>2. CASE thread' = [thread EXCEPT ![control].state = "RUNNING"]
  <2> HIDE DEF control
  <2>1. ASSUME NEW t \in Tids
        PROVE  thread'[t].next = thread[t].next
               /\ thread'[t].state \in {thread[t].state, "RUNNING"}
    BY <1>1, <1>2 DEF Table, Thread
  <2> QED BY <1>0, <2>1 DEF RoundKept, Fresh
<1>3. CASE thread' = CloneParent(thread, FALSE)
    BY <1>0, <1>1, <1>3, CloneParentOnward, OnwardKeeps
<1>4. CASE /\ FreeTids # {}
           /\ \E loaded \in BOOLEAN :
                 thread' = [CloneParent(thread, loaded) EXCEPT
                                ![Least(FreeTids)] = CloneThread(Least(FreePids), loaded)]
  <2>1. PICK loaded \in BOOLEAN :
                 thread' = [CloneParent(thread, loaded) EXCEPT
                                ![Least(FreeTids)] = CloneThread(Least(FreePids), loaded)]
    BY <1>4
  <2>2. Least(FreeTids) \in FreeTids
    <3>1. FreeTids \in SUBSET Nat
        BY TidFacts DEF FreeTids
    <3> QED BY <1>4, <3>1, LeastInSet
  <2>3. Onward(thread, CloneParent(thread, loaded), {})
    BY <1>1, CloneParentOnward
  <2>4. CloneParent(thread, loaded) \in Table
    BY <1>1, CloneParentStep DEF Step
  <2> QED BY <1>0, <2>1, <2>2, <2>3, <2>4, FillKeeps
<1> QED BY <1>2, <1>3, <1>4 DEF copy_process

\* core_start_thread touches an INITIALIZED thread, which is fresh.
LEMMA StartKeeps ==
    ASSUME StartedOnce, IInv, core_start_thread
    PROVE  RoundKept
<1>0. cpu = "user" /\ currentq' = currentq
    BY DEF core_start_thread, Calls, Running, switch
<1>1. thread \in Table
    BY <1>0, UserFacts
<1>2. PICK t \in Tids : /\ thread[t].state = "INITIALIZED"
                        /\ thread' = [thread EXCEPT ![t].state = "STANDBY"]
    BY DEF core_start_thread, Calls, StartedOnce, Used
<1>3. \A u \in Tids : u # t => thread'[u] = thread[u]
    BY <1>1, <1>2 DEF Table
<1> QED BY <1>0, <1>2, <1>3 DEF RoundKept, Fresh

\* No step writes into the round except a choice of the switcher.
LEMMA NextKeeps ==
    ASSUME StartedOnce, IInv, [Next]_vars, ~ZeroGravity, ~Retry
    PROVE  RoundKept
<1>1. CASE TsFinished
    BY <1>1, TsFinishedKeeps
<1>4. CASE sys_create_thread
    BY <1>4, CreateKeeps
<1>5. CASE copy_process
    BY <1>5, CopyKeeps
<1>6. CASE core_start_thread
    BY <1>6, StartKeeps
<1>7. CASE Irq0 \/ TsLocked \/ TsSameThread \/ DispatchCurrent
  <2>1. Onward(thread, thread', {current_thread})
    BY <1>7, Irq0Onward, TsLockedOnward, TsSameThreadOnward, DispatchCurrentOnward
  <2>2. currentq' = currentq
    BY <1>7 DEF Irq0, TsLocked, TsSameThread, DispatchCurrent, switch
  <2> QED BY <2>1, <2>2, OnwardKeeps
<1>8. CASE InputEvent \/ Fault
  <2>1. Onward(thread, thread', {current_thread})
    BY <1>8, InputEventOnward, FaultOnward
  <2>2. currentq' = currentq
    BY <1>8 DEF InputEvent, Fault
  <2> QED BY <2>1, <2>2, OnwardKeeps
<1>9. CASE sys_yield \/ sys_broken_vessels \/ do_credits \/ sci_exit \/ sys_exit_thread
             \/ set_foreground \/ register_display_server
  <2>1. Onward(thread, thread', {current_thread})
    BY <1>9, QuietServiceOnward
  <2>2. currentq' = currentq
    BY <1>9 DEF sys_yield, sys_broken_vessels, do_credits, sci_exit, sys_exit_thread,
                set_foreground, register_display_server, switch
  <2> QED BY <2>1, <2>2, OnwardKeeps
<1>10. CASE sys_post_message_to_tid \/ sys_broadcast_system_message
  <2>1. Onward(thread, thread', {current_thread})
    BY <1>10, PostOnward
  <2>2. currentq' = currentq
    BY <1>10 DEF sys_post_message_to_tid, sys_broadcast_system_message
  <2> QED BY <2>1, <2>2, OnwardKeeps
<1>11. CASE sys_sleep \/ do_waitpid
  <2>1. Kin(thread, thread', {current_thread}) /\ LinksKept(thread, thread')
    BY <1>11, StopOnward
  <2>2. currentq' = currentq
    BY <1>11 DEF sys_sleep, do_waitpid, switch
  <2> QED BY <2>1, <2>2 DEF RoundKept, Kin, LinksKept
<1>12. CASE thread' = thread /\ currentq' = currentq
    BY <1>12 DEF RoundKept
<1>13. TsCallback \/ TsNoProcess \/ sci_validation \/ taskswitch_lock \/ scheduler_lock
         \/ taskswitch_unlock \/ scheduler_unlock \/ setup_callback \/ Halted
         \/ UNCHANGED vars => thread' = thread /\ currentq' = currentq
    BY DEF TsCallback, TsNoProcess, sci_validation, taskswitch_lock, scheduler_lock,
           taskswitch_unlock, scheduler_unlock, setup_callback, Halted, vars, switch
<1>14. CASE TimerStep
    BY <1>1, <1>7, <1>12, <1>13, <1>14, Zenon DEF TimerStep
<1>15. CASE Service
    BY <1>4, <1>5, <1>6, <1>9, <1>10, <1>11, <1>12, <1>13, <1>15, Zenon DEF Service
<1> QED BY <1>8, <1>12, <1>13, <1>14, <1>15, Zenon DEF Next

----------------------------------------------------------------------------
(* The due threads.                                                        *)

\* Which steps are possible while the switcher is choosing.
LEMMA ChoosingSteps ==
    ASSUME Next
    PROVE  /\ cpu = "ZeroGravity" => ZeroGravity
           /\ cpu = "go_ahead" => Retry \/ DispatchCurrent
<1>1. InputEvent \/ Fault \/ Service => cpu = "user"
    BY DEF InputEvent, Fault, Running, Service, sci_validation, sys_yield, sys_sleep,
           sys_broken_vessels, do_credits, sci_exit, do_waitpid, sys_exit_thread,
           sys_create_thread, core_start_thread, copy_process, sys_post_message_to_tid,
           sys_broadcast_system_message, taskswitch_lock, scheduler_lock,
           taskswitch_unlock, scheduler_unlock, set_foreground,
           register_display_server, setup_callback, Calls
<1>2. /\ Irq0 => cpu = "user"
      /\ TsCallback \/ TsNoProcess \/ TsLocked \/ TsSameThread \/ TsFinished
            => cpu = "tsTaskSwitch"
    BY DEF Irq0, Running, TsCallback, TsNoProcess, TsLocked, TsSameThread, TsFinished,
           TsEntered
<1>3. ZeroGravity => cpu = "ZeroGravity"
    BY DEF ZeroGravity
<1>4. Retry \/ DispatchCurrent => cpu = "go_ahead"
    BY DEF Retry, DispatchCurrent
<1>5. Halted => cpu = "halted"
    BY DEF Halted
<1> QED BY <1>1, <1>2, <1>3, <1>4, <1>5 DEF Next, TimerStep

\* The thread at currentq is not due.
LEMMA AtIsNotDue ==
    ASSUME IInv, DueInv
    PROVE  /\ currentq \in Tids /\ due \in SUBSET Nat /\ due \ {currentq} = due
           /\ {u \in due : u > currentq} = due
<1>1. currentq \in Nat /\ due \in SUBSET Nat
    BY TidFacts DEF IInv, TypeOK, DueInv
<1>2. \A u \in due : u > currentq /\ u # currentq
    BY <1>1 DEF DueInv
<1>3. currentq \in Tids
    BY DEF IInv, TypeOK
<1> QED BY <1>1, <1>2, <1>3

\* A round that is left alone stays linked.
LEMMA KeptDue ==
    ASSUME IInv, DueInv, RoundKept, due' = due
    PROVE  DueInv'
<1>1. \A t \in due \cup {currentq} : t \in Tids
    BY TidFacts, AtIsNotDue DEF DueInv
<1>2. \A t : NextDue(t)' = NextDue(t)
    BY DEF NextDue
<1>3. currentq' = currentq
    BY DEF RoundKept
<1>4. ASSUME NEW t \in due \cup {currentq}
      PROVE  thread'[t].next = NextDue(t)' /\ thread'[t].state \notin Fresh
    BY <1>1, <1>2 DEF DueInv, RoundKept
<1> QED BY <1>3, <1>4 DEF DueInv

\* Every step but a choice keeps the due threads and their links.
LEMMA AwayDue ==
    ASSUME StartedOnce, IInv, DueInv, [TurnsNext]_<<vars, due>>, ~ZeroGravity, ~Retry
    PROVE  DueInv' /\ due' = due
<1>1. [Next]_vars
    BY DEF TurnsNext
<1>2. RoundKept
    BY <1>1, NextKeeps
<1>3. due' = due
  <2>1. CASE TurnsNext
    <3>1. cpu # "ZeroGravity" /\ (cpu = "go_ahead" => Runnable(currentq))
        BY <2>1, ChoosingSteps DEF TurnsNext, DispatchCurrent
    <3>2. ~RoundMade /\ ~RoundCut
        BY <3>1 DEF RoundMade, RoundCut
    <3>3. due' = due \ {currentq'}
        BY <2>1, <3>2 DEF TurnsNext, DueStep
    <3> QED BY <1>2, <3>3, AtIsNotDue DEF RoundKept
  <2>2. CASE UNCHANGED <<vars, due>>
    BY <2>2
  <2> QED BY <2>1, <2>2
<1> QED BY <1>2, <1>3, KeptDue

\* After a round the user threads that can run are the ones it queued.
LEMMA RoundReady ==
    ASSUME NEW tab \in Table, NEW t \in UserTids
    PROVE  Round(tab)[t].used /\ Round(tab)[t].state = "READY" <=> t \in Queued(tab)
<1>1. t \in Tids /\ Rounded(tab, t, Round(tab)[t])
    BY TidFacts, RoundFields
<1>2. /\ t \in Queued(tab) => tab[t].used /\ t \notin Exiting(tab) /\ t \notin Reaped(tab)
      /\ tab[t].used /\ tab[t].state = "READY" /\ t \notin Exiting(tab) => t \in Queued(tab)
    BY <1>1 DEF Queued, Exiting, Reaped, InState, Used
<1> QED BY <1>1, <1>2 DEF Rounded

\* A new round links the threads that are due.
LEMMA RoundDue ==
    ASSUME IInv, RoundInv', NEW stray \in StrayReads,
           thread' = Round(StrayWoken(thread, stray)), currentq' = InitTid,
           due' = Ready' \ {InitTid}
    PROVE  DueInv'
<1> DEFINE woken == StrayWoken(thread, stray)
<1>0. thread \in Table /\ stray \in Tids \cup {NoTid}
    BY StrayAssumption DEF IInv, TypeOK, Table
<1>1. woken \in Table /\ thread' = Round(woken)
    BY <1>0, StrayStep DEF Step
<1> HIDE DEF woken
<1>2. due' = Queued(woken)
  <2>1. Tids \ {InitTid} = UserTids
    BY SizeAssumption DEF Tids, UserTids, InitTid
  <2>2. due' = {t \in UserTids : thread'[t].used /\ thread'[t].state = "READY"}
    BY <2>1 DEF Ready, Runnable
  <2>3. \A t \in UserTids : thread'[t].used /\ thread'[t].state = "READY" <=> t \in Queued(woken)
    BY <1>1, RoundReady
  <2>4. Queued(woken) \subseteq UserTids
    BY DEF Queued
  <2> QED BY <2>2, <2>3, <2>4
<1>3. due' \in SUBSET UserTids /\ \A u \in due' : u > InitTid
    BY <1>2 DEF Queued, UserTids, InitTid
<1>4. \A t : NextDue(t)' = NextQueued(woken, t)
    BY <1>2 DEF NextDue, NextQueued
<1>5. ASSUME NEW t \in due' \cup {currentq'}
      PROVE  thread'[t].next = NextDue(t)' /\ thread'[t].state \notin Fresh
  <2>1. t \in Tids /\ (t = InitTid \/ t \in Queued(woken))
    BY <1>2, TidFacts DEF Queued
  <2>2. Rounded(woken, t, thread'[t])
    BY <1>1, <2>1, RoundFields
  <2>3. thread'[t].next = NextDue(t)'
    BY <1>4, <2>1, <2>2 DEF Rounded
  <2>4. thread'[t].state \notin Fresh
    <3>1. CASE t = InitTid
        BY <2>1, <3>1 DEF RoundInv, OnTheWay
    <3>2. CASE t \in Queued(woken)
        <4>1. t \notin Exiting(woken)
            BY <3>2 DEF Queued, Exiting
        <4> QED BY <2>2, <3>2, <4>1 DEF Rounded, Fresh
    <3> QED BY <2>1, <3>1, <3>2
  <2> QED BY <2>3, <2>4
<1> QED BY <1>3, <1>5 DEF DueInv

\* Without a second thread nobody is due.
LEMMA AloneDue ==
    ASSUME IInv, DueInv, OnlyInit(thread)
    PROVE  currentq = InitTid /\ due = {} /\ thread[currentq].next = NoTid
           /\ Ready \subseteq {InitTid}
<1>1. \A t \in UserTids : thread[t].state = "FREE"
    BY DEF OnlyInit
<1>2. due = {}
    BY <1>1 DEF DueInv, Fresh
<1>3. currentq \in Tids /\ currentq \notin UserTids
    BY <1>1 DEF IInv, TypeOK, DueInv, Fresh
<1>4. Tids = {InitTid} \cup UserTids
    BY SizeAssumption DEF Tids, UserTids, InitTid
<1>5. thread[currentq].next = NextDue(currentq)
    BY DEF DueInv
<1>6. NextDue(currentq) = NoTid
    BY <1>2 DEF NextDue
<1>7. Ready \subseteq {InitTid}
    BY <1>1, <1>4 DEF Ready, Runnable
<1> QED BY <1>2, <1>3, <1>4, <1>5, <1>6, <1>7

\* psScheduler, with what DueStep makes of it.
LEMMA psSchedulerDue ==
    ASSUME IInv, DueInv, RoundInv', NEW stray \in StrayReads, psScheduler(thread, stray),
           ~scheduler_locked => due' = Ready' \ {InitTid},
           scheduler_locked => due' = due
    PROVE  DueInv'
<1>1. CASE scheduler_locked
  <2>1. thread' = thread /\ currentq' = currentq
    BY <1>1 DEF psScheduler
  <2> QED BY <1>1, <2>1, KeptDue DEF RoundKept
<1>2. CASE ~scheduler_locked /\ OnlyInit(thread)
  <2>1. thread' = thread /\ currentq' = InitTid
    BY <1>2 DEF psScheduler
  <2>2. currentq = InitTid /\ due = {} /\ Ready \subseteq {InitTid}
    BY <1>2, AloneDue
  <2>3. Ready' = Ready
    BY <2>1 DEF Ready, Runnable
  <2>4. due' = due
    BY <1>2, <2>2, <2>3
  <2> QED BY <2>1, <2>2, <2>4, KeptDue DEF RoundKept
<1>3. CASE ~scheduler_locked /\ ~OnlyInit(thread)
  <2>1. thread' = Round(StrayWoken(thread, stray)) /\ currentq' = InitTid
    BY <1>3 DEF psScheduler
  <2> QED BY <1>3, <2>1, RoundDue
<1> QED BY <1>1, <1>2, <1>3

\* next is NULL exactly at the end of a round; otherwise it is the first due thread.
LEMMA NextOfAt ==
    ASSUME IInv, DueInv
    PROVE  /\ thread[currentq].next = NoTid => due = {}
           /\ thread[currentq].next # NoTid =>
                    due # {} /\ thread[currentq].next = Least(due) /\ Least(due) \in due
                    /\ \A u \in due : Least(due) <= u
<1>1. thread[currentq].next = IF due = {} THEN NoTid ELSE Least(due)
    BY AtIsNotDue DEF DueInv, NextDue
<1>2. due # {} => Least(due) \in due /\ \A u \in due : Least(due) <= u
    BY AtIsNotDue, LeastInSet
<1>3. NoTid \notin due
    BY TidFacts DEF DueInv
<1> QED BY <1>1, <1>2, <1>3

\* Following a link takes the first due thread out.
LEMMA FollowDue ==
    ASSUME IInv, DueInv, thread[currentq].next # NoTid, thread' = thread,
           currentq' = thread[currentq].next, due' = due \ {currentq'}
    PROVE  DueInv'
<1> DEFINE n == Least(due)
<1>0. due \in SUBSET Nat
    BY AtIsNotDue
<1>1. currentq' = n /\ n \in due /\ \A u \in due : n <= u
    BY NextOfAt
<1> HIDE DEF n
<1>2. due' \in SUBSET UserTids /\ \A u \in due' : u > currentq'
    BY <1>0, <1>1 DEF DueInv
<1>3. ASSUME NEW t \in due' \cup {currentq'}
      PROVE  thread'[t].next = NextDue(t)' /\ thread'[t].state \notin Fresh
  <2>1. t \in due /\ t >= n
    BY <1>0, <1>1
  <2>2. {u \in due' : u > t} = {u \in due : u > t}
    BY <1>0, <1>1, <2>1
  <2>3. NextDue(t)' = NextDue(t)
    BY <2>2 DEF NextDue
  <2> QED BY <2>1, <2>3 DEF DueInv
<1> QED BY <1>2, <1>3 DEF DueInv

\* ZeroGravity keeps links and due threads together.
LEMMA ZeroGravityDue ==
    ASSUME IInv, DueInv, RoundInv', ZeroGravity, DueStep
    PROVE  DueInv'
<1>0. cpu = "ZeroGravity" /\ thread \in Table
    BY DEF ZeroGravity, IInv, TypeOK, Table
<1>1. CASE OnlyInit(thread)
  <2>1. thread' = thread /\ currentq' = InitTid
    BY <1>1 DEF ZeroGravity
  <2>2. currentq = InitTid /\ due = {} /\ Ready \subseteq {InitTid}
    BY <1>1, AloneDue
  <2>3. Ready' = Ready
    BY <2>1 DEF Ready, Runnable
  <2>4. due' = due
    BY <2>2, <2>3 DEF DueStep
  <2> QED BY <2>1, <2>2, <2>4, KeptDue DEF RoundKept
<1>2. CASE ~OnlyInit(thread) /\ EventPending
  <2> DEFINE e == ev_responder_thread
  <2>1. thread' = ServedResponder(thread, e) /\ currentq' = e /\ e \in Tids
    BY <1>2 DEF ZeroGravity, EventPending, IInv, TypeOK
  <2>2. thread'[e].state = "READY" /\ thread'[e].next = NoTid
    BY <1>0, <2>1, ServedKin
  <2>3. due' = {}
    BY <1>0, <1>2 DEF DueStep, RoundMade, RoundCut
  <2>4. \A t : NextDue(t)' = NoTid
    BY <2>3 DEF NextDue
  <2> QED BY <2>1, <2>2, <2>3, <2>4 DEF DueInv, Fresh
<1>3. CASE ~OnlyInit(thread) /\ ~EventPending /\ thread[currentq].next = NoTid
  <2>1. PICK stray \in StrayReads : psScheduler(thread, stray)
    BY <1>3 DEF ZeroGravity
  <2>2. ~scheduler_locked => due' = Ready' \ {InitTid}
    BY <1>0, <1>3 DEF DueStep, RoundMade
  <2>3. scheduler_locked => due' = due
    <3>1. scheduler_locked => currentq' = currentq
        BY <2>1 DEF psScheduler
    <3>2. scheduler_locked => due' = due \ {currentq'}
        BY <1>3 DEF DueStep, RoundMade, RoundCut
    <3> QED BY <3>1, <3>2, AtIsNotDue
  <2> QED BY <2>1, <2>2, <2>3, psSchedulerDue
<1>4. CASE ~OnlyInit(thread) /\ ~EventPending /\ thread[currentq].next # NoTid
  <2>1. thread' = thread /\ currentq' = thread[currentq].next
    BY <1>4 DEF ZeroGravity
  <2>2. due' = due \ {currentq'}
    BY <1>0, <1>4 DEF DueStep, RoundMade, RoundCut
  <2> QED BY <1>4, <2>1, <2>2, FollowDue
<1> QED BY <1>1, <1>2, <1>3, <1>4

\* So does the new attempt of go_ahead.
LEMMA RetryDue ==
    ASSUME IInv, DueInv, RoundInv', Retry, DueStep
    PROVE  DueInv'
<1>1. PICK stray \in StrayReads : psScheduler(thread, stray)
    BY DEF Retry
<1>2. ~scheduler_locked => due' = Ready' \ {InitTid}
    BY DEF DueStep, RoundMade, Retry
<1>3. scheduler_locked => due' = due
  <2>1. scheduler_locked => currentq' = currentq
    BY <1>1 DEF psScheduler
  <2>2. scheduler_locked => due' = due \ {currentq'}
    BY DEF DueStep, RoundMade, RoundCut, Retry
  <2> QED BY <2>1, <2>2, AtIsNotDue
<1> QED BY <1>1, <1>2, <1>3, psSchedulerDue

\* Every step keeps links and due threads together.
LEMMA NextDueInv ==
    ASSUME StartedOnce, IInv, RoundInv, DueInv, [TurnsNext]_<<vars, due>>
    PROVE  DueInv'
<1>1. [Next]_vars
    BY DEF TurnsNext
<1>2. RoundInv'
    BY <1>1, NextForward
<1>3. CASE ZeroGravity \/ Retry
  <2>1. CASE TurnsNext
    BY <1>2, <1>3, <2>1, ZeroGravityDue, RetryDue DEF TurnsNext
  <2>2. CASE UNCHANGED <<vars, due>>
    BY <2>2, KeptDue DEF vars, RoundKept
  <2> QED BY <2>1, <2>2
<1>4. CASE ~ZeroGravity /\ ~Retry
    BY <1>4, AwayDue
<1> QED BY <1>3, <1>4

\* SchedTurns adds a history variable and takes nothing away.
LEMMA TurnsAreSteps == TurnsSpec => Spec
<1>1. TurnsInit => Init
    BY DEF TurnsInit
<1>2. [TurnsNext]_<<vars, due>> => [Next]_vars
    BY DEF TurnsNext
<1> QED BY <1>1, <1>2, PTL DEF TurnsSpec, Spec

\* The next pointers of the thread table always link the threads that are due, from
\* the one the switcher is at, in tid order (sched.c:585-666, ts.c:601-613).
THEOREM LinksAreTheRound == StartedOnce => (TurnsSpec => []DueInv)
<1> SUFFICES ASSUME StartedOnce PROVE TurnsSpec => []DueInv
    OBVIOUS
<1>1. TurnsInit => DueInv
  <2> SUFFICES ASSUME TurnsInit PROVE DueInv
    OBVIOUS
  <2>1. due = {} /\ currentq = InitTid /\ thread[InitTid] = InitThread
    BY TidFacts DEF TurnsInit, Init
  <2>2. NextDue(InitTid) = NoTid
    BY <2>1 DEF NextDue
  <2> QED BY <2>1, <2>2 DEF DueInv, InitThread, Fresh
<1>2. IInv /\ RoundInv /\ DueInv /\ [TurnsNext]_<<vars, due>> => DueInv'
    BY NextDueInv
<1>3. TurnsSpec => []IInv /\ []RoundInv
    BY TurnsAreSteps, Invariance, RoundInvariance, PTL
<1> QED BY <1>1, <1>2, <1>3, PTL DEF TurnsSpec

----------------------------------------------------------------------------
(* Each step is a step of RoundRobin.                                      *)

\* The names of RoundRobin for slots of the thread table.
LEMMA RRNames == RR!Threads = Tids /\ RR!Nobody = NoTid /\ RR!IdleTid = InitTid
BY DEF RR!Threads, RR!Nobody, RR!IdleTid, Tids, NoTid, InitTid

\* RoundRobin and Sched take the least element in the same way.
LEMMA RRFirst ==
    ASSUME NEW S \in SUBSET Nat, S # {}
    PROVE  RR!First(S) = Least(S)
<1>1. Least(S) \in S /\ \A y \in S : Least(S) <= y
    BY LeastInSet
<1>2. RR!First(S) \in S /\ \A y \in S : RR!First(S) <= y
    BY <1>1 DEF RR!First
<1> DEFINE a == RR!First(S)
           b == Least(S)
<1>3. a \in Nat /\ b \in Nat /\ a <= b /\ b <= a
    BY <1>1, <1>2
<1> HIDE DEF a, b
<1>4. a = b
    BY <1>3
<1> QED BY <1>4 DEF a, b

\* Apart from the end of a turn, the processor changes hands only to the init thread.
LEMMA AwayHolder ==
    ASSUME IInv, [Next]_vars, ~Choosing, ~TsFinished
    PROVE  \/ UNCHANGED vars
           \/ /\ cpu \in {"user", "tsTaskSwitch"}
              /\ cpu' \in {"user", "tsTaskSwitch", "halted"}
              /\ current_thread' \in {current_thread, InitTid}
<1> DEFINE Moves == /\ cpu \in {"user", "tsTaskSwitch"}
                    /\ cpu' \in {"user", "tsTaskSwitch", "halted"}
                    /\ current_thread' \in {current_thread, InitTid}
<1>1. CASE Irq0 \/ InputEvent
  <2>1. cpu' \in {"user", "tsTaskSwitch", "halted"}
    BY <1>1 DEF Irq0, InputEvent, PostToDisplayServer, Halt
  <2> QED BY <1>1, <2>1 DEF Irq0, InputEvent, Running
<1>2. TsCallback \/ TsNoProcess \/ TsLocked \/ TsSameThread => Moves
    BY DEF TsCallback, TsNoProcess, TsLocked, TsSameThread, TsEntered, Halt, switch
<1>3. Fault => Moves
    BY DEF Fault, Running, Halt
<1>4. sci_validation \/ sys_yield \/ sys_sleep \/ sys_broken_vessels \/ do_credits
        \/ sci_exit \/ do_waitpid \/ sys_exit_thread \/ sys_create_thread => Moves
    BY DEF sci_validation, sys_yield, sys_sleep, sys_broken_vessels, do_credits, sci_exit,
           do_waitpid, sys_exit_thread, sys_create_thread, Calls, Running, Halt, switch
<1>5. core_start_thread \/ copy_process \/ sys_post_message_to_tid
        \/ sys_broadcast_system_message => Moves
    BY DEF core_start_thread, copy_process, sys_post_message_to_tid,
           sys_broadcast_system_message, Calls, Running, Halt, switch
<1>6. taskswitch_lock \/ scheduler_lock \/ taskswitch_unlock \/ scheduler_unlock
        \/ set_foreground \/ register_display_server \/ setup_callback => Moves
    BY DEF taskswitch_lock, scheduler_lock, taskswitch_unlock, scheduler_unlock,
           set_foreground, register_display_server, setup_callback, Calls, Running,
           Halt, switch
<1>7. ~ZeroGravity /\ ~Retry /\ ~DispatchCurrent
    BY DEF Choosing, ZeroGravity, Retry, DispatchCurrent
<1>8. Halted => UNCHANGED vars
    BY DEF Halted
<1> HIDE DEF Moves
<1>9. Moves \/ UNCHANGED vars
    BY <1>1, <1>2, <1>3, <1>4, <1>5, <1>6, <1>7, <1>8, Zenon DEF Next, TimerStep, Service, Moves
<1> QED BY <1>9 DEF Moves

\* The mapped variables are in range after every step.
LEMMA MapTypes ==
    ASSUME IInv'
    PROVE  /\ Ready' \in SUBSET Tids /\ Leaving' \in SUBSET Tids
           /\ Event' \in Tids \cup {NoTid} /\ scheduler_locked' \in BOOLEAN
<1>1. Ready' \in SUBSET Tids /\ Leaving' \in SUBSET Tids
    BY DEF Ready, Leaving, Used
<1>2. ev_responder_thread' \in Tids \cup {NoTid} /\ scheduler_locked' \in BOOLEAN
    BY DEF IInv, TypeOK
<1>3. Event' \in Tids \cup {NoTid}
    BY <1>2 DEF Event
<1> QED BY <1>1, <1>2, <1>3

\* Between two choices: RoundRobin is away.
LEMMA AwayMap ==
    ASSUME StartedOnce, IInv, IInv', DueInv, [TurnsNext]_<<vars, due>>, ~Choosing
    PROVE  RR!Away
<1>0. [Next]_vars /\ ~ZeroGravity /\ ~Retry
    BY DEF TurnsNext, Choosing, ZeroGravity, Retry
<1>1. currentq' = currentq /\ due' = due
    BY <1>0, NextKeeps, AwayDue DEF RoundKept
<1>2. Phase = "away"
    BY DEF Phase, Choosing
<1>3. \/ Phase' = "away" /\ Holder' \in {Holder, InitTid, NoTid}
      \/ Phase' = "away" /\ Holder' \in Tids \ (due \cup Ready)
      \/ Phase' = "choosing" /\ Holder' = NoTid
  <2>1. CASE TsFinished
    <3>1. \/ cpu' \in {"ZeroGravity", "halted"}
          \/ /\ cpu' = "user" /\ current_thread' \in Tids
             /\ thread[current_thread'].state = "STANDBY"
        BY <2>1, TsFinishedKeeps
    <3>2. CASE cpu' \in {"ZeroGravity", "halted"}
        BY <3>2 DEF Phase, Holder
    <3>3. CASE /\ cpu' = "user" /\ current_thread' \in Tids
               /\ thread[current_thread'].state = "STANDBY"
        <4>1. Phase' = "away" /\ Holder' = current_thread'
            BY <3>3 DEF Phase, Holder
        <4>2. current_thread' \notin due /\ current_thread' \notin Ready
            BY <3>3 DEF DueInv, Fresh, Ready, Runnable
        <4> QED BY <3>3, <4>1, <4>2
    <3> QED BY <3>1, <3>2, <3>3
  <2>2. CASE UNCHANGED vars
    <3>1. cpu' = cpu /\ current_thread' = current_thread
        BY <2>2 DEF vars
    <3> QED BY <1>2, <3>1 DEF Phase, Holder
  <2>3. CASE /\ cpu \in {"user", "tsTaskSwitch"}
             /\ cpu' \in {"user", "tsTaskSwitch", "halted"}
             /\ current_thread' \in {current_thread, InitTid}
    BY <2>3 DEF Phase, Holder
  <2> QED BY <1>0, <2>1, <2>2, <2>3, AwayHolder
<1>4. Phase' \in {"away", "choosing"}
    BY <1>3
<1> QED BY <1>1, <1>2, <1>3, <1>4, MapTypes, RRNames DEF RR!Away

\* The event responder: READY, its message attended to.
LEMMA ServedMap ==
    ASSUME NEW e \in Tids, thread \in Table, thread[e].used,
           thread' = ServedResponder(thread, e)
    PROVE  Ready' = Ready \cup {e} /\ Leaving' = Leaving /\ ~thread'[e].pending
<1>1. /\ thread'[e].used = thread[e].used /\ thread'[e].exiting = thread[e].exiting
      /\ thread'[e].state = "READY" /\ ~thread'[e].pending
    BY DEF ServedResponder, Table, Thread
<1>2. \A u \in Tids \ {e} : thread'[u] = thread[u]
    BY DEF ServedResponder, Table
<1>3. Ready' = Ready \cup {e}
    BY <1>1, <1>2 DEF Ready, Runnable
<1>4. Leaving' = Leaving
    BY <1>1, <1>2 DEF Leaving, Used
<1> QED BY <1>1, <1>3, <1>4

\* A round: who could run and did not ask to exit can run, and is in it.
LEMMA RoundMap ==
    ASSUME IInv, NEW stray \in StrayReads, thread' = Round(StrayWoken(thread, stray)),
           ev_responder_thread' = ev_responder_thread
    PROVE  Ready \ Leaving \subseteq Ready' /\ Leaving' = Leaving /\ Event' \in {Event, NoTid}
<1> DEFINE woken == StrayWoken(thread, stray)
<1>0. thread \in Table /\ stray \in Tids \cup {NoTid}
    BY StrayAssumption DEF IInv, TypeOK, Table
<1>1. woken \in Table /\ thread' = Round(woken)
    BY <1>0, StrayStep DEF Step
<1>2. ASSUME NEW t \in Tids
      PROVE  /\ woken[t].used = thread[t].used /\ woken[t].exiting = thread[t].exiting
             /\ woken[t].pending = thread[t].pending
             /\ woken[t].state \in {thread[t].state, "READY"}
    BY <1>0 DEF StrayWoken, Table, Thread, Used
<1> HIDE DEF woken
<1>3. \A t \in Tids : Rounded(woken, t, thread'[t])
    BY <1>1, RoundFields
<1>4. ASSUME NEW t \in Tids, t \in Ready, t \notin Leaving
      PROVE  t \in Ready'
  <2>1. woken[t].used /\ woken[t].state = "READY" /\ ~woken[t].exiting
    BY <1>2, <1>4 DEF Ready, Runnable, Leaving, Used
  <2>2. t \notin Exiting(woken) /\ t \notin Reaped(woken)
    BY <2>1 DEF Exiting, Reaped, InState
  <2>3. thread'[t].used /\ thread'[t].state = "READY"
    BY <1>3, <2>1, <2>2 DEF Rounded
  <2> QED BY <2>3 DEF Ready, Runnable
<1>5. ASSUME NEW t \in Tids
      PROVE  thread'[t].used /\ thread'[t].exiting <=> thread[t].used /\ thread[t].exiting
  <2>1. woken[t].exiting => t \notin Reaped(woken)
    BY DEF Reaped
  <2>2. /\ thread'[t].exiting = woken[t].exiting
        /\ thread'[t].used <=> woken[t].used /\ t \notin Reaped(woken)
    BY <1>3 DEF Rounded
  <2> QED BY <1>2, <2>1, <2>2
<1>6. Leaving' = Leaving
    BY <1>5 DEF Leaving, Used
<1>7. EventPending' => EventPending
  <2>1. \A t \in Tids : thread'[t].used /\ thread'[t].pending => thread[t].used /\ thread[t].pending
    BY <1>2, <1>3 DEF Rounded
  <2>2. ev_responder_thread \in Tids \cup {NoTid}
    BY DEF IInv, TypeOK
  <2> QED BY <2>1, <2>2 DEF EventPending
<1>8. Event' \in {Event, NoTid}
    BY <1>7 DEF Event
<1>9. Ready \subseteq Tids
    BY DEF Ready
<1> QED BY <1>4, <1>6, <1>8, <1>9

\* psScheduler is the round of RoundRobin, or its refusal.
LEMMA psSchedulerMap ==
    ASSUME IInv, IInv', DueInv, NEW stray \in StrayReads, psScheduler(thread, stray),
           ev_responder_thread' = ev_responder_thread, scheduler_locked' = scheduler_locked,
           ~scheduler_locked => due' = Ready' \ {InitTid},
           scheduler_locked => due' = due,
           RR!RoundEnds, Holder' = Holder
    PROVE  RR!NewRound \/ RR!Refuse
<1>1. CASE scheduler_locked
  <2>1. thread' = thread /\ currentq' = currentq
    BY <1>1 DEF psScheduler
  <2>2. Ready' = Ready /\ Leaving' = Leaving /\ Event' = Event
    BY <2>1 DEF Ready, Runnable, Leaving, Used, Event, EventPending
  <2> QED BY <1>1, <2>1, <2>2 DEF RR!Refuse
<1>2. CASE ~scheduler_locked
  <2>1. Ready \ Leaving \subseteq Ready' /\ Leaving' = Leaving /\ Event' \in {Event, NoTid}
    <3>1. CASE OnlyInit(thread)
      <4>1. thread' = thread
        BY <1>2, <3>1 DEF psScheduler
      <4>2. Ready' = Ready /\ Leaving' = Leaving /\ Event' = Event
        BY <4>1 DEF Ready, Runnable, Leaving, Used, Event, EventPending
      <4> QED BY <4>2
    <3>2. CASE ~OnlyInit(thread)
      <4>1. thread' = Round(StrayWoken(thread, stray))
        BY <1>2, <3>2 DEF psScheduler
      <4> QED BY <4>1, RoundMap
    <3> QED BY <3>1, <3>2
  <2>2. currentq' = InitTid
    BY <1>2 DEF psScheduler
  <2>3. Ready' \in SUBSET Tids
    BY MapTypes
  <2> QED BY <1>2, <2>1, <2>2, <2>3, RRNames DEF RR!NewRound
<1> QED BY <1>1, <1>2

\* ZeroGravity is one of the choices of RoundRobin.
LEMMA ZeroGravityMap ==
    ASSUME IInv, IInv', DueInv, ZeroGravity, DueStep
    PROVE  RR!Alone \/ RR!Respond \/ RR!Turn \/ RR!NewRound \/ RR!Refuse
<1>0. /\ cpu = "ZeroGravity" /\ cpu' = "go_ahead" /\ thread \in Table
      /\ ev_responder_thread' = ev_responder_thread /\ scheduler_locked' = scheduler_locked
    BY DEF ZeroGravity, IInv, TypeOK, Table, locks
<1>1. Phase = "choosing" /\ Phase' = "chosen" /\ Holder' = Holder
    BY <1>0 DEF Phase, Holder
<1>2. ASSUME thread' = thread
      PROVE  Ready' = Ready /\ Leaving' = Leaving /\ Event' = Event
    BY <1>0, <1>2 DEF Ready, Runnable, Leaving, Used, Event, EventPending
<1>3. CASE OnlyInit(thread)
  <2>1. thread' = thread /\ currentq' = InitTid
    BY <1>3 DEF ZeroGravity
  <2>2. due = {} /\ Ready \subseteq {InitTid} /\ Ready' = Ready
    BY <1>2, <1>3, <2>1, AloneDue
  <2>3. due' = due
    BY <2>2 DEF DueStep
  <2> QED BY <1>0, <1>1, <1>2, <2>1, <2>2, <2>3, RRNames DEF RR!Alone
<1>4. CASE ~OnlyInit(thread) /\ EventPending
  <2> DEFINE e == ev_responder_thread
  <2>1. thread' = ServedResponder(thread, e) /\ currentq' = e /\ e \in Tids /\ thread[e].used
    BY <1>4 DEF ZeroGravity, EventPending, IInv, TypeOK
  <2>2. Ready' = Ready \cup {e} /\ Leaving' = Leaving /\ ~thread'[e].pending
    BY <1>0, <2>1, ServedMap
  <2>3. due' = {}
    BY <1>0, <1>4 DEF DueStep, RoundMade, RoundCut
  <2>4. Event = e /\ Event' = NoTid /\ e # NoTid
    BY <1>0, <1>4, <2>1, <2>2, TidFacts DEF Event, EventPending
  <2> QED BY <1>0, <1>1, <2>1, <2>2, <2>3, <2>4, RRNames DEF RR!Respond
<1>5. CASE ~OnlyInit(thread) /\ ~EventPending
  <2>1. Event = NoTid
    BY <1>5 DEF Event
  <2>2. CASE thread[currentq].next = NoTid
    <3>1. PICK stray \in StrayReads : psScheduler(thread, stray)
        BY <1>5, <2>2 DEF ZeroGravity
    <3>2. ~scheduler_locked => due' = Ready' \ {InitTid}
        BY <1>0, <1>5, <2>2 DEF DueStep, RoundMade
    <3>3. scheduler_locked => due' = due
      <4>1. scheduler_locked => currentq' = currentq
        BY <3>1 DEF psScheduler
      <4>2. scheduler_locked => due' = due \ {currentq'}
        BY <1>5 DEF DueStep, RoundMade, RoundCut
      <4> QED BY <4>1, <4>2, AtIsNotDue
    <3>4. RR!RoundEnds
      <4>1. due = {}
        BY <2>2, NextOfAt
      <4> QED BY <1>1, <2>1, <4>1, RRNames DEF RR!RoundEnds
    <3> QED BY <1>0, <1>1, <3>1, <3>2, <3>3, <3>4, psSchedulerMap
  <2>3. CASE thread[currentq].next # NoTid
    <3>1. thread' = thread /\ currentq' = thread[currentq].next
        BY <1>5, <2>3 DEF ZeroGravity
    <3>2. due # {} /\ currentq' = Least(due) /\ due \in SUBSET Nat
        BY <2>3, <3>1, NextOfAt, AtIsNotDue
    <3>3. currentq' = RR!First(due)
        BY <3>2, RRFirst
    <3>4. due' = due \ {currentq'}
        BY <1>0, <1>5, <2>3 DEF DueStep, RoundMade, RoundCut
    <3> QED BY <1>0, <1>1, <1>2, <2>1, <3>1, <3>2, <3>3, <3>4, RRNames DEF RR!Turn
  <2> QED BY <2>2, <2>3
<1> QED BY <1>3, <1>4, <1>5

\* go_ahead with a target that cannot run.
LEMMA RetryMap ==
    ASSUME IInv, IInv', DueInv, Retry, DueStep
    PROVE  RR!NewRound \/ RR!Refuse
<1>0. /\ cpu = "go_ahead" /\ cpu' = "ZeroGravity" /\ ~Runnable(currentq)
      /\ ev_responder_thread' = ev_responder_thread /\ scheduler_locked' = scheduler_locked
    BY DEF Retry, locks
<1>1. PICK stray \in StrayReads : psScheduler(thread, stray)
    BY DEF Retry
<1>2. ~scheduler_locked => due' = Ready' \ {InitTid}
    BY DEF DueStep, RoundMade, Retry
<1>3. scheduler_locked => due' = due
  <2>1. scheduler_locked => currentq' = currentq
    BY <1>1 DEF psScheduler
  <2>2. scheduler_locked => due' = due \ {currentq'}
    BY DEF DueStep, RoundMade, RoundCut, Retry
  <2> QED BY <2>1, <2>2, AtIsNotDue
<1>4. Phase = "chosen" /\ Phase' = "choosing" /\ Holder' = Holder
    BY <1>0 DEF Phase, Holder
<1>5. RR!RoundEnds
    BY <1>0, <1>4 DEF RR!RoundEnds, Ready
<1> QED BY <1>0, <1>1, <1>2, <1>3, <1>4, <1>5, psSchedulerMap

\* The chosen thread gets the processor.
LEMMA DispatchMap ==
    ASSUME StartedOnce, IInv, IInv', DueInv, TurnsNext, DispatchCurrent
    PROVE  RR!Dispatch
<1>0. /\ cpu = "go_ahead" /\ thread \in Table /\ currentq \in Tids /\ Runnable(currentq)
      /\ cpu' \in {"user", "halted"} /\ current_thread' = currentq
      /\ ev_responder_thread' = ev_responder_thread /\ scheduler_locked' = scheduler_locked
    BY DEF DispatchCurrent, Halt, locks, IInv, TypeOK, Table
<1>1. Phase = "chosen" /\ Phase' = "away" /\ Holder' \in {currentq, NoTid}
    BY <1>0 DEF Phase, Holder
<1>2. currentq' = currentq /\ due' = due
  <2>1. ~ZeroGravity /\ ~Retry
    BY <1>0 DEF ZeroGravity, Retry
  <2> QED BY <2>1, AwayDue DEF DispatchCurrent
<1>3. thread'[currentq].state = "RUNNING"
    BY DispatchCurrentOnward
<1>4. /\ thread'[currentq].used = thread[currentq].used
      /\ thread'[currentq].exiting = thread[currentq].exiting
      /\ thread'[currentq].pending = thread[currentq].pending
      /\ \A u \in Tids \ {currentq} : thread'[u] = thread[u]
    BY <1>0 DEF DispatchCurrent, Dispatched, Table, Thread
<1>5. Ready' = Ready \ {currentq}
    BY <1>0, <1>3, <1>4 DEF Ready, Runnable
<1>6. Leaving' = Leaving
    BY <1>4 DEF Leaving, Used
<1>7. Event' = Event
  <2>1. ev_responder_thread \in Tids \cup {NoTid}
    BY DEF IInv, TypeOK
  <2> QED BY <1>0, <1>4, <2>1 DEF Event, EventPending
<1>8. currentq \in Ready
    BY <1>0 DEF Ready
<1> QED BY <1>0, <1>1, <1>2, <1>5, <1>6, <1>7, <1>8, RRNames DEF RR!Dispatch

\* Every step of the switcher and of everybody else is a step of RoundRobin.
LEMMA TurnsRefine ==
    ASSUME StartedOnce, IInv, IInv', DueInv, [TurnsNext]_<<vars, due>>
    PROVE  [RR!Next]_(RR!rrvars)
<1>1. CASE TurnsNext /\ Choosing
  <2>1. ZeroGravity \/ Retry \/ DispatchCurrent
    BY <1>1, ChoosingSteps DEF TurnsNext, Choosing
  <2> QED BY <1>1, <2>1, ZeroGravityMap, RetryMap, DispatchMap DEF TurnsNext, RR!Next
<1>2. CASE ~Choosing
    BY <1>2, AwayMap DEF RR!Next
<1>3. CASE UNCHANGED <<vars, due>>
  <2>1. Phase' = Phase /\ Holder' = Holder /\ Ready' = Ready /\ Leaving' = Leaving
        /\ Event' = Event /\ currentq' = currentq /\ scheduler_locked' = scheduler_locked
    BY <1>3 DEF vars, Phase, Holder, Ready, Runnable, Leaving, Used, Event, EventPending
  <2> QED BY <1>3, <2>1 DEF RR!rrvars
<1> QED BY <1>1, <1>2, <1>3

\* The switcher goes round, for every number of threads, every table of quanta and
\* every program that starts a thread once: no spawn, message, fault, sleep or stray
\* wake-up makes a round skip a thread, visit one twice or leave the tid order.
THEOREM SwitcherImplementsRoundRobin == StartedOnce => (TurnsSpec => ImplementsRoundRobin)
<1> SUFFICES ASSUME StartedOnce PROVE TurnsSpec => ImplementsRoundRobin
    OBVIOUS
<1>1. TurnsInit => RR!Init
  <2> SUFFICES ASSUME TurnsInit PROVE RR!Init
    OBVIOUS
  <2>1. /\ cpu = "user" /\ current_thread = InitTid /\ currentq = InitTid /\ due = {}
        /\ ev_responder_thread = NoTid /\ scheduler_locked = TRUE
    BY DEF TurnsInit, Init
  <2>2. Phase = "away" /\ Holder = InitTid /\ Event = NoTid
    BY <2>1 DEF Phase, Holder, Event, EventPending
  <2>3. \A t \in Tids : thread[t].state # "READY" /\ ~thread[t].exiting
    BY DEF TurnsInit, Init, InitThread, FreeSlot
  <2>4. Ready = {} /\ Leaving = {}
    BY <2>3 DEF Ready, Runnable, Leaving, Used
  <2> QED BY <2>1, <2>2, <2>4, RRNames DEF RR!Init
<1>2. IInv /\ IInv' /\ DueInv /\ [TurnsNext]_<<vars, due>> => [RR!Next]_(RR!rrvars)
    BY TurnsRefine
<1>3. TurnsSpec => []IInv /\ []DueInv
    BY TurnsAreSteps, Invariance, LinksAreTheRound, PTL
<1> QED BY <1>1, <1>2, <1>3, PTL DEF TurnsSpec, ImplementsRoundRobin, RR!Spec

=============================================================================
