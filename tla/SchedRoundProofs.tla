-------------------------- MODULE SchedRoundProofs --------------------------
(***************************************************************************)
(* The order of a round, for programs that start each thread once.         *)
(*                                                                         *)
(* RoundGoesForward speaks of the one thread at currentq.  What keeps it   *)
(* is a fact about every thread the switcher could come to by following    *)
(* next (OnTheWay): its own next leads forward or nowhere, and it is not   *)
(* in a state from which a thread is still spawned, because spawn writes   *)
(* the tid of the init thread into next (spawn.c).  A round links only     *)
(* READY threads, and rewrites the next of each thread it links.           *)
(*                                                                         *)
(* The first half of the module says, once for each helper that rewrites   *)
(* the thread table, which fields it leaves alone (Onward); both this      *)
(* proof and the one of SchedSoundProofs rest on it.                       *)
(***************************************************************************)
EXTENDS SchedProofs

\* The states of a thread that has not run yet.
Fresh == {"FREE", "INITIALIZED", "STANDBY"}

\* From table a to table b: every thread keeps its process, nobody is put into use or
\* back into a fresh state, and the saved flag of a fresh thread outside S is kept.
Kin(a, b, S) ==
    \A t \in Tids :
        /\ b[t].owner = a[t].owner
        /\ b[t].used => a[t].used
        /\ b[t].state \in Fresh =>
                b[t].state = a[t].state /\ (t \in S \/ b[t].saved = a[t].saved)

\* No next pointer is written, or none except to NULL.
LinksKept(a, b) == \A t \in Tids : b[t].next = a[t].next
LinksCut(a, b)  == \A t \in Tids : b[t].next \in {a[t].next, NoTid}

\* What the scheduler expects of the idle (init) thread: it neither sleeps nor waits.
Idle(x) == x.sleeping = 0 /\ x.state \in {"READY", "RUNNING"}
IdleKept(a, b) == Idle(a[InitTid]) => Idle(b[InitTid])

Onward(a, b, S) == Kin(a, b, S) /\ LinksKept(a, b) /\ IdleKept(a, b)

----------------------------------------------------------------------------
(* The helpers on the thread table.                                        *)

\* Leaving the table alone goes on.
LEMMA OnwardRefl ==
    ASSUME NEW a, NEW S
    PROVE  Onward(a, a, S)
BY DEF Onward, Kin, LinksKept, IdleKept

\* Two changes in a row.
LEMMA OnwardTrans ==
    ASSUME NEW a, NEW b, NEW c, NEW S, Onward(a, b, S), Onward(b, c, S)
    PROVE  Onward(a, c, S)
<1>1. Kin(a, c, S)
    BY DEF Onward, Kin
<1>2. LinksKept(a, c)
    BY DEF Onward, LinksKept
<1>3. IdleKept(a, c)
    BY DEF Onward, IdleKept
<1> QED BY <1>1, <1>2, <1>3 DEF Onward

\* Replacing the record of one thread.
LEMMA OnwardPut ==
    ASSUME NEW tab \in Table, NEW t \in Tids, NEW r, NEW S,
           r.owner = tab[t].owner, r.used => tab[t].used,
           r.state \in Fresh => r.state = tab[t].state /\ (t \in S \/ r.saved = tab[t].saved),
           r.next = tab[t].next,
           t = InitTid /\ Idle(tab[t]) => Idle(r)
    PROVE  Onward(tab, [tab EXCEPT ![t] = r], S)
<1> DEFINE b == [tab EXCEPT ![t] = r]
<1>1. \A u \in Tids : b[u] = IF u = t THEN r ELSE tab[u]
    BY DEF Table
<1> HIDE DEF b
<1>2. Kin(tab, b, S) /\ LinksKept(tab, b)
    BY <1>1 DEF Kin, LinksKept
<1>3. IdleKept(tab, b)
    BY <1>1, TidFacts DEF IdleKept
<1> QED BY <1>2, <1>3 DEF Onward, b

\* A change of a field that neither scheduling order nor ownership depends on.
Alike(x, y) ==
    /\ y.used = x.used /\ y.state = x.state /\ y.owner = x.owner
    /\ y.saved = x.saved /\ y.sleeping = x.sleeping /\ y.next = x.next

\* One such field of one thread.
LEMMA OnwardField ==
    ASSUME NEW tab \in Table, NEW t \in Tids, NEW r, NEW S, Alike(tab[t], r)
    PROVE  Onward(tab, [tab EXCEPT ![t] = r], S)
BY OnwardPut DEF Alike, Idle

\* A post makes its receiver READY and touches no link.
LEMMA PostedOnward ==
    ASSUME NEW tab \in Table, NEW t \in Tids, NEW S
    PROVE  Onward(tab, Posted(tab, t), S)
<1> DEFINE r == Posted(tab, t)[t]
<1>1. Posted(tab, t) = [tab EXCEPT ![t] = r]
    BY PostedRecord
<1>2. /\ r.owner = tab[t].owner /\ r.used = tab[t].used /\ r.state = "READY"
      /\ r.next = tab[t].next /\ r.sleeping = tab[t].sleeping
    BY DEF Posted, Table, Thread
<1> HIDE DEF r
<1>3. Onward(tab, [tab EXCEPT ![t] = r], S)
    BY <1>2, OnwardPut DEF Fresh, Idle
<1> QED BY <1>1, <1>3

\* So does a broadcast.
LEMMA BroadcastOnward ==
    ASSUME NEW tab \in Table, NEW P \in SUBSET Tids, NEW S
    PROVE  Onward(tab, Broadcast(tab, P), S)
<1> DEFINE b == Broadcast(tab, P)
<1>1. ASSUME NEW u \in Tids
      PROVE  /\ b[u].owner = tab[u].owner /\ b[u].used = tab[u].used
             /\ b[u].next = tab[u].next /\ b[u].sleeping = tab[u].sleeping
             /\ b[u].saved = tab[u].saved /\ b[u].state \in {tab[u].state, "READY"}
    BY DEF Broadcast, Posted, Table, Thread
<1> HIDE DEF b
<1> QED BY <1>1, TidFacts DEF Onward, Kin, LinksKept, IdleKept, Idle, Fresh, b

\* Credits given before a post to the display server.
LEMMA CreditedOnward ==
    ASSUME NEW tab \in Table, NEW t \in Tids, NEW S
    PROVE  Onward(tab, Credited(tab, t), S)
<1> DEFINE r == [tab[t] EXCEPT !.credits = 2]
<1>1. Credited(tab, t) = [tab EXCEPT ![t] = r]
    BY DEF Credited, Table
<1>2. Alike(tab[t], r)
    BY DEF Alike, Table, Thread
<1> HIDE DEF r
<1> QED BY <1>1, <1>2, OnwardField

\* jiffies++.
LEMMA TickedOnward ==
    ASSUME NEW tab \in Table, NEW S
    PROVE  Onward(tab, Ticked(tab), S)
<1>1. ASSUME NEW u \in Tids PROVE Alike(tab[u], Ticked(tab)[u])
    BY DEF Alike, Ticked, Table, Thread
<1> QED BY <1>1, TidFacts DEF Onward, Kin, LinksKept, IdleKept, Idle, Alike

\* The stray wake-up of sched.c:430.
LEMMA StrayOnward ==
    ASSUME NEW tab \in Table, NEW t \in Tids \cup {NoTid}, NEW S
    PROVE  Onward(tab, StrayWoken(tab, t), S)
<1>1. CASE t \in Used(tab)
  <2> DEFINE r == [tab[t] EXCEPT !.state = "READY"]
  <2>1. StrayWoken(tab, t) = [tab EXCEPT ![t] = r] /\ t \in Tids
    BY <1>1 DEF StrayWoken, Table, Used
  <2>2. /\ r.owner = tab[t].owner /\ r.used = tab[t].used /\ r.state = "READY"
        /\ r.next = tab[t].next /\ r.sleeping = tab[t].sleeping
    BY <2>1 DEF Table, Thread
  <2> HIDE DEF r
  <2>3. Onward(tab, [tab EXCEPT ![t] = r], S)
    BY <2>1, <2>2, OnwardPut DEF Fresh, Idle
  <2> QED BY <2>1, <2>3
<1>2. CASE t \notin Used(tab)
    BY <1>2, OnwardRefl DEF StrayWoken
<1> QED BY <1>1, <1>2

\* The dispatcher.
LEMMA DispatchedOnward ==
    ASSUME NEW tab \in Table, NEW t \in Tids, NEW S
    PROVE  Onward(tab, Dispatched(tab, t), S) /\ Dispatched(tab, t)[t].state = "RUNNING"
<1> DEFINE r == Dispatched(tab, t)[t]
<1>1. Dispatched(tab, t) = [tab EXCEPT ![t] = r]
    BY DEF Dispatched, Table
<1>2. /\ r.owner = tab[t].owner /\ r.used = tab[t].used /\ r.state = "RUNNING"
      /\ r.next = tab[t].next /\ r.sleeping = tab[t].sleeping
    BY DEF Dispatched, Table, Thread
<1> HIDE DEF r
<1>3. Onward(tab, [tab EXCEPT ![t] = r], S)
    BY <1>2, OnwardPut DEF Fresh, Idle
<1> QED BY <1>1, <1>2, <1>3 DEF r

\* The event responder is READY and at the head of nothing.
LEMMA ServedKin ==
    ASSUME NEW tab \in Table, NEW t \in Tids, NEW S
    PROVE  LET b == ServedResponder(tab, t)
           IN  /\ Kin(tab, b, S) /\ LinksCut(tab, b) /\ IdleKept(tab, b)
               /\ b[t].state = "READY" /\ b[t].next = NoTid
               /\ \A u \in Tids \ {t} : b[u] = tab[u]
<1> DEFINE b == ServedResponder(tab, t)
<1>1. /\ b[t].owner = tab[t].owner /\ b[t].used = tab[t].used /\ b[t].state = "READY"
      /\ b[t].next = NoTid /\ b[t].sleeping = tab[t].sleeping
    BY DEF ServedResponder, Table, Thread
<1>2. \A u \in Tids \ {t} : b[u] = tab[u]
    BY DEF ServedResponder, Table
<1> HIDE DEF b
<1>3. Kin(tab, b, S) /\ LinksCut(tab, b)
    BY <1>1, <1>2 DEF Kin, LinksCut, Fresh
<1>4. IdleKept(tab, b)
    BY <1>1, <1>2, TidFacts DEF IdleKept, Idle
<1> QED BY <1>1, <1>2, <1>3, <1>4 DEF b

\* The tick charged to the current thread.
LEMMA ChargedOnward ==
    ASSUME thread \in Table, current_thread \in Tids
    PROVE  \A S : Onward(thread, Charged, S)
<1> TAKE S
<1> DEFINE r == [thread[current_thread] EXCEPT !.run = Lower(@ + 1, QMax + QBoost)]
<1>1. Charged = [thread EXCEPT ![current_thread] = r]
    BY DEF Charged, Table
<1>2. Alike(thread[current_thread], r)
    BY DEF Alike, Table, Thread
<1> HIDE DEF r
<1> QED BY <1>1, <1>2, OnwardField

\* The end of a turn: the context of the current thread is saved.
LEMMA PreemptedOnward ==
    ASSUME thread \in Table, current_thread \in Tids
    PROVE  Onward(thread, Preempted, {current_thread})
<1> DEFINE c == current_thread
           r == Preempted[c]
<1>0. Charged \in Table /\ Onward(thread, Charged, {c}) /\ Charged[c].state = thread[c].state
  <2>1. Step(thread, Charged, {c}) /\ Onward(thread, Charged, {c})
    BY ChargedStep, ChargedOnward
  <2>2. Charged[c].state = thread[c].state
    BY DEF Charged, Table, Thread
  <2> QED BY <2>1, <2>2 DEF Step
<1>1. Preempted = [Charged EXCEPT ![c] = r]
    BY <1>0 DEF Preempted, Table
<1>2. /\ r.owner = Charged[c].owner /\ r.used = Charged[c].used
      /\ r.state \in {Charged[c].state, "READY"}
      /\ r.next = Charged[c].next /\ r.sleeping = Charged[c].sleeping
    BY <1>0 DEF Preempted, Table, Thread
<1> HIDE DEF r
<1>3. Onward(Charged, [Charged EXCEPT ![c] = r], {c})
    BY <1>0, <1>2, OnwardPut DEF Fresh, Idle
<1> QED BY <1>0, <1>1, <1>3, OnwardTrans

\* The turn goes on, or the thread goes to sleep as it asked.
LEMMA StillInQuantumOnward ==
    ASSUME NEW x \in Thread
    PROVE  LET y == StillInQuantum([x EXCEPT !.saved = TRUE])
           IN  /\ y.owner = x.owner /\ y.used = x.used /\ y.next = x.next
               /\ y.state \in {x.state, "WAITING"}
               /\ Idle(x) => Idle(y)
BY DEF StillInQuantum, Thread, Idle

\* clone.c makes the parent RUNNING.
LEMMA CloneParentOnward ==
    ASSUME NEW tab \in Table, NEW loaded \in BOOLEAN, current_thread \in Tids, NEW S
    PROVE  Onward(tab, CloneParent(tab, loaded), S)
           /\ CloneParent(tab, loaded)[current_thread].state = "RUNNING"
<1> DEFINE t == current_thread
           r == CloneParent(tab, loaded)[t]
<1>1. CloneParent(tab, loaded) = [tab EXCEPT ![t] = r]
    BY DEF CloneParent, Table, Me
<1>2. /\ r.owner = tab[t].owner /\ r.used = tab[t].used /\ r.state = "RUNNING"
      /\ r.next = tab[t].next /\ r.sleeping = tab[t].sleeping
    BY DEF CloneParent, Table, Thread, Me
<1> HIDE DEF r
<1>3. Onward(tab, [tab EXCEPT ![t] = r], S)
    BY <1>2, OnwardPut DEF Fresh, Idle
<1> QED BY <1>1, <1>2, <1>3 DEF r

----------------------------------------------------------------------------
(* One round of the scheduler.                                             *)

\* The next pointer a round writes leads forward to a queued thread, or nowhere.
LEMMA NextQueuedForward ==
    ASSUME NEW tab, NEW t \in Tids
    PROVE  LET n == NextQueued(tab, t) IN n = NoTid \/ (n \in Queued(tab) /\ n > t)
<1> DEFINE after == {u \in Queued(tab) : u > t}
<1>1. CASE after = {}
    BY <1>1 DEF NextQueued
<1>2. CASE after # {}
  <2>1. after \in SUBSET Nat
    BY TidFacts DEF Queued
  <2>2. NextQueued(tab, t) = Least(after)
    BY <1>2 DEF NextQueued
  <2> HIDE DEF after
  <2>3. Least(after) \in after
    BY <1>2, <2>1, LeastInSet
  <2> QED BY <2>2, <2>3 DEF after
<1> QED BY <1>1, <1>2

\* What a round writes of the fields that matter here.
Rounded(tab, t, y) ==
    /\ y.owner = tab[t].owner /\ (y.used <=> tab[t].used /\ t \notin Reaped(tab))
    /\ y.saved = tab[t].saved /\ y.sleeping = tab[t].sleeping
    /\ y.exiting = tab[t].exiting /\ y.pending = tab[t].pending
    /\ y.state = IF t \in Exiting(tab) THEN "ZOMBIE"
                 ELSE IF t \in Queued(tab) THEN "READY" ELSE tab[t].state
    /\ y.next = IF t = InitTid \/ t \in Queued(tab) THEN NextQueued(tab, t) ELSE tab[t].next

\* __scheduler_rr, one thread: only the init thread and the queued threads are linked.
LEMMA RoundFields ==
    ASSUME NEW tab \in Table, NEW t \in Tids
    PROVE  Rounded(tab, t, Round(tab)[t])
<1> DEFINE x == tab[t]
           n == NextQueued(tab, t)
           q == RoundQuantum(tab, t)
           y == Round(tab)[t]
<1>0. y = RoundThread(tab, t) /\ x \in Thread
    BY DEF Round, Table
<1>d. /\ t = InitTid => t \notin Exiting(tab) /\ t \notin Reaped(tab) /\ t \notin Queued(tab)
      /\ t \in Exiting(tab) => t \notin Reaped(tab) /\ t \notin Queued(tab)
      /\ t \in Reaped(tab) => t \notin Queued(tab)
    BY TidFacts DEF Exiting, Reaped, Queued, InState
<1>1. CASE t = InitTid
  <2>1. y = [x EXCEPT !.quantum = Q1, !.next = n]
    BY <1>0, <1>1, <1>d, Zenon DEF RoundThread
  <2> HIDE DEF n, y
  <2>2. /\ y.owner = x.owner /\ y.used = x.used /\ y.saved = x.saved
        /\ y.exiting = x.exiting /\ y.pending = x.pending
        /\ y.sleeping = x.sleeping /\ y.state = x.state /\ y.next = n
    BY <1>0, <2>1 DEF Thread
  <2> QED BY <1>1, <1>d, <2>2 DEF Rounded, y, n
<1>2. CASE t # InitTid /\ t \in Exiting(tab)
  <2>1. y = [x EXCEPT !.state = "ZOMBIE"]
    BY <1>0, <1>2, <1>d, Zenon DEF RoundThread
  <2> HIDE DEF y
  <2>2. /\ y.owner = x.owner /\ y.used = x.used /\ y.saved = x.saved
        /\ y.exiting = x.exiting /\ y.pending = x.pending
        /\ y.sleeping = x.sleeping /\ y.state = "ZOMBIE" /\ y.next = x.next
    BY <1>0, <2>1 DEF Thread
  <2> QED BY <1>2, <1>d, <2>2 DEF Rounded, y
<1>3. CASE t # InitTid /\ t \notin Exiting(tab) /\ t \in Reaped(tab)
  <2>1. y = [x EXCEPT !.used = FALSE]
    BY <1>0, <1>3, <1>d, Zenon DEF RoundThread
  <2> HIDE DEF y
  <2>2. /\ y.owner = x.owner /\ ~y.used /\ y.saved = x.saved
        /\ y.exiting = x.exiting /\ y.pending = x.pending
        /\ y.sleeping = x.sleeping /\ y.state = x.state /\ y.next = x.next
    BY <1>0, <2>1 DEF Thread
  <2> QED BY <1>3, <1>d, <2>2 DEF Rounded, y
<1>4. CASE t # InitTid /\ t \notin Exiting(tab) /\ t \notin Reaped(tab) /\ t \in Queued(tab)
  <2>1. y = [x EXCEPT !.state = "READY", !.run = 0, !.quantum = q, !.responder = FALSE,
                      !.credits = IF @ = 2 THEN 0 ELSE @, !.next = n]
    BY <1>0, <1>4 DEF RoundThread
  <2> HIDE DEF n, q, y
  <2>2. /\ y.owner = x.owner /\ y.used = x.used /\ y.saved = x.saved
        /\ y.exiting = x.exiting /\ y.pending = x.pending
        /\ y.sleeping = x.sleeping /\ y.state = "READY" /\ y.next = n
    BY <1>0, <2>1 DEF Thread
  <2> QED BY <1>4, <1>d, <2>2 DEF Rounded, y, n
<1>5. CASE t # InitTid /\ t \notin Exiting(tab) /\ t \notin Reaped(tab) /\ t \notin Queued(tab)
  <2>1. y = x
    BY <1>0, <1>5 DEF RoundThread
  <2> QED BY <1>5, <1>d, <2>1 DEF Rounded, y
<1> QED BY <1>1, <1>2, <1>3, <1>4, <1>5

\* A round keeps everything but the links.
LEMMA RoundKin ==
    ASSUME NEW tab \in Table, NEW S
    PROVE  Kin(tab, Round(tab), S) /\ IdleKept(tab, Round(tab))
<1>1. Kin(tab, Round(tab), S)
    BY RoundFields DEF Kin, Rounded, Fresh
<1>2. InitTid \notin Exiting(tab) /\ InitTid \notin Queued(tab)
    BY TidFacts DEF Exiting, Queued
<1>3. IdleKept(tab, Round(tab))
    BY <1>2, RoundFields, TidFacts DEF IdleKept, Rounded, Idle
<1> QED BY <1>1, <1>3

----------------------------------------------------------------------------
(* The actions that keep the links.                                        *)

\* The actions that leave the thread table alone.
LEMMA UnchangedOnward ==
    ASSUME thread' = thread
    PROVE  Onward(thread, thread', {current_thread})
BY OnwardRefl

\* ipc_post_message_to_ds.
LEMMA PostToDisplayServerOnward ==
    ASSUME IInv, NEW tab \in Table, NEW after, NEW S, PostToDisplayServer(tab, after)
    PROVE  Onward(tab, thread', S)
<1>0. display_server \in Tids \cup {NoTid}
    BY DEF IInv, TypeOK
<1>1. CASE thread' = tab
    BY <1>1, OnwardRefl
<1>2. CASE /\ display_server # NoTid
           /\ thread' = Posted(Credited(tab, display_server), display_server)
  <2> DEFINE c == Credited(tab, display_server)
  <2>1. display_server \in Tids
    BY <1>0, <1>2
  <2>2. Onward(tab, c, S) /\ Step(tab, c, {})
    BY <2>1, CreditedOnward, CreditedStep
  <2>3. c \in Table
    BY <2>2 DEF Step
  <2> HIDE DEF c
  <2>4. Onward(c, Posted(c, display_server), S)
    BY <2>1, <2>3, PostedOnward
  <2> QED BY <1>2, <2>2, <2>4, OnwardTrans DEF c
<1> QED BY <1>1, <1>2 DEF PostToDisplayServer

\* Irq0 keeps the links.
LEMMA Irq0Onward ==
    ASSUME IInv, Irq0
    PROVE  Onward(thread, thread', {current_thread})
<1> DEFINE S == {current_thread}
<1>1. thread \in Table
    BY UserFacts DEF Irq0, Running
<1>2. Step(thread, Ticked(thread), S) /\ Onward(thread, Ticked(thread), S)
    BY <1>1, TickedStep, TickedOnward
<1>3. Ticked(thread) \in Table
    BY <1>2 DEF Step
<1>4. CASE PostToDisplayServer(Ticked(thread), "tsTaskSwitch")
  <2>1. Onward(Ticked(thread), thread', S)
    BY <1>3, <1>4, PostToDisplayServerOnward
  <2> QED BY <1>2, <2>1, OnwardTrans
<1> QED BY <1>2, <1>4 DEF Irq0

\* A keyboard or mouse interrupt keeps the links.
LEMMA InputEventOnward ==
    ASSUME IInv, InputEvent
    PROVE  Onward(thread, thread', {current_thread})
<1>1. thread \in Table
    BY UserFacts DEF InputEvent, Running
<1> QED BY <1>1, PostToDisplayServerOnward DEF InputEvent

\* A tick in which the thread keeps the processor.
LEMMA TsSameThreadOnward ==
    ASSUME IInv, TsSameThread
    PROVE  Onward(thread, thread', {current_thread})
<1> DEFINE c == current_thread
           x == Charged[c]
           y == StillInQuantum([x EXCEPT !.saved = TRUE])
<1>0. thread \in Table /\ c \in Tids
    BY UserFacts DEF TsSameThread, TsEntered
<1>1. Step(thread, Charged, {c}) /\ Onward(thread, Charged, {c})
    BY <1>0, ChargedStep, ChargedOnward
<1>2. Charged \in Table /\ x \in Thread
    BY <1>0, <1>1 DEF Step, Table
<1>3. thread' = [Charged EXCEPT ![c] = y]
    BY <1>2 DEF TsSameThread, Table
<1> HIDE DEF x
<1>4. /\ y.owner = x.owner /\ y.used = x.used /\ y.next = x.next
      /\ y.state \in {x.state, "WAITING"}
      /\ Idle(x) => Idle(y)
    BY <1>2, StillInQuantumOnward
<1> HIDE DEF y
<1>5. Onward(Charged, [Charged EXCEPT ![c] = y], {c})
    BY <1>0, <1>2, <1>4, OnwardPut DEF Fresh, x
<1> QED BY <1>1, <1>3, <1>5, OnwardTrans

\* The dispatcher keeps the links.
LEMMA DispatchCurrentOnward ==
    ASSUME IInv, DispatchCurrent, NEW S
    PROVE  Onward(thread, thread', S) /\ thread'[currentq].state = "RUNNING"
<1> DEFINE r == [thread[currentq] EXCEPT !.quantum = Lower(@, QMax)]
           tab == [thread EXCEPT ![currentq] = r]
<1>0. thread \in Table /\ currentq \in Tids /\ thread[currentq] \in Thread
    BY DEF IInv, TypeOK, Table
<1>1. thread' = Dispatched(tab, currentq)
    BY <1>0 DEF DispatchCurrent, Table
<1>2. Alike(thread[currentq], r)
    BY <1>0 DEF Alike, Thread
<1>q. Lower(thread[currentq].quantum, QMax) \in Quanta
    BY <1>0, QuantumAssumption DEF Lower, Thread, Quanta
<1>3. r \in Thread
    BY <1>0, <1>q, SetQuantum DEF Like
<1> HIDE DEF r
<1>4. tab \in Table /\ Onward(thread, tab, S)
    BY <1>0, <1>2, <1>3, OnwardField DEF Table
<1> HIDE DEF tab
<1>5. Onward(tab, thread', S) /\ thread'[currentq].state = "RUNNING"
    BY <1>0, <1>1, <1>4, DispatchedOnward
<1> QED BY <1>4, <1>5, OnwardTrans

\* A fault destroys the current thread and dispatches init.
LEMMA FaultOnward ==
    ASSUME IInv, Fault
    PROVE  Onward(thread, thread', {current_thread})
<1> DEFINE c == current_thread
           r == [thread[c] EXCEPT !.used = FALSE]
           tab == [thread EXCEPT ![c] = r]
<1>0. thread \in Table /\ c \in Tids /\ thread[c] \in Thread
    BY UserFacts DEF Fault, Running
<1>1. Destroyed(thread, c) = tab
    BY <1>0 DEF Destroyed, Table
<1>2. /\ r \in Thread /\ ~r.used /\ r.owner = thread[c].owner /\ r.state = thread[c].state
      /\ r.saved = thread[c].saved /\ r.next = thread[c].next
      /\ r.sleeping = thread[c].sleeping
    BY <1>0 DEF Thread
<1> HIDE DEF r
<1>3. tab \in Table /\ Onward(thread, tab, {c})
    BY <1>0, <1>2, OnwardPut DEF Idle, Table
<1> HIDE DEF tab
<1>4. Onward(tab, Dispatched(tab, InitTid), {c})
    BY <1>3, TidFacts, DispatchedOnward
<1>5. thread' \in {thread, tab, Dispatched(tab, InitTid)}
    BY <1>1 DEF Fault
<1>6. Onward(thread, Dispatched(tab, InitTid), {c})
    BY <1>3, <1>4, OnwardTrans
<1> QED BY <1>3, <1>5, <1>6, OnwardRefl

\* Writing exiting, of any slot or of none.
LEMMA ExitingOnward ==
    ASSUME NEW tab \in Table, NEW t, NEW v, NEW S
    PROVE  Onward(tab, [tab EXCEPT ![t].exiting = v], S)
<1> DEFINE r == [tab[t] EXCEPT !.exiting = v]
<1>1. CASE t \in Tids
  <2>1. [tab EXCEPT ![t].exiting = v] = [tab EXCEPT ![t] = r]
    BY <1>1 DEF Table
  <2>2. Alike(tab[t], r)
    BY <1>1 DEF Alike, Table, Thread
  <2> HIDE DEF r
  <2> QED BY <1>1, <2>1, <2>2, OnwardField
<1>2. CASE t \notin Tids
  <2>1. [tab EXCEPT ![t].exiting = v] = tab
    BY <1>2 DEF Table
  <2> QED BY <2>1, OnwardRefl
<1> QED BY <1>1, <1>2

\* Writing yielding, of any slot or of none.
LEMMA YieldingOnward ==
    ASSUME NEW tab \in Table, NEW t, NEW v, NEW S
    PROVE  Onward(tab, [tab EXCEPT ![t].yielding = v], S)
<1> DEFINE r == [tab[t] EXCEPT !.yielding = v]
<1>1. CASE t \in Tids
  <2>1. [tab EXCEPT ![t].yielding = v] = [tab EXCEPT ![t] = r]
    BY <1>1 DEF Table
  <2>2. Alike(tab[t], r)
    BY <1>1 DEF Alike, Table, Thread
  <2> HIDE DEF r
  <2> QED BY <1>1, <2>1, <2>2, OnwardField
<1>2. CASE t \notin Tids
  <2>1. [tab EXCEPT ![t].yielding = v] = tab
    BY <1>2 DEF Table
  <2> QED BY <2>1, OnwardRefl
<1> QED BY <1>1, <1>2

\* Writing credits, of any slot or of none.
LEMMA CreditsOnward ==
    ASSUME NEW tab \in Table, NEW t, NEW v, NEW S
    PROVE  Onward(tab, [tab EXCEPT ![t].credits = v], S)
<1> DEFINE r == [tab[t] EXCEPT !.credits = v]
<1>1. CASE t \in Tids
  <2>1. [tab EXCEPT ![t].credits = v] = [tab EXCEPT ![t] = r]
    BY <1>1 DEF Table
  <2>2. Alike(tab[t], r)
    BY <1>1 DEF Alike, Table, Thread
  <2> HIDE DEF r
  <2> QED BY <1>1, <2>1, <2>2, OnwardField
<1>2. CASE t \notin Tids
  <2>1. [tab EXCEPT ![t].credits = v] = tab
    BY <1>2 DEF Table
  <2> QED BY <2>1, OnwardRefl
<1> QED BY <1>1, <1>2

\* Writing quantum, of any slot or of none.
LEMMA QuantumOnward ==
    ASSUME NEW tab \in Table, NEW t, NEW v, NEW S
    PROVE  Onward(tab, [tab EXCEPT ![t].quantum = v], S)
<1> DEFINE r == [tab[t] EXCEPT !.quantum = v]
<1>1. CASE t \in Tids
  <2>1. [tab EXCEPT ![t].quantum = v] = [tab EXCEPT ![t] = r]
    BY <1>1 DEF Table
  <2>2. Alike(tab[t], r)
    BY <1>1 DEF Alike, Table, Thread
  <2> HIDE DEF r
  <2> QED BY <1>1, <2>1, <2>2, OnwardField
<1>2. CASE t \notin Tids
  <2>1. [tab EXCEPT ![t].quantum = v] = tab
    BY <1>2 DEF Table
  <2> QED BY <2>1, OnwardRefl
<1> QED BY <1>1, <1>2

\* Services that write one field of one thread, none of them read here.
LEMMA QuietServiceOnward ==
    ASSUME IInv,
           sys_yield \/ sys_broken_vessels \/ do_credits \/ sci_exit \/ sys_exit_thread
             \/ set_foreground \/ register_display_server
    PROVE  Onward(thread, thread', {current_thread})
<1>0. cpu = "user"
    BY DEF sys_yield, sys_broken_vessels, do_credits, sci_exit, sys_exit_thread,
           set_foreground, register_display_server, Calls, Running
<1>1. thread \in Table
    BY <1>0, UserFacts
<1>2. CASE sys_yield
    BY <1>1, <1>2, YieldingOnward DEF sys_yield
<1>3. CASE sys_broken_vessels
    BY <1>1, <1>3, QuantumOnward DEF sys_broken_vessels
<1>4. CASE do_credits
    BY <1>1, <1>4, CreditsOnward DEF do_credits
<1>5. CASE sci_exit
    BY <1>1, <1>5, ExitingOnward, OnwardRefl DEF sci_exit
<1>6. CASE sys_exit_thread
  <2>1. thread' = thread \/ \E t : thread' = [thread EXCEPT ![t].exiting = TRUE]
    BY <1>6 DEF sys_exit_thread
  <2> QED BY <1>1, <2>1, ExitingOnward, OnwardRefl
<1>7. CASE set_foreground
  <2>1. thread' = thread \/ \E t : thread' = [thread EXCEPT ![t].quantum = QMax + QBoost]
    BY <1>7 DEF set_foreground
  <2> QED BY <1>1, <2>1, QuantumOnward, OnwardRefl
<1>8. CASE register_display_server
  <2>1. thread' = thread \/ \E t : thread' = [thread EXCEPT ![t].quantum = QMax]
    BY <1>8 DEF register_display_server
  <2> QED BY <1>1, <2>1, QuantumOnward, OnwardRefl
<1> QED BY <1>2, <1>3, <1>4, <1>5, <1>6, <1>7, <1>8

\* A post and a broadcast keep the links.
LEMMA PostOnward ==
    ASSUME IInv, sys_post_message_to_tid \/ sys_broadcast_system_message
    PROVE  Onward(thread, thread', {current_thread})
<1>0. cpu = "user"
    BY DEF sys_post_message_to_tid, sys_broadcast_system_message, Calls, Running
<1>1. thread \in Table
    BY <1>0, UserFacts
<1>2. CASE sys_post_message_to_tid
  <2>1. thread' = thread \/ \E t \in Tids : thread' = Posted(thread, t)
    BY <1>2 DEF sys_post_message_to_tid
  <2> QED BY <1>1, <2>1, PostedOnward, OnwardRefl
<1>3. CASE sys_broadcast_system_message
  <2>1. thread' = Broadcast(thread, Used(thread)) /\ Used(thread) \in SUBSET Tids
    BY <1>3 DEF sys_broadcast_system_message, Used
  <2> QED BY <1>1, <2>1, BroadcastOnward
<1> QED BY <1>2, <1>3

\* sys_sleep and do_waitpid keep the links; the thread they stop is the caller or the
\* control thread of its process.
LEMMA StopOnward ==
    ASSUME IInv, sys_sleep \/ do_waitpid
    PROVE  /\ Kin(thread, thread', {current_thread}) /\ LinksKept(thread, thread')
           /\ \A t \in Tids \ {Me, proc[OwnerOf(Me)].control} : thread'[t] = thread[t]
<1>0. cpu = "user"
    BY DEF sys_sleep, do_waitpid, Calls, Running
<1>1. thread \in Table /\ Me \in Tids
    BY <1>0, UserFacts
<1>2. CASE sys_sleep
  <2>1. PICK ms \in 1..MaxSleep : thread' = [thread EXCEPT ![Me].sleeping = ms]
    BY <1>2 DEF sys_sleep
  <2>2. ASSUME NEW t \in Tids
        PROVE  /\ thread'[t].owner = thread[t].owner /\ thread'[t].used = thread[t].used
               /\ thread'[t].state = thread[t].state /\ thread'[t].saved = thread[t].saved
               /\ thread'[t].next = thread[t].next /\ (t # Me => thread'[t] = thread[t])
    BY <1>1, <2>1 DEF Table, Thread
  <2> QED BY <2>2 DEF Kin, LinksKept
<1>3. CASE do_waitpid
  <2> DEFINE c == proc[OwnerOf(Me)].control
  <2>1. thread' = [thread EXCEPT ![c].state = "BLOCKED"]
    BY <1>3 DEF do_waitpid
  <2> HIDE DEF c
  <2>2. ASSUME NEW t \in Tids
        PROVE  /\ thread'[t].owner = thread[t].owner /\ thread'[t].used = thread[t].used
               /\ thread'[t].state \in {thread[t].state, "BLOCKED"}
               /\ thread'[t].saved = thread[t].saved
               /\ thread'[t].next = thread[t].next /\ (t # c => thread'[t] = thread[t])
    BY <1>1, <2>1 DEF Table, Thread
  <2> QED BY <2>2 DEF Kin, LinksKept, Fresh, c
<1> QED BY <1>2, <1>3

\* A tick that is only charged.
LEMMA TsLockedOnward ==
    ASSUME IInv, TsLocked
    PROVE  Onward(thread, thread', {current_thread})
<1>1. thread \in Table /\ current_thread \in Tids
    BY UserFacts DEF TsLocked, TsEntered
<1> QED BY <1>1, ChargedOnward DEF TsLocked

----------------------------------------------------------------------------
(* The round.                                                              *)

\* No program hands core_start_thread a thread that was started before.
StartedOnce == "start again" \notin InitServices \cup UserServices

Straight(t) == thread[t].next = NoTid \/ thread[t].next > t

\* The switcher is at t or could come to it: from the head of the list, through the
\* next of some thread, or because it is there.
OnTheWay(t) == t = InitTid \/ t = currentq \/ \E u \in Tids : thread[u].next = t

\* The inductive invariant of a round.
RoundInv ==
    \A t \in Tids : OnTheWay(t) => Straight(t) /\ thread[t].state \notin Fresh

\* A fresh thread was fresh before.
FreshKept == \A t \in Tids : thread'[t].state \in Fresh => thread[t].state \in Fresh

\* A step that bends no link and moves the switcher only along the way.
LEMMA StaysForward ==
    ASSUME IInv, RoundInv, LinksCut(thread, thread'), FreshKept, OnTheWay(currentq')
    PROVE  RoundInv'
<1> SUFFICES ASSUME NEW t \in Tids, OnTheWay(t)'
             PROVE  Straight(t)' /\ thread'[t].state \notin Fresh
    BY DEF RoundInv
<1>0. InitTid # NoTid /\ t # NoTid
    BY TidFacts
<1>1. OnTheWay(t)
  <2>1. CASE t = InitTid \/ t = currentq'
    BY <2>1 DEF OnTheWay
  <2>2. CASE \E u \in Tids : thread'[u].next = t
    BY <1>0, <2>2 DEF OnTheWay, LinksCut
  <2> QED BY <2>1, <2>2 DEF OnTheWay
<1>2. Straight(t) /\ thread[t].state \notin Fresh
    BY <1>1 DEF RoundInv
<1> QED BY <1>2 DEF Straight, LinksCut, FreshKept

\* The same for the steps that go on.
LEMMA OnwardForward ==
    ASSUME IInv, RoundInv, Onward(thread, thread', {current_thread}), currentq' = currentq
    PROVE  RoundInv'
<1>1. LinksCut(thread, thread') /\ FreshKept
    BY DEF Onward, Kin, FreshKept, LinksKept, LinksCut
<1>2. OnTheWay(currentq')
    BY DEF OnTheWay
<1> QED BY <1>1, <1>2, StaysForward

\* Boot: every next is NULL.
LEMMA InitForward == Init => RoundInv
<1> SUFFICES ASSUME Init PROVE RoundInv
    OBVIOUS
<1>1. \A t \in Tids : thread[t].next = NoTid
    BY DEF Init, InitThread, FreeSlot
<1>2. thread[InitTid].state = "RUNNING" /\ currentq = InitTid
    BY TidFacts DEF Init, InitThread
<1>3. \A t \in Tids : OnTheWay(t) => t = InitTid
    BY <1>1, <1>2, TidFacts DEF OnTheWay
<1> QED BY <1>1, <1>2, <1>3 DEF RoundInv, Straight, Fresh

\* A spawned thread gets the tid of init as its next; nothing leads to it yet.
LEMMA TsFinishedForward ==
    ASSUME IInv, RoundInv, TsFinished
    PROVE  RoundInv'
<1> DEFINE s == StandbyTid(Preempted)
<1>0. thread \in Table /\ current_thread \in Tids /\ currentq' = currentq
    BY UserFacts DEF TsFinished, TsEntered
<1>1. Onward(thread, Preempted, {current_thread}) /\ Preempted \in Table
    BY <1>0, PreemptedOnward, PreemptedStep DEF Step
<1>2. CASE thread' = Preempted
    BY <1>0, <1>1, <1>2, OnwardForward
<1>3. CASE InState(Preempted, "STANDBY") # {} /\ s # InitTid /\ thread' = Spawned(Preempted, s)
  <2>1. s \in Tids /\ Preempted[s].state = "STANDBY"
    <3>1. InState(Preempted, "STANDBY") \in SUBSET Nat
        BY TidFacts DEF InState, Used
    <3>2. s \in InState(Preempted, "STANDBY")
        BY <1>3, <3>1, LeastInSet DEF StandbyTid
    <3> QED BY <3>2 DEF InState, Used
  <2>2. thread[s].state \in Fresh
    BY <1>1, <2>1 DEF Onward, Kin, Fresh
  <2>3. ~OnTheWay(s)
    BY <2>1, <2>2 DEF RoundInv
  <2> HIDE DEF s
  <2>4. /\ thread'[s].next = InitTid
        /\ \A u \in Tids \ {s} : thread'[u] = Preempted[u]
    BY <1>1, <1>3, <2>1 DEF Spawned, Table, Thread
  <2>5. SUFFICES ASSUME NEW v \in Tids, OnTheWay(v)'
                 PROVE  Straight(v)' /\ thread'[v].state \notin Fresh
    BY DEF RoundInv
  <2>6. OnTheWay(v)
    <3>1. CASE v = InitTid \/ v = currentq'
        BY <1>0, <3>1 DEF OnTheWay
    <3>2. CASE \E u \in Tids : thread'[u].next = v
        <4>1. PICK u \in Tids : thread'[u].next = v
            BY <3>2
        <4>2. CASE u = s
            BY <2>4, <4>1, <4>2 DEF OnTheWay
        <4>3. CASE u # s
            BY <1>1, <2>4, <4>1, <4>3, TidFacts DEF OnTheWay, Onward, LinksKept
        <4> QED BY <4>2, <4>3
    <3> QED BY <2>5, <3>1, <3>2 DEF OnTheWay
  <2>7. v # s /\ Straight(v) /\ thread[v].state \notin Fresh
    BY <2>3, <2>6 DEF RoundInv
  <2>8. thread'[v] = Preempted[v]
    BY <2>4, <2>7
  <2> QED BY <1>1, <2>7, <2>8 DEF Straight, Onward, LinksKept, Kin
<1> QED BY <1>2, <1>3 DEF TsFinished

\* psScheduler: a new round links the queued threads in ascending order, and old
\* links lead to threads that were on the way before.
LEMMA psSchedulerForward ==
    ASSUME IInv, RoundInv, NEW stray \in StrayReads, psScheduler(thread, stray)
    PROVE  RoundInv'
<1> DEFINE woken == StrayWoken(thread, stray)
<1>0. thread \in Table /\ stray \in Tids \cup {NoTid}
    BY StrayAssumption DEF IInv, TypeOK, Table
<1>1. CASE thread' = thread /\ currentq' \in {currentq, InitTid}
  <2>1. LinksCut(thread, thread') /\ FreshKept
    BY <1>1 DEF LinksCut, FreshKept
  <2>2. OnTheWay(currentq')
    BY <1>1 DEF OnTheWay
  <2> QED BY <2>1, <2>2, StaysForward
<1>2. CASE thread' = Round(woken) /\ currentq' = InitTid
  <2>1. Onward(thread, woken, {}) /\ Step(thread, woken, {})
    BY <1>0, StrayOnward, StrayStep
  <2>2. woken \in Table
    BY <2>1 DEF Step
  <2> HIDE DEF woken
  <2>3. \A t \in Tids : Rounded(woken, t, thread'[t])
    BY <1>2, <2>2, RoundFields
  <2>4. ASSUME NEW t \in Tids, t \in Queued(woken) \/ (OnTheWay(t))
        PROVE  Straight(t)' /\ thread'[t].state \notin Fresh
    <3>1. thread'[t].state \notin Fresh
      <4>1. CASE t \in Queued(woken)
        BY <2>3, <4>1 DEF Rounded, Fresh
      <4>2. CASE OnTheWay(t)
        <5>1. thread[t].state \notin Fresh
            BY <4>2 DEF RoundInv
        <5>2. woken[t].state \notin Fresh
            BY <2>1, <5>1 DEF Onward, Kin
        <5>3. thread'[t].state \in {woken[t].state, "READY", "ZOMBIE"}
            BY <2>3 DEF Rounded
        <5> QED BY <5>2, <5>3 DEF Fresh
      <4> QED BY <2>4, <4>1, <4>2
    <3>2. Straight(t)'
      <4>1. CASE t = InitTid \/ t \in Queued(woken)
        <5>1. thread'[t].next = NextQueued(woken, t)
            BY <2>3, <4>1 DEF Rounded
        <5> QED BY <5>1, NextQueuedForward DEF Straight
      <4>2. CASE t # InitTid /\ t \notin Queued(woken)
        <5>1. thread'[t].next = woken[t].next
            BY <2>3, <4>2 DEF Rounded
        <5>2. Straight(t)
            BY <2>4, <4>2 DEF RoundInv
        <5> QED BY <2>1, <5>1, <5>2 DEF Straight, Onward, LinksKept
      <4> QED BY <4>1, <4>2
    <3> QED BY <3>1, <3>2
  <2>5. ASSUME NEW t \in Tids, OnTheWay(t)'
        PROVE  t \in Queued(woken) \/ OnTheWay(t)
    <3>1. CASE t = InitTid \/ t = currentq'
        BY <1>2, <3>1 DEF OnTheWay
    <3>2. CASE \E u \in Tids : thread'[u].next = t
        <4>1. PICK u \in Tids : thread'[u].next = t
            BY <3>2
        <4>2. t # NoTid
            BY TidFacts
        <4>3. CASE u = InitTid \/ u \in Queued(woken)
            <5>1. t = NextQueued(woken, u)
                BY <2>3, <4>1, <4>3 DEF Rounded
            <5> QED BY <4>2, <5>1, NextQueuedForward
        <4>4. CASE u # InitTid /\ u \notin Queued(woken)
            <5>1. t = woken[u].next
                BY <2>3, <4>1, <4>4 DEF Rounded
            <5> QED BY <2>1, <4>2, <5>1 DEF Onward, LinksKept, OnTheWay
        <4> QED BY <4>3, <4>4
    <3> QED BY <2>5, <3>1, <3>2 DEF OnTheWay
  <2> QED BY <2>4, <2>5 DEF RoundInv
<1> QED BY <1>1, <1>2 DEF psScheduler

\* ZeroGravity moves along a link, to the head, or to the responder of an event.
LEMMA ZeroGravityForward ==
    ASSUME IInv, RoundInv, ZeroGravity
    PROVE  RoundInv'
<1>0. thread \in Table /\ currentq \in Tids /\ ev_responder_thread \in Tids \cup {NoTid}
    BY DEF IInv, TypeOK, Table
<1>1. CASE thread' = thread /\ (currentq' = InitTid \/ currentq' = thread[currentq].next)
  <2>1. LinksCut(thread, thread') /\ FreshKept
    BY <1>1 DEF LinksCut, FreshKept
  <2>2. OnTheWay(currentq')
    BY <1>0, <1>1 DEF OnTheWay
  <2> QED BY <2>1, <2>2, StaysForward
<1>2. CASE \E stray \in StrayReads : psScheduler(thread, stray)
    BY <1>2, psSchedulerForward
<1>3. CASE /\ EventPending /\ thread' = ServedResponder(thread, ev_responder_thread)
           /\ currentq' = ev_responder_thread
  <2> DEFINE e == ev_responder_thread
  <2>1. e \in Tids
    BY <1>0, <1>3 DEF EventPending
  <2>2. /\ Kin(thread, thread', {}) /\ LinksCut(thread, thread')
        /\ thread'[e].state = "READY" /\ thread'[e].next = NoTid
    BY <1>0, <1>3, <2>1, ServedKin
  <2>3. ASSUME NEW t \in Tids, OnTheWay(t)'
        PROVE  Straight(t)' /\ thread'[t].state \notin Fresh
    <3>1. CASE t = e
        BY <2>2, <3>1 DEF Straight, Fresh
    <3>2. CASE t # e
        <4>1. OnTheWay(t)
            BY <1>3, <2>2, <2>3, <3>2, TidFacts DEF OnTheWay, LinksCut
        <4>2. Straight(t) /\ thread[t].state \notin Fresh
            BY <4>1 DEF RoundInv
        <4> QED BY <2>2, <4>2 DEF Straight, LinksCut, Kin
    <3> QED BY <3>1, <3>2
  <2> QED BY <2>3 DEF RoundInv
<1> QED BY <1>1, <1>2, <1>3 DEF ZeroGravity

\* A new thread is fresh and leads nowhere.
LEMMA FillForward ==
    ASSUME IInv, RoundInv, NEW tab \in Table, Onward(thread, tab, {}),
           NEW t \in FreeTids, NEW r, r.next = NoTid,
           thread' = [tab EXCEPT ![t] = r], currentq' = currentq
    PROVE  RoundInv'
<1>0. t \in Tids /\ thread[t].state \in Fresh
    BY TidFacts DEF FreeTids, Fresh
<1>1. \A u \in Tids : thread'[u] = IF u = t THEN r ELSE tab[u]
    BY DEF Table
<1>2. LinksCut(thread, thread')
    BY <1>1 DEF LinksCut, LinksKept, Onward
<1>3. FreshKept
    BY <1>0, <1>1 DEF FreshKept, Onward, Kin
<1>4. OnTheWay(currentq')
    BY DEF OnTheWay
<1> QED BY <1>2, <1>3, <1>4, StaysForward

\* sys_create_thread keeps the round.
LEMMA CreateForward ==
    ASSUME IInv, RoundInv, sys_create_thread
    PROVE  RoundInv'
<1>0. cpu = "user" /\ currentq' = currentq
    BY DEF sys_create_thread, Calls, Running, switch
<1>1. thread \in Table /\ OwnerOf(Me) \in Pids
    BY <1>0, UserFacts
<1>2. CASE thread' = thread
    BY <1>0, <1>2, OnwardForward, OnwardRefl
<1>3. CASE /\ FreeTids # {}
           /\ thread' = [thread EXCEPT ![Least(FreeTids)] = NewThread(OwnerOf(Me))]
  <2>1. Least(FreeTids) \in FreeTids
    <3>1. FreeTids \in SUBSET Nat
        BY TidFacts DEF FreeTids
    <3> QED BY <1>3, <3>1, LeastInSet
  <2>2. NewThread(OwnerOf(Me)).next = NoTid
    BY DEF NewThread, InitThread
  <2>3. Onward(thread, thread, {})
    BY OnwardRefl
  <2> QED BY <1>0, <1>1, <1>3, <2>1, <2>2, <2>3, FillForward
<1> QED BY <1>2, <1>3 DEF sys_create_thread

\* copy_process keeps the round.
LEMMA CopyForward ==
    ASSUME IInv, RoundInv, copy_process
    PROVE  RoundInv'
<1> DEFINE control == proc[OwnerOf(Me)].control
<1>0. cpu = "user" /\ currentq' = currentq
    BY DEF copy_process, Calls, Running, switch
<1>1. thread \in Table /\ current_thread \in Tids
    BY <1>0, UserFacts
<1>2. CASE thread' = [thread EXCEPT ![control].state = "RUNNING"]
  <2> HIDE DEF control
  <2>1. ASSUME NEW t \in Tids
        PROVE  thread'[t].next = thread[t].next
               /\ thread'[t].state \in {thread[t].state, "RUNNING"}
    BY <1>1, <1>2 DEF Table, Thread
  <2>2. LinksCut(thread, thread') /\ FreshKept
    BY <2>1 DEF LinksCut, FreshKept, Fresh
  <2>3. OnTheWay(currentq')
    BY <1>0 DEF OnTheWay
  <2> QED BY <2>2, <2>3, StaysForward
<1>3. CASE thread' = CloneParent(thread, FALSE)
    BY <1>0, <1>1, <1>3, CloneParentOnward, OnwardForward
<1>4. CASE /\ FreeTids # {}
           /\ \E loaded \in BOOLEAN :
                 thread' = [CloneParent(thread, loaded) EXCEPT
                                ![Least(FreeTids)] = CloneThread(Least(FreePids), loaded)]
  <2>1. PICK loaded \in BOOLEAN :
                 thread' = [CloneParent(thread, loaded) EXCEPT
                                ![Least(FreeTids)] = CloneThread(Least(FreePids), loaded)]
    BY <1>4
  <2>2. Least(FreeTids) \in FreeTids
    <3>1. FreeTids \in SUBSET Nat
        BY TidFacts DEF FreeTids
    <3> QED BY <1>4, <3>1, LeastInSet
  <2>3. CloneThread(Least(FreePids), loaded).next = NoTid
    BY DEF CloneThread, NewThread, InitThread
  <2>4. Onward(thread, CloneParent(thread, loaded), {})
    BY <1>1, CloneParentOnward
  <2>5. CloneParent(thread, loaded) \in Table
    BY <1>1, CloneParentStep DEF Step
  <2> QED BY <1>0, <2>1, <2>2, <2>3, <2>4, <2>5, FillForward
<1> QED BY <1>2, <1>3, <1>4 DEF copy_process

\* core_start_thread: an INITIALIZED thread becomes STANDBY, still fresh.
LEMMA StartForward ==
    ASSUME StartedOnce, IInv, RoundInv, core_start_thread
    PROVE  RoundInv'
<1>0. cpu = "user" /\ currentq' = currentq
    BY DEF core_start_thread, Calls, Running, switch
<1>1. thread \in Table
    BY <1>0, UserFacts
<1>2. PICK t \in Tids : /\ thread[t].state = "INITIALIZED"
                        /\ thread' = [thread EXCEPT ![t].state = "STANDBY"]
    BY DEF core_start_thread, Calls, StartedOnce, Used
<1>3. ASSUME NEW u \in Tids
      PROVE  thread'[u].next = thread[u].next
             /\ (u # t => thread'[u].state = thread[u].state)
    BY <1>1, <1>2 DEF Table, Thread
<1>4. LinksCut(thread, thread') /\ FreshKept
    BY <1>2, <1>3 DEF LinksCut, FreshKept, Fresh
<1>5. OnTheWay(currentq')
    BY <1>0 DEF OnTheWay
<1> QED BY <1>4, <1>5, StaysForward

\* Every step keeps the round.
LEMMA NextForward ==
    ASSUME StartedOnce, IInv, RoundInv, [Next]_vars
    PROVE  RoundInv'
<1>1. CASE TsFinished
    BY <1>1, TsFinishedForward
<1>2. CASE ZeroGravity
    BY <1>2, ZeroGravityForward
<1>3. CASE Retry
    BY <1>3, psSchedulerForward DEF Retry
<1>4. CASE sys_create_thread
    BY <1>4, CreateForward
<1>5. CASE copy_process
    BY <1>5, CopyForward
<1>6. CASE core_start_thread
    BY <1>6, StartForward
<1>7. CASE Irq0 \/ TsLocked \/ TsSameThread \/ DispatchCurrent
  <2>1. Onward(thread, thread', {current_thread})
    BY <1>7, Irq0Onward, TsLockedOnward, TsSameThreadOnward, DispatchCurrentOnward
  <2>2. currentq' = currentq
    BY <1>7 DEF Irq0, TsLocked, TsSameThread, DispatchCurrent, switch
  <2> QED BY <2>1, <2>2, OnwardForward
<1>8. CASE InputEvent \/ Fault
  <2>1. Onward(thread, thread', {current_thread})
    BY <1>8, InputEventOnward, FaultOnward
  <2>2. currentq' = currentq
    BY <1>8 DEF InputEvent, Fault
  <2> QED BY <2>1, <2>2, OnwardForward
<1>9. CASE sys_yield \/ sys_broken_vessels \/ do_credits \/ sci_exit \/ sys_exit_thread
             \/ set_foreground \/ register_display_server
  <2>1. Onward(thread, thread', {current_thread})
    BY <1>9, QuietServiceOnward
  <2>2. currentq' = currentq
    BY <1>9 DEF sys_yield, sys_broken_vessels, do_credits, sci_exit, sys_exit_thread,
                set_foreground, register_display_server, switch
  <2> QED BY <2>1, <2>2, OnwardForward
<1>10. CASE sys_post_message_to_tid \/ sys_broadcast_system_message
  <2>1. Onward(thread, thread', {current_thread})
    BY <1>10, PostOnward
  <2>2. currentq' = currentq
    BY <1>10 DEF sys_post_message_to_tid, sys_broadcast_system_message
  <2> QED BY <2>1, <2>2, OnwardForward
<1>11. CASE sys_sleep \/ do_waitpid
  <2>1. LinksCut(thread, thread') /\ FreshKept
    BY <1>11, StopOnward DEF Kin, FreshKept, LinksKept, LinksCut
  <2>2. OnTheWay(currentq')
    BY <1>11 DEF sys_sleep, do_waitpid, switch, OnTheWay
  <2> QED BY <2>1, <2>2, StaysForward
<1>12. CASE thread' = thread /\ currentq' = currentq
    BY <1>12, OnwardForward, OnwardRefl
<1>13. TsCallback \/ TsNoProcess \/ sci_validation \/ taskswitch_lock \/ scheduler_lock
         \/ taskswitch_unlock \/ scheduler_unlock \/ setup_callback \/ Halted
         \/ UNCHANGED vars => thread' = thread /\ currentq' = currentq
    BY DEF TsCallback, TsNoProcess, sci_validation, taskswitch_lock, scheduler_lock,
           taskswitch_unlock, scheduler_unlock, setup_callback, Halted, vars, switch
<1>14. CASE TimerStep
    BY <1>1, <1>2, <1>3, <1>7, <1>12, <1>13, <1>14, Zenon DEF TimerStep
<1>15. CASE Service
    BY <1>4, <1>5, <1>6, <1>9, <1>10, <1>11, <1>12, <1>13, <1>15, Zenon DEF Service
<1> QED BY <1>8, <1>12, <1>13, <1>14, <1>15, Zenon DEF Next

\* The inductive invariant of a round holds in every reachable state.
THEOREM RoundInvariance == StartedOnce => (Spec => []RoundInv)
<1> SUFFICES ASSUME StartedOnce PROVE Spec => []RoundInv
    OBVIOUS
<1>1. Init => RoundInv
    BY InitForward
<1>2. IInv /\ RoundInv /\ [Next]_vars => RoundInv'
    BY NextForward
<1> QED BY <1>1, <1>2, Invariance, PTL DEF Spec

\* A round goes forward: whatever spawns, faults, messages and stray wake-ups fall into
\* it, ts.c:601-613 never follows next back to a thread that had its turn, as long as
\* no program starts a thread a second time.
THEOREM RoundsGoForward == StartedOnce => (Spec => []RoundGoesForward)
<1> SUFFICES ASSUME StartedOnce PROVE Spec => []RoundGoesForward
    OBVIOUS
<1>1. IInv /\ RoundInv => RoundGoesForward
    BY DEF IInv, TypeOK, RoundInv, OnTheWay, Straight, RoundGoesForward
<1> QED BY <1>1, Invariance, RoundInvariance, PTL

=============================================================================
