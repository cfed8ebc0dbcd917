---------------------------- MODULE SchedProofs ----------------------------
(***************************************************************************)
(* Proofs about Sched for every size of the tables, every choice of quanta *)
(* and every set of services the programs may ask for.                     *)
(*                                                                         *)
(* The argument: each helper that rewrites the thread table keeps its type *)
(* and the used flags, and adds no RUNNING thread except the one it is     *)
(* told to (Step).  With that, one lemma per action shows that IInv is     *)
(* inductive.  Records are updated one field at a time in the proofs,      *)
(* which is what the SMT backend can follow.                               *)
(***************************************************************************)
EXTENDS Sched, WellFoundedInduction, TLAPS

Table  == [Tids -> Thread]
Quanta == 0..(QMax + QBoost)

\* From table a to table b: well-typed, the same threads in use, and every thread
\* that b newly has RUNNING is in S.
Step(a, b, S) ==
    /\ b \in Table
    /\ \A t \in Tids : /\ b[t].used = a[t].used
                       /\ b[t].state = "RUNNING" => t \in S \/ a[t].state = "RUNNING"

\* The same for one thread record.
Like(x, y) == y \in Thread /\ y.used = x.used /\ y.state = x.state

\* The init thread is never destroyed; OneRunning and CurrentIsValid need it because
\* every failure of the round and every fault falls back on it.
InitAlive == thread[InitTid].used

\* The inductive invariant.
IInv == TypeOK /\ InitAlive /\ OneRunning /\ CurrentIsValid

\* A step puts no thread into use, except in a slot that never held one.
NoReturn == \A t \in Tids : thread'[t].used => thread[t].used \/ thread[t].state = "FREE"

----------------------------------------------------------------------------
(* Facts about the constants, Least and single fields.                     *)

\* Least (the "first slot" searches of the code) finds a member, because < is well
\* founded on the naturals.
LEMMA LeastInSet ==
    ASSUME NEW S \in SUBSET Nat, S # {}
    PROVE  Least(S) \in S /\ \A y \in S : Least(S) <= y
<1> DEFINE R == {ss \in Nat \X Nat : ss[1] < ss[2]}
<1>1. IsWellFoundedOn(R, Nat)
    BY NatLessThanWellFounded, Zenon DEF OpToRel
<1>2. PICK x \in S : \A y \in S : ~(<<y, x>> \in R)
    BY <1>1, WFMin, Zenon
<1>3. ASSUME NEW y \in S PROVE x <= y
  <2>1. ~(<<y, x>> \in R)
    BY <1>2
  <2>2. <<y, x>> \in Nat \X Nat
    OBVIOUS
  <2>3. ~(<<y, x>>[1] < <<y, x>>[2])
    BY <2>1, <2>2, Zenon
  <2> QED BY <2>3
<1>4. \E z \in S : \A y \in S : z <= y
    BY <1>3
<1> QED BY <1>4 DEF Least

\* Every quantum the code assigns is in range (sched.h and the 88 of sci.c).
LEMMA QuantaFacts ==
    /\ 0 \in Quanta /\ Q1 \in Quanta /\ Q3 \in Quanta /\ Q4 \in Quanta
    /\ QMax \in Quanta /\ QMax + QBoost \in Quanta
    /\ Q1 + 1 \in Quanta /\ Q3 + 1 \in Quanta /\ QMax + 1 \in Quanta
BY QuantumAssumption DEF Quanta

\* Slot numbers are naturals and the init slot is one of them.
LEMMA TidFacts ==
    /\ Tids \subseteq Nat /\ Pids \subseteq Nat /\ UserTids \subseteq Tids
    /\ InitTid \in Tids /\ InitPid \in Pids /\ NoTid \notin Tids /\ InitTid \notin UserTids
BY SizeAssumption DEF Tids, Pids, UserTids, InitTid, InitPid, NoTid

\* Writing saved keeps a thread record with the same used flag and state.
LEMMA SetSaved ==
    ASSUME NEW x \in Thread, NEW v \in BOOLEAN
    PROVE  Like(x, [x EXCEPT !.saved = v])
BY DEF Thread, Like

\* Writing exiting keeps a thread record with the same used flag and state.
LEMMA SetExiting ==
    ASSUME NEW x \in Thread, NEW v \in BOOLEAN
    PROVE  Like(x, [x EXCEPT !.exiting = v])
BY DEF Thread, Like

\* Writing yielding keeps a thread record with the same used flag and state.
LEMMA SetYielding ==
    ASSUME NEW x \in Thread, NEW v \in BOOLEAN
    PROVE  Like(x, [x EXCEPT !.yielding = v])
BY DEF Thread, Like

\* Writing pending keeps a thread record with the same used flag and state.
LEMMA SetPending ==
    ASSUME NEW x \in Thread, NEW v \in BOOLEAN
    PROVE  Like(x, [x EXCEPT !.pending = v])
BY DEF Thread, Like

\* Writing responder keeps a thread record with the same used flag and state.
LEMMA SetResponder ==
    ASSUME NEW x \in Thread, NEW v \in BOOLEAN
    PROVE  Like(x, [x EXCEPT !.responder = v])
BY DEF Thread, Like

\* Writing sleeping keeps a thread record with the same used flag and state.
LEMMA SetSleeping ==
    ASSUME NEW x \in Thread, NEW v \in 0..MaxSleep
    PROVE  Like(x, [x EXCEPT !.sleeping = v])
BY DEF Thread, Like

\* Writing wake keeps a thread record with the same used flag and state.
LEMMA SetWake ==
    ASSUME NEW x \in Thread, NEW v \in 0..MaxSleep
    PROVE  Like(x, [x EXCEPT !.wake = v])
BY DEF Thread, Like

\* Writing credits keeps a thread record with the same used flag and state.
LEMMA SetCredits ==
    ASSUME NEW x \in Thread, NEW v \in 0..2
    PROVE  Like(x, [x EXCEPT !.credits = v])
BY DEF Thread, Like

\* Writing quantum keeps a thread record with the same used flag and state.
LEMMA SetQuantum ==
    ASSUME NEW x \in Thread, NEW v \in Quanta
    PROVE  Like(x, [x EXCEPT !.quantum = v])
BY DEF Thread, Like, Quanta

\* Writing run keeps a thread record with the same used flag and state.
LEMMA SetRun ==
    ASSUME NEW x \in Thread, NEW v \in Quanta
    PROVE  Like(x, [x EXCEPT !.run = v])
BY DEF Thread, Like, Quanta

\* Writing next keeps a thread record with the same used flag and state.
LEMMA SetNext ==
    ASSUME NEW x \in Thread, NEW v \in Tids \cup {NoTid}
    PROVE  Like(x, [x EXCEPT !.next = v])
BY DEF Thread, Like

\* Writing owner keeps a thread record with the same used flag and state.
LEMMA SetOwner ==
    ASSUME NEW x \in Thread, NEW v \in Pids
    PROVE  Like(x, [x EXCEPT !.owner = v])
BY DEF Thread, Like

\* The state and the used flag are written without touching each other.
LEMMA SetState ==
    ASSUME NEW x \in Thread, NEW v \in States
    PROVE  /\ [x EXCEPT !.state = v] \in Thread
           /\ [x EXCEPT !.state = v].used = x.used
           /\ [x EXCEPT !.state = v].state = v
BY DEF Thread

\* The used flag is written without touching the state.
LEMMA SetUsed ==
    ASSUME NEW x \in Thread, NEW v \in BOOLEAN
    PROVE  /\ [x EXCEPT !.used = v] \in Thread
           /\ [x EXCEPT !.used = v].used = v
           /\ [x EXCEPT !.used = v].state = x.state
BY DEF Thread

----------------------------------------------------------------------------
(* The helpers on the thread table.                                        *)

\* Replacing the record of one thread.
LEMMA PutStep ==
    ASSUME NEW tab \in Table, NEW t \in Tids, NEW r \in Thread, NEW S,
           r.used = tab[t].used,
           r.state = "RUNNING" => t \in S \/ tab[t].state = "RUNNING"
    PROVE  Step(tab, [tab EXCEPT ![t] = r], S)
BY DEF Step, Table

\* Steps of the table compose.
LEMMA StepTrans ==
    ASSUME NEW a, NEW b, NEW c, NEW S, Step(a, b, S), Step(b, c, S)
    PROVE  Step(a, c, S)
BY DEF Step

\* Leaving the table alone is a step.
LEMMA StepRefl ==
    ASSUME NEW a \in Table, NEW S
    PROVE  Step(a, a, S)
BY DEF Step

\* One field of one thread.
LEMMA FieldStep ==
    ASSUME NEW tab \in Table, NEW t \in Tids, NEW r, NEW S, Like(tab[t], r)
    PROVE  Step(tab, [tab EXCEPT ![t] = r], S)
BY PutStep DEF Like

\* A post leaves the receiver READY.
LEMMA PostedRecord ==
    ASSUME NEW tab \in Table, NEW t \in Tids
    PROVE  Posted(tab, t)[t] \in Thread /\ Posted(tab, t)[t].used = tab[t].used
           /\ Posted(tab, t)[t].state = "READY" /\ Posted(tab, t) = [tab EXCEPT ![t] = Posted(tab, t)[t]]
<1> DEFINE x == tab[t]
           a == [x EXCEPT !.pending = TRUE]
           b == [a EXCEPT !.quantum = QMax]
           c == [b EXCEPT !.state = "READY"]
           d == [c EXCEPT !.responder = TRUE]
<1>1. Posted(tab, t) = [tab EXCEPT ![t] = d]
    BY DEF Posted, Table
<1>2. x \in Thread
    BY DEF Table
<1> HIDE DEF x
<1>3. Like(x, a)
    BY <1>2, SetPending
<1> HIDE DEF a
<1>4. Like(a, b)
    BY <1>3, SetQuantum, QuantaFacts DEF Like
<1> HIDE DEF b
<1>5. c \in Thread /\ c.used = b.used /\ c.state = "READY"
    BY <1>4, SetState DEF Like, States
<1> HIDE DEF c
<1>6. Like(c, d)
    BY <1>5, SetResponder
<1> HIDE DEF d
<1>7. d \in Thread /\ d.used = x.used /\ d.state = "READY"
    BY <1>3, <1>4, <1>5, <1>6 DEF Like
<1>8. [tab EXCEPT ![t] = d][t] = d
    BY DEF Table
<1> QED BY <1>1, <1>7, <1>8 DEF x

\* A post is a step that makes nobody RUNNING.
LEMMA PostedStep ==
    ASSUME NEW tab \in Table, NEW t \in Tids, NEW S
    PROVE  Step(tab, Posted(tab, t), S)
<1> DEFINE r == Posted(tab, t)[t]
<1>1. r \in Thread /\ r.used = tab[t].used /\ r.state = "READY"
      /\ Posted(tab, t) = [tab EXCEPT ![t] = r]
    BY PostedRecord
<1> HIDE DEF r
<1> QED BY <1>1, PutStep

\* So is a broadcast.
LEMMA BroadcastStep ==
    ASSUME NEW tab \in Table, NEW P \in SUBSET Tids, NEW S
    PROVE  Step(tab, Broadcast(tab, P), S)
BY PostedRecord DEF Broadcast, Step, Table

\* Giving credits is a step.
LEMMA CreditedStep ==
    ASSUME NEW tab \in Table, NEW t \in Tids, NEW S
    PROVE  Step(tab, Credited(tab, t), S)
<1> DEFINE x == tab[t]
           r == [x EXCEPT !.credits = 2]
<1>1. x \in Thread
    BY DEF Table
<1>2. Credited(tab, t) = [tab EXCEPT ![t] = r]
    BY DEF Credited, Table
<1> HIDE DEF x
<1>3. 2 \in 0..2
    OBVIOUS
<1>4. Like(x, r)
    BY <1>1, <1>3, SetCredits, Zenon
<1> HIDE DEF r
<1> QED BY <1>2, <1>4, FieldStep DEF x

\* jiffies++ is a step.
LEMMA TickedStep ==
    ASSUME NEW tab \in Table, NEW S
    PROVE  Step(tab, Ticked(tab), S)
BY SizeAssumption DEF Step, Table, Ticked, Thread

\* The stray wake-up of sched.c:430 makes nobody RUNNING.
LEMMA StrayStep ==
    ASSUME NEW tab \in Table, NEW t \in Tids \cup {NoTid}, NEW S
    PROVE  Step(tab, StrayWoken(tab, t), S)
BY DEF Step, Table, StrayWoken, Used, Thread, States

\* The dispatcher makes its thread RUNNING and no other.
LEMMA DispatchedStep ==
    ASSUME NEW tab \in Table, NEW t \in Tids
    PROVE  Step(tab, Dispatched(tab, t), {t})
<1> DEFINE x == tab[t]
           a == [x EXCEPT !.state = "RUNNING"]
           b == [a EXCEPT !.run = 0]
           c == [b EXCEPT !.saved = FALSE]
           q == IF x.quantum < Q1 THEN Q1 ELSE x.quantum
           d == [c EXCEPT !.quantum = q]
<1>1. x \in Thread /\ q \in Quanta
    BY QuantaFacts DEF Table, Thread, Quanta
<1>2. Dispatched(tab, t) = [tab EXCEPT ![t] = d]
    BY DEF Dispatched, Table
<1> HIDE DEF x, q
<1>3. a \in Thread /\ a.used = x.used
    BY <1>1, SetState DEF States
<1> HIDE DEF a
<1>4. Like(a, b)
    BY <1>3, SetRun, QuantaFacts
<1> HIDE DEF b
<1>5. Like(b, c)
    BY <1>4, SetSaved DEF Like
<1> HIDE DEF c
<1>6. Like(c, d)
    BY <1>1, <1>5, SetQuantum DEF Like
<1> HIDE DEF d
<1>7. d \in Thread /\ d.used = tab[t].used
    BY <1>3, <1>4, <1>5, <1>6 DEF Like, x
<1> QED BY <1>2, <1>7, PutStep

\* The responder of an event is left READY at the head of nothing.
LEMMA ServedStep ==
    ASSUME NEW tab \in Table, NEW t \in Tids, NEW S
    PROVE  Step(tab, ServedResponder(tab, t), S)
<1> DEFINE x == tab[t]
           a == [x EXCEPT !.run = 0]
           b == [a EXCEPT !.quantum = QMax]
           c == [b EXCEPT !.state = "READY"]
           d == [c EXCEPT !.pending = FALSE]
           e == [d EXCEPT !.next = NoTid]
<1>1. x \in Thread
    BY DEF Table
<1>2. ServedResponder(tab, t) = [tab EXCEPT ![t] = e]
    BY DEF ServedResponder, Table
<1> HIDE DEF x
<1>3. Like(x, a)
    BY <1>1, SetRun, QuantaFacts
<1> HIDE DEF a
<1>4. Like(a, b)
    BY <1>3, SetQuantum, QuantaFacts DEF Like
<1> HIDE DEF b
<1>5. c \in Thread /\ c.used = b.used /\ c.state = "READY"
    BY <1>4, SetState DEF Like, States
<1> HIDE DEF c
<1>6. Like(c, d)
    BY <1>5, SetPending
<1> HIDE DEF d
<1>7. Like(d, e)
    BY <1>6, SetNext DEF Like
<1> HIDE DEF e
<1>8. e \in Thread /\ e.used = tab[t].used /\ e.state = "READY"
    BY <1>3, <1>4, <1>5, <1>6, <1>7 DEF Like, x
<1> QED BY <1>2, <1>8, PutStep

\* Spawn makes its thread RUNNING and no other.
LEMMA SpawnedStep ==
    ASSUME NEW tab \in Table, NEW t \in Tids
    PROVE  Step(tab, Spawned(tab, t), {t})
<1> DEFINE x == tab[t]
           a == [x EXCEPT !.state = "RUNNING"]
           b == [a EXCEPT !.saved = FALSE]
           c == [b EXCEPT !.exiting = FALSE]
           d == [c EXCEPT !.run = 0]
           e == [d EXCEPT !.next = InitTid]
<1>1. x \in Thread
    BY DEF Table
<1>2. Spawned(tab, t) = [tab EXCEPT ![t] = e]
    BY DEF Spawned, Table
<1> HIDE DEF x
<1>3. a \in Thread /\ a.used = x.used
    BY <1>1, SetState DEF States
<1> HIDE DEF a
<1>4. Like(a, b)
    BY <1>3, SetSaved
<1> HIDE DEF b
<1>5. Like(b, c)
    BY <1>4, SetExiting DEF Like
<1> HIDE DEF c
<1>6. Like(c, d)
    BY <1>5, SetRun, QuantaFacts DEF Like
<1> HIDE DEF d
<1>7. Like(d, e)
    BY <1>6, SetNext, TidFacts DEF Like
<1> HIDE DEF e
<1>8. e \in Thread /\ e.used = tab[t].used
    BY <1>3, <1>4, <1>5, <1>6, <1>7 DEF Like, x
<1> QED BY <1>2, <1>8, PutStep

\* The tick charged to the current thread.
LEMMA ChargedStep ==
    ASSUME thread \in Table, current_thread \in Tids
    PROVE  \A S : Step(thread, Charged, S)
<1> TAKE S
<1> DEFINE x == thread[current_thread]
           q == Lower(x.run + 1, QMax + QBoost)
           r == [x EXCEPT !.run = q]
<1>1. x \in Thread /\ q \in Quanta
    BY QuantumAssumption DEF Table, Thread, Quanta, Lower
<1>2. Charged = [thread EXCEPT ![current_thread] = r]
    BY DEF Charged, Table
<1> HIDE DEF x, q
<1>3. Like(x, r)
    BY <1>1, SetRun
<1> HIDE DEF r
<1> QED BY <1>2, <1>3, FieldStep DEF x

\* At the end of its quantum the current thread is no longer RUNNING.
LEMMA PreemptedStep ==
    ASSUME thread \in Table, current_thread \in Tids
    PROVE  /\ \A S : Step(thread, Preempted, S)
           /\ Preempted[current_thread].state # "RUNNING"
<1> DEFINE x == Charged[current_thread]
           s == IF thread[current_thread].state = "RUNNING" THEN "READY"
                ELSE thread[current_thread].state
           a == [x EXCEPT !.saved = TRUE]
           b == [a EXCEPT !.state = s]
<1>1. Charged \in Table /\ x \in Thread /\ x.used = thread[current_thread].used
    BY ChargedStep DEF Step, Table
<1>2. s \in States /\ s # "RUNNING"
    BY DEF Table, Thread, States
<1>3. Preempted = [Charged EXCEPT ![current_thread] = b]
    BY <1>1 DEF Preempted, Table
<1> HIDE DEF x, s
<1>4. Like(x, a)
    BY <1>1, SetSaved
<1> HIDE DEF a
<1>5. b \in Thread /\ b.used = a.used /\ b.state = s
    BY <1>2, <1>4, SetState DEF Like
<1> HIDE DEF b
<1>6. b \in Thread /\ b.used = x.used /\ b.state # "RUNNING"
    BY <1>2, <1>4, <1>5 DEF Like
<1>7. \A S : Step(Charged, Preempted, S)
    BY <1>1, <1>3, <1>6, PutStep DEF x
<1>8. \A S : Step(thread, Preempted, S)
    BY <1>7, ChargedStep, StepTrans, Zenon
<1>9. Preempted[current_thread] = b
    BY <1>1, <1>3 DEF Table
<1> QED BY <1>6, <1>8, <1>9

\* The turn goes on: the current thread stays RUNNING or goes to sleep.
LEMMA StillInQuantumRecord ==
    ASSUME NEW me \in Thread
    PROVE  /\ StillInQuantum(me) \in Thread
           /\ StillInQuantum(me).used = me.used
           /\ StillInQuantum(me).state = "RUNNING" => me.state = "RUNNING"
<1> DEFINE yields == me.state = "RUNNING" /\ me.yielding
           sleeps == me.state = "RUNNING" /\ me.sleeping > 0
           q  == IF yields \/ sleeps THEN me.quantum ELSE me.run
           y  == me.yielding /\ ~yields
           s  == IF sleeps THEN "WAITING" ELSE me.state
           w  == IF sleeps THEN me.sleeping ELSE me.wake
           sl == IF sleeps THEN 0 ELSE me.sleeping
           a == [me EXCEPT !.run = q]
           b == [a EXCEPT !.yielding = y]
           c == [b EXCEPT !.state = s]
           d == [c EXCEPT !.wake = w]
           e == [d EXCEPT !.sleeping = sl]
<1>1. q \in Quanta /\ s \in States /\ w \in 0..MaxSleep /\ sl \in 0..MaxSleep
    BY SizeAssumption DEF Thread, Quanta, States
<1>2. y \in BOOLEAN
    OBVIOUS
<1>3. s = "RUNNING" => me.state = "RUNNING"
    OBVIOUS
<1>4. StillInQuantum(me) = e
    BY DEF StillInQuantum
<1> HIDE DEF q, y, s, w, sl
<1>5. Like(me, a)
    BY <1>1, SetRun
<1> HIDE DEF a
<1>6. Like(a, b)
    BY <1>2, <1>5, SetYielding DEF Like
<1> HIDE DEF b
<1>7. c \in Thread /\ c.used = b.used /\ c.state = s
    BY <1>1, <1>6, SetState DEF Like
<1> HIDE DEF c
<1>8. Like(c, d)
    BY <1>1, <1>7, SetWake
<1> HIDE DEF d
<1>9. Like(d, e)
    BY <1>1, <1>8, SetSleeping DEF Like
<1> HIDE DEF e
<1> QED BY <1>3, <1>4, <1>5, <1>6, <1>7, <1>8, <1>9 DEF Like

\* A slot just filled by create_thread or copy_thread_struct.
LEMMA InitThreadType == InitThread \in Thread
BY SizeAssumption, QuantumAssumption, TidFacts
   DEF InitThread, Thread, States, Pids, InitPid

\* create_thread: a thread in use, INITIALIZED.
LEMMA NewThreadType ==
    ASSUME NEW p \in Pids
    PROVE  NewThread(p) \in Thread /\ NewThread(p).state = "INITIALIZED" /\ NewThread(p).used
<1> DEFINE a == [InitThread EXCEPT !.state = "INITIALIZED"]
           b == [a EXCEPT !.owner = p]
<1>1. NewThread(p) = b
    BY DEF NewThread
<1>i. InitThread.used
    BY DEF InitThread
<1>2. a \in Thread /\ a.state = "INITIALIZED" /\ a.used = InitThread.used
    BY InitThreadType, SetState DEF States
<1> HIDE DEF a
<1>3. Like(a, b)
    BY <1>2, SetOwner
<1> HIDE DEF b
<1> QED BY <1>1, <1>i, <1>2, <1>3 DEF Like

\* copy_thread_struct: a thread in use that is not RUNNING.
LEMMA CloneThreadType ==
    ASSUME NEW p \in Pids, NEW loaded \in BOOLEAN,
           thread \in Table, current_thread \in Tids
    PROVE  /\ CloneThread(p, loaded) \in Thread
           /\ CloneThread(p, loaded).state # "RUNNING" /\ CloneThread(p, loaded).used
<1> DEFINE x == NewThread(p)
<1>0. x \in Thread /\ x.used
    BY NewThreadType
<1>1. CASE loaded
  <2> DEFINE a == [x EXCEPT !.state = "STANDBY"]
             b == [a EXCEPT !.quantum = Q4]
  <2>1. CloneThread(p, loaded) = b
    BY <1>1 DEF CloneThread
  <2> HIDE DEF x
  <2>2. a \in Thread /\ a.state = "STANDBY" /\ a.used = x.used
    BY <1>0, SetState DEF States
  <2> HIDE DEF a
  <2>3. Like(a, b)
    BY <2>2, SetQuantum, QuantaFacts
  <2> HIDE DEF b
  <2> QED BY <1>0, <2>1, <2>2, <2>3 DEF Like
<1>2. CASE ~loaded
  <2> DEFINE s == thread[Me].saved
             q == Lower(thread[Me].quantum, QMax)
             a == [x EXCEPT !.state = "BLOCKED"]
             b == [a EXCEPT !.saved = s]
             c == [b EXCEPT !.quantum = q]
  <2>1. CloneThread(p, loaded) = c
    BY <1>2 DEF CloneThread
  <2>2. s \in BOOLEAN /\ q \in Quanta
    BY QuantumAssumption DEF Me, Table, Thread, Lower, Quanta
  <2> HIDE DEF x, s, q
  <2>3. a \in Thread /\ a.state = "BLOCKED" /\ a.used = x.used
    BY <1>0, SetState DEF States
  <2> HIDE DEF a
  <2>4. Like(a, b)
    BY <2>2, <2>3, SetSaved
  <2> HIDE DEF b
  <2>5. Like(b, c)
    BY <2>2, <2>4, SetQuantum DEF Like
  <2> HIDE DEF c
  <2> QED BY <1>0, <2>1, <2>3, <2>4, <2>5 DEF Like
<1> QED BY <1>1, <1>2

\* clone.c makes the parent RUNNING, which it already is, and nobody else.
LEMMA CloneParentStep ==
    ASSUME NEW tab \in Table, NEW loaded \in BOOLEAN, current_thread \in Tids
    PROVE  Step(tab, CloneParent(tab, loaded), {current_thread})
<1> DEFINE x == tab[current_thread]
           q == IF loaded THEN Q4 ELSE x.quantum
           a == [x EXCEPT !.state = "RUNNING"]
           b == [a EXCEPT !.quantum = q]
<1>1. x \in Thread /\ q \in Quanta
    BY QuantaFacts DEF Table, Thread, Quanta
<1>2. CloneParent(tab, loaded) = [tab EXCEPT ![current_thread] = b]
    BY DEF CloneParent, Table, Me
<1> HIDE DEF x, q
<1>3. a \in Thread /\ a.used = x.used
    BY <1>1, SetState DEF States
<1> HIDE DEF a
<1>4. Like(a, b)
    BY <1>1, <1>3, SetQuantum
<1> HIDE DEF b
<1>5. b \in Thread /\ b.used = tab[current_thread].used
    BY <1>3, <1>4 DEF Like, x
<1>6. Step(tab, [tab EXCEPT ![current_thread] = b], {current_thread})
    BY <1>5, PutStep
<1> QED BY <1>2, <1>6

----------------------------------------------------------------------------
(* One round of the scheduler.                                             *)

\* The next pointer a round writes names a slot or is NULL.
LEMMA NextQueuedType ==
    ASSUME NEW tab, NEW t \in Tids
    PROVE  NextQueued(tab, t) \in Tids \cup {NoTid}
<1> DEFINE after == {u \in Queued(tab) : u > t}
<1>1. CASE after = {}
    BY <1>1 DEF NextQueued
<1>2. CASE after # {}
  <2>1. after \subseteq Tids /\ after \in SUBSET Nat
    BY TidFacts DEF Queued
  <2>2. NextQueued(tab, t) = Least(after)
    BY <1>2 DEF NextQueued
  <2> HIDE DEF after
  <2> QED BY <1>2, <2>1, <2>2, LeastInSet
<1> QED BY <1>1, <1>2

\* The quantum of a turn stays in range although two credits add a tick to it.
LEMMA RoundQuantumType ==
    ASSUME NEW tab, NEW t
    PROVE  RoundQuantum(tab, t) \in Quanta
BY QuantaFacts DEF RoundQuantum

\* What a round does to one thread: it may be unlinked (used = FALSE), never the init
\* thread, and it is not made RUNNING.
Swept(a, b, t) ==
    /\ b[t] \in Thread
    /\ b[t].used => a[t].used
    /\ t = InitTid => b[t].used = a[t].used
    /\ b[t].state = "RUNNING" => a[t].state = "RUNNING"

\* __scheduler_rr, one thread.
LEMMA RoundThreadSwept ==
    ASSUME NEW tab \in Table, NEW t \in Tids
    PROVE  Swept(tab, Round(tab), t)
<1> DEFINE x == tab[t]
           n == NextQueued(tab, t)
           q == RoundQuantum(tab, t)
<1>0. Round(tab)[t] = RoundThread(tab, t)
    BY DEF Round
<1>1. x \in Thread
    BY DEF Table
<1>2. n \in Tids \cup {NoTid} /\ q \in Quanta
    BY NextQueuedType, RoundQuantumType
<1>d. /\ t = InitTid => t \notin Exiting(tab) /\ t \notin Reaped(tab) /\ t \notin Queued(tab)
      /\ t \in Exiting(tab) => t \notin Reaped(tab) /\ t \notin Queued(tab)
      /\ t \in Reaped(tab) => t \notin Queued(tab)
    BY TidFacts DEF Exiting, Reaped, Queued, InState
<1>3. CASE t = InitTid
  <2> DEFINE a == [x EXCEPT !.quantum = Q1]
             b == [a EXCEPT !.next = n]
  <2>1. RoundThread(tab, t) = b
    BY <1>3, <1>d, Zenon DEF RoundThread
  <2> HIDE DEF x, n
  <2>2. Like(x, a)
    BY <1>1, SetQuantum, QuantaFacts
  <2> HIDE DEF a
  <2>3. Like(a, b)
    BY <1>2, <2>2, SetNext DEF Like
  <2> HIDE DEF b
  <2> QED BY <1>0, <1>1, <2>1, <2>2, <2>3 DEF Like, Swept, x
<1>4. CASE t # InitTid /\ t \in Exiting(tab)
  <2> DEFINE a == [x EXCEPT !.state = "ZOMBIE"]
  <2>1. RoundThread(tab, t) = a
    BY <1>4, <1>d, Zenon DEF RoundThread
  <2> HIDE DEF x
  <2>2. a \in Thread /\ a.used = x.used /\ a.state = "ZOMBIE"
    BY <1>1, SetState DEF States
  <2> HIDE DEF a
  <2> QED BY <1>0, <1>4, <2>1, <2>2 DEF Swept, x
<1>5. CASE t # InitTid /\ t \notin Exiting(tab) /\ t \in Reaped(tab)
  <2> DEFINE a == [x EXCEPT !.used = FALSE]
  <2>1. RoundThread(tab, t) = a
    BY <1>5, <1>d, Zenon DEF RoundThread
  <2> HIDE DEF x
  <2>2. a \in Thread /\ ~a.used /\ a.state = x.state
    BY <1>1, SetUsed
  <2> HIDE DEF a
  <2> QED BY <1>0, <1>5, <2>1, <2>2 DEF Swept, x
<1>6. CASE t # InitTid /\ t \notin Exiting(tab) /\ t \notin Reaped(tab) /\ t \in Queued(tab)
  <2> DEFINE k == IF x.credits = 2 THEN 0 ELSE x.credits
             a == [x EXCEPT !.state = "READY"]
             b == [a EXCEPT !.run = 0]
             c == [b EXCEPT !.quantum = q]
             d == [c EXCEPT !.responder = FALSE]
             e == [d EXCEPT !.credits = k]
             f == [e EXCEPT !.next = n]
  <2>1. RoundThread(tab, t) = f
    BY <1>6 DEF RoundThread
  <2>2. k \in 0..2
    BY <1>1 DEF Thread
  <2> HIDE DEF x, n, q, k
  <2>3. a \in Thread /\ a.used = x.used /\ a.state = "READY"
    BY <1>1, SetState DEF States
  <2> HIDE DEF a
  <2>4. Like(a, b)
    BY <2>3, SetRun, QuantaFacts
  <2> HIDE DEF b
  <2>5. Like(b, c)
    BY <1>2, <2>4, SetQuantum DEF Like
  <2> HIDE DEF c
  <2>6. Like(c, d)
    BY <2>5, SetResponder DEF Like
  <2> HIDE DEF d
  <2>7. Like(d, e)
    BY <2>2, <2>6, SetCredits DEF Like
  <2> HIDE DEF e
  <2>8. Like(e, f)
    BY <1>2, <2>7, SetNext DEF Like
  <2> HIDE DEF f
  <2>9. f \in Thread /\ f.used = x.used /\ f.state = "READY"
    BY <2>3, <2>4, <2>5, <2>6, <2>7, <2>8 DEF Like
  <2> QED BY <1>0, <1>6, <2>1, <2>9 DEF Swept, x
<1>7. CASE t # InitTid /\ t \notin Exiting(tab) /\ t \notin Reaped(tab) /\ t \notin Queued(tab)
  <2>1. RoundThread(tab, t) = x
    BY <1>7 DEF RoundThread
  <2> QED BY <1>0, <1>1, <2>1 DEF Swept
<1> QED BY <1>3, <1>4, <1>5, <1>6, <1>7

\* __scheduler_rr, the whole table.
LEMMA RoundType ==
    ASSUME NEW tab \in Table
    PROVE  Round(tab) \in Table
BY RoundThreadSwept DEF Swept, Round, Table

----------------------------------------------------------------------------
(* The actions.                                                            *)

\* The boot state satisfies the invariant.
LEMMA InitIInv == Init => IInv
<1> SUFFICES ASSUME Init PROVE IInv
    OBVIOUS
<1>1. FreeSlot \in Thread /\ ~FreeSlot.used
  <2> DEFINE a == [InitThread EXCEPT !.used = FALSE]
             b == [a EXCEPT !.state = "FREE"]
             c == [b EXCEPT !.quantum = 0]
  <2>1. FreeSlot = c
    BY DEF FreeSlot
  <2>2. a \in Thread /\ ~a.used
    BY InitThreadType, SetUsed
  <2> HIDE DEF a
  <2>3. b \in Thread /\ ~b.used
    BY <2>2, SetState DEF States
  <2> HIDE DEF b
  <2>4. Like(b, c)
    BY <2>3, SetQuantum, QuantaFacts
  <2> HIDE DEF c
  <2> QED BY <2>1, <2>3, <2>4 DEF Like
<1>2. thread \in Table
    BY <1>1, InitThreadType DEF Init, Table
<1>3. proc \in [Pids -> Process]
    BY TidFacts DEF Init, Process
<1>4. TypeOK
  <2>1. events \in 0..MaxEvents
    BY SizeAssumption DEF Init
  <2>2. cause \in Causes
    BY DEF Init, Causes
  <2>3. callback_ready \in BOOLEAN /\ taskswitch_locked \in BOOLEAN /\ scheduler_locked \in BOOLEAN
    BY DEF Init
  <2>4. current_thread \in Tids /\ currentq \in Tids /\ foreground_thread \in Tids
    BY TidFacts DEF Init
  <2>5. ev_responder_thread = NoTid /\ display_server = NoTid /\ ws_pid = -1 /\ cpu = "user"
    BY DEF Init
  <2> QED BY <1>2, <1>3, <2>1, <2>2, <2>3, <2>4, <2>5 DEF TypeOK, Table
<1>5. thread[InitTid] = InitThread /\ \A t \in Tids \ {InitTid} : ~thread[t].used
    BY <1>1, TidFacts DEF Init
<1>6. InitThread.used
    BY DEF InitThread
<1> QED BY <1>4, <1>5, <1>6, TidFacts DEF Init, IInv, InitAlive, OneRunning, CurrentIsValid

\* Steps after which the same thread is on the processor, or the kernel has stopped.
LEMMA SameThreadStep ==
    ASSUME IInv, Step(thread, thread', {current_thread}), current_thread' = current_thread,
           cpu \in {"user", "tsTaskSwitch"}, cpu' \in {"user", "tsTaskSwitch", "halted"}
    PROVE  InitAlive' /\ OneRunning' /\ CurrentIsValid' /\ NoReturn
BY TidFacts DEF IInv, NoReturn, Step, InitAlive, OneRunning, CurrentIsValid

\* What the actions of the thread on the processor may assume.
LEMMA UserFacts ==
    ASSUME IInv, cpu \in {"user", "tsTaskSwitch"}
    PROVE  /\ thread \in Table /\ current_thread \in Tids /\ thread[current_thread].used
           /\ thread[current_thread] \in Thread /\ OwnerOf(current_thread) \in Pids
           /\ OwnerOf(Me) \in Pids /\ Me = current_thread
BY DEF IInv, TypeOK, CurrentIsValid, Table, OwnerOf, Thread, Me

\* ipc_post_message_to_ds is a step and leaves its variables in range.
LEMMA PostToDisplayServerStep ==
    ASSUME IInv, NEW tab \in Table, NEW after, NEW S,
           PostToDisplayServer(tab, after)
    PROVE  /\ Step(tab, thread', S)
           /\ ev_responder_thread' \in Tids \cup {NoTid}
           /\ cpu' \in {after, "halted"} /\ cause' \in Causes
<1>0. ev_responder_thread \in Tids \cup {NoTid} /\ display_server \in Tids \cup {NoTid}
      /\ cause \in Causes
    BY DEF IInv, TypeOK
<1>1. CASE display_server = NoTid
    BY <1>0, <1>1, StepRefl DEF PostToDisplayServer
<1>2. CASE display_server # NoTid /\ tab[display_server].used
  <2>1. display_server \in Tids
    BY <1>0, <1>2
  <2>2. Step(tab, Credited(tab, display_server), S)
    BY <2>1, CreditedStep
  <2>3. Step(Credited(tab, display_server), thread', S)
    BY <1>2, <2>1, <2>2, PostedStep DEF PostToDisplayServer, Step
  <2>4. Step(tab, thread', S)
    BY <2>2, <2>3, StepTrans
  <2> QED BY <1>0, <1>2, <2>1, <2>4 DEF PostToDisplayServer
<1>3. CASE display_server # NoTid /\ ~tab[display_server].used
    BY <1>0, <1>3, StepRefl DEF PostToDisplayServer, Halt, Causes
<1> QED BY <1>1, <1>2, <1>3

\* Irq0 keeps the invariant and brings no destroyed thread back.
LEMMA Irq0Inv == ASSUME IInv, Irq0 PROVE IInv' /\ NoReturn
<1> DEFINE S == {current_thread}
<1>1. cpu = "user" /\ thread \in Table /\ current_thread' = current_thread
    BY UserFacts DEF Irq0, Running
<1>2. Step(thread, Ticked(thread), S) /\ Ticked(thread) \in Table
    BY <1>1, TickedStep DEF Step
<1>3. /\ Step(thread, thread', S)
      /\ ev_responder_thread' \in Tids \cup {NoTid}
      /\ cpu' \in {"tsTaskSwitch", "halted"} /\ cause' \in Causes /\ events' \in 0..MaxEvents
  <2>1. CASE thread' = Ticked(thread) /\ cpu' = "tsTaskSwitch"
             /\ UNCHANGED <<ev_responder_thread, cause, events>>
    BY <1>2, <2>1 DEF IInv, TypeOK
  <2>2. CASE events < MaxEvents /\ events' = events + 1
             /\ PostToDisplayServer(Ticked(thread), "tsTaskSwitch")
    <3>1. events' \in 0..MaxEvents
        BY <2>2, SizeAssumption DEF IInv, TypeOK
    <3>2. /\ Step(Ticked(thread), thread', S)
          /\ ev_responder_thread' \in Tids \cup {NoTid}
          /\ cpu' \in {"tsTaskSwitch", "halted"} /\ cause' \in Causes
        BY <1>2, <2>2, PostToDisplayServerStep
    <3>3. Step(thread, thread', S)
        BY <1>2, <3>2, StepTrans
    <3> QED BY <3>1, <3>2, <3>3
  <2> QED BY <2>1, <2>2 DEF Irq0
<1>4. TypeOK'
    BY <1>3 DEF Irq0, IInv, TypeOK, Step, Table, display, locks
<1>5. InitAlive' /\ OneRunning' /\ CurrentIsValid' /\ NoReturn
    BY <1>1, <1>3, SameThreadStep
<1> QED BY <1>4, <1>5 DEF IInv

\* InputEvent keeps the invariant and brings no destroyed thread back.
LEMMA InputEventInv == ASSUME IInv, InputEvent PROVE IInv' /\ NoReturn
<1> DEFINE S == {current_thread}
<1>1. cpu = "user" /\ thread \in Table /\ current_thread' = current_thread
    BY UserFacts DEF InputEvent, Running
<1>2. events' \in 0..MaxEvents
    BY SizeAssumption DEF InputEvent, IInv, TypeOK
<1>3. /\ Step(thread, thread', S)
      /\ ev_responder_thread' \in Tids \cup {NoTid}
      /\ cpu' \in {"user", "halted"} /\ cause' \in Causes
    BY <1>1, PostToDisplayServerStep DEF InputEvent
<1>4. TypeOK'
    BY <1>2, <1>3 DEF InputEvent, IInv, TypeOK, Step, Table, display, locks
<1>5. InitAlive' /\ OneRunning' /\ CurrentIsValid' /\ NoReturn
    BY <1>1, <1>3, SameThreadStep
<1> QED BY <1>4, <1>5 DEF IInv

\* TsCallback keeps the invariant and brings no destroyed thread back.
LEMMA TsCallbackInv == ASSUME IInv, TsCallback PROVE IInv' /\ NoReturn
<1>1. Step(thread, thread', {current_thread})
    BY UserFacts, StepRefl DEF TsCallback
<1>2. TypeOK'
    BY DEF TsCallback, IInv, TypeOK, switch, locks
<1> QED BY <1>1, <1>2, SameThreadStep DEF TsCallback, IInv, switch

\* TsNoProcess keeps the invariant and brings no destroyed thread back.
LEMMA TsNoProcessInv == ASSUME IInv, TsNoProcess PROVE IInv' /\ NoReturn
<1>1. Step(thread, thread', {current_thread})
    BY UserFacts, StepRefl DEF TsNoProcess
<1>2. TypeOK'
    BY DEF TsNoProcess, IInv, TypeOK, switch, locks, display, Halt, Causes
<1> QED BY <1>1, <1>2, SameThreadStep DEF TsNoProcess, IInv, switch, Halt

\* TsLocked keeps the invariant and brings no destroyed thread back.
LEMMA TsLockedInv == ASSUME IInv, TsLocked PROVE IInv' /\ NoReturn
<1>1. Step(thread, thread', {current_thread})
    BY UserFacts, ChargedStep DEF TsLocked, TsEntered
<1>2. TypeOK'
    BY <1>1 DEF TsLocked, IInv, TypeOK, switch, locks, display, Step, Table
<1> QED BY <1>1, <1>2, SameThreadStep DEF TsLocked, TsEntered, IInv, switch

\* TsSameThread keeps the invariant and brings no destroyed thread back.
LEMMA TsSameThreadInv == ASSUME IInv, TsSameThread PROVE IInv' /\ NoReturn
<1> DEFINE x == Charged[current_thread]
           y == [x EXCEPT !.saved = TRUE]
           z == StillInQuantum(y)
<1>0. cpu = "tsTaskSwitch" /\ thread \in Table /\ current_thread \in Tids
    BY UserFacts DEF TsSameThread, TsEntered
<1>1. Step(thread, Charged, {current_thread}) /\ Charged \in Table /\ x \in Thread
    BY <1>0, ChargedStep DEF Step, Table
<1>2. thread' = [Charged EXCEPT ![current_thread] = z]
    BY <1>1 DEF TsSameThread, Table
<1> HIDE DEF x
<1>3. Like(x, y)
    BY <1>1, SetSaved
<1> HIDE DEF y
<1>4. z \in Thread /\ z.used = x.used /\ (z.state = "RUNNING" => x.state = "RUNNING")
    BY <1>3, StillInQuantumRecord DEF Like
<1> HIDE DEF z
<1>5. Step(Charged, thread', {current_thread})
    BY <1>0, <1>1, <1>2, <1>4, PutStep DEF x
<1>6. Step(thread, thread', {current_thread})
    BY <1>1, <1>5, StepTrans
<1>7. TypeOK'
    BY <1>6 DEF TsSameThread, IInv, TypeOK, switch, locks, display, Step, Table
<1> QED BY <1>0, <1>6, <1>7, SameThreadStep DEF TsSameThread, IInv, switch

\* TsFinished keeps the invariant and brings no destroyed thread back.
LEMMA TsFinishedInv == ASSUME IInv, TsFinished PROVE IInv' /\ NoReturn
<1> DEFINE t == StandbyTid(Preempted)
<1>0. cpu = "tsTaskSwitch" /\ thread \in Table /\ current_thread \in Tids
    BY UserFacts DEF TsFinished, TsEntered
<1>1. /\ \A S : Step(thread, Preempted, S)
      /\ Preempted \in Table
      /\ Preempted[current_thread].state # "RUNNING"
    BY <1>0, PreemptedStep DEF Step
<1>p. Step(thread, Preempted, {})
    BY <1>1
<1>2. \A u \in Tids : ~(Preempted[u].used /\ Preempted[u].state = "RUNNING")
    BY <1>0, <1>1, <1>p DEF IInv, OneRunning, Step
<1>3. \A u \in Tids : Preempted[u].used = thread[u].used
    BY <1>p DEF Step
<1>4. InState(Preempted, "STANDBY") # {} =>
        t \in Tids /\ Preempted[t].used /\ Preempted[t].state = "STANDBY"
  <2>1. InState(Preempted, "STANDBY") \in SUBSET Nat
    BY TidFacts DEF InState, Used
  <2>2. InState(Preempted, "STANDBY") # {} => t \in InState(Preempted, "STANDBY")
    BY <2>1, LeastInSet DEF StandbyTid
  <2> QED BY <2>2 DEF InState, Used
<1>5. CASE /\ InState(Preempted, "STANDBY") = {}
           /\ thread' = Preempted
           /\ cpu' = "ZeroGravity"
           /\ UNCHANGED <<current_thread, locks, cause>>
  <2>1. TypeOK'
    BY <1>1, <1>5 DEF TsFinished, IInv, TypeOK, Table, locks, display
  <2> QED BY <1>2, <1>3, <1>5, <2>1, TidFacts DEF IInv, NoReturn, InitAlive, OneRunning, CurrentIsValid
<1>6. CASE /\ InState(Preempted, "STANDBY") # {}
           /\ t = InitTid
           /\ thread' = Preempted
           /\ Halt("spawn init") /\ UNCHANGED <<current_thread, locks>>
  <2>1. TypeOK'
    BY <1>1, <1>6 DEF TsFinished, IInv, TypeOK, Table, locks, display, Halt, Causes
  <2> QED BY <1>2, <1>3, <1>6, <2>1, TidFacts
          DEF IInv, NoReturn, InitAlive, OneRunning, CurrentIsValid, Halt
<1>7. CASE /\ InState(Preempted, "STANDBY") # {} /\ t # InitTid /\ current_thread' = t
           /\ Preempted[t].saved
           /\ thread' = Preempted
           /\ Halt("spawn saved") /\ UNCHANGED locks
  <2>1. TypeOK'
    BY <1>1, <1>4, <1>7 DEF TsFinished, IInv, TypeOK, Table, locks, display, Halt, Causes
  <2> QED BY <1>2, <1>3, <1>7, <2>1, TidFacts
          DEF IInv, NoReturn, InitAlive, OneRunning, CurrentIsValid, Halt
<1>8. CASE /\ InState(Preempted, "STANDBY") # {} /\ t # InitTid /\ current_thread' = t
           /\ ~Preempted[t].saved
           /\ thread' = Spawned(Preempted, t)
           /\ taskswitch_locked' = FALSE /\ scheduler_locked' = FALSE
           /\ cpu' = "user" /\ UNCHANGED cause
  <2> HIDE DEF t
  <2>1. Step(Preempted, thread', {t})
    BY <1>1, <1>4, <1>8, SpawnedStep
  <2>2. TypeOK'
    BY <1>4, <1>8, <2>1 DEF TsFinished, IInv, TypeOK, Table, Step, display
  <2> QED BY <1>2, <1>3, <1>4, <1>8, <2>1, <2>2, TidFacts
          DEF IInv, NoReturn, InitAlive, OneRunning, CurrentIsValid, Step
<1> QED BY <1>5, <1>6, <1>7, <1>8, Zenon DEF TsFinished

\* While the switcher is choosing nobody is RUNNING; a step of that kind that makes
\* nobody RUNNING and keeps the init thread keeps the invariant.
LEMMA ChoosingStep ==
    ASSUME IInv, cpu \in {"ZeroGravity", "go_ahead"}, cpu' \in {"ZeroGravity", "go_ahead"},
           TypeOK', \A t \in Tids : Swept(thread, thread', t)
    PROVE  IInv' /\ NoReturn
BY TidFacts DEF IInv, NoReturn, Swept, InitAlive, OneRunning, CurrentIsValid

\* A step that makes nobody RUNNING is also what a round may do.
LEMMA StepSwept ==
    ASSUME NEW a, NEW b, Step(a, b, {})
    PROVE  \A t \in Tids : Swept(a, b, t)
BY DEF Step, Swept, Table

\* psScheduler in its three cases: locked, only init, a round.
LEMMA psSchedulerStep ==
    ASSUME IInv, NEW stray \in StrayReads, psScheduler(thread, stray)
    PROVE  /\ thread' \in Table
           /\ \A t \in Tids : Swept(thread, thread', t)
           /\ current_thread' \in Tids \cup {NoTid} /\ currentq' \in Tids
           /\ foreground_thread' \in Tids \cup {NoTid}
           /\ display_server' \in Tids \cup {NoTid}
<1> DEFINE woken == StrayWoken(thread, stray)
<1>0. thread \in Table /\ stray \in Tids \cup {NoTid}
    BY StrayAssumption DEF IInv, TypeOK, Table
<1>1. Step(thread, thread, {}) /\ Step(thread, woken, {})
    BY <1>0, StepRefl, StrayStep
<1>w. woken \in Table
    BY <1>1 DEF Step
<1>2. /\ currentq \in Tids /\ foreground_thread \in Tids \cup {NoTid}
      /\ display_server \in Tids \cup {NoTid}
    BY DEF IInv, TypeOK
<1>3. CASE /\ scheduler_locked /\ current_thread' = NoTid /\ thread' = thread
           /\ UNCHANGED <<currentq, foreground_thread, display_server>>
    BY <1>0, <1>1, <1>2, <1>3, StepSwept
<1>4. CASE /\ ~scheduler_locked /\ OnlyInit(thread)
           /\ current_thread' = InitTid /\ currentq' = InitTid
           /\ thread' = thread
           /\ UNCHANGED <<foreground_thread, display_server>>
    BY <1>0, <1>1, <1>2, <1>4, StepSwept, TidFacts
<1>5. CASE /\ ~scheduler_locked /\ ~OnlyInit(thread)
           /\ current_thread' = InitTid /\ currentq' = InitTid
           /\ thread' = Round(woken)
           /\ foreground_thread' = IF foreground_thread \in Exiting(woken)
                                   THEN NoTid ELSE foreground_thread
           /\ display_server' = IF display_server \in Reaped(woken)
                                THEN NoTid ELSE display_server
  <2> HIDE DEF woken
  <2>1. thread' \in Table
    BY <1>w, <1>5, RoundType
  <2>2. \A t \in Tids : Swept(woken, thread', t)
    BY <1>w, <1>5, RoundThreadSwept
  <2>3. \A t \in Tids : Swept(thread, thread', t)
    BY <1>1, <2>2 DEF Step, Swept
  <2> QED BY <1>2, <1>5, <2>1, <2>3, TidFacts
<1> QED BY <1>3, <1>4, <1>5, Zenon DEF psScheduler

\* ZeroGravity keeps the invariant and brings no destroyed thread back.
LEMMA ZeroGravityInv == ASSUME IInv, ZeroGravity PROVE IInv' /\ NoReturn
<1>0. thread \in Table /\ currentq \in Tids /\ ev_responder_thread \in Tids \cup {NoTid}
      /\ thread[currentq] \in Thread
    BY DEF IInv, TypeOK, Table
<1>1. /\ thread' \in Table
      /\ \A t \in Tids : Swept(thread, thread', t)
      /\ current_thread' \in Tids \cup {NoTid} /\ currentq' \in Tids
      /\ foreground_thread' \in Tids \cup {NoTid}
      /\ display_server' \in Tids \cup {NoTid}
  <2>0. /\ current_thread \in Tids \cup {NoTid}
        /\ foreground_thread \in Tids \cup {NoTid}
        /\ display_server \in Tids \cup {NoTid}
        /\ \A t \in Tids : Swept(thread, thread, t)
    BY <1>0, StepRefl, StepSwept DEF IInv, TypeOK
  <2>1. CASE /\ currentq' = InitTid
             /\ UNCHANGED <<thread, current_thread, foreground_thread, display_server>>
    BY <1>0, <2>0, <2>1, TidFacts
  <2>2. CASE /\ EventPending
             /\ thread' = ServedResponder(thread, ev_responder_thread)
             /\ currentq' = ev_responder_thread
             /\ UNCHANGED <<current_thread, foreground_thread, display_server>>
    <3>1. ev_responder_thread \in Tids
        BY <1>0, <2>2 DEF EventPending
    <3>2. Step(thread, thread', {})
        BY <1>0, <2>2, <3>1, ServedStep
    <3>3. thread' \in Table
        BY <3>2 DEF Step
    <3> QED BY <2>0, <2>2, <3>1, <3>2, <3>3, StepSwept
  <2>3. CASE \E stray \in StrayReads : psScheduler(thread, stray)
    BY <2>3, psSchedulerStep
  <2>4. CASE /\ thread[currentq].next # NoTid
             /\ currentq' = thread[currentq].next
             /\ UNCHANGED <<thread, current_thread, foreground_thread, display_server>>
    <3>1. thread[currentq].next \in Tids
        BY <1>0, <2>4 DEF Thread
    <3> QED BY <1>0, <2>0, <2>4, <3>1
  <2> QED BY <2>1, <2>2, <2>3, <2>4 DEF ZeroGravity
<1>2. TypeOK'
    BY <1>1 DEF ZeroGravity, IInv, TypeOK, Table, locks
<1> QED BY <1>1, <1>2, ChoosingStep DEF ZeroGravity

\* Retry keeps the invariant and brings no destroyed thread back.
LEMMA RetryInv == ASSUME IInv, Retry PROVE IInv' /\ NoReturn
<1>1. /\ thread' \in Table
      /\ \A t \in Tids : Swept(thread, thread', t)
      /\ current_thread' \in Tids \cup {NoTid} /\ currentq' \in Tids
      /\ foreground_thread' \in Tids \cup {NoTid}
      /\ display_server' \in Tids \cup {NoTid}
    BY psSchedulerStep DEF Retry
<1>2. TypeOK'
    BY <1>1 DEF Retry, IInv, TypeOK, Table, locks
<1> QED BY <1>1, <1>2, ChoosingStep DEF Retry

\* DispatchCurrent keeps the invariant and brings no destroyed thread back.
LEMMA DispatchCurrentInv == ASSUME IInv, DispatchCurrent PROVE IInv' /\ NoReturn
<1> DEFINE x == thread[currentq]
           q == Lower(x.quantum, QMax)
           r == [x EXCEPT !.quantum = q]
           capped == [thread EXCEPT ![currentq] = r]
<1>0. thread \in Table /\ currentq \in Tids /\ x \in Thread /\ x.used
    BY DEF IInv, TypeOK, Table, DispatchCurrent, Runnable
<1>1. q \in Quanta
    BY <1>0, QuantumAssumption DEF Thread, Lower, Quanta
<1>2. thread' = Dispatched(capped, currentq)
    BY <1>0 DEF DispatchCurrent, Table
<1> HIDE DEF x, q
<1>3. Like(x, r)
    BY <1>0, <1>1, SetQuantum
<1> HIDE DEF r
<1>4. Step(thread, capped, {currentq}) /\ capped \in Table
    BY <1>0, <1>3, FieldStep DEF x, Step
<1> HIDE DEF capped
<1>5. Step(thread, thread', {currentq})
    BY <1>0, <1>2, <1>4, DispatchedStep, StepTrans
<1>6. TypeOK'
    BY <1>0, <1>5 DEF DispatchCurrent, IInv, TypeOK, Table, Step, display, locks, Halt, Causes
<1> QED BY <1>0, <1>5, <1>6, TidFacts
        DEF DispatchCurrent, IInv, NoReturn, InitAlive, OneRunning, CurrentIsValid, Step, Halt, x

\* Fault keeps the invariant and brings no destroyed thread back.
LEMMA FaultInv == ASSUME IInv, Fault PROVE IInv' /\ NoReturn
<1>0. cpu = "user" /\ thread \in Table /\ current_thread \in Tids /\ proc \in [Pids -> Process]
    BY UserFacts DEF Fault, Running, IInv, TypeOK
<1>1. CASE /\ Protected(current_thread)
           /\ Halt("faulty process is protected")
           /\ UNCHANGED <<thread, proc, current_thread>>
  <2>1. Step(thread, thread', {current_thread})
    BY <1>0, <1>1, StepRefl
  <2>2. TypeOK'
    BY <1>1 DEF Fault, IInv, TypeOK, display, locks, Halt, Causes
  <2> QED BY <1>0, <1>1, <2>1, <2>2, SameThreadStep DEF IInv, Halt
<1>2. CASE ~Protected(current_thread)
  <2> DEFINE x    == thread[current_thread]
             r    == [x EXCEPT !.used = FALSE]
             dead == Destroyed(thread, current_thread)
  <2>1. current_thread # InitTid /\ current_thread' = InitTid
        /\ proc' = [proc EXCEPT ![OwnerOf(current_thread)].used = FALSE]
    BY <1>2 DEF Fault, Protected
  <2>2. proc' \in [Pids -> Process]
    BY <1>0, <2>1 DEF Process
  <2>3. dead = [thread EXCEPT ![current_thread] = r]
    BY <1>0 DEF Destroyed, Table
  <2>4. x \in Thread
    BY <1>0 DEF Table
  <2> HIDE DEF x
  <2>5. r \in Thread /\ ~r.used
    BY <2>4, SetUsed
  <2> HIDE DEF r
  <2>d. \A t \in Tids : dead[t].used => thread[t].used
    BY <1>0, <2>3, <2>5 DEF Table
  <2>6. dead \in Table /\ dead[InitTid].used
    BY <1>0, <2>1, <2>3, <2>5, TidFacts DEF Table, IInv, InitAlive
  <2>7. \A t \in Tids : ~(dead[t].used /\ dead[t].state = "RUNNING")
    BY <1>0, <2>3, <2>5 DEF Table, IInv, OneRunning
  <2> HIDE DEF dead
  <2>8. CASE thread' = dead /\ Halt("init not ready")
    <3>1. TypeOK'
        BY <2>1, <2>2, <2>6, <2>8, TidFacts
           DEF Fault, IInv, TypeOK, display, locks, Halt, Causes, Table
    <3> QED BY <2>d, <2>6, <2>8, <3>1 DEF IInv, NoReturn, InitAlive, OneRunning, CurrentIsValid, Halt
  <2>9. CASE thread' = Dispatched(dead, InitTid) /\ UNCHANGED <<cpu, cause>>
    <3>1. Step(dead, thread', {InitTid})
        BY <2>6, <2>9, DispatchedStep, TidFacts
    <3>2. TypeOK'
        BY <2>1, <2>2, <2>9, <3>1, TidFacts DEF Fault, IInv, TypeOK, display, locks, Table, Step
    <3> QED BY <1>0, <2>d, <2>1, <2>6, <2>7, <2>9, <3>1, <3>2, TidFacts
            DEF IInv, NoReturn, InitAlive, OneRunning, CurrentIsValid, Step
  <2> QED BY <1>2, <2>8, <2>9, Zenon DEF Fault, dead
<1> QED BY <1>1, <1>2, Zenon DEF Fault

\* A service that leaves the same thread on the processor (or stops the kernel) and
\* whose only types to check are given.
LEMMA ServiceStep ==
    ASSUME IInv, cpu = "user", cpu' \in {"user", "halted"}, current_thread' = current_thread,
           Step(thread, thread', {current_thread}), TypeOK'
    PROVE  IInv' /\ NoReturn
BY SameThreadStep DEF IInv

\* What a service may assume about its caller.
LEMMA CallFacts ==
    ASSUME IInv, NEW service, Calls(service)
    PROVE  /\ cpu = "user" /\ thread \in Table /\ Me = current_thread /\ Me \in Tids
           /\ current_thread \in Tids /\ thread[Me] \in Thread /\ OwnerOf(Me) \in Pids
BY UserFacts DEF Calls, Running

\* sys_yield keeps the invariant and brings no destroyed thread back.
LEMMA sys_yieldInv == ASSUME IInv, sys_yield PROVE IInv' /\ NoReturn
<1> DEFINE x == thread[Me]
           r == [x EXCEPT !.yielding = TRUE]
<1>1. cpu = "user" /\ thread \in Table /\ Me \in Tids /\ x \in Thread
    BY CallFacts DEF sys_yield
<1>2. thread' = [thread EXCEPT ![Me] = r]
    BY <1>1 DEF sys_yield, Table
<1> HIDE DEF x
<1>3. Like(x, r)
    BY <1>1, SetYielding
<1> HIDE DEF r
<1>4. Step(thread, thread', {current_thread})
    BY <1>1, <1>2, <1>3, FieldStep DEF x
<1>5. TypeOK'
    BY <1>4 DEF sys_yield, IInv, TypeOK, switch, display, locks, Step, Table
<1> QED BY <1>1, <1>4, <1>5, ServiceStep DEF sys_yield, switch

\* sys_sleep keeps the invariant and brings no destroyed thread back.
LEMMA sys_sleepInv == ASSUME IInv, sys_sleep PROVE IInv' /\ NoReturn
<1>0. PICK ms \in 1..MaxSleep : thread' = [thread EXCEPT ![Me].sleeping = ms]
    BY DEF sys_sleep
<1> DEFINE x == thread[Me]
           r == [x EXCEPT !.sleeping = ms]
<1>1. cpu = "user" /\ thread \in Table /\ Me \in Tids /\ x \in Thread /\ ms \in 0..MaxSleep
    BY CallFacts, SizeAssumption DEF sys_sleep
<1>2. thread' = [thread EXCEPT ![Me] = r]
    BY <1>0, <1>1 DEF Table
<1> HIDE DEF x
<1>3. Like(x, r)
    BY <1>1, SetSleeping
<1> HIDE DEF r
<1>4. Step(thread, thread', {current_thread})
    BY <1>1, <1>2, <1>3, FieldStep DEF x
<1>5. TypeOK'
    BY <1>4 DEF sys_sleep, IInv, TypeOK, switch, display, locks, Step, Table
<1> QED BY <1>1, <1>4, <1>5, ServiceStep DEF sys_sleep, switch

\* sys_broken_vessels keeps the invariant and brings no destroyed thread back.
LEMMA sys_broken_vesselsInv == ASSUME IInv, sys_broken_vessels PROVE IInv' /\ NoReturn
<1> DEFINE x == thread[Me]
           q == Lower(x.quantum + 1, QMax)
           r == [x EXCEPT !.quantum = q]
<1>1. cpu = "user" /\ thread \in Table /\ Me \in Tids /\ x \in Thread
    BY CallFacts DEF sys_broken_vessels
<1>2. q \in Quanta
    BY <1>1, QuantumAssumption DEF Thread, Lower, Quanta
<1>3. thread' = [thread EXCEPT ![Me] = r]
    BY <1>1 DEF sys_broken_vessels, Table
<1> HIDE DEF x, q
<1>4. Like(x, r)
    BY <1>1, <1>2, SetQuantum
<1> HIDE DEF r
<1>5. Step(thread, thread', {current_thread})
    BY <1>1, <1>3, <1>4, FieldStep DEF x
<1>6. TypeOK'
    BY <1>5 DEF sys_broken_vessels, IInv, TypeOK, switch, display, locks, Step, Table
<1> QED BY <1>1, <1>5, <1>6, ServiceStep DEF sys_broken_vessels, switch

\* A service of a caller without a process keeps the invariant: it stops the kernel.
LEMMA sci_validationInv == ASSUME IInv, sci_validation PROVE IInv' /\ NoReturn
<1>1. cpu = "user" /\ thread \in Table
    BY UserFacts DEF sci_validation, Running
<1>2. Step(thread, thread', {current_thread})
    BY <1>1, StepRefl DEF sci_validation
<1>3. cpu' \in {"user", "halted"} /\ cause' \in Causes
    BY DEF sci_validation, Halt, Causes
<1>4. TypeOK'
    BY <1>3 DEF sci_validation, IInv, TypeOK, switch, display, locks
<1> QED BY <1>1, <1>2, <1>3, <1>4, ServiceStep DEF sci_validation, switch

\* do_credits keeps the invariant and brings no destroyed thread back.
LEMMA do_creditsInv == ASSUME IInv, do_credits PROVE IInv' /\ NoReturn
<1> DEFINE x == thread[Me]
           c == Lower(x.credits + 1, 2)
           r == [x EXCEPT !.credits = c]
<1>1. cpu = "user" /\ thread \in Table /\ Me \in Tids /\ x \in Thread
    BY CallFacts DEF do_credits
<1>2. c \in 0..2
    BY <1>1 DEF Thread, Lower
<1>3. thread' = [thread EXCEPT ![Me] = r]
    BY <1>1 DEF do_credits, Table
<1> HIDE DEF x, c
<1>4. Like(x, r)
    BY <1>1, <1>2, SetCredits
<1> HIDE DEF r
<1>5. Step(thread, thread', {current_thread})
    BY <1>1, <1>3, <1>4, FieldStep DEF x
<1>6. TypeOK'
    BY <1>5 DEF do_credits, IInv, TypeOK, switch, display, locks, Step, Table
<1> QED BY <1>1, <1>5, <1>6, ServiceStep DEF do_credits, switch

\* Marking a thread for exit is a step.
LEMMA ExitingStep ==
    ASSUME NEW tab \in Table, NEW t \in Tids, NEW S
    PROVE  Step(tab, [tab EXCEPT ![t].exiting = TRUE], S)
<1> DEFINE x == tab[t]
           r == [x EXCEPT !.exiting = TRUE]
<1>1. x \in Thread /\ [tab EXCEPT ![t].exiting = TRUE] = [tab EXCEPT ![t] = r]
    BY DEF Table
<1> HIDE DEF x
<1>2. Like(x, r)
    BY <1>1, SetExiting
<1> HIDE DEF r
<1> QED BY <1>1, <1>2, FieldStep DEF x

\* sys_exit_thread keeps the invariant and brings no destroyed thread back.
LEMMA sys_exit_threadInv == ASSUME IInv, sys_exit_thread PROVE IInv' /\ NoReturn
<1>1. cpu = "user" /\ thread \in Table /\ Me \in Tids
    BY CallFacts DEF sys_exit_thread
<1>2. Step(thread, thread', {current_thread})
  <2>1. CASE thread' = [thread EXCEPT ![Me].exiting = TRUE]
    BY <1>1, <2>1, ExitingStep
  <2>2. CASE \E t \in (UserTids \cap Used(thread)) \ {Me} :
                thread' = [thread EXCEPT ![t].exiting = TRUE]
    <3>1. PICK t \in UserTids : thread' = [thread EXCEPT ![t].exiting = TRUE]
        BY <2>2
    <3>2. t \in Tids
        BY <3>1, TidFacts
    <3> QED BY <1>1, <3>1, <3>2, ExitingStep
  <2>3. CASE UNCHANGED thread
    BY <1>1, <2>3, StepRefl
  <2> QED BY <2>1, <2>2, <2>3 DEF sys_exit_thread
<1>3. cpu' \in {"user", "halted"} /\ cause' \in Causes
    BY <1>1 DEF sys_exit_thread, Halt, Causes, IInv, TypeOK
<1>4. TypeOK'
    BY <1>2, <1>3 DEF sys_exit_thread, IInv, TypeOK, switch, display, locks, Step, Table
<1> QED BY <1>1, <1>2, <1>3, <1>4, ServiceStep DEF sys_exit_thread, switch

\* The exit of a process keeps the invariant and brings no destroyed thread back.
LEMMA sci_exitInv == ASSUME IInv, sci_exit PROVE IInv' /\ NoReturn
<1> DEFINE control == proc[OwnerOf(Me)].control
<1>1. cpu = "user" /\ thread \in Table
    BY CallFacts DEF sci_exit
<1>2. Step(thread, thread', {current_thread})
  <2>1. CASE control \in Used(thread)
    <3>1. control \in Tids /\ thread' = [thread EXCEPT ![control].exiting = TRUE]
        BY <2>1 DEF sci_exit, Used
    <3> HIDE DEF control
    <3> QED BY <1>1, <3>1, ExitingStep
  <2>2. CASE control \notin Used(thread)
    BY <1>1, <2>2, StepRefl DEF sci_exit
  <2> QED BY <2>1, <2>2
<1>3. TypeOK'
    BY <1>2 DEF sci_exit, IInv, TypeOK, switch, display, locks, Step, Table
<1> QED BY <1>1, <1>2, <1>3, ServiceStep DEF sci_exit, switch

\* A new thread goes into a slot that never held one.
LEMMA FillStep ==
    ASSUME IInv, cpu = "user", cpu' = "user", current_thread' = current_thread,
           NEW tab \in Table, Step(thread, tab, {current_thread}),
           NEW child \in Tids, thread[child].state = "FREE",
           NEW r \in Thread, r.used, r.state # "RUNNING",
           thread' = [tab EXCEPT ![child] = r]
    PROVE  thread' \in Table /\ InitAlive' /\ OneRunning' /\ CurrentIsValid' /\ NoReturn
<1>1. thread' \in Table
    BY DEF Table
<1>2. \A t \in Tids : thread'[t] = IF t = child THEN r ELSE tab[t]
    BY DEF Table
<1>3. \A t \in Tids : t # child => thread'[t].used = thread[t].used
    BY <1>2 DEF Step
<1>4. \A t \in Tids : t # child /\ thread'[t].state = "RUNNING"
                        => t = current_thread \/ thread[t].state = "RUNNING"
    BY <1>2 DEF Step
<1>5. thread'[child].used /\ thread'[child].state # "RUNNING"
    BY <1>2
<1>6. InitAlive' /\ CurrentIsValid' /\ NoReturn
    BY <1>3, <1>5, TidFacts DEF IInv, InitAlive, CurrentIsValid, NoReturn
<1>7. OneRunning'
    BY <1>3, <1>4, <1>5 DEF IInv, OneRunning
<1> QED BY <1>1, <1>6, <1>7

\* The slot create_thread finds never held a thread.
LEMMA FreeTidsFact ==
    ASSUME FreeTids # {}
    PROVE  Least(FreeTids) \in Tids /\ thread[Least(FreeTids)].state = "FREE"
<1>1. FreeTids \in SUBSET Nat
    BY TidFacts DEF FreeTids
<1>2. Least(FreeTids) \in FreeTids
    BY <1>1, LeastInSet
<1> QED BY <1>2, TidFacts DEF FreeTids

\* getNewPID finds a process slot.
LEMMA FreePidsFact ==
    ASSUME FreePids # {}
    PROVE  Least(FreePids) \in Pids
<1>1. FreePids \in SUBSET Nat /\ FreePids \subseteq Pids
    BY TidFacts DEF FreePids
<1> QED BY <1>1, LeastInSet

\* sys_create_thread keeps the invariant and brings no destroyed thread back.
LEMMA sys_create_threadInv == ASSUME IInv, sys_create_thread PROVE IInv' /\ NoReturn
<1>0. cpu = "user" /\ thread \in Table /\ OwnerOf(Me) \in Pids
    BY CallFacts DEF sys_create_thread
<1>1. CASE /\ FreeTids # {}
           /\ thread' = [thread EXCEPT ![Least(FreeTids)] = NewThread(OwnerOf(Me))]
           /\ UNCHANGED <<cpu, cause>>
  <2> DEFINE child == Least(FreeTids)
             r     == NewThread(OwnerOf(Me))
  <2>1. child \in Tids /\ thread[child].state = "FREE"
    BY <1>1, FreeTidsFact
  <2>2. r \in Thread /\ r.used /\ r.state # "RUNNING"
    BY <1>0, NewThreadType
  <2>3. thread' = [thread EXCEPT ![child] = r] /\ cpu' = cpu /\ cause' = cause
    BY <1>1
  <2> HIDE DEF child, r
  <2>4. Step(thread, thread, {current_thread})
    BY <1>0, StepRefl
  <2>5. thread' \in Table /\ InitAlive' /\ OneRunning' /\ CurrentIsValid' /\ NoReturn
    BY <1>0, <2>1, <2>2, <2>3, <2>4, FillStep DEF sys_create_thread, switch
  <2>6. TypeOK'
    BY <2>3, <2>5 DEF sys_create_thread, IInv, TypeOK, switch, display, locks, Table
  <2> QED BY <2>5, <2>6 DEF IInv
<1>2. CASE Halt("no more slots") /\ UNCHANGED thread
  <2>1. Step(thread, thread', {current_thread})
    BY <1>0, <1>2, StepRefl
  <2>2. TypeOK'
    BY <1>2 DEF sys_create_thread, IInv, TypeOK, switch, display, locks, Halt, Causes
  <2> QED BY <1>0, <1>2, <2>1, <2>2, ServiceStep DEF sys_create_thread, switch, Halt
<1> QED BY <1>1, <1>2 DEF sys_create_thread

\* Changing the state of one thread to something other than RUNNING.
LEMMA StateStep ==
    ASSUME NEW tab \in Table, NEW t \in Tids, NEW v \in States \ {"RUNNING"}, NEW S
    PROVE  Step(tab, [tab EXCEPT ![t].state = v], S)
<1> DEFINE x == tab[t]
           r == [x EXCEPT !.state = v]
<1>1. x \in Thread /\ [tab EXCEPT ![t].state = v] = [tab EXCEPT ![t] = r]
    BY DEF Table
<1> HIDE DEF x
<1>2. r \in Thread /\ r.used = x.used /\ r.state # "RUNNING"
    BY <1>1, SetState
<1> HIDE DEF r
<1> QED BY <1>1, <1>2, PutStep DEF x

\* do_waitpid keeps the invariant and brings no destroyed thread back.
LEMMA do_waitpidInv == ASSUME IInv, do_waitpid PROVE IInv' /\ NoReturn
<1> DEFINE control == proc[OwnerOf(Me)].control
<1>1. cpu = "user" /\ thread \in Table
    BY CallFacts DEF do_waitpid
<1>2. thread' = [thread EXCEPT ![control].state = "BLOCKED"]
    BY DEF do_waitpid
<1> HIDE DEF control
<1>3. Step(thread, thread', {current_thread})
  <2>1. CASE control \in Tids
    <3>1. "BLOCKED" \in States \ {"RUNNING"}
        BY DEF States
    <3> QED BY <1>1, <1>2, <2>1, <3>1, StateStep
  <2>2. CASE control \notin Tids
    <3>1. thread' = thread
        BY <1>1, <1>2, <2>2 DEF Table
    <3> QED BY <1>1, <3>1, StepRefl
  <2> QED BY <2>1, <2>2
<1>4. TypeOK'
    BY <1>3 DEF do_waitpid, IInv, TypeOK, switch, display, locks, Step, Table
<1> QED BY <1>1, <1>3, <1>4, ServiceStep DEF do_waitpid, switch

\* core_start_thread keeps the invariant and brings no destroyed thread back.
LEMMA core_start_threadInv == ASSUME IInv, core_start_thread PROVE IInv' /\ NoReturn
<1>1. cpu = "user" /\ thread \in Table
    BY CallFacts DEF core_start_thread
<1>2. Step(thread, thread', {current_thread})
  <2>1. PICK t \in Tids : thread' = [thread EXCEPT ![t].state = "STANDBY"]
    BY DEF core_start_thread, Used
  <2>2. "STANDBY" \in States \ {"RUNNING"}
    BY DEF States
  <2> QED BY <1>1, <2>1, <2>2, StateStep
<1>3. TypeOK'
    BY <1>2 DEF core_start_thread, IInv, TypeOK, switch, display, locks, Step, Table
<1> QED BY <1>1, <1>2, <1>3, ServiceStep DEF core_start_thread, switch

\* copy_process keeps the invariant and brings no destroyed thread back.
LEMMA copy_processInv == ASSUME IInv, copy_process PROVE IInv' /\ NoReturn
<1> DEFINE control == proc[OwnerOf(Me)].control
<1>0. /\ cpu = "user" /\ thread \in Table /\ OwnerOf(Me) \in Pids /\ current_thread \in Tids
      /\ proc \in [Pids -> Process] /\ control \in Tids \cup {NoTid} /\ cause \in Causes
    BY CallFacts DEF copy_process, IInv, TypeOK, Process
<1>1. CASE /\ thread' = [thread EXCEPT ![control].state = "RUNNING"]
           /\ Halt("clone by secondary thread") /\ UNCHANGED proc
  <2> HIDE DEF control
  <2>1. thread' \in Table /\ \A t \in Tids : thread'[t].used = thread[t].used
    <3>1. CASE control = NoTid
        <4>1. thread' = thread
            BY <1>0, <1>1, <3>1, TidFacts DEF Table
        <4> QED BY <1>0, <4>1
    <3>2. CASE control \in Tids
        <4> DEFINE x == thread[control]
                   r == [x EXCEPT !.state = "RUNNING"]
        <4>1. x \in Thread /\ thread' = [thread EXCEPT ![control] = r]
            BY <1>0, <1>1, <3>2 DEF Table
        <4> HIDE DEF x
        <4>2. r \in Thread /\ r.used = x.used
            BY <4>1, SetState DEF States
        <4> HIDE DEF r
        <4> QED BY <1>0, <3>2, <4>1, <4>2 DEF Table, x
    <3> QED BY <1>0, <3>1, <3>2
  <2>2. TypeOK'
    BY <1>1, <2>1 DEF copy_process, IInv, TypeOK, switch, display, locks, Halt, Causes, Table
  <2> QED BY <1>1, <2>1, <2>2, TidFacts
          DEF IInv, InitAlive, OneRunning, CurrentIsValid, NoReturn, Halt
<1>2. CASE thread' = CloneParent(thread, FALSE) /\ UNCHANGED <<proc, cpu, cause>>
  <2>1. Step(thread, thread', {current_thread})
    BY <1>0, <1>2, CloneParentStep
  <2>2. TypeOK'
    BY <1>2, <2>1 DEF copy_process, IInv, TypeOK, switch, display, locks, Step, Table
  <2> QED BY <1>0, <1>2, <2>1, <2>2, ServiceStep DEF copy_process, switch
<1>4. CASE /\ FreePids # {}
           /\ thread' = CloneParent(thread, FALSE)
           /\ proc' = [proc EXCEPT ![Least(FreePids)].used = TRUE]
           /\ Halt("no more slots")
  <2>1. Step(thread, thread', {current_thread})
    BY <1>0, <1>4, CloneParentStep
  <2>2. proc' \in [Pids -> Process]
    BY <1>0, <1>4, FreePidsFact DEF Process
  <2>3. TypeOK'
    BY <1>4, <2>1, <2>2
       DEF copy_process, IInv, TypeOK, switch, display, locks, Step, Table, Halt, Causes
  <2>4. cpu' = "halted" /\ current_thread' = current_thread
    BY <1>4 DEF Halt, copy_process, switch
  <2> QED BY <1>0, <2>1, <2>3, <2>4, ServiceStep
<1>3. CASE /\ FreePids # {} /\ FreeTids # {}
           /\ \E loaded \in BOOLEAN :
                 /\ thread' = [CloneParent(thread, loaded) EXCEPT
                                 ![Least(FreeTids)] = CloneThread(Least(FreePids), loaded)]
                 /\ proc' = [proc EXCEPT ![Least(FreePids)] =
                                 [used |-> TRUE, control |-> Least(FreeTids)]]
           /\ UNCHANGED <<cpu, cause>>
  <2>1. PICK loaded \in BOOLEAN :
                 /\ thread' = [CloneParent(thread, loaded) EXCEPT
                                 ![Least(FreeTids)] = CloneThread(Least(FreePids), loaded)]
                 /\ proc' = [proc EXCEPT ![Least(FreePids)] =
                                 [used |-> TRUE, control |-> Least(FreeTids)]]
    BY <1>3
  <2> DEFINE tab   == CloneParent(thread, loaded)
             child == Least(FreeTids)
             pid   == Least(FreePids)
             r     == CloneThread(pid, loaded)
  <2>2. child \in Tids /\ thread[child].state = "FREE" /\ pid \in Pids
    BY <1>3, FreeTidsFact, FreePidsFact
  <2>3. r \in Thread /\ r.used /\ r.state # "RUNNING"
    BY <1>0, <2>2, CloneThreadType
  <2>4. Step(thread, tab, {current_thread})
    BY <1>0, CloneParentStep
  <2>5. tab \in Table
    BY <2>4 DEF Step
  <2>6. thread' = [tab EXCEPT ![child] = r]
        /\ proc' = [proc EXCEPT ![pid] = [used |-> TRUE, control |-> child]]
    BY <2>1
  <2> HIDE DEF tab, child, pid, r
  <2>7. thread' \in Table /\ InitAlive' /\ OneRunning' /\ CurrentIsValid' /\ NoReturn
    BY <1>0, <1>3, <2>2, <2>3, <2>4, <2>5, <2>6, FillStep DEF copy_process, switch
  <2>8. proc' \in [Pids -> Process]
    BY <1>0, <2>2, <2>6 DEF Process
  <2>9. TypeOK'
    BY <1>3, <2>7, <2>8 DEF copy_process, IInv, TypeOK, switch, display, locks, Table
  <2> QED BY <2>7, <2>9 DEF IInv
<1> QED BY <1>1, <1>2, <1>3, <1>4 DEF copy_process

\* sys_post_message_to_tid keeps the invariant and brings no destroyed thread back.
LEMMA sys_post_message_to_tidInv ==
    ASSUME IInv, sys_post_message_to_tid PROVE IInv' /\ NoReturn
<1>1. cpu = "user" /\ thread \in Table /\ cause \in Causes
      /\ ev_responder_thread \in Tids \cup {NoTid}
    BY CallFacts DEF sys_post_message_to_tid, IInv, TypeOK
<1>2. events' \in 0..MaxEvents
  <2>1. events < MaxEvents /\ events' = events + 1 /\ events \in 0..MaxEvents
    BY DEF sys_post_message_to_tid, IInv, TypeOK
  <2> QED BY <2>1, SizeAssumption
<1>3. PICK t \in Tids :
        \/ /\ thread' = Posted(thread, t) /\ ev_responder_thread' = t
           /\ UNCHANGED <<cpu, cause>>
        \/ /\ Halt("post to invalid thread")
           /\ UNCHANGED <<thread, ev_responder_thread>>
    BY DEF sys_post_message_to_tid
<1>4. Step(thread, thread', {current_thread})
    BY <1>1, <1>3, PostedStep, StepRefl
<1>5. cpu' \in {"user", "halted"} /\ cause' \in Causes
      /\ ev_responder_thread' \in Tids \cup {NoTid}
    BY <1>1, <1>3 DEF Halt, Causes
<1>6. TypeOK'
    BY <1>2, <1>4, <1>5 DEF sys_post_message_to_tid, IInv, TypeOK, display, locks, Step, Table
<1> QED BY <1>1, <1>4, <1>5, <1>6, ServiceStep DEF sys_post_message_to_tid

\* sys_broadcast_system_message keeps the invariant and brings no destroyed thread back.
LEMMA sys_broadcast_system_messageInv ==
    ASSUME IInv, sys_broadcast_system_message PROVE IInv' /\ NoReturn
<1>1. cpu = "user" /\ thread \in Table /\ Used(thread) \in SUBSET Tids
    BY CallFacts DEF sys_broadcast_system_message, Used
<1>2. events' \in 0..MaxEvents
    BY SizeAssumption DEF sys_broadcast_system_message, IInv, TypeOK
<1>3. Step(thread, thread', {current_thread})
    BY <1>1, BroadcastStep DEF sys_broadcast_system_message
<1>4. ev_responder_thread' \in Tids
    BY <1>1 DEF sys_broadcast_system_message
<1>5. TypeOK'
    BY <1>2, <1>3, <1>4
       DEF sys_broadcast_system_message, IInv, TypeOK, display, locks, Step, Table
<1> QED BY <1>1, <1>3, <1>5, ServiceStep DEF sys_broadcast_system_message

\* Services 640 to 643 keep the invariant.
LEMMA LocksInv ==
    ASSUME IInv,
           taskswitch_lock \/ scheduler_lock \/ taskswitch_unlock \/ scheduler_unlock
    PROVE  IInv' /\ NoReturn
<1>1. cpu = "user" /\ thread \in Table
    BY CallFacts DEF taskswitch_lock, scheduler_lock, taskswitch_unlock, scheduler_unlock
<1>2. thread' = thread /\ cpu' = cpu /\ current_thread' = current_thread
    BY DEF taskswitch_lock, scheduler_lock, taskswitch_unlock, scheduler_unlock, switch
<1>3. Step(thread, thread', {current_thread})
    BY <1>1, <1>2, StepRefl
<1>4. taskswitch_locked' \in BOOLEAN /\ scheduler_locked' \in BOOLEAN
    BY DEF taskswitch_lock, scheduler_lock, taskswitch_unlock, scheduler_unlock, IInv, TypeOK
<1>5. TypeOK'
    BY <1>4 DEF taskswitch_lock, scheduler_lock, taskswitch_unlock, scheduler_unlock,
                IInv, TypeOK, switch, display
<1> QED BY <1>1, <1>2, <1>3, <1>5, ServiceStep

\* Changing the quantum of one thread.
LEMMA QuantumStep ==
    ASSUME NEW tab \in Table, NEW t \in Tids, NEW v \in Quanta, NEW S
    PROVE  Step(tab, [tab EXCEPT ![t].quantum = v], S)
<1> DEFINE x == tab[t]
           r == [x EXCEPT !.quantum = v]
<1>1. x \in Thread /\ [tab EXCEPT ![t].quantum = v] = [tab EXCEPT ![t] = r]
    BY DEF Table
<1> HIDE DEF x
<1>2. Like(x, r)
    BY <1>1, SetQuantum
<1> HIDE DEF r
<1> QED BY <1>1, <1>2, FieldStep DEF x

\* set_foreground keeps the invariant and brings no destroyed thread back.
LEMMA set_foregroundInv == ASSUME IInv, set_foreground PROVE IInv' /\ NoReturn
<1>1. cpu = "user" /\ thread \in Table
    BY CallFacts DEF set_foreground
<1>2. PICK t \in Tids :
        \/ /\ foreground_thread' = t
           /\ thread' = [thread EXCEPT ![t].quantum = QMax + QBoost]
        \/ foreground_thread' = NoTid /\ UNCHANGED thread
    BY DEF set_foreground, InState, Used
<1>3. Step(thread, thread', {current_thread})
    BY <1>1, <1>2, QuantumStep, QuantaFacts, StepRefl
<1>4. foreground_thread' \in Tids \cup {NoTid}
    BY <1>2
<1>5. TypeOK'
    BY <1>3, <1>4 DEF set_foreground, IInv, TypeOK, display, locks, Step, Table
<1> QED BY <1>1, <1>3, <1>5, ServiceStep DEF set_foreground

\* register_display_server keeps the invariant and brings no destroyed thread back.
LEMMA register_display_serverInv ==
    ASSUME IInv, register_display_server PROVE IInv' /\ NoReturn
<1> DEFINE c == proc[OwnerOf(Me)].control
<1>1. cpu = "user" /\ thread \in Table /\ OwnerOf(Me) \in Pids /\ cause \in Causes
      /\ display_server \in Tids \cup {NoTid}
    BY CallFacts DEF register_display_server, IInv, TypeOK
<1>2. c \in Tids \cup {NoTid}
    BY <1>1 DEF IInv, TypeOK, Process
<1>3. \/ /\ display_server' = c
         /\ thread' = [thread EXCEPT ![c].quantum = QMax]
      \/ UNCHANGED <<display_server, thread>>
    BY DEF register_display_server
<1>4. (cpu' = cpu /\ cause' = cause) \/ Halt("second display server")
    BY DEF register_display_server
<1> HIDE DEF c
<1>5. Step(thread, thread', {current_thread})
  <2>1. CASE UNCHANGED thread
    BY <1>1, <2>1, StepRefl
  <2>2. CASE c \in Tids /\ thread' = [thread EXCEPT ![c].quantum = QMax]
    BY <1>1, <2>2, QuantumStep, QuantaFacts
  <2>3. CASE c = NoTid /\ thread' = [thread EXCEPT ![c].quantum = QMax]
    <3>1. thread' = thread
        BY <1>1, <2>3, TidFacts DEF Table
    <3> QED BY <1>1, <3>1, StepRefl
  <2> QED BY <1>2, <1>3, <2>1, <2>2, <2>3
<1>6. cpu' \in {"user", "halted"} /\ cause' \in Causes
      /\ display_server' \in Tids \cup {NoTid} /\ ws_pid' \in Pids
    BY <1>1, <1>2, <1>3, <1>4 DEF Halt, Causes, register_display_server
<1>7. TypeOK'
    BY <1>5, <1>6 DEF register_display_server, IInv, TypeOK, switch, locks, Step, Table
<1> QED BY <1>1, <1>5, <1>6, <1>7, ServiceStep DEF register_display_server, switch

\* setup_callback keeps the invariant and brings no destroyed thread back.
LEMMA setup_callbackInv == ASSUME IInv, setup_callback PROVE IInv' /\ NoReturn
<1>1. cpu = "user" /\ thread \in Table
    BY CallFacts DEF setup_callback
<1>2. Step(thread, thread', {current_thread})
    BY <1>1, StepRefl DEF setup_callback
<1>3. cpu' \in {"user", "halted"} /\ cause' \in Causes
    BY <1>1 DEF setup_callback, Halt, Causes, IInv, TypeOK
<1>4. callback_ready' \in BOOLEAN
    BY DEF setup_callback, IInv, TypeOK
<1>5. TypeOK'
    BY <1>3, <1>4 DEF setup_callback, IInv, TypeOK, switch, locks
<1> QED BY <1>1, <1>2, <1>3, <1>5, ServiceStep DEF setup_callback, switch

----------------------------------------------------------------------------
(* Theorems.                                                               *)

\* A stopped kernel, or a step of something else.
LEMMA StutterInv == ASSUME IInv, UNCHANGED vars PROVE IInv' /\ NoReturn
<1>1. thread' = thread /\ current_thread' = current_thread /\ cpu' = cpu
    BY DEF vars
<1>2. TypeOK'
    BY DEF IInv, TypeOK, vars
<1> QED BY <1>1, <1>2 DEF IInv, InitAlive, OneRunning, CurrentIsValid, NoReturn

\* Every step keeps the invariant and brings no destroyed thread back.
LEMMA NextInv == ASSUME IInv, [Next]_vars PROVE IInv' /\ NoReturn
<1>1. CASE TimerStep
    BY <1>1, Irq0Inv, TsCallbackInv, TsNoProcessInv, TsLockedInv, TsSameThreadInv,
       TsFinishedInv, ZeroGravityInv, RetryInv, DispatchCurrentInv DEF TimerStep
<1>2. CASE Service
    BY <1>2, sci_validationInv, sys_yieldInv, sys_sleepInv, sys_broken_vesselsInv,
       do_creditsInv, sci_exitInv, do_waitpidInv, sys_exit_threadInv,
       sys_create_threadInv, core_start_threadInv, copy_processInv,
       sys_post_message_to_tidInv, sys_broadcast_system_messageInv, LocksInv,
       set_foregroundInv, register_display_serverInv, setup_callbackInv DEF Service
<1>3. CASE InputEvent
    BY <1>3, InputEventInv
<1>4. CASE Fault
    BY <1>4, FaultInv
<1>5. CASE Halted \/ UNCHANGED vars
    BY <1>5, StutterInv DEF Halted
<1> QED BY <1>1, <1>2, <1>3, <1>4, <1>5 DEF Next

\* The inductive invariant holds in every reachable state.
THEOREM Invariance == Spec => []IInv
<1>1. Init => IInv
    BY InitIInv
<1>2. IInv /\ [Next]_vars => IInv'
    BY NextInv
<1> QED BY <1>1, <1>2, PTL DEF Spec

\* Type correctness: whatever the interleaving of ticks, services and faults, quanta
\* and counts stay in range and every index the switcher uses is a slot of the table.
THEOREM TypeCorrect == Spec => []TypeOK
<1>1. IInv => TypeOK
    BY DEF IInv
<1> QED BY <1>1, Invariance, PTL

\* Mutual exclusion of the processor: at most the current thread is RUNNING, and no
\* thread is while __task_switch is choosing (ts.c, dispatch.c, spawn.c).
THEOREM MutualExclusion == Spec => []OneRunning
<1>1. IInv => OneRunning
    BY DEF IInv
<1> QED BY <1>1, Invariance, PTL

\* A tick never finds a destroyed current thread (ts.c, "CurrentThread validation").
THEOREM CurrentThreadValid == Spec => []CurrentIsValid
<1>1. IInv => CurrentIsValid
    BY DEF IInv
<1> QED BY <1>1, Invariance, PTL

\* Destroyed thread structures are never reused or revived (thread.c slot search).
THEOREM NoResurrection == Spec => DestroyedStaysDestroyed
<1> DEFINE Safe == \A t \in Tids : thread[t].state # "FREE" /\ ~thread[t].used
                                    => ~thread'[t].used
<1>1. IInv /\ [Next]_vars => [Safe]_vars
    BY NextInv DEF NoReturn
<1> QED BY <1>1, Invariance, PTL DEF Spec, DestroyedStaysDestroyed

=============================================================================
