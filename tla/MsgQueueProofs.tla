--------------------------- MODULE MsgQueueProofs ---------------------------
(***************************************************************************)
(* Proofs about MsgQueue for every ring size, every number of messages and *)
(* every way of reading.  ExactlyOnce is not inductive alone: a post needs *)
(* to know that the message it writes was never seen before (Fresh).       *)
(* DeliveredInOneTurn rests on InReach: what a message has waited and what *)
(* the head still has to go to it together stay below one turn.            *)
(***************************************************************************)
EXTENDS MsgQueue, TLAPS

\* Messages not posted yet have no fate, so no slot and no delivery names them.
Fresh == \A m \in Ids : m > posted => fate[m] = "none"

\* No poll has been counted for a message not posted yet.
Unwaited == \A m \in Ids : m > posted => calls[m] = 0

\* How many polls away the slot s is when the head is at h.
Ahead(h, s) == IF s >= h THEN s - h ELSE s - h + N

InReach == \A s \in Slots : slot[s] # 0 => Ahead(head, s) + calls[slot[s]] < N

\* The inductive invariant.
IInv == TypeOK /\ ExactlyOnce /\ Fresh

\* The invariant behind DeliveredInOneTurn; what it needs of the rest is IInv.
Turns == Unwaited /\ InReach

\* The index arithmetic of the ring stays in the array.
LEMMA AdvanceType ==
    ASSUME NEW x \in Slots
    PROVE  Advance(x) \in Slots
BY RingAssumption DEF Advance, Slots

\* The boot state of the ring satisfies the invariant.
LEMMA InitIInv == Init => IInv
BY RingAssumption DEF Init, IInv, TypeOK, ExactlyOnce, Fresh, Slots, Ids, Fates

\* What every action may assume.
LEMMA Facts ==
    ASSUME IInv
    PROVE  /\ slot \in [Slots -> 0..MaxPosts] /\ head \in Slots /\ tail \in Slots
           /\ posted \in 0..MaxPosts /\ got \in Seq(Ids) /\ fate \in [Ids -> Fates]
           /\ calls \in [Ids -> 0..N] /\ 0 \in Slots
           /\ \A s \in Slots : slot[s] # 0 => slot[s] \in Ids
BY RingAssumption DEF IInv, TypeOK, Slots, Ids

\* Both posts: slot tail gets the message v (or nothing) and the message is marked f.
LEMMA PostStep ==
    ASSUME IInv, posted < MaxPosts, posted' = posted + 1, NEW v, NEW f,
           \/ v = posted + 1 /\ f = "queued"
           \/ v = 0 /\ f = "void",
           slot' = [slot EXCEPT ![tail] = v],
           fate' = [Overwrite(tail) EXCEPT ![posted + 1] = f],
           UNCHANGED got
    PROVE  /\ slot' \in [Slots -> 0..MaxPosts] /\ fate' \in [Ids -> Fates]
           /\ posted' \in 0..MaxPosts /\ ExactlyOnce' /\ Fresh'
<1> DEFINE new == posted + 1
           old == slot[tail]
<1>1. new \in Ids /\ posted' \in 0..MaxPosts /\ v \in 0..MaxPosts /\ f \in Fates /\ tail \in Slots
    BY Facts, RingAssumption DEF Ids, Fates
<1>2. fate[new] = "none"
  <2>1. new > posted
    BY Facts, RingAssumption
  <2> QED BY <1>1, <2>1 DEF IInv, Fresh
<1>3. \A s \in Slots : slot'[s] = IF s = tail THEN v ELSE slot[s]
    BY Facts
<1>4. \A m \in Ids : fate'[m] = IF m = new THEN f
                                ELSE IF m = old THEN "lost" ELSE fate[m]
  <2>1. CASE old = 0
    BY <1>1, <2>1, Facts DEF Overwrite, Ids
  <2>2. CASE old # 0
    BY <1>1, <2>2, Facts DEF Overwrite
  <2> QED BY <2>1, <2>2
<1>5. slot' \in [Slots -> 0..MaxPosts]
    BY <1>1, Facts
<1>6. fate' \in [Ids -> Fates]
  <2>1. Overwrite(tail) \in [Ids -> Fates]
    BY <1>1, Facts DEF Overwrite, Fates
  <2> QED BY <1>1, <2>1
<1>7. \A s \in Slots : slot[s] # 0 => slot[s] \in Ids /\ slot[s] # new /\ fate[slot[s]] = "queued"
    BY <1>2, Facts DEF IInv, ExactlyOnce
<1>8. \A k \in 1..Len(got) : got[k] \in Ids /\ got[k] # new /\ fate[got[k]] = "got"
    BY <1>2, Facts DEF IInv, ExactlyOnce
<1>9. \A s \in Slots : slot'[s] # 0 => fate'[slot'[s]] = "queued"
  <2> SUFFICES ASSUME NEW s \in Slots, slot'[s] # 0 PROVE fate'[slot'[s]] = "queued"
    OBVIOUS
  <2>1. CASE s = tail
    BY <1>1, <1>3, <1>4, <2>1
  <2>2. CASE s # tail
    <3>1. slot'[s] = slot[s] /\ slot[s] \in Ids /\ slot[s] # new /\ fate[slot[s]] = "queued"
        BY <1>3, <1>7, <2>2
    <3>2. slot[s] # old
        BY <1>1, <2>2, <3>1 DEF IInv, ExactlyOnce, Ids
    <3> QED BY <1>4, <3>1, <3>2
  <2> QED BY <2>1, <2>2
<1>10. \A m \in Ids : fate'[m] = "queued" => \E s \in Slots : slot'[s] = m
  <2> SUFFICES ASSUME NEW m \in Ids, fate'[m] = "queued" PROVE \E s \in Slots : slot'[s] = m
    OBVIOUS
  <2>1. CASE m = new
    BY <1>1, <1>3, <1>4, <2>1
  <2>2. CASE m # new
    <3>1. m # old /\ fate[m] = "queued"
        BY <1>4, <2>2
    <3>2. PICK s \in Slots : slot[s] = m
        BY <3>1 DEF IInv, ExactlyOnce
    <3> QED BY <1>3, <3>1, <3>2
  <2> QED BY <2>1, <2>2
<1>11. \A s, r \in Slots : slot'[s] # 0 /\ slot'[s] = slot'[r] => s = r
    BY <1>1, <1>3, <1>7 DEF IInv, ExactlyOnce
<1>12. \A k \in 1..Len(got) : fate'[got[k]] = "got"
  <2> SUFFICES ASSUME NEW k \in 1..Len(got) PROVE fate'[got[k]] = "got"
    OBVIOUS
  <2>1. got[k] \in Ids /\ got[k] # new /\ fate[got[k]] = "got"
    BY <1>8
  <2>2. got[k] # old
    <3>1. got[k] # 0
        BY <2>1 DEF Ids
    <3>2. old # 0 => fate[old] = "queued"
        BY <1>1, <1>7
    <3> QED BY <2>1, <3>1, <3>2
  <2> QED BY <1>4, <2>1, <2>2
<1>13. ExactlyOnce'
    BY <1>9, <1>10, <1>11, <1>12 DEF IInv, ExactlyOnce
<1>14. Fresh'
  <2> SUFFICES ASSUME NEW m \in Ids, m > new PROVE fate'[m] = "none"
    BY DEF Fresh
  <2>1. fate[m] = "none" /\ m # new
    BY <1>1, Facts DEF IInv, Fresh, Ids
  <2>2. m # old
    BY <1>1, <1>7, <2>1 DEF Ids
  <2> QED BY <1>4, <2>1, <2>2
<1> QED BY <1>1, <1>5, <1>6, <1>13, <1>14

\* Reading one slot, by either service.
LEMMA TakeStep ==
    ASSUME IInv, NEW s \in Slots, Take(s), posted' = posted
    PROVE  /\ slot' \in [Slots -> 0..MaxPosts] /\ fate' \in [Ids -> Fates]
           /\ got' \in Seq(Ids) /\ ExactlyOnce' /\ Fresh'
<1> DEFINE m == slot[s]
<1>2. slot' \in [Slots -> 0..MaxPosts]
      /\ \A r \in Slots : slot'[r] = IF r = s THEN 0 ELSE slot[r]
    BY Facts, RingAssumption DEF Take
<1>3. CASE m = 0
  <2>1. got' = got /\ fate' = fate
    BY <1>3 DEF Take
  <2>2. slot' = slot
    BY <1>3, Facts DEF Take
  <2> QED BY <1>2, <2>1, <2>2, Facts DEF IInv, ExactlyOnce, Fresh
<1>4. CASE m # 0
  <2>1. m \in Ids /\ fate[m] = "queued" /\ got' = Append(got, m)
        /\ fate' = [fate EXCEPT ![m] = "got"]
    BY <1>4, Facts DEF Take, IInv, ExactlyOnce
  <2>2. got' \in Seq(Ids) /\ fate' \in [Ids -> Fates] /\ Len(got') = Len(got) + 1
    BY <2>1, Facts DEF Fates
  <2>3. \A k \in 1..Len(got') : got'[k] = IF k = Len(got) + 1 THEN m ELSE got[k]
    BY <2>1, <2>2, Facts
  <2>4. \A q \in Ids : fate'[q] = IF q = m THEN "got" ELSE fate[q]
    BY <2>1, Facts
  <2>5. \A k \in 1..Len(got) : got[k] \in Ids /\ got[k] # m /\ fate[got[k]] = "got"
    BY <2>1, Facts DEF IInv, ExactlyOnce
  <2>6. \A r \in Slots : slot'[r] # 0 => fate'[slot'[r]] = "queued"
    BY <1>2, <1>4, <2>4, Facts DEF IInv, ExactlyOnce
  <2>7. \A q \in Ids : fate'[q] = "queued" => \E r \in Slots : slot'[r] = q
    <3> SUFFICES ASSUME NEW q \in Ids, fate'[q] = "queued" PROVE \E r \in Slots : slot'[r] = q
        OBVIOUS
    <3>1. q # m /\ fate[q] = "queued"
        BY <2>4
    <3>2. PICK r \in Slots : slot[r] = q
        BY <3>1 DEF IInv, ExactlyOnce
    <3> QED BY <1>2, <3>1, <3>2
  <2>8. \A p, r \in Slots : slot'[p] # 0 /\ slot'[p] = slot'[r] => p = r
    BY <1>2 DEF IInv, ExactlyOnce
  <2>9. \A k \in 1..Len(got') : fate'[got'[k]] = "got"
    <3> SUFFICES ASSUME NEW k \in 1..Len(got') PROVE fate'[got'[k]] = "got"
        OBVIOUS
    <3>1. CASE k = Len(got) + 1
        BY <2>1, <2>3, <2>4, <3>1
    <3>2. CASE k # Len(got) + 1
        <4>1. k \in 1..Len(got) /\ got'[k] = got[k]
            BY <2>2, <2>3, <3>2, Facts
        <4> QED BY <2>4, <2>5, <4>1
    <3> QED BY <3>1, <3>2
  <2>10. \A j, k \in 1..Len(got') : got'[j] = got'[k] => j = k
    <3> SUFFICES ASSUME NEW j \in 1..Len(got'), NEW k \in 1..Len(got'), got'[j] = got'[k]
                 PROVE  j = k
        OBVIOUS
    <3>1. \A x \in 1..Len(got') : x = Len(got) + 1 \/ x \in 1..Len(got)
        BY <2>2, Facts
    <3>2. CASE j = Len(got) + 1 \/ k = Len(got) + 1
        BY <2>3, <2>5, <3>1, <3>2
    <3>3. CASE j \in 1..Len(got) /\ k \in 1..Len(got)
        <4>1. got'[j] = got[j] /\ got'[k] = got[k]
            BY <2>3, <3>3, Facts
        <4> QED BY <3>3, <4>1 DEF IInv, ExactlyOnce
    <3> QED BY <3>1, <3>2, <3>3
  <2>11. ExactlyOnce'
    BY <2>6, <2>7, <2>8, <2>9, <2>10 DEF ExactlyOnce
  <2>12. Fresh'
    BY <2>1, <2>4 DEF IInv, Fresh
  <2> QED BY <1>2, <2>2, <2>11, <2>12
<1> QED BY <1>3, <1>4

\* The counts of polls stay in range.
LEMMA CountsType ==
    ASSUME IInv
    PROVE  Counted \in [Ids -> 0..N] /\ Uncounted \in [Ids -> 0..N]
BY Facts, RingAssumption DEF Counted, Uncounted

\* Every step keeps the invariant.
LEMMA NextIInv == IInv /\ [Next]_vars => IInv'
<1> SUFFICES ASSUME IInv, [Next]_vars PROVE IInv'
    OBVIOUS
<1>1. CASE Post
  <2>1. tail' \in Slots
    BY <1>1, Facts, AdvanceType DEF Post
  <2>2. /\ slot' \in [Slots -> 0..MaxPosts] /\ fate' \in [Ids -> Fates]
        /\ posted' \in 0..MaxPosts /\ ExactlyOnce' /\ Fresh'
    <3>1. slot' = [slot EXCEPT ![tail] = posted + 1]
          /\ fate' = [Overwrite(tail) EXCEPT ![posted + 1] = "queued"]
          /\ posted < MaxPosts /\ posted' = posted + 1 /\ UNCHANGED got
        BY <1>1 DEF Post
    <3> QED BY <3>1, PostStep
  <2> QED BY <1>1, <2>1, <2>2, Facts DEF Post, IInv, TypeOK
<1>2. CASE PostVoid
  <2>1. tail' \in Slots
    BY <1>2, Facts, AdvanceType DEF PostVoid
  <2>2. /\ slot' \in [Slots -> 0..MaxPosts] /\ fate' \in [Ids -> Fates]
        /\ posted' \in 0..MaxPosts /\ ExactlyOnce' /\ Fresh'
    <3>1. slot' = [slot EXCEPT ![tail] = 0]
          /\ fate' = [Overwrite(tail) EXCEPT ![posted + 1] = "void"]
          /\ posted < MaxPosts /\ posted' = posted + 1 /\ UNCHANGED got
        BY <1>2 DEF PostVoid
    <3> QED BY <3>1, PostStep
  <2> QED BY <1>2, <2>1, <2>2, Facts DEF PostVoid, IInv, TypeOK
<1>3. CASE sys_get_message
  <2>1. head' \in Slots
    BY <1>3, Facts, AdvanceType DEF sys_get_message
  <2>2. /\ slot' \in [Slots -> 0..MaxPosts] /\ fate' \in [Ids -> Fates]
        /\ got' \in Seq(Ids) /\ calls' \in [Ids -> 0..N] /\ ExactlyOnce' /\ Fresh'
    BY <1>3, Facts, TakeStep, CountsType DEF sys_get_message
  <2> QED BY <1>3, <2>1, <2>2, Facts DEF sys_get_message, IInv, TypeOK
<1>4. ASSUME NEW index \in Slots, NEW restart \in BOOLEAN, GetAt(index, restart)
      PROVE  IInv'
  <2>1. head' \in Slots /\ tail' \in Slots
    BY <1>4, Facts, AdvanceType DEF GetAt
  <2>2. /\ slot' \in [Slots -> 0..MaxPosts] /\ fate' \in [Ids -> Fates]
        /\ got' \in Seq(Ids) /\ calls' \in [Ids -> 0..N] /\ ExactlyOnce' /\ Fresh'
    BY <1>4, Facts, TakeStep, CountsType DEF GetAt
  <2> QED BY <1>4, <2>1, <2>2, Facts DEF GetAt, IInv, TypeOK
<1>5. ASSUME NEW restart \in BOOLEAN, GetOutOfRange(restart)
      PROVE  IInv'
  <2>1. head' \in Slots /\ tail' \in Slots
    BY <1>5, Facts, AdvanceType DEF GetOutOfRange
  <2>2. calls' \in [Ids -> 0..N]
    BY <1>5, CountsType DEF GetOutOfRange
  <2>3. ExactlyOnce' /\ Fresh'
    BY <1>5 DEF GetOutOfRange, IInv, ExactlyOnce, Fresh
  <2> QED BY <1>5, <2>1, <2>2, <2>3, Facts DEF GetOutOfRange, IInv, TypeOK
<1>6. CASE sys_get_message2
    BY <1>4, <1>5, <1>6, Facts DEF sys_get_message2
<1>7. CASE UNCHANGED vars
    BY <1>7 DEF vars, IInv, TypeOK, ExactlyOnce, Fresh
<1> QED BY <1>1, <1>2, <1>3, <1>6, <1>7 DEF Next

\* For every ring size and every mix of posts, polls, indices and restarts no
\* message is delivered twice, invented, or delivered after it was overwritten.
THEOREM DeliveredAtMostOnce == Spec => []ExactlyOnce
<1>1. IInv => ExactlyOnce
    BY DEF IInv
<1> QED BY <1>1, InitIInv, NextIInv, PTL DEF Spec

\* The indices of the ring never leave the array, whatever index a caller passes.
THEOREM IndicesInRange == Spec => []TypeOK
<1>1. IInv => TypeOK
    BY DEF IInv
<1> QED BY <1>1, InitIInv, NextIInv, PTL DEF Spec

----------------------------------------------------------------------------
(* One turn of the ring.                                                   *)

\* Every slot is less than one turn ahead.
LEMMA AheadType ==
    ASSUME NEW h \in Slots, NEW s \in Slots
    PROVE  Ahead(h, s) \in Nat /\ Ahead(h, s) < N
<1>1. N \in Nat /\ h \in Nat /\ s \in Nat /\ h < N /\ s < N
    BY RingAssumption DEF Slots
<1>2. CASE s >= h
    BY <1>1, <1>2 DEF Ahead
<1>3. CASE ~(s >= h)
    BY <1>1, <1>3 DEF Ahead
<1> QED BY <1>2, <1>3

\* One step of the head brings every slot but the one it leaves one step nearer.
LEMMA AheadStep ==
    ASSUME NEW h \in Slots, NEW s \in Slots, s # h
    PROVE  Ahead(Advance(h), s) = Ahead(h, s) - 1
<1>1. N \in Nat /\ h \in Nat /\ s \in Nat /\ h < N /\ s < N
    BY RingAssumption DEF Slots
<1>2. CASE h + 1 >= N
  <2>1. Advance(h) = 0
    BY <1>2 DEF Advance
  <2> QED BY <1>1, <1>2, <2>1 DEF Ahead
<1>3. CASE ~(h + 1 >= N)
  <2>1. Advance(h) = h + 1
    BY <1>3 DEF Advance
  <2> QED BY <1>1, <1>3, <2>1 DEF Ahead
<1> QED BY <1>2, <1>3

\* After a service 120 call nothing has waited, and every slot is less than N away.
LEMMA RestartedTurns ==
    ASSUME TypeOK', calls' = Uncounted
    PROVE  Turns'
<1>1. \A m \in Ids : calls'[m] = 0
    BY DEF Uncounted
<1>2. head' \in Slots /\ slot' \in [Slots -> 0..MaxPosts]
    BY DEF TypeOK
<1>3. \A s \in Slots : Ahead(head', s) < N /\ Ahead(head', s) \in Nat
    BY <1>2, AheadType
<1>4. Unwaited'
    BY <1>1 DEF Unwaited
<1>5. ASSUME NEW s \in Slots, slot'[s] # 0
      PROVE  Ahead(head', s) + calls'[slot'[s]] < N
  <2>1. calls'[slot'[s]] = 0
    BY <1>1, <1>2, <1>5, RingAssumption DEF Ids
  <2> QED BY <1>3, <2>1
<1> QED BY <1>4, <1>5 DEF Turns, InReach

\* A post puts a message that has not waited into some slot and moves no other.
LEMMA PostTurns ==
    ASSUME IInv, Turns, posted < MaxPosts, posted' = posted + 1, NEW v,
           v = posted + 1 \/ v = 0,
           slot' = [slot EXCEPT ![tail] = v],
           UNCHANGED <<head, calls>>
    PROVE  Turns'
<1>1. posted + 1 \in Ids /\ calls[posted + 1] = 0
    BY Facts, RingAssumption DEF Turns, Unwaited, Ids
<1>2. \A s \in Slots : Ahead(head, s) < N /\ Ahead(head, s) \in Nat
    BY Facts, AheadType
<1>3. ASSUME NEW s \in Slots, slot'[s] # 0
      PROVE  Ahead(head, s) + calls[slot'[s]] < N
  <2>1. CASE s = tail
    <3>1. slot'[s] = posted + 1
        BY <1>3, <2>1, Facts
    <3> QED BY <1>1, <1>2, <3>1
  <2>2. CASE s # tail
    BY <1>3, <2>2, Facts DEF Turns, InReach
  <2> QED BY <2>1, <2>2
<1>4. Unwaited'
    BY Facts DEF Turns, Unwaited, Ids
<1> QED BY <1>3, <1>4 DEF Turns, InReach

\* A poll delivers the message at the head; every other is one step nearer.
LEMMA PollTurns ==
    ASSUME IInv, Turns, sys_get_message
    PROVE  Turns'
<1>1. /\ calls' = Counted /\ posted' = posted /\ head' = Advance(head)
      /\ slot' = [slot EXCEPT ![head] = 0]
    BY DEF sys_get_message, Take
<1>2. \A m \in Ids : calls'[m] \in Nat /\ calls'[m] <= calls[m] + 1 /\ calls[m] \in Nat
    BY <1>1, Facts, RingAssumption DEF Counted
<1>3. \A s \in Slots : s # head => /\ Ahead(head', s) = Ahead(head, s) - 1
                                  /\ Ahead(head, s) \in Nat
    BY <1>1, Facts, AheadType, AheadStep
<1>4. ASSUME NEW s \in Slots, slot'[s] # 0
      PROVE  Ahead(head', s) + calls'[slot'[s]] < N
  <2>1. s # head /\ slot'[s] = slot[s] /\ slot[s] \in Ids
    BY <1>1, <1>4, Facts
  <2>2. Ahead(head, s) + calls[slot[s]] < N
    BY <2>1 DEF Turns, InReach, Ids
  <2> QED BY <1>2, <1>3, <2>1, <2>2, RingAssumption
<1>5. Unwaited'
  <2> SUFFICES ASSUME NEW m \in Ids, m > posted PROVE calls'[m] = 0
    BY <1>1 DEF Unwaited
  <2>1. fate[m] = "none" /\ calls[m] = 0
    BY DEF IInv, Fresh, Turns, Unwaited
  <2> QED BY <1>1, <2>1 DEF Counted
<1> QED BY <1>4, <1>5 DEF Turns, InReach

\* Every step keeps both invariants.
LEMMA NextTurns == IInv /\ Turns /\ [Next]_vars => Turns'
<1> SUFFICES ASSUME IInv, Turns, [Next]_vars PROVE Turns'
    OBVIOUS
<1>1. TypeOK'
    BY NextIInv DEF IInv
<1>2. CASE Post
  <2>1. slot' = [slot EXCEPT ![tail] = posted + 1] /\ posted < MaxPosts
        /\ posted' = posted + 1 /\ UNCHANGED <<head, calls>>
    BY <1>2 DEF Post
  <2> QED BY <2>1, PostTurns
<1>3. CASE PostVoid
  <2>1. slot' = [slot EXCEPT ![tail] = 0] /\ posted < MaxPosts
        /\ posted' = posted + 1 /\ UNCHANGED <<head, calls>>
    BY <1>3 DEF PostVoid
  <2> QED BY <2>1, PostTurns
<1>4. CASE sys_get_message
    BY <1>4, PollTurns
<1>5. CASE sys_get_message2
  <2>1. calls' = Uncounted
    BY <1>5 DEF sys_get_message2, GetAt, GetOutOfRange
  <2> QED BY <1>1, <2>1, RestartedTurns
<1>6. CASE UNCHANGED vars
    BY <1>6 DEF vars, Turns, Unwaited, InReach, Ahead
<1> QED BY <1>2, <1>3, <1>4, <1>5, <1>6 DEF Next

\* For every ring size: N polls in a row deliver every message that was in the ring when
\* they began and was not overwritten meanwhile, wherever head and tail had drifted.
THEOREM OneTurnDelivers == Spec => []DeliveredInOneTurn
<1>1. Init => Turns
    BY RingAssumption DEF Init, Turns, Unwaited, InReach
<1>2. IInv /\ Turns => DeliveredInOneTurn
  <2> SUFFICES ASSUME IInv, Turns, NEW m \in Ids, fate[m] = "queued" PROVE calls[m] < N
    BY DEF DeliveredInOneTurn
  <2>1. PICK s \in Slots : slot[s] = m
    BY DEF IInv, ExactlyOnce
  <2>2. Ahead(head, s) \in Nat /\ calls[m] \in Nat
    BY Facts, AheadType
  <2>3. Ahead(head, s) + calls[m] < N
    BY <2>1 DEF Turns, InReach, Ids
  <2> QED BY <2>2, <2>3, RingAssumption
<1> QED BY <1>1, <1>2, InitIInv, NextIInv, NextTurns, PTL DEF Spec
=============================================================================
