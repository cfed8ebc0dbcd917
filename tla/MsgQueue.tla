------------------------------ MODULE MsgQueue ------------------------------
(***************************************************************************)
(* The message ring of one thread (MsgQueue, MsgQueueHead, MsgQueueTail in *)
(* struct thread_d): posting (ipc.c), the two services that read it        *)
(* (sys_get_message, service 111; sys_get_message2, service 120).          *)
(*                                                                         *)
(* Posts come from other threads and from interrupts, so they fall between *)
(* any two calls of the reader.  Messages are told apart by the order in   *)
(* which they were posted; 0 is an empty slot (msg = 0).  What a post does *)
(* to the state and quantum of the receiver is in Sched (Posted).          *)
(***************************************************************************)
EXTENDS Integers, Sequences

CONSTANTS
    N,          \* MSG_QUEUE_MAX
    MaxPosts,   \* bound: messages posted in one behaviour
    Reads       \* how the receiver reads: "poll" is service 111, "any" service 120

ASSUME RingAssumption == N \in Nat \ {0} /\ MaxPosts \in Nat

Slots == 0..(N - 1)
Ids   == 1..MaxPosts
Fates == {"none", "queued", "got", "lost", "void"}

VARIABLES
    slot,      \* MsgQueue: which message each structure holds
    head,      \* MsgQueueHead
    tail,      \* MsgQueueTail
    posted,    \* messages posted so far
    got,       \* the messages handed to the receiver, in order
    fate,      \* history: what became of each message
    calls      \* history: polls of service 111 in a row since each message was posted,
               \* up to N; service 120 moves the head at will and starts the count again

vars == <<slot, head, tail, posted, got, fate, calls>>

\* Mutant: the ring is one longer than its array.
AdvanceLate(x) == IF x + 1 > N THEN 0 ELSE x + 1
\* The step that follows every access: "x++; if (x >= MSG_QUEUE_MAX) x = 0".
Advance(x) == IF x + 1 >= N THEN 0 ELSE x + 1

\* __ps_initialize_thread_common_elements: all slots empty, both indices 0.
Init ==
    /\ slot = [s \in Slots |-> 0]
    /\ head = 0 /\ tail = 0
    /\ posted = 0 /\ got = <<>>
    /\ fate = [m \in Ids |-> "none"]
    /\ calls = [m \in Ids |-> 0]

\* The message in a slot that is about to be written over is lost.
Overwrite(s) == IF slot[s] # 0 THEN [fate EXCEPT ![slot[s]] = "lost"] ELSE fate

\* ipc_post_message_to_tid and _tid2 write the slot at the tail without looking at it.
Post ==
    /\ posted < MaxPosts /\ posted' = posted + 1
    /\ slot' = [slot EXCEPT ![tail] = posted']
    /\ fate' = [Overwrite(tail) EXCEPT ![posted'] = "queued"]
    /\ tail' = Advance(tail)
    /\ UNCHANGED <<head, got, calls>>

\* _tid2 also takes the message code 0, which a reader cannot tell from an empty slot.
PostVoid ==
    /\ posted < MaxPosts /\ posted' = posted + 1
    /\ slot' = [slot EXCEPT ![tail] = 0]
    /\ fate' = [Overwrite(tail) EXCEPT ![posted'] = "void"]
    /\ tail' = Advance(tail)
    /\ UNCHANGED <<head, got, calls>>

Counted   == [m \in Ids |-> IF fate[m] = "queued" /\ calls[m] < N THEN calls[m] + 1
                            ELSE calls[m]]
Uncounted == [m \in Ids |-> 0]

\* Mutant: the entry is not cleared after it was copied out.
TakeKeeps(s) ==
    /\ got' = IF slot[s] # 0 THEN Append(got, slot[s]) ELSE got
    /\ fate' = IF slot[s] # 0 THEN [fate EXCEPT ![slot[s]] = "got"] ELSE fate
    /\ UNCHANGED slot
\* Reading slot s: a message is copied out and its entry cleared.
Take(s) ==
    /\ got' = IF slot[s] # 0 THEN Append(got, slot[s]) ELSE got
    /\ fate' = IF slot[s] # 0 THEN [fate EXCEPT ![slot[s]] = "got"] ELSE fate
    /\ slot' = [slot EXCEPT ![s] = 0]

\* Mutant: the head waits at an empty slot.
GetStays ==
    /\ "poll" \in Reads
    /\ Take(head)
    /\ head' = IF slot[head] = 0 THEN head ELSE Advance(head)
    /\ calls' = Counted
    /\ UNCHANGED <<tail, posted>>
\* sys_get_message: the head moves on whether it found a message or not.
sys_get_message ==
    /\ "poll" \in Reads
    /\ Take(head)
    /\ head' = Advance(head)
    /\ calls' = Counted
    /\ UNCHANGED <<tail, posted>>

\* sys_get_message2 with an index in range: restart puts both indices back to 0.
GetAt(index, restart) ==
    /\ Take(index)
    /\ head' = IF restart THEN 0 ELSE Advance(index)
    /\ tail' = IF restart THEN 0 ELSE tail
    /\ calls' = Uncounted
    /\ UNCHANGED posted

\* sys_get_message2 with an index out of range goes to fail0 at once.
GetOutOfRange(restart) ==
    /\ head' = IF restart THEN 0 ELSE Advance(head)
    /\ tail' = IF restart THEN 0 ELSE tail
    /\ calls' = Uncounted
    /\ UNCHANGED <<slot, posted, got, fate>>

sys_get_message2 ==
    /\ "any" \in Reads
    /\ \E restart \in BOOLEAN :
        \/ \E index \in Slots : GetAt(index, restart)
        \/ GetOutOfRange(restart)

Next == Post \/ PostVoid \/ sys_get_message \/ sys_get_message2

Spec == Init /\ [][Next]_vars

----------------------------------------------------------------------------

\* The indices stay inside the array and every slot holds a message that was posted.
TypeOK ==
    /\ slot \in [Slots -> 0..MaxPosts]
    /\ head \in Slots /\ tail \in Slots
    /\ posted \in 0..MaxPosts
    /\ got \in Seq(Ids)
    /\ fate \in [Ids -> Fates]
    /\ calls \in [Ids -> 0..N]

\* No message is handed out twice or after it was overwritten, whatever mix of the two
\* services, indices and restarts reads the ring: the queued messages are exactly those
\* in the slots, each in one slot, and the receiver has every other at most once.
ExactlyOnce ==
    /\ \A s \in Slots : slot[s] # 0 => fate[slot[s]] = "queued"
    /\ \A m \in Ids : fate[m] = "queued" => \E s \in Slots : slot[s] = m
    /\ \A s, r \in Slots : slot[s] # 0 /\ slot[s] = slot[r] => s = r
    /\ \A k \in 1..Len(got) : fate[got[k]] = "got"
    /\ \A j, k \in 1..Len(got) : got[j] = got[k] => j = k

\* A message waits for less than one turn of the ring: after N polls of service 111 in a
\* row it was delivered, wherever earlier polls, restarts and posts left the indices,
\* unless a newer message was written over it first.
DeliveredInOneTurn == \A m \in Ids : fate[m] = "queued" => calls[m] < N

\* ipc.c:3 "Messages using the circular queue" and wminput.c:719 "respecting the
\* circular queue": a poller receives messages in the order they were posted.
FifoDelivery == \A j, k \in 1..Len(got) : j < k => got[j] < got[k]
=============================================================================
