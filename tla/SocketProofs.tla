---------------------------- MODULE SocketProofs ----------------------------
(***************************************************************************)
(* Proofs about Socket for every number of processes, descriptors and      *)
(* sockets, every length of the pending list and every sequence of calls.  *)
(*                                                                         *)
(* What is not inductive alone, and the facts added:                       *)
(*   EnqueuedOnce       a client in a list is no longer UNCONNECTED (Taken)*)
(*   ServedEveryTurn    what a client has waited and what the head still   *)
(*                      has to go to it stay below one turn (InReach)      *)
(*   DropsOnlyWhenFull  cells fill from 1 up to the tail, cell 0 last      *)
(*                      (Filled)                                           *)
(***************************************************************************)
EXTENDS Socket, WellFoundedInduction, TLAPS

\* A client that is in a list cannot connect again.
Taken == \A s \in Ids : \A i \in Cells :
            pend[s][i] # Null => state[pend[s][i]] # "UNCONNECTED"

\* How many accepts away cell i is when the next one looks at cell n first, of m cells.
Ahead(n, i, m) == IF i >= n THEN i - n ELSE i - n + m

InReach ==
    \A s \in Ids : \A i \in Cells :
        i < max[s] /\ pend[s][i] # Null /\ valid[pend[s][i]]
            => Ahead(NextHead(s), i, max[s]) + waits[pend[s][i]] < max[s]

FullList(s)  == \A i \in Cells : i < max[s] => pend[s][i] # Null
UpToTail(s)  == \A i \in Cells : pend[s][i] # Null <=> (1 <= i /\ i <= tail[s])

Filled == \A s \in Ids \ resized : tail[s] < max[s] /\ (FullList(s) \/ UpToTail(s))

----------------------------------------------------------------------------
(* Types.                                                                  *)

\* The arithmetic of the constants.
LEMMA ConstFacts ==
    /\ NPending \in Nat /\ NPending >= 2 /\ DefaultMax \in 1..(NPending - 1)
    /\ 0 \in Cells /\ 0 \in Procs /\ ConnFd \in Fds
    /\ \A i \in Ids : i # Null
    /\ \A m \in 1..(NPending - 1) : m \in Nat /\ m \in Cells
BY SocketAssumption DEF Cells, Procs, ConnFd, Fds, Ids, Null

\* The step of an index of the pending list stays below backlog_max.
LEMMA AdvanceType ==
    ASSUME NEW x \in Cells, NEW m \in 1..(NPending - 1)
    PROVE  Advance(x, m) \in Cells /\ Advance(x, m) < m
<1>1. x \in Nat /\ m \in Nat /\ m >= 1 /\ m < NPending /\ NPending \in Nat
    BY SocketAssumption DEF Cells
<1>2. CASE x + 1 >= m
    BY <1>1, <1>2 DEF Advance, Cells
<1>3. CASE ~(x + 1 >= m)
    BY <1>1, <1>3 DEF Advance, Cells
<1> QED BY <1>2, <1>3

\* sys_listen keeps the backlog inside the array.
LEMMA ClampType ==
    ASSUME NEW b \in 0..NPending
    PROVE  Clamp(b) \in 1..(NPending - 1)
BY SocketAssumption DEF Clamp

\* Every non-empty set of natural numbers has a least element.
LEMMA FoundLeast ==
    ASSUME NEW S \in SUBSET Nat, S # {}
    PROVE  Least(S) \in S /\ \A y \in S : Least(S) <= y
<1>1. PICK x \in S : \A y \in S : <<y, x>> \notin OpToRel(<, Nat)
    BY NatLessThanWellFounded, WFMin
<1>2. ASSUME NEW y \in S PROVE x <= y
  <2>1. x \in Nat /\ y \in Nat
    OBVIOUS
  <2>2. y < x => <<y, x>> \in OpToRel(<, Nat)
    BY <2>1, Zenon DEF OpToRel
  <2>3. ~(y < x)
    BY <1>1, <2>2, Zenon
  <2> QED BY <2>1, <2>3
<1> QED BY <1>2 DEF Least

\* The boot state.
LEMMA InitType == Init => TypeOK
<1> SUFFICES ASSUME Init PROVE TypeOK
    OBVIOUS
<1>1. (CHOOSE m \in Payload : TRUE) \in Payload
    BY SocketAssumption
<1> QED BY <1>1, SocketAssumption, ConstFacts DEF Init, TypeOK, Procs, Cells, Causes, Null

\* A descriptor that is in use names a socket.
LEMMA InUse ==
    ASSUME TypeOK, NEW p \in Procs, NEW d \in Fds, obj[p][d] # Null
    PROVE  obj[p][d] \in Ids
BY DEF TypeOK

\* The client accept returns is one of the list it looked at.
LEMMA ClientFound ==
    ASSUME TypeOK, NEW f \in Ids
    PROVE  /\ Client(f) \in Ids \cup {Null}
           /\ Client(f) # Null => \E i \in Cells : Client(f) = pend[f][i]
<1>1. NextHead(f) \in Cells
    BY AdvanceType DEF TypeOK, NextHead
<1>2. max[f] \in Cells /\ max[f] \in Nat /\ NextHead(f) \in Nat
    BY ConstFacts, <1>1 DEF TypeOK, Cells
<1>3. Found(f) \subseteq Cells
    BY ConstFacts, <1>1, <1>2 DEF Found, Cells
<1>4. CASE Found(f) = {}
    BY <1>4 DEF Client, FoundSocket
<1>5. CASE Found(f) # {}
  <2>1. Least(Found(f)) \in Found(f)
    BY <1>3, <1>5, FoundLeast DEF Cells
  <2> QED BY <1>3, <1>5, <2>1 DEF Client, FoundSocket, TypeOK
<1> QED BY <1>4, <1>5

\* The calls, without the bound on who makes which.
Call(p, d) ==
    \/ sys_connect(p, d) \/ sys_connect_panic(p, d)
    \/ \E b \in 0..NPending : sys_listen(p, d, b)
    \/ sys_listen_panic(p, d) \/ sys_accept(p, d)
    \/ \E m \in Payload : sys_write(p, d, m)
    \/ sys_write_fails(p, d) \/ sys_read(p, d) \/ sys_read_panic(p, d)
    \/ \E a \in Actions : set_action(p, d, a)
    \/ sync_216(p, d) \/ sync_217(p, d) \/ sys_sleep_if_socket_is_empty(p, d)
    \/ sys_close(p, d) \/ sys_socket_shutdown(p, d)

LEMMA NextCases ==
    ASSUME [Next]_vars
    PROVE  \/ \E p, q \in Procs : Clone(p, q) \/ SetPort(p, q)
           \/ \E p \in Procs : sys_socket(p)
           \/ \E p \in Procs, d \in Fds : Call(p, d)
           \/ UNCHANGED vars
BY Zenon DEF Next, Connection, Talk, Stopped, Call

\* Every call that changes no pointer keeps the types; so do those that do.
LEMMA CallType ==
    ASSUME TypeOK, NEW p \in Procs, NEW d \in Fds, Call(p, d)
    PROVE  TypeOK'
<1> USE ConstFacts
<1>1. obj[p][d] # Null /\ obj[p][d] \in Ids
  <2>1. obj[p][d] # Null
    BY DEF Call, sys_connect, ConnectOk, Connecting, sys_connect_panic, sys_listen,
           sys_listen_panic, sys_accept, Acceptable, sys_write, WriteOk, sys_write_fails,
           sys_read, ReadOk, sys_read_panic, set_action, sync_216, sync_217, sys_close,
           sys_sleep_if_socket_is_empty, sys_socket_shutdown
  <2> QED BY <2>1, InUse
<1>2. CASE sys_connect(p, d)
  <2>1. port \in Procs /\ priv[port] \in Ids
    BY <1>2 DEF TypeOK, sys_connect, ConnectOk
  <2>2. obj' \in [Procs -> [Fds -> Ids \cup {Null}]]
    BY <1>1, <1>2, <2>1 DEF TypeOK, sys_connect
  <2>3. state' \in [Ids -> {"UNCONNECTED", "CONNECTING", "CONNECTED", "SHUTDOWN"}]
    BY <1>1, <1>2, <2>1 DEF TypeOK, sys_connect
  <2>4. Advance(tail[priv[port]], max[priv[port]]) \in Cells
    BY <2>1, AdvanceType DEF TypeOK
  <2>5. tail' \in [Ids -> Cells]
    BY <1>2, <2>1, <2>4 DEF TypeOK, sys_connect
  <2>6. pend' \in [Ids -> [Cells -> Ids \cup {Null}]]
    BY <1>1, <1>2, <2>1, <2>5 DEF TypeOK, sys_connect
  <2>7. waits' \in [Ids -> 0..NPending]
    BY <1>1, <1>2, <2>1 DEF TypeOK, sys_connect
  <2> QED BY <1>2, <2>2, <2>3, <2>5, <2>6, <2>7 DEF TypeOK, sys_connect, fileVars
<1>3. CASE sys_connect_panic(p, d) \/ sys_listen_panic(p, d)
    BY <1>3 DEF TypeOK, sys_connect_panic, sys_listen_panic, Halt, Causes, procVars,
                sockVars, fileVars, histVars
<1>4. ASSUME NEW b \in 0..NPending, sys_listen(p, d, b) PROVE TypeOK'
  <2>1. Clamp(b) \in 1..(NPending - 1)
    BY ClampType
  <2>2. max' \in [Ids -> 1..(NPending - 1)]
    BY <1>1, <1>4, <2>1 DEF TypeOK, sys_listen
  <2>3. waits' \in [Ids -> 0..NPending]
    BY <1>4 DEF TypeOK, sys_listen
  <2>4. resized' \subseteq Ids
    BY <1>1, <1>4 DEF TypeOK, sys_listen
  <2> QED BY <1>4, <2>2, <2>3, <2>4 DEF TypeOK, sys_listen, procVars, fileVars
<1>5. CASE sys_accept(p, d)
  <2> DEFINE f == obj[p][d]
  <2>1. NextHead(f) \in Cells
    BY <1>1, AdvanceType DEF TypeOK, NextHead
  <2>2. Client(f) \in Ids \cup {Null}
    BY <1>1, ClientFound
  <2>3. head' \in [Ids -> Cells]
    BY <1>1, <1>5, <2>1 DEF TypeOK, sys_accept
  <2>4. state' \in [Ids -> {"UNCONNECTED", "CONNECTING", "CONNECTED", "SHUTDOWN"}]
    BY <1>1, <1>5, <2>2 DEF TypeOK, sys_accept
  <2>5. obj' \in [Procs -> [Fds -> Ids \cup {Null}]]
    BY <1>1, <1>5, <2>2 DEF TypeOK, sys_accept
  <2>6. waits' \in [Ids -> 0..NPending]
    BY <1>5 DEF TypeOK, sys_accept, Waited
  <2> QED BY <1>5, <2>3, <2>4, <2>5, <2>6 DEF TypeOK, sys_accept, fileVars
<1>6. ASSUME NEW m \in Payload, sys_write(p, d, m) PROVE TypeOK'
    BY <1>1, <1>6 DEF TypeOK, sys_write, procVars, sockVars, histVars
<1>7. CASE sys_write_fails(p, d)
    BY <1>1, <1>7 DEF TypeOK, sys_write_fails, procVars, sockVars, histVars
<1>8. CASE sys_read(p, d)
    BY <1>1, <1>8 DEF TypeOK, sys_read, procVars, sockVars, histVars
<1>9. CASE sys_read_panic(p, d)
    BY <1>1, <1>9 DEF TypeOK, sys_read_panic, Halt, Causes, procVars, sockVars, histVars
<1>10. ASSUME NEW a \in Actions, set_action(p, d, a) PROVE TypeOK'
    BY <1>1, <1>10 DEF TypeOK, set_action, procVars, sockVars, histVars
<1>11. CASE sync_216(p, d)
    BY <1>1, <1>11, SocketAssumption DEF TypeOK, sync_216, procVars, sockVars
<1>12. CASE sync_217(p, d)
    BY <1>1, <1>12, SocketAssumption DEF TypeOK, sync_217, procVars, sockVars
<1>13. CASE sys_close(p, d)
    BY <1>1, <1>13 DEF TypeOK, sys_close, fileVars, histVars
<1>14. CASE sys_socket_shutdown(p, d)
    BY <1>1, <1>14 DEF TypeOK, sys_socket_shutdown, procVars, fileVars, histVars
<1>15. CASE sys_sleep_if_socket_is_empty(p, d)
    BY <1>1, <1>15 DEF TypeOK, sys_sleep_if_socket_is_empty, procVars, sockVars, histVars
<1> QED BY Zenon, <1>2, <1>3, <1>4, <1>5, <1>6, <1>7, <1>8, <1>9, <1>10, <1>11, <1>12, <1>13,
           <1>14, <1>15 DEF Call

\* So do the calls that make processes and sockets.
LEMMA MakeType ==
    ASSUME TypeOK,
           \/ \E p, q \in Procs : Clone(p, q) \/ SetPort(p, q)
           \/ \E p \in Procs : sys_socket(p)
    PROVE  TypeOK'
<1>1. ASSUME NEW p \in Procs, NEW q \in Procs, Clone(p, q) PROVE TypeOK'
    BY <1>1 DEF TypeOK, Clone, sockVars, fileVars, histVars
<1>2. ASSUME NEW p \in Procs, NEW q \in Procs, SetPort(p, q) PROVE TypeOK'
    BY <1>2 DEF TypeOK, SetPort, sockVars, fileVars, histVars
<1>3. ASSUME NEW p \in Procs, sys_socket(p) PROVE TypeOK'
  <2>1. nsock' \in Ids /\ nsock' \in 0..MaxSock
    BY <1>3, SocketAssumption DEF TypeOK, sys_socket, Ids
  <2>2. FreeFds(p) # {} => Least(FreeFds(p)) \in Fds
    <3>1. FreeFds(p) \in SUBSET Nat
        BY SocketAssumption DEF FreeFds, Slots
    <3>2. FreeFds(p) # {} => Least(FreeFds(p)) \in FreeFds(p)
        BY <3>1, FoundLeast
    <3> QED BY <3>2 DEF FreeFds, Fds
  <2>3. obj' \in [Procs -> [Fds -> Ids \cup {Null}]]
    <3>1. CASE UNCHANGED obj
        BY <3>1 DEF TypeOK
    <3>2. CASE /\ FreeFds(p) # {}
               /\ obj' = [obj EXCEPT ![p][Least(FreeFds(p))] = nsock']
        BY <2>1, <2>2, <3>2 DEF TypeOK
    <3> QED BY <1>3, <3>1, <3>2 DEF sys_socket
  <2> QED BY <1>3, <2>1, <2>3 DEF TypeOK, sys_socket, fileVars, histVars
<1> QED BY <1>1, <1>2, <1>3

LEMMA NextType == TypeOK /\ [Next]_vars => TypeOK'
<1> SUFFICES ASSUME TypeOK, [Next]_vars PROVE TypeOK'
    OBVIOUS
<1>1. CASE UNCHANGED vars
    BY <1>1 DEF vars, procVars, sockVars, fileVars, histVars, TypeOK
<1> QED BY <1>1, NextCases, CallType, MakeType

\* For every size of the pending list and any sequence of calls: no index leaves the
\* array, the cell at backlog_max that accept also reads included.
THEOREM TypeCorrect == Spec => []TypeOK
BY InitType, NextType, PTL DEF Spec

----------------------------------------------------------------------------
(* The buffer.                                                             *)

\* Only the calls on the buffer and the panics touch what BufferDirection reads.
LEMMA CallBuffer ==
    ASSUME TypeOK, BufferDirection, NEW p \in Procs, NEW d \in Fds, Call(p, d)
    PROVE  BufferDirection'
<1> DEFINE f == obj[p][d]
<1>1. ASSUME Running(p) PROVE panic = "none"
    BY <1>1 DEF Running
<1>2. ASSUME UNCHANGED <<flags, full, forced, panic>> PROVE BufferDirection'
    BY <1>2 DEF BufferDirection
<1>3. CASE sys_connect_panic(p, d) \/ sys_listen_panic(p, d)
    BY <1>3 DEF sys_connect_panic, sys_listen_panic, Halt, BufferDirection, fileVars, histVars
<1>4. ASSUME NEW m \in Payload, sys_write(p, d, m) PROVE BufferDirection'
    BY <1>4, InUse DEF sys_write, WriteOk, BufferDirection, TypeOK, histVars
<1>5. CASE sys_write_fails(p, d)
    BY <1>5, InUse DEF sys_write_fails, BufferDirection, TypeOK, histVars
<1>6. CASE sys_read(p, d)
    BY <1>6, InUse DEF sys_read, ReadOk, BufferDirection, TypeOK, histVars
<1>7. CASE sys_read_panic(p, d)
    BY <1>7, InUse DEF sys_read_panic, Halt, BufferDirection, TypeOK, histVars
<1>8. CASE sync_216(p, d)
    BY <1>1, <1>8, InUse DEF sync_216, BufferDirection, TypeOK
<1>9. CASE sync_217(p, d)
    BY <1>1, <1>9, InUse DEF sync_217, BufferDirection, TypeOK
<1>10. CASE \/ sys_connect(p, d) \/ (\E b \in 0..NPending : sys_listen(p, d, b))
            \/ sys_accept(p, d) \/ (\E a \in Actions : set_action(p, d, a))
            \/ sys_close(p, d) \/ sys_socket_shutdown(p, d)
  <2>1. UNCHANGED <<flags, full, forced, panic>>
    BY <1>10 DEF sys_connect, sys_listen, sys_accept, set_action, sys_close,
                 sys_socket_shutdown, fileVars, histVars
  <2> QED BY <1>2, <2>1
<1>11. CASE sys_sleep_if_socket_is_empty(p, d)
    BY <1>11, InUse DEF sys_sleep_if_socket_is_empty, BufferDirection, TypeOK, histVars
<1> QED BY Zenon, <1>3, <1>4, <1>5, <1>6, <1>7, <1>8, <1>9, <1>10, <1>11 DEF Call

\* Whatever is called through whichever descriptor, the flags of a buffer agree with
\* what is in it: the panic of __read_imp needs a request 217 and the waking branch of
\* __write_imp is dead code, for every number of processes and sockets.
THEOREM BufferHasOneDirection == Spec => []BufferDirection
<1>1. Init => BufferDirection
    BY DEF Init, BufferDirection
<1>2. TypeOK /\ BufferDirection /\ [Next]_vars => BufferDirection'
  <2> SUFFICES ASSUME TypeOK, BufferDirection, [Next]_vars PROVE BufferDirection'
    OBVIOUS
  <2>1. ASSUME UNCHANGED <<flags, full, forced, panic>> PROVE BufferDirection'
    BY <2>1 DEF BufferDirection
  <2>2. CASE \E p, q \in Procs : Clone(p, q) \/ SetPort(p, q)
    BY <2>1, <2>2 DEF Clone, SetPort, fileVars, histVars
  <2>3. CASE \E p \in Procs : sys_socket(p)
    BY <2>1, <2>3 DEF sys_socket, fileVars, histVars
  <2>4. CASE UNCHANGED vars
    BY <2>1, <2>4 DEF vars, fileVars, histVars
  <2> QED BY <2>2, <2>3, <2>4, NextCases, CallBuffer
<1> QED BY <1>1, <1>2, TypeCorrect, PTL DEF Spec

----------------------------------------------------------------------------
(* The pending lists.                                                      *)

\* Only connect writes a list, and only listen, accept and connect touch the rest of
\* what the properties of the lists read.
ListVars == <<head, tail, max, pend, waits, resized>>

LEMMA ListCases ==
    ASSUME [Next]_vars
    PROVE  \/ \E p \in Procs, d \in Fds : sys_connect(p, d)
           \/ \E p \in Procs, d \in Fds, b \in 0..NPending : sys_listen(p, d, b)
           \/ \E p \in Procs, d \in Fds : sys_accept(p, d)
           \/ /\ UNCHANGED ListVars
              /\ \/ UNCHANGED <<state, valid>>
                 \/ \E p \in Procs, d \in Fds : sys_close(p, d) \/ sys_socket_shutdown(p, d)
<1>1. ASSUME NEW p \in Procs, NEW d \in Fds, Call(p, d)
      PROVE  \/ sys_connect(p, d) \/ (\E b \in 0..NPending : sys_listen(p, d, b))
             \/ sys_accept(p, d)
             \/ /\ UNCHANGED ListVars
                /\ UNCHANGED <<state, valid>> \/ sys_close(p, d) \/ sys_socket_shutdown(p, d)
    BY <1>1 DEF Call, ListVars, sockVars, histVars, sys_connect_panic, sys_listen_panic,
        sys_write, sys_write_fails, sys_read, sys_read_panic, set_action, sync_216, sync_217,
        sys_sleep_if_socket_is_empty, sys_close, sys_socket_shutdown
<1>2. ASSUME \/ \E p, q \in Procs : Clone(p, q) \/ SetPort(p, q)
             \/ \E p \in Procs : sys_socket(p)
             \/ UNCHANGED vars
      PROVE  UNCHANGED ListVars /\ UNCHANGED <<state, valid>>
    BY <1>2 DEF vars, Clone, SetPort, sys_socket, ListVars, sockVars, histVars
<1> QED BY <1>1, <1>2, NextCases, Zenon

\* What connect does to the lists: client c goes into one cell, t, of server s.
LEMMA ConnectEffect ==
    ASSUME TypeOK, NEW p \in Procs, NEW d \in Fds, sys_connect(p, d)
    PROVE  \E c, s \in Ids, t \in Cells :
              /\ state[c] = "UNCONNECTED"
              /\ \A x \in Ids : x = c \/ state[x] # "UNCONNECTED" => state'[x] # "UNCONNECTED"
              /\ t = Advance(tail[s], max[s]) /\ t < max[s]
              /\ \A r \in Ids : tail'[r] = IF r = s THEN t ELSE tail[r]
              /\ \A r \in Ids : \A i \in Cells :
                    pend'[r][i] = IF r = s /\ i = t THEN c ELSE pend[r][i]
              /\ \A x \in Ids : waits'[x] = IF x = c THEN 0 ELSE waits[x]
              /\ UNCHANGED <<head, max, valid, resized>>
<1> DEFINE c == obj[p][d]
           s == priv[port]
           t == Advance(tail[s], max[s])
<1>1. c \in Ids /\ s \in Ids /\ state[c] = "UNCONNECTED"
    BY DEF sys_connect, ConnectOk, Connecting, TypeOK
<1>2. t \in Cells /\ t < max[s]
    BY <1>1, AdvanceType DEF TypeOK
<1>3. \A x \in Ids : x = c \/ state[x] # "UNCONNECTED" => state'[x] # "UNCONNECTED"
    BY <1>1 DEF sys_connect, TypeOK
<1>4. tail' = [tail EXCEPT ![s] = t] /\ tail'[s] = t
    BY <1>1 DEF sys_connect, TypeOK
<1>5. pend' = [pend EXCEPT ![s][t] = c]
    BY <1>4 DEF sys_connect
<1>6. \A r \in Ids : \A i \in Cells : pend'[r][i] = IF r = s /\ i = t THEN c ELSE pend[r][i]
    BY <1>1, <1>2, <1>5 DEF TypeOK
<1>7. \A r \in Ids : tail'[r] = IF r = s THEN t ELSE tail[r]
    BY <1>4 DEF TypeOK
<1>8. \A x \in Ids : waits'[x] = IF x = c THEN 0 ELSE waits[x]
    BY DEF sys_connect, TypeOK
<1>9. UNCHANGED <<head, max, valid, resized>>
    BY DEF sys_connect
<1> QED BY <1>1, <1>2, <1>3, <1>6, <1>7, <1>8, <1>9

Lists == EnqueuedOnce /\ Taken

LEMMA NextLists == TypeOK /\ Lists /\ [Next]_vars => Lists'
<1> SUFFICES ASSUME TypeOK, Lists, [Next]_vars PROVE Lists'
    OBVIOUS
<1> USE DEF Lists
<1>0. \A s \in Ids : \A i \in Cells : pend[s][i] \in Ids \cup {Null}
    BY DEF TypeOK
<1>1. ASSUME NEW p \in Procs, NEW d \in Fds, sys_connect(p, d) PROVE Lists'
  <2>1. PICK c \in Ids, s \in Ids, t \in Cells :
              /\ state[c] = "UNCONNECTED"
              /\ \A x \in Ids : x = c \/ state[x] # "UNCONNECTED" => state'[x] # "UNCONNECTED"
              /\ \A r \in Ids : \A i \in Cells :
                    pend'[r][i] = IF r = s /\ i = t THEN c ELSE pend[r][i]
    BY <1>1, ConnectEffect
  <2>2. \A r \in Ids : \A i \in Cells : pend[r][i] # c
    BY <2>1, ConstFacts DEF Taken
  <2>3. EnqueuedOnce'
    BY <2>1, <2>2 DEF EnqueuedOnce
  <2>4. Taken'
    BY <1>0, <2>1 DEF Taken
  <2> QED BY <2>3, <2>4
<1>2. ASSUME UNCHANGED pend, \A x \in Ids : state[x] # "UNCONNECTED" => state'[x] # "UNCONNECTED"
      PROVE  Lists'
    BY <1>0, <1>2 DEF EnqueuedOnce, Taken
<1>3. ASSUME NEW p \in Procs, NEW d \in Fds, sys_accept(p, d) PROVE Lists'
  <2>1. CASE Client(obj[p][d]) = Null
    BY <1>2, <1>3, <2>1 DEF sys_accept, TypeOK
  <2>2. CASE Client(obj[p][d]) # Null
    <3>1. state' = [state EXCEPT ![obj[p][d]] = "CONNECTED", ![Client(obj[p][d])] = "CONNECTED"]
        BY <1>3, <2>2 DEF sys_accept
    <3>2. \A x \in Ids : state[x] # "UNCONNECTED" => state'[x] # "UNCONNECTED"
        BY <3>1 DEF TypeOK
    <3> QED BY <1>2, <1>3, <3>2 DEF sys_accept
  <2> QED BY <2>1, <2>2
<1>4. ASSUME NEW p \in Procs, NEW d \in Fds, NEW b \in 0..NPending, sys_listen(p, d, b)
      PROVE  Lists'
    BY <1>2, <1>4 DEF sys_listen
<1>5. ASSUME UNCHANGED ListVars, NEW p \in Procs, NEW d \in Fds,
             sys_close(p, d) \/ sys_socket_shutdown(p, d)
      PROVE  Lists'
    BY <1>2, <1>5 DEF ListVars, sys_close, sys_socket_shutdown, TypeOK
<1>6. ASSUME UNCHANGED ListVars, UNCHANGED <<state, valid>> PROVE Lists'
    BY <1>2, <1>6 DEF ListVars
<1> QED BY ListCases, <1>1, <1>3, <1>4, <1>5, <1>6

\* For every number of servers, clients and cells: no client is in two pending lists or
\* twice in one, whatever connects, shuts down and closes.
THEOREM EnqueuedAtMostOnce == Spec => []EnqueuedOnce
<1>1. Init => Lists
    BY DEF Init, Lists, EnqueuedOnce, Taken
<1>2. Lists => EnqueuedOnce
    BY DEF Lists
<1> QED BY <1>1, <1>2, NextLists, TypeCorrect, PTL DEF Spec

----------------------------------------------------------------------------
(* One turn of the pending list.                                           *)

\* Every cell is less than one turn ahead.
LEMMA AheadType ==
    ASSUME NEW m \in 1..(NPending - 1), NEW n \in Cells, NEW i \in Cells, n < m, i < m
    PROVE  Ahead(n, i, m) \in Nat /\ Ahead(n, i, m) < m
<1>1. m \in Nat /\ n \in Nat /\ i \in Nat
    BY SocketAssumption DEF Cells
<1>2. CASE i >= n
    BY <1>1, <1>2 DEF Ahead
<1>3. CASE ~(i >= n)
    BY <1>1, <1>3 DEF Ahead
<1> QED BY <1>2, <1>3

\* The next accept looks one cell further on.
LEMMA AheadStep ==
    ASSUME NEW m \in 1..(NPending - 1), NEW n \in Cells, NEW i \in Cells, n < m, i < m, i # n
    PROVE  Ahead(Advance(n, m), i, m) = Ahead(n, i, m) - 1
<1>1. m \in Nat /\ n \in Nat /\ i \in Nat
    BY SocketAssumption DEF Cells
<1>2. CASE n + 1 >= m
  <2>1. Advance(n, m) = 0
    BY <1>2 DEF Advance
  <2> QED BY <1>1, <1>2, <2>1 DEF Ahead
<1>3. CASE ~(n + 1 >= m)
  <2>1. Advance(n, m) = n + 1
    BY <1>3 DEF Advance
  <2> QED BY <1>1, <1>3, <2>1 DEF Ahead
<1> QED BY <1>2, <1>3

LEMMA NextHeadType ==
    ASSUME TypeOK, NEW s \in Ids
    PROVE  NextHead(s) \in Cells /\ NextHead(s) < max[s] /\ max[s] \in 1..(NPending - 1)
BY AdvanceType DEF NextHead, TypeOK

\* An accept that looks at a valid client first returns it.
LEMMA FirstIsReturned ==
    ASSUME TypeOK, NEW s \in Ids, pend[s][NextHead(s)] # Null, valid[pend[s][NextHead(s)]]
    PROVE  Client(s) = pend[s][NextHead(s)]
<1> DEFINE n == NextHead(s)
<1>1. n \in Nat /\ max[s] \in Nat /\ n < max[s]
    BY NextHeadType, SocketAssumption DEF Cells
<1>2. n \in Found(s) /\ Found(s) \in SUBSET Nat
    BY <1>1 DEF Found
<1>3. Least(Found(s)) \in Found(s) /\ Least(Found(s)) <= n
    BY <1>2, FoundLeast
<1>4. Least(Found(s)) = n
    BY <1>1, <1>3 DEF Found
<1> QED BY <1>2, <1>4 DEF Client, FoundSocket

LEMMA AcceptReach ==
    ASSUME TypeOK, Lists, InReach, NEW p \in Procs, NEW d \in Fds, sys_accept(p, d)
    PROVE  InReach'
<1> DEFINE f == obj[p][d]
<1>1. f \in Ids
    BY InUse DEF sys_accept, Acceptable
<1>2. /\ UNCHANGED <<max, pend, valid>> /\ waits' = Waited(f, Client(f))
      /\ head' = [head EXCEPT ![f] = NextHead(f)]
    BY DEF sys_accept
<1> SUFFICES ASSUME NEW s \in Ids, NEW i \in Cells, i < max[s], pend[s][i] # Null,
                    valid[pend[s][i]]
             PROVE  Ahead(NextHead(s)', i, max[s]) + waits'[pend[s][i]] < max[s]
    BY <1>2 DEF InReach
<1> DEFINE x == pend[s][i]
<1>3. x \in Ids /\ waits[x] \in Nat
    BY ConstFacts DEF TypeOK
<1>4. Ahead(NextHead(s), i, max[s]) + waits[x] < max[s]
    BY DEF InReach
<1>5. NextHead(s) \in Cells /\ NextHead(s) < max[s] /\ max[s] \in 1..(NPending - 1)
    BY NextHeadType
<1>6. Ahead(NextHead(s), i, max[s]) \in Nat
    BY <1>5, AheadType
<1>7. waits'[x] = IF x = Client(f) THEN 0
                  ELSE IF waits[x] < NPending /\ \E y \in 0..(max[f] - 1) : pend[f][y] = x
                       THEN waits[x] + 1 ELSE waits[x]
    BY <1>2, <1>3 DEF Waited
<1>8. CASE s = f
  <2>1. NextHead(s)' = Advance(NextHead(s), max[s])
    BY <1>1, <1>2, <1>8 DEF NextHead, TypeOK
  <2>2. CASE i = NextHead(s)
    <3>1. waits'[x] = 0
        BY <1>7, <1>8, <2>2, FirstIsReturned
    <3>2. Advance(NextHead(s), max[s]) \in Cells /\ Advance(NextHead(s), max[s]) < max[s]
        BY <1>5, AdvanceType
    <3>3. Ahead(NextHead(s)', i, max[s]) \in Nat /\ Ahead(NextHead(s)', i, max[s]) < max[s]
        BY <1>5, <2>1, <3>2, AheadType
    <3> QED BY <3>1, <3>3
  <2>3. CASE i # NextHead(s)
    <3>1. Ahead(NextHead(s)', i, max[s]) = Ahead(NextHead(s), i, max[s]) - 1
        BY <1>5, <2>1, <2>3, AheadStep
    <3>2. waits'[x] \in Nat /\ waits'[x] <= waits[x] + 1
        BY <1>3, <1>7
    <3> QED BY <1>3, <1>4, <1>5, <1>6, <3>1, <3>2, ConstFacts
  <2> QED BY <2>2, <2>3
<1>9. CASE s # f
  <2>1. NextHead(s)' = NextHead(s)
    BY <1>1, <1>2, <1>9 DEF NextHead, TypeOK
  <2>2. \A y \in 0..(max[f] - 1) : pend[f][y] # x
    <3>1. \A y \in 0..(max[f] - 1) : y \in Cells
        BY <1>1, ConstFacts DEF TypeOK, Cells
    <3> QED BY <1>1, <1>9, <3>1 DEF Lists, EnqueuedOnce
  <2>3. waits'[x] \in Nat /\ waits'[x] <= waits[x]
    BY <1>3, <1>7, <2>2
  <2> QED BY <1>3, <1>4, <1>5, <1>6, <2>1, <2>3, ConstFacts
<1> QED BY <1>8, <1>9

LEMMA NextReach == TypeOK /\ Lists /\ InReach /\ [Next]_vars => InReach'
<1> SUFFICES ASSUME TypeOK, Lists, InReach, [Next]_vars PROVE InReach'
    OBVIOUS
<1>0. \A s \in Ids : \A i \in Cells : pend[s][i] # Null => pend[s][i] \in Ids
    BY DEF TypeOK
<1>1. ASSUME NEW p \in Procs, NEW d \in Fds, sys_connect(p, d) PROVE InReach'
  <2>1. PICK c \in Ids, s \in Ids, t \in Cells :
              /\ state[c] = "UNCONNECTED"
              /\ \A r \in Ids : \A i \in Cells :
                    pend'[r][i] = IF r = s /\ i = t THEN c ELSE pend[r][i]
              /\ \A x \in Ids : waits'[x] = IF x = c THEN 0 ELSE waits[x]
              /\ UNCHANGED <<head, max, valid, resized>>
    BY <1>1, ConnectEffect
  <2> SUFFICES ASSUME NEW r \in Ids, NEW i \in Cells, i < max[r], pend'[r][i] # Null,
                      valid[pend'[r][i]]
               PROVE  Ahead(NextHead(r), i, max[r]) + waits'[pend'[r][i]] < max[r]
    BY <2>1 DEF InReach, NextHead
  <2>2. CASE r = s /\ i = t
    <3>1. waits'[pend'[r][i]] = 0
        BY <2>1, <2>2
    <3>2. Ahead(NextHead(r), i, max[r]) \in Nat /\ Ahead(NextHead(r), i, max[r]) < max[r]
        BY NextHeadType, AheadType
    <3> QED BY <3>1, <3>2
  <2>3. CASE ~(r = s /\ i = t)
    <3>1. pend'[r][i] = pend[r][i] /\ pend[r][i] # Null /\ pend[r][i] \in Ids
        BY <1>0, <2>1, <2>3
    <3>2. pend[r][i] # c
        BY <2>1, <3>1 DEF Lists, Taken
    <3> QED BY <2>1, <3>1, <3>2 DEF InReach
  <2> QED BY <2>2, <2>3
<1>2. ASSUME NEW p \in Procs, NEW d \in Fds, NEW b \in 0..NPending, sys_listen(p, d, b)
      PROVE  InReach'
  <2> DEFINE f == obj[p][d]
  <2>1. f \in Ids
    BY <1>2, InUse DEF sys_listen
  <2>2. /\ UNCHANGED <<head, pend, valid>> /\ max' = [max EXCEPT ![f] = Clamp(b)]
        /\ waits' = [c \in Ids |-> IF \E i \in Cells : pend[f][i] = c THEN 0 ELSE waits[c]]
    BY <1>2 DEF sys_listen
  <2>3. TypeOK'
    BY NextType
  <2> SUFFICES ASSUME NEW s \in Ids, NEW i \in Cells, i < max'[s], pend[s][i] # Null,
                      valid[pend[s][i]]
               PROVE  Ahead(NextHead(s)', i, max'[s]) + waits'[pend[s][i]] < max'[s]
    BY <2>2 DEF InReach
  <2>4. CASE s = f
    <3>1. waits'[pend[s][i]] = 0
        BY <1>0, <2>2, <2>4
    <3>2. head'[s] \in Cells /\ max'[s] \in 1..(NPending - 1)
        BY <2>3 DEF TypeOK
    <3>3. NextHead(s)' \in Cells /\ NextHead(s)' < max'[s]
        BY <3>2, AdvanceType DEF NextHead
    <3>4. Ahead(NextHead(s)', i, max'[s]) \in Nat /\ Ahead(NextHead(s)', i, max'[s]) < max'[s]
        BY <3>2, <3>3, AheadType
    <3> QED BY <3>1, <3>4
  <2>5. CASE s # f
    <3>1. max'[s] = max[s] /\ NextHead(s)' = NextHead(s)
        BY <2>1, <2>2, <2>5 DEF NextHead, TypeOK
    <3>2. waits'[pend[s][i]] = waits[pend[s][i]] \/ waits'[pend[s][i]] = 0
        BY <1>0, <2>2
    <3>3. Ahead(NextHead(s), i, max[s]) \in Nat /\ Ahead(NextHead(s), i, max[s]) < max[s]
        BY <3>1, NextHeadType, AheadType
    <3> QED BY <3>1, <3>2, <3>3 DEF InReach
  <2> QED BY <2>4, <2>5
<1>3. ASSUME UNCHANGED ListVars, \A x \in Ids : valid'[x] => valid[x] PROVE InReach'
    BY <1>0, <1>3 DEF ListVars, InReach, NextHead, Advance, Ahead
<1>4. ASSUME UNCHANGED ListVars, NEW p \in Procs, NEW d \in Fds,
             sys_close(p, d) \/ sys_socket_shutdown(p, d)
      PROVE  InReach'
    BY <1>3, <1>4 DEF sys_close, sys_socket_shutdown, TypeOK
<1>5. ASSUME UNCHANGED ListVars, UNCHANGED <<state, valid>> PROVE InReach'
    BY <1>3, <1>5
<1> QED BY ListCases, AcceptReach, <1>1, <1>2, <1>4, <1>5

\* For every backlog and whatever is connected, closed, dropped and listened again: a
\* client in the list is returned at least once in every backlog_max accepts.
THEOREM OneTurnServes == Spec => []ServedEveryTurn
<1>1. Init => Lists /\ InReach
    BY DEF Init, Lists, EnqueuedOnce, Taken, InReach
<1>2. TypeOK /\ InReach => ServedEveryTurn
  <2> SUFFICES ASSUME TypeOK, InReach, NEW s \in Ids, NEW i \in Cells, i < max[s],
                      pend[s][i] # Null, valid[pend[s][i]]
               PROVE  waits[pend[s][i]] < max[s]
    BY DEF ServedEveryTurn
  <2>1. Ahead(NextHead(s), i, max[s]) \in Nat
    BY NextHeadType, AheadType
  <2>2. Ahead(NextHead(s), i, max[s]) + waits[pend[s][i]] < max[s]
    BY DEF InReach
  <2>3. waits[pend[s][i]] \in Nat /\ max[s] \in Nat
    BY ConstFacts DEF TypeOK
  <2> QED BY <2>1, <2>2, <2>3
<1> QED BY <1>1, <1>2, NextLists, NextReach, TypeCorrect, PTL DEF Spec

----------------------------------------------------------------------------
(* What connect drops.                                                     *)

\* The cell connect writes is free, unless the list is full.
LEMMA ConnectFills ==
    ASSUME TypeOK, Filled, NEW s \in Ids, s \notin resized, ~FullList(s),
           NEW t \in Cells, t = Advance(tail[s], max[s])
    PROVE  /\ UpToTail(s) /\ pend[s][t] = Null /\ tail[s] < max[s]
           /\ \/ t = tail[s] + 1
              \/ t = 0 /\ tail[s] + 1 = max[s]
<1>1. tail[s] \in Nat /\ max[s] \in Nat /\ t \in Nat /\ NPending \in Nat
    BY ConstFacts DEF TypeOK, Cells
<1>2. tail[s] < max[s] /\ UpToTail(s)
    BY DEF Filled
<1>3. \/ t = tail[s] + 1
      \/ t = 0 /\ tail[s] + 1 = max[s]
    BY <1>1, <1>2 DEF Advance
<1>4. ~(1 <= t /\ t <= tail[s])
    BY <1>1, <1>3
<1> QED BY <1>2, <1>3, <1>4 DEF UpToTail

LEMMA NextFilled == TypeOK /\ Filled /\ [Next]_vars => Filled'
<1> SUFFICES ASSUME TypeOK, Filled, [Next]_vars PROVE Filled'
    OBVIOUS
<1>1. ASSUME NEW p \in Procs, NEW d \in Fds, sys_connect(p, d) PROVE Filled'
  <2>1. PICK c \in Ids, s \in Ids, t \in Cells :
              /\ t = Advance(tail[s], max[s]) /\ t < max[s]
              /\ \A r \in Ids : tail'[r] = IF r = s THEN t ELSE tail[r]
              /\ \A r \in Ids : \A i \in Cells :
                    pend'[r][i] = IF r = s /\ i = t THEN c ELSE pend[r][i]
              /\ UNCHANGED <<head, max, valid, resized>>
    BY <1>1, ConnectEffect
  <2> SUFFICES ASSUME NEW r \in Ids, r \notin resized
               PROVE  tail'[r] < max[r] /\ (FullList(r)' \/ UpToTail(r)')
    BY <2>1 DEF Filled
  <2>2. CASE r # s
    BY <2>1, <2>2 DEF Filled, FullList, UpToTail
  <2>3. CASE r = s /\ FullList(s)
    <3>1. FullList(r)'
        BY <2>1, <2>3, ConstFacts DEF FullList
    <3> QED BY <2>1, <2>3, <3>1
  <2>4. CASE r = s /\ ~FullList(s)
    <3>1. /\ UpToTail(s) /\ tail[s] < max[s]
          /\ \/ t = tail[s] + 1
             \/ t = 0 /\ tail[s] + 1 = max[s]
        BY <2>1, <2>4, ConnectFills
    <3>2. tail[s] \in Nat /\ max[s] \in Nat /\ c # Null /\ \A i \in Cells : i \in Nat
        BY ConstFacts DEF TypeOK, Cells
    <3>3. CASE t = tail[s] + 1
      <4>1. ASSUME NEW i \in Cells PROVE pend'[s][i] # Null <=> (1 <= i /\ i <= t)
        BY <2>1, <3>1, <3>2, <3>3 DEF UpToTail
      <4>2. UpToTail(r)'
        BY <2>1, <2>4, <4>1 DEF UpToTail
      <4> QED BY <2>1, <2>4, <4>2
    <3>4. CASE t = 0 /\ tail[s] + 1 = max[s]
      <4>1. ASSUME NEW i \in Cells, i < max[s] PROVE pend'[s][i] # Null
        BY <2>1, <3>1, <3>2, <3>4, <4>1 DEF UpToTail
      <4>2. FullList(r)'
        BY <2>1, <2>4, <4>1 DEF FullList
      <4> QED BY <2>1, <2>4, <4>2
    <3> QED BY <3>1, <3>3, <3>4
  <2> QED BY <2>2, <2>3, <2>4
<1>2. ASSUME NEW p \in Procs, NEW d \in Fds, NEW b \in 0..NPending, sys_listen(p, d, b)
      PROVE  Filled'
  <2> DEFINE f == obj[p][d]
  <2>1. f \in Ids
    BY <1>2, InUse DEF sys_listen
  <2>2. /\ UNCHANGED <<tail, pend>> /\ max' = [max EXCEPT ![f] = Clamp(b)]
        /\ resized' = IF HasClients(f) THEN resized \cup {f} ELSE resized
    BY <1>2 DEF sys_listen
  <2> SUFFICES ASSUME NEW r \in Ids, r \notin resized'
               PROVE  tail[r] < max'[r] /\ (FullList(r)' \/ UpToTail(r)')
    BY <2>2 DEF Filled
  <2>3. r \notin resized
    BY <2>2
  <2>4. CASE r # f
    <3>1. max'[r] = max[r]
        BY <2>1, <2>2, <2>4 DEF TypeOK
    <3> QED BY <2>2, <2>3, <3>1 DEF Filled, FullList, UpToTail
  <2>5. CASE r = f
    <3>1. \A i \in Cells : pend[f][i] = Null
        BY <2>2, <2>5 DEF HasClients
    <3>2. ~FullList(f)
        BY <2>1, <3>1, ConstFacts DEF FullList, TypeOK
    <3>3. UpToTail(f)
        BY <2>3, <2>5, <3>2 DEF Filled
    <3>4. tail[f] \in Cells /\ tail[f] \in Nat
        BY <2>1, ConstFacts DEF TypeOK, Cells
    <3>5. tail[f] = 0
        BY <3>1, <3>3, <3>4 DEF UpToTail
    <3>6. max'[f] = Clamp(b) /\ Clamp(b) \in 1..(NPending - 1)
        BY <2>1, <2>2, ClampType DEF TypeOK
    <3>7. UpToTail(r)'
        BY <2>2, <2>5, <3>3 DEF UpToTail
    <3> QED BY <2>5, <3>5, <3>6, <3>7, ConstFacts
  <2> QED BY <2>4, <2>5
<1>3. ASSUME UNCHANGED <<tail, max, pend, resized>> PROVE Filled'
    BY <1>3 DEF Filled, FullList, UpToTail
<1>4. ASSUME NEW p \in Procs, NEW d \in Fds, sys_accept(p, d) PROVE Filled'
    BY <1>3, <1>4 DEF sys_accept
<1>5. ASSUME UNCHANGED ListVars PROVE Filled'
    BY <1>3, <1>5 DEF ListVars
<1> QED BY ListCases, <1>1, <1>2, <1>4, <1>5

\* For every backlog and any sequence of calls: a connect that writes over a waiting
\* client found every cell of the list taken, unless the list was resized in use.
THEOREM OnlyAFullListDrops == Spec => DropsOnlyWhenFull
<1>1. Init => Filled
  <2> SUFFICES ASSUME Init, NEW s \in Ids PROVE tail[s] < max[s] /\ UpToTail(s)
    BY DEF Filled
  <2>1. tail[s] = 0 /\ max[s] = DefaultMax /\ \A i \in Cells : pend[s][i] = Null
    BY DEF Init
  <2>2. 0 < DefaultMax /\ \A i \in Cells : i \in Nat
    BY ConstFacts DEF Cells
  <2> QED BY <2>1, <2>2 DEF UpToTail
<1>2. TypeOK /\ Filled /\ [Next]_vars
        => [\A s \in Ids \ resized : \A i \in Cells :
                pend[s][i] # Null /\ pend'[s][i] # pend[s][i]
                    => \A j \in 0..(max[s] - 1) : pend[s][j] # Null]_vars
  <2> SUFFICES ASSUME TypeOK, Filled, [Next]_vars, NEW s \in Ids \ resized, NEW i \in Cells,
                      pend[s][i] # Null, pend'[s][i] # pend[s][i],
                      NEW j \in 0..(max[s] - 1)
               PROVE  pend[s][j] # Null
    OBVIOUS
  <2>1. PICK p \in Procs, d \in Fds : sys_connect(p, d)
    BY ListCases DEF sys_listen, sys_accept, ListVars
  <2>2. PICK c \in Ids, r \in Ids, t \in Cells :
              /\ t = Advance(tail[r], max[r])
              /\ \A q \in Ids : \A k \in Cells :
                    pend'[q][k] = IF q = r /\ k = t THEN c ELSE pend[q][k]
    BY <2>1, ConnectEffect
  <2>3. s = r /\ i = t
    BY <2>2
  <2>4. FullList(s)
    BY <2>2, <2>3, ConnectFills
  <2>5. j \in Cells /\ j < max[s]
    <3>1. max[s] \in Nat /\ max[s] < NPending /\ NPending \in Nat
        BY ConstFacts DEF TypeOK
    <3> QED BY <3>1 DEF Cells
  <2> QED BY <2>4, <2>5 DEF FullList
<1> QED BY <1>1, <1>2, NextFilled, TypeCorrect, PTL DEF Spec, DropsOnlyWhenFull
=============================================================================
