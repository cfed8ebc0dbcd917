------------------------------- MODULE Socket -------------------------------
(***************************************************************************)
(* Sockets and their files as the kernel keeps them (res/net/socket.c,     *)
(* res/net/sockint.c, res/fs/fslib.c, res/fs/fs.c): the services that      *)
(* create, connect, accept, read, write, synchronise and close them, called*)
(* in any order by any process.                                            *)
(*                                                                         *)
(* A service runs with interrupts off, so each call is one action.  Calls  *)
(* that fail and change nothing have no action.  A socket and its file are *)
(* made together and neither is ever freed: both go by one id.  The buffer *)
(* of the file holds one message and serves both directions.               *)
(*                                                                         *)
(* Left out: names (sys_bind stores one, connect never reads it), port     *)
(* numbers, link and clientfd_on_server (written, never read),             *)
(* tid_waiting (read only where BufferDirection shows the code cannot get  *)
(* to), objects of other types, the connectors of terminals, the           *)
(* credits of the calling thread, which are in Sched (do_credits), and     *)
(* sys_dup, dup2 and dup3, which copy a file without its socket, flags     *)
(* and action: what such a copy does is undefined.                         *)
(***************************************************************************)
EXTENDS Integers

CONSTANTS
    NProcs,      \* processes 0..NProcs-1; 0 is the init process
    NSlots,      \* descriptors 1..NSlots stand for 3..30
    MaxSock,     \* bound: sockets made in one behaviour
    NPending,    \* length of pending_connections (32)
    DefaultMax,  \* backlog_max of a new socket (4)
    Actions,     \* what programs store in sync.action; 0 is ACTION_NULL
    Payload,     \* what programs write
    Services,    \* bound: the services each process calls
    Talks        \* bound: the sockets programs talk on, shut down and close

ASSUME SocketAssumption ==
    /\ NProcs \in Nat \ {0} /\ NSlots \in Nat \ {0} /\ MaxSock \in Nat
    /\ NPending \in Nat /\ DefaultMax \in 1..(NPending - 1)
    /\ 0 \in Actions /\ Payload # {}

Procs  == 0..(NProcs - 1)
Slots  == 1..NSlots
ConnFd == NSlots + 1              \* descriptor 31, where a server finds its client
Fds    == Slots \cup {ConnFd}
Null   == 0
Ids    == 1..MaxSock
Cells  == 0..(NPending - 1)
Causes == {"none", "no slot in the server",
           "listen on an older socket", "buffer not full"}

VARIABLES
    born,      \* processes in processList
    obj,       \* Objects: the file behind each descriptor
    priv,      \* process_d.priv: the socket the process made last
    port,      \* gramado_ports[]: the process that serves the port
    nsock,     \* sockets made so far
    valid,     \* socket: used = TRUE and magic = 1234
    state, head, tail, max, pend,   \* socket: state, backlog_*, pending_connections
    flags, full, action, buf,       \* file: _flags, socket_buffer_full, sync.action
    panic,     \* why the kernel stopped
    waits,     \* history: accepts since a pending client was last returned
    forced,    \* history: files that request 217 made readable
    resized    \* history: sockets whose backlog changed with clients in it

procVars == <<born, obj, priv, port>>
sockVars == <<nsock, valid, state, head, tail, max, pend>>
fileVars == <<flags, full, action, buf>>
histVars == <<waits, forced, resized>>
vars     == <<procVars, sockVars, fileVars, panic, histVars>>

Least(S) == CHOOSE x \in S : \A y \in S : x <= y

\* The lowest free descriptor from 3 to 30.
FreeFds(p) == {d \in Slots : obj[p][d] = Null}

Running(p) == panic = "none" /\ p \in born
Calls(p, service) == service \in Services[p]
Halt(why)  == panic' = why

\* All processes come from init by clone.  Every port starts at process 0.  The fields
\* of structures not made yet are those create_socket_object and socket_gramado set.
Init ==
    /\ born = {0} /\ port = 0
    /\ obj = [p \in Procs |-> [d \in Fds |-> Null]]
    /\ priv = [p \in Procs |-> Null]
    /\ nsock = 0
    /\ valid = [i \in Ids |-> TRUE]
    /\ state = [i \in Ids |-> "UNCONNECTED"]
    /\ head = [i \in Ids |-> 0] /\ tail = [i \in Ids |-> 0]
    /\ max = [i \in Ids |-> DefaultMax]
    /\ pend = [i \in Ids |-> [c \in Cells |-> Null]]
    /\ flags = [i \in Ids |-> {"SWR"}]
    /\ full = [i \in Ids |-> FALSE]
    /\ action = [i \in Ids |-> 0]
    /\ buf = [i \in Ids |-> CHOOSE m \in Payload : TRUE]   \* never read before it is written
    /\ panic = "none"
    /\ waits = [i \in Ids |-> 0] /\ forced = {} /\ resized = {}

----------------------------------------------------------------------------
(* Processes and descriptors.                                              *)

\* copy_process_struct: the child shares every open file and has no socket of its own.
Clone(p, child) ==
    /\ Running(p) /\ child \notin born
    /\ born' = born \cup {child}
    /\ obj' = [obj EXCEPT ![child] = obj[p]]
    /\ UNCHANGED <<priv, port, sockVars, fileVars, panic, histVars>>

\* socket_set_gramado_port, from service 7006 or the registration of a server.
SetPort(p, pid) ==
    /\ Running(p)
    /\ port' = pid
    /\ UNCHANGED <<born, obj, priv, sockVars, fileVars, panic, histVars>>

\* sys_socket.  priv already names the new socket when the search for a descriptor or
\* an allocation fails, or the family turns out to be unknown.
sys_socket(p) ==
    /\ Running(p) /\ nsock < MaxSock
    /\ nsock' = nsock + 1
    /\ priv' = [priv EXCEPT ![p] = nsock']
    /\ \/ /\ FreeFds(p) # {}
          /\ obj' = [obj EXCEPT ![p][Least(FreeFds(p))] = nsock']
       \/ UNCHANGED obj
    /\ UNCHANGED <<born, port, valid, state, head, tail, max, pend, fileVars, panic,
                   histVars>>

\* __close_imp: any holder of the descriptor invalidates the socket; the file stays
\* usable through other descriptors.
sys_close(p, d) ==
    /\ Running(p) /\ obj[p][d] # Null
    /\ valid' = [valid EXCEPT ![obj[p][d]] = FALSE]
    /\ obj' = [obj EXCEPT ![p][d] = Null]
    /\ UNCHANGED <<born, priv, port, nsock, state, head, tail, max, pend, fileVars, panic,
                   histVars>>

----------------------------------------------------------------------------
(* Connections.                                                            *)

\* The step of backlog_head and backlog_tail.
Advance(x, m) == IF x + 1 >= m THEN 0 ELSE x + 1

\* __connect_local and __connect_inet agree once the target process is known.
Connecting(p, d) == Running(p) /\ obj[p][d] # Null /\ state[obj[p][d]] = "UNCONNECTED"
                    /\ port \in born
ConnectOk(p, d)  == Connecting(p, d) /\ FreeFds(port) # {} /\ priv[port] # Null

\* Mutant: the tail does not move.
ConnectInPlace(p, d) ==
    /\ ConnectOk(p, d)
    /\ LET c == obj[p][d]
           s == priv[port]
       IN  /\ obj' = [obj EXCEPT ![port][ConnFd] = c]
           /\ state' = [state EXCEPT ![c] = "CONNECTING", ![s] = "CONNECTING"]
           /\ UNCHANGED tail
           /\ pend' = [pend EXCEPT ![s][tail'[s]] = c]
           /\ waits' = [waits EXCEPT ![c] = 0]
    /\ UNCHANGED <<born, priv, port, nsock, valid, head, max, fileVars, panic, forced,
                   resized>>
sys_connect(p, d) ==
    /\ ConnectOk(p, d)
    /\ LET c == obj[p][d]
           s == priv[port]
       IN  /\ obj' = [obj EXCEPT ![port][ConnFd] = c]
           /\ state' = [state EXCEPT ![c] = "CONNECTING", ![s] = "CONNECTING"]
           /\ tail' = [tail EXCEPT ![s] = Advance(@, max[s])]
           /\ pend' = [pend EXCEPT ![s][tail'[s]] = c]
           /\ waits' = [waits EXCEPT ![c] = 0]
    /\ UNCHANGED <<born, priv, port, nsock, valid, head, max, fileVars, panic, forced,
                   resized>>

\* The server has no free descriptor: looked for before its socket, and never used.
sys_connect_panic(p, d) ==
    /\ Connecting(p, d) /\ FreeFds(port) = {}
    /\ Halt("no slot in the server")
    /\ UNCHANGED <<procVars, sockVars, fileVars, histVars>>

\* sys_listen: a backlog from 1 to one less than the array.
\* Mutant: a backlog of the whole array.
ClampOff(backlog) == IF backlog <= 0 THEN 1 ELSE IF backlog > NPending THEN NPending ELSE backlog
Clamp(backlog) ==
    IF backlog <= 0 THEN 1 ELSE IF backlog >= NPending THEN NPending - 1 ELSE backlog

HasClients(s) == \E i \in Cells : pend[s][i] # Null

sys_listen(p, d, backlog) ==
    /\ Running(p) /\ obj[p][d] # Null /\ obj[p][d] = priv[p]
    /\ LET s == obj[p][d]
       IN  /\ max' = [max EXCEPT ![s] = Clamp(backlog)]
           /\ waits' = [c \in Ids |-> IF \E i \in Cells : pend[s][i] = c THEN 0
                                      ELSE waits[c]]
           /\ resized' = IF HasClients(s) THEN resized \cup {s} ELSE resized
    /\ UNCHANGED <<procVars, nsock, valid, state, head, tail, pend, fileVars, panic,
                   forced>>

sys_listen_panic(p, d) ==
    /\ Running(p) /\ obj[p][d] # Null /\ obj[p][d] # priv[p]
    /\ Halt("listen on an older socket")
    /\ UNCHANGED <<procVars, sockVars, fileVars, histVars>>

\* sys_accept moves the head, then takes the first client from there to the end of the
\* list, the cell at backlog_max included; the client stays in the list.
Acceptable(p, d) ==
    /\ Running(p) /\ obj[p][d] # Null /\ valid[obj[p][d]]
    /\ state[obj[p][d]] \in {"CONNECTING", "CONNECTED"}

NextHead(s) == Advance(head[s], max[s])
Found(s)    == {i \in NextHead(s)..max[s] : pend[s][i] # Null}
FoundSocket(s) == IF Found(s) = {} THEN Null ELSE pend[s][Least(Found(s))]
\* The client accept returns, or Null.
Client(s)   == IF FoundSocket(s) # Null /\ valid[FoundSocket(s)] THEN FoundSocket(s)
               ELSE Null

\* One more accept that did not return the clients of s, except the one it did return.
Waited(s, c) ==
    [i \in Ids |-> IF i = c THEN 0
                   ELSE IF waits[i] < NPending /\ \E x \in 0..(max[s] - 1) : pend[s][x] = i
                        THEN waits[i] + 1
                        ELSE waits[i]]

\* Mutant: the head does not move when the accept fails.
AcceptStays(p, d) ==
    /\ Acceptable(p, d)
    /\ LET s == obj[p][d]
           c == Client(s)
       IN  /\ head' = IF c = Null THEN head ELSE [head EXCEPT ![s] = NextHead(s)]
           /\ state' = IF c = Null THEN [state EXCEPT ![s] = "CONNECTING"]
                       ELSE [state EXCEPT ![s] = "CONNECTED", ![c] = "CONNECTED"]
           /\ obj' = IF c = Null THEN obj ELSE [obj EXCEPT ![p][ConnFd] = c]
           /\ waits' = Waited(s, c)
    /\ UNCHANGED <<born, priv, port, nsock, valid, tail, max, pend, fileVars, panic,
                   forced, resized>>
sys_accept(p, d) ==
    /\ Acceptable(p, d)
    /\ LET s == obj[p][d]
           c == Client(s)
       IN  /\ head' = [head EXCEPT ![s] = NextHead(s)]
           /\ state' = IF c = Null THEN [state EXCEPT ![s] = "CONNECTING"]
                       ELSE [state EXCEPT ![s] = "CONNECTED", ![c] = "CONNECTED"]
           /\ obj' = IF c = Null THEN obj ELSE [obj EXCEPT ![p][ConnFd] = c]
           /\ waits' = Waited(s, c)
    /\ UNCHANGED <<born, priv, port, nsock, valid, tail, max, pend, fileVars, panic,
                   forced, resized>>

\* Mutant: a socket that was shut down can be connected again.
ShutdownReopens(p, d) ==
    /\ Running(p) /\ obj[p][d] # Null
    /\ state' = [state EXCEPT ![obj[p][d]] = "UNCONNECTED"]
    /\ UNCHANGED <<procVars, nsock, valid, head, tail, max, pend, fileVars, panic, histVars>>
\* sys_socket_shutdown: state 216.
sys_socket_shutdown(p, d) ==
    /\ Running(p) /\ obj[p][d] # Null
    /\ state' = [state EXCEPT ![obj[p][d]] = "SHUTDOWN"]
    /\ UNCHANGED <<procVars, nsock, valid, head, tail, max, pend, fileVars, panic, histVars>>

----------------------------------------------------------------------------
(* The buffer.                                                             *)

WriteOk(p, d) == /\ Running(p) /\ obj[p][d] # Null
                 /\ "SWR" \in flags[obj[p][d]] /\ ~full[obj[p][d]]
ReadOk(p, d)  == /\ Running(p) /\ obj[p][d] # Null
                 /\ "SRD" \in flags[obj[p][d]] /\ full[obj[p][d]]

\* __write_imp on a socket whose buffer is free.
sys_write(p, d, m) ==
    /\ WriteOk(p, d)
    /\ LET f == obj[p][d]
       IN  /\ buf' = [buf EXCEPT ![f] = m]
           /\ full' = [full EXCEPT ![f] = TRUE]
           /\ flags' = [flags EXCEPT ![f] = {"SRD"}]
    /\ UNCHANGED <<procVars, sockVars, action, panic, histVars>>

\* The branches of __write_imp that fail after they cleared the flags: BUFSIZ bytes or
\* more into a free buffer, and any write into a full one.
sys_write_fails(p, d) ==
    /\ Running(p) /\ obj[p][d] # Null /\ "SWR" \in flags[obj[p][d]]
    /\ flags' = [flags EXCEPT ![obj[p][d]] = IF full[obj[p][d]] THEN {"SRD"} ELSE {}]
    /\ UNCHANGED <<procVars, sockVars, full, action, buf, panic, histVars>>

\* Mutant: the buffer is still marked full after a read.
ReadKeepsFull(p, d) ==
    /\ ReadOk(p, d)
    /\ flags' = [flags EXCEPT ![obj[p][d]] = (@ \ {"SRD"}) \cup {"SWR"}]
    /\ UNCHANGED <<procVars, sockVars, full, action, buf, panic, histVars>>
\* __read_imp on a socket whose buffer is full.
sys_read(p, d) ==
    /\ ReadOk(p, d)
    /\ full' = [full EXCEPT ![obj[p][d]] = FALSE]
    /\ flags' = [flags EXCEPT ![obj[p][d]] = (@ \ {"SRD"}) \cup {"SWR"}]
    /\ UNCHANGED <<procVars, sockVars, action, buf, panic, histVars>>

\* A file marked readable with nothing in it.
sys_read_panic(p, d) ==
    /\ Running(p) /\ obj[p][d] # Null
    /\ "SRD" \in flags[obj[p][d]] /\ ~full[obj[p][d]]
    /\ flags' = [flags EXCEPT ![obj[p][d]] = {"SWR"}]
    /\ Halt("buffer not full")
    /\ UNCHANGED <<procVars, sockVars, full, action, buf, histVars>>

\* sys_set_file_sync: SYNC_REQUEST_SET_ACTION, and the requests 216 (reset for writing)
\* and 217 (reset for reading).
set_action(p, d, a) ==
    /\ Running(p) /\ obj[p][d] # Null
    /\ action' = [action EXCEPT ![obj[p][d]] = a]
    /\ UNCHANGED <<procVars, sockVars, flags, full, buf, panic, histVars>>

sync_216(p, d) ==
    /\ Running(p) /\ obj[p][d] # Null
    /\ LET f == obj[p][d]
       IN  /\ action' = [action EXCEPT ![f] = 0]
           /\ flags' = [flags EXCEPT ![f] = {"SWR"}]
           /\ full' = [full EXCEPT ![f] = FALSE]
           /\ forced' = forced \ {f}
    /\ UNCHANGED <<procVars, sockVars, buf, panic, waits, resized>>

sync_217(p, d) ==
    /\ Running(p) /\ obj[p][d] # Null
    /\ LET f == obj[p][d]
       IN  /\ action' = [action EXCEPT ![f] = 0]
           /\ flags' = [flags EXCEPT ![f] = {"SRD"}]
           /\ forced' = forced \cup {f}
    /\ UNCHANGED <<procVars, sockVars, full, buf, panic, waits, resized>>

\* Service 913: asks whether there is something to read, and opens the file for what the
\* buffer is ready for without closing the other direction.
sys_sleep_if_socket_is_empty(p, d) ==
    /\ Running(p) /\ obj[p][d] # Null
    /\ flags' = [flags EXCEPT ![obj[p][d]] = @ \cup {IF full[obj[p][d]] THEN "SRD" ELSE "SWR"}]
    /\ UNCHANGED <<procVars, sockVars, full, action, buf, panic, histVars>>

----------------------------------------------------------------------------

\* A stopped kernel stays stopped.
Stopped == panic # "none" /\ UNCHANGED vars

Connection(p, d) ==
    \/ Calls(p, "connect") /\ (sys_connect(p, d) \/ sys_connect_panic(p, d))
    \/ Calls(p, "listen") /\ \E backlog \in 0..NPending : sys_listen(p, d, backlog)
    \/ Calls(p, "listen") /\ sys_listen_panic(p, d)
    \/ Calls(p, "accept") /\ sys_accept(p, d)

Talk(p, d) ==
    /\ obj[p][d] \in Talks
    /\ \/ Calls(p, "write") /\ \E m \in Payload : sys_write(p, d, m)
       \/ Calls(p, "write") /\ sys_write_fails(p, d)
       \/ Calls(p, "read") /\ (sys_read(p, d) \/ sys_read_panic(p, d))
       \/ Calls(p, "action") /\ \E a \in Actions : set_action(p, d, a)
       \/ Calls(p, "sync") /\ (sync_216(p, d) \/ sync_217(p, d))
       \/ Calls(p, "sync") /\ sys_sleep_if_socket_is_empty(p, d)
       \/ Calls(p, "close") /\ (sys_close(p, d) \/ sys_socket_shutdown(p, d))

Next ==
    \/ \E p \in Procs :
        \/ Calls(p, "clone") /\ \E child \in Procs : Clone(p, child)
        \/ Calls(p, "port") /\ \E pid \in Procs : SetPort(p, pid)
        \/ Calls(p, "socket") /\ sys_socket(p)
        \/ \E d \in Fds : Connection(p, d) \/ Talk(p, d)
    \/ Stopped

Spec == Init /\ [][Next]_vars

----------------------------------------------------------------------------
(* Properties.                                                             *)

\* Indices of the pending list stay inside the array, also the cell at backlog_max that
\* the scan of sys_accept reads, and every pointer names a socket.
TypeOK ==
    /\ born \subseteq Procs /\ port \in Procs
    /\ obj \in [Procs -> [Fds -> Ids \cup {Null}]]
    /\ priv \in [Procs -> Ids \cup {Null}]
    /\ nsock \in 0..MaxSock
    /\ valid \in [Ids -> BOOLEAN]
    /\ state \in [Ids -> {"UNCONNECTED", "CONNECTING", "CONNECTED", "SHUTDOWN"}]
    /\ head \in [Ids -> Cells] /\ tail \in [Ids -> Cells]
    /\ max \in [Ids -> 1..(NPending - 1)]
    /\ pend \in [Ids -> [Cells -> Ids \cup {Null}]]
    /\ flags \in [Ids -> SUBSET {"SRD", "SWR"}]
    /\ full \in [Ids -> BOOLEAN]
    /\ action \in [Ids -> Actions]
    /\ buf \in [Ids -> Payload]
    /\ panic \in Causes
    /\ waits \in [Ids -> 0..NPending]
    /\ forced \subseteq Ids /\ resized \subseteq Ids

\* The flags of the one buffer of a connection agree with what is in it, whoever reads,
\* writes, asks and resets through whichever descriptor: it is writable only when empty
\* and, but for a request 217, readable only when full.  So the panic of __read_imp
\* (fslib.c:778) needs a request 217, and the branch of __write_imp that wakes
\* tid_waiting (fslib.c:1272-1295) is never taken.
BufferDirection ==
    /\ \A f \in Ids :
        /\ "SWR" \in flags[f] => ~full[f]
        /\ "SRD" \in flags[f] /\ f \notin forced => full[f]
    /\ panic = "buffer not full" => forced # {}

\* A client is in at most one pending list, once, however often its process connects,
\* shuts down or is cloned: accept cannot return it under two servers.
EnqueuedOnce ==
    \A s, r \in Ids : \A i, j \in Cells :
        pend[s][i] # Null /\ pend[s][i] = pend[r][j] => s = r /\ i = j

\* accept goes round the pending list for ever (no entry is removed): a client is
\* returned at least once in every backlog_max calls, however the list was filled,
\* which clients closed their sockets, and whatever failed before.
ServedEveryTurn ==
    \A s \in Ids : \A i \in Cells :
        i < max[s] /\ pend[s][i] # Null /\ valid[pend[s][i]] => waits[pend[s][i]] < max[s]

\* connect, which never looks at the cell it writes (socket.c:1391-1404, 1887-1900),
\* drops a pending client only when no cell is free, unless listen changed the length
\* of a list in use.
DropsOnlyWhenFull ==
    [][\A s \in Ids \ resized : \A i \in Cells :
            pend[s][i] # Null /\ pend'[s][i] # pend[s][i]
                => \A j \in 0..(max[s] - 1) : pend[s][j] # Null]_vars
=============================================================================
