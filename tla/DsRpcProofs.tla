---------------------------- MODULE DsRpcProofs ----------------------------
(***************************************************************************)
(* DsRpc implements Rpc, for every number of clients, descriptors and      *)
(* sockets.  The invariant behind it says, as long as the server has not   *)
(* touched the wrong connection, what the buffer and the action of each    *)
(* client's connection hold at each point of its call (CallOk), and that a *)
(* server in the middle of a request is working for a client that waits    *)
(* for it or has ended (Engaged).                                          *)
(***************************************************************************)
EXTENDS DsRpc, SocketProofs

ServerPcs == {"register", "socket", "failed", "listen", "accept", "get", "read", "write",
              "reply", "null", "quit"}
ClientPcs == {"start", "connect", "idle", "sent", "wait", "recv", "end", "gone"}
InCall    == {"sent", "wait", "recv", "end"}
Serving   == {"read", "write", "reply", "null"}

DsTypes ==
    /\ TypeOK /\ panic = "none"
    /\ spc \in ServerPcs /\ cpc \in [Clients -> ClientPcs]
    /\ kind \in [Clients -> Kinds \cup {NoKind}]
    /\ asker \in Clients \cup {NoOne} /\ tries \in Nat
    /\ on \in Ids \cup {Null} /\ crossed \in BOOLEAN /\ IsTimeToQuit \in BOOLEAN
    /\ spc = "write" => asker \in Clients
    /\ \A c \in Clients : cpc[c] \in InCall => kind[c] \in Kinds

\* Who has which descriptor: init has none, the server its socket in the first until it
\* quits, each client its own in the second.
InitBare    == \A d \in Slots : obj[0][d] = Null
ServerPlace ==
    /\ obj[Server][ClientFd] = Null
    /\ Server \notin born => spc = "register"
    /\ spc \in {"register", "socket"} => obj[Server][ServerFd] = Null
    /\ spc \notin {"register", "socket", "failed", "quit"} => obj[Server][ServerFd] # Null
ClientPlace(c) ==
    /\ c \notin born => cpc[c] = "start"
    /\ cpc[c] = "start" => Mine(c) = Null
    /\ cpc[c] = "start" /\ c \in born => obj[c][ServerFd] # Null
    /\ cpc[c] \notin {"start", "gone"} => Mine(c) # Null
    /\ Mine(c) <= nsock
Distinct == \A c, e \in Clients : Mine(c) # Null /\ Mine(c) = Mine(e) => c = e

Places == InitBare /\ ServerPlace /\ Distinct /\ \A c \in Clients : ClientPlace(c)

\* Only sockets of clients are in pending lists and behind descriptor 31.
OfClient(i) == \E c \in Clients : i = Mine(c)
Linked ==
    /\ \A s \in Ids : \A i \in Cells : pend[s][i] # Null => OfClient(pend[s][i])
    /\ \A p \in Procs : obj[p][ConnFd] # Null => OfClient(obj[p][ConnFd])
    /\ spc \in Serving \cup {"get"} => Conn # Null

\* What a connection holds.
Free(m)    == flags[m] = {"SWR"} /\ ~full[m]
Asks(m)    == flags[m] = {"SRD"} /\ full[m] /\ buf[m].type # "reply"
Replied(m) == flags[m] = {"SRD"} /\ full[m] /\ buf[m].type = "reply"

\* Sockets not made yet.
Unmade == \A i \in Ids : i > nsock => Free(i) /\ action[i] = ACTION_NULL

\* The server has read the request in m and has not reported back yet.
Answering(m) == on = m /\ spc \in {"write", "null", "reply"}

Waiting(m) ==
    \/ action[m] = ACTION_REQUEST /\ Asks(m) /\ ~Answering(m)
    \/ action[m] = ACTION_REQUEST /\ Free(m) /\ Answering(m) /\ (spc = "reply" => Conn # m)
    \/ action[m] = ACTION_REQUEST /\ Replied(m) /\ on = m /\ spc = "reply"
    \/ action[m] = ACTION_REPLY /\ Replied(m)
    \/ action[m] = ACTION_NULL /\ Free(m)

CallOk(c) ==
    /\ cpc[c] \in {"connect", "idle"} => Free(Mine(c)) /\ action[Mine(c)] = ACTION_NULL
    /\ cpc[c] = "sent" => Asks(Mine(c)) /\ action[Mine(c)] = ACTION_NULL
    /\ cpc[c] = "wait" => Waiting(Mine(c))
    /\ cpc[c] = "recv" => Replied(Mine(c)) /\ action[Mine(c)] = ACTION_REPLY
    /\ cpc[c] = "end" => Free(Mine(c)) /\ action[Mine(c)] # ACTION_REQUEST

Engaged ==
    spc \in Serving =>
        \E c \in Clients : /\ on = Mine(c) /\ on # Null
                           /\ cpc[c] \in {"wait", "gone"}
                           /\ cpc[c] = "wait" => action[on] = ACTION_REQUEST

Protocol == ~crossed => Engaged /\ \A c \in Clients : CallOk(c)

DsInv == DsTypes /\ Places /\ Linked /\ Unmade /\ Protocol

----------------------------------------------------------------------------
(* Constants and frames.                                                   *)

\* Who is who, and which descriptors are different.
LEMMA DsConst ==
    /\ 0 \in Procs /\ Server \in Procs /\ Clients \subseteq Procs
    /\ Server # 0 /\ Server \notin Clients /\ 0 \notin Clients /\ NoOne \notin Clients
    /\ ServerFd \in Slots /\ ClientFd \in Slots /\ ConnFd \notin Slots
    /\ ConnFd \in Fds /\ Slots \subseteq Fds /\ ServerFd # ClientFd
    /\ NoKind \notin Kinds /\ "reply" \notin Kinds /\ Null \notin Ids
    /\ ACTION_NULL # ACTION_REQUEST /\ ACTION_NULL # ACTION_REPLY
    /\ ACTION_REQUEST # ACTION_REPLY
BY SocketAssumption, DsAssumption
   DEF Procs, Server, Clients, ServerFd, ClientFd, Slots, ConnFd, Fds, NoOne, NoKind, Null,
       Ids, ACTION_NULL, ACTION_REQUEST, ACTION_REPLY

\* The programs store only their own actions and messages.
LEMMA DsStores ==
    /\ \A a \in {ACTION_NULL, ACTION_REQUEST, ACTION_REPLY} : a \in Actions
    /\ \A c \in Clients : Reply(c) \in Payload /\ Reply(c).type = "reply"
    /\ \A c \in Clients : \A k \in Kinds : Request(k, c) \in Payload /\ Request(k, c).type = k
    /\ Backlogs \subseteq 0..NPending
BY DsAssumption DEF DsActions, DsPayload, Reply, Request

\* A new socket goes into the first free descriptor.
LEMMA FirstFree ==
    ASSUME TypeOK, NEW p \in Procs, NEW d \in Slots, obj[p][d] = Null,
           \A e \in Slots : e < d => obj[p][e] # Null
    PROVE  Least(FreeFds(p)) = d
<1>1. FreeFds(p) \subseteq Nat /\ d \in FreeFds(p) /\ d \in Nat
    BY SocketAssumption DEF FreeFds, Slots
<1>2. Least(FreeFds(p)) \in FreeFds(p) /\ Least(FreeFds(p)) <= d
    BY <1>1, FoundLeast
<1> QED BY <1>1, <1>2 DEF FreeFds

\* The socket of the server gets descriptor 3 ...
LEMMA ServerFirst ==
    ASSUME TypeOK, obj[Server][ServerFd] = Null
    PROVE  Least(FreeFds(Server)) = ServerFd
<1>1. \A e \in Slots : ~(e < ServerFd)
    BY SocketAssumption DEF Slots, ServerFd
<1> QED BY <1>1, DsConst, FirstFree

\* ... and that of a client the one after the server's, which it was started with.
LEMMA ClientSecond ==
    ASSUME TypeOK, NEW c \in Clients, Mine(c) = Null, obj[c][ServerFd] # Null
    PROVE  Least(FreeFds(c)) = ClientFd
<1>1. \A e \in Slots : e < ClientFd => e = ServerFd
    BY SocketAssumption DEF Slots, ServerFd, ClientFd
<1> QED BY <1>1, DsConst, FirstFree DEF Mine

----------------------------------------------------------------------------
(* Types.                                                                  *)

\* Every system call of the programs keeps the types of the kernel.
LEMMA KernelStep ==
    ASSUME DsTypes, [DsNext]_dsVars
    PROVE  TypeOK' /\ panic' = panic
<1> USE DsConst, DsStores
<1>0. TypeOK
    BY DEF DsTypes
<1>1. ASSUME NEW p \in Procs, NEW d \in Fds, Call(p, d) PROVE TypeOK'
    BY <1>0, <1>1, CallType
<1>2. CASE Launch
  <2>1. \E p, q \in Procs : Clone(p, q)
    BY <1>2 DEF Launch
  <2> QED BY <1>0, <2>1, MakeType DEF Clone
<1>3. CASE registerDS
  <2>1. SetPort(Server, Server)
    BY <1>3 DEF registerDS
  <2> QED BY <1>0, <2>1, MakeType DEF SetPort
<1>4. CASE ServerSocket
  <2>1. sys_socket(Server)
    BY <1>4 DEF ServerSocket
  <2> QED BY <1>0, <2>1, MakeType DEF sys_socket
<1>5. CASE ServerListen
  <2>1. PICK b \in Backlogs : sys_listen(Server, ServerFd, b)
    BY <1>5 DEF ServerListen
  <2>2. Call(Server, ServerFd)
    BY <2>1 DEF Call
  <2> QED BY <1>1, <2>1, <2>2 DEF sys_listen
<1>6. CASE ServerAccept
  <2>1. sys_accept(Server, ServerFd)
    BY <1>6 DEF ServerAccept
  <2>2. Call(Server, ServerFd)
    BY <2>1 DEF Call
  <2> QED BY <1>1, <2>1, <2>2 DEF sys_accept
<1>7. ASSUME UNCHANGED vars PROVE TypeOK' /\ panic' = panic
    BY <1>0, <1>7 DEF vars, procVars, sockVars, fileVars, histVars, TypeOK
<1>8. CASE ServerRead
  <2>1. CASE sys_read(Server, ConnFd)
    <3>1. Call(Server, ConnFd)
        BY <2>1 DEF Call
    <3> QED BY <1>1, <2>1, <3>1 DEF sys_read
  <2> QED BY <1>7, <1>8, <2>1 DEF ServerRead
<1>9. CASE ServerWrite
  <2>1. CASE spc = "write" /\ sys_write(Server, ConnFd, Reply(asker))
    <3>1. Reply(asker) \in Payload
        BY <2>1 DEF DsTypes
    <3>2. Call(Server, ConnFd)
        BY <2>1, <3>1 DEF Call
    <3> QED BY <1>1, <2>1, <3>2 DEF sys_write
  <2> QED BY <1>7, <1>9, <2>1 DEF ServerWrite, ServerAt
<1>10. ASSUME NEW p \in Procs, NEW d \in Fds, NEW a \in Actions, set_action(p, d, a)
       PROVE  TypeOK' /\ panic' = panic
  <2>1. Call(p, d)
    BY <1>10 DEF Call
  <2> QED BY <1>1, <1>10, <2>1 DEF set_action
<1>11. CASE ServerReply \/ ServerNull
    BY <1>10, <1>11 DEF ServerReply, ServerNull
<1>12. ASSUME NEW c \in Clients, ClientSocket(c) PROVE TypeOK' /\ panic' = panic
  <2>1. sys_socket(c)
    BY <1>12 DEF ClientSocket
  <2> QED BY <1>0, <2>1, MakeType DEF sys_socket
<1>13. ASSUME NEW c \in Clients, ClientConnect(c) PROVE TypeOK' /\ panic' = panic
  <2>1. sys_connect(c, ClientFd)
    BY <1>13 DEF ClientConnect
  <2>2. Call(c, ClientFd)
    BY <2>1 DEF Call
  <2> QED BY <1>1, <2>1, <2>2 DEF sys_connect
<1>14. ASSUME NEW c \in Clients, NEW k \in Kinds, ClientSend(c, k)
       PROVE  TypeOK' /\ panic' = panic
  <2>1. CASE sys_write(c, ClientFd, Request(k, c))
    <3>1. Call(c, ClientFd)
        BY <2>1 DEF Call
    <3> QED BY <1>1, <2>1, <3>1 DEF sys_write
  <2> QED BY <1>7, <1>14, <2>1 DEF ClientSend
<1>15. ASSUME NEW c \in Clients, ClientRequest(c) \/ ClientEnd(c)
       PROVE  TypeOK' /\ panic' = panic
    BY <1>10, <1>15 DEF ClientRequest, ClientEnd
<1>16. ASSUME NEW c \in Clients, ClientRecv(c) PROVE TypeOK' /\ panic' = panic
  <2>1. CASE sys_read(c, ClientFd)
    <3>1. Call(c, ClientFd)
        BY <2>1 DEF Call
    <3> QED BY <1>1, <2>1, <3>1 DEF sys_read
  <2> QED BY <1>7, <1>16, <2>1 DEF ClientRecv
<1>17. ASSUME NEW c \in Clients, ClientWait(c) \/ ClientExit(c)
       PROVE  TypeOK' /\ panic' = panic
    BY <1>7, <1>17 DEF ClientWait, ClientExit
<1>18. CASE ServerGet \/ UNCHANGED dsVars
    BY <1>7, <1>18 DEF ServerGet, dsVars
<1>19. CASE ServerQuit
  <2>1. sys_close(Server, ServerFd)
    BY <1>19 DEF ServerQuit
  <2>2. Call(Server, ServerFd)
    BY <2>1 DEF Call
  <2> QED BY <1>1, <2>1, <2>2 DEF sys_close
<1> QED BY Zenon, <1>2, <1>3, <1>4, <1>5, <1>6, <1>8, <1>9, <1>11, <1>12, <1>13, <1>14, <1>15,
           <1>16, <1>17, <1>18, <1>19 DEF DsNext, ServerStep, ClientStep

\* Every step keeps the types.
LEMMA DsTypesStep == DsTypes /\ [DsNext]_dsVars => DsTypes'
<1> SUFFICES ASSUME DsTypes, [DsNext]_dsVars PROVE DsTypes'
    OBVIOUS
<1> USE DsConst, DsStores
<1>1. TypeOK /\ TypeOK' /\ panic' = "none"
    BY KernelStep DEF DsTypes
<1>2. CASE Launch \/ UNCHANGED dsVars
    BY <1>1, <1>2 DEF Launch, dsVars, DsTypes
<1>3. CASE registerDS \/ ServerSocket \/ ServerListen \/ ServerAccept \/ ServerQuit
    BY <1>1, <1>3 DEF registerDS, ServerSocket, ServerListen, ServerAccept, ServerQuit, ServerAt,
                      Client0, hist, DsTypes, ServerPcs
<1>4. CASE ServerGet
  <2>1. Conn \in Ids \cup {Null}
    BY <1>1 DEF TypeOK, Conn
  <2> QED BY <1>1, <1>4, <2>1 DEF ServerGet, ServerAt, Client0, DsTypes, ServerPcs
<1>5. CASE ServerRead
  <2>1. CASE sys_read(Server, ConnFd)
    <3>1. Conn \in Ids
        BY <1>1, <2>1, InUse DEF Conn, sys_read, ReadOk
    <3>2. buf[Conn].who \in Clients
        BY <1>1, <3>1, DsAssumption DEF TypeOK, DsPayload
    <3>3. /\ asker' \in Clients \cup {NoOne} /\ spc' \in ServerPcs
          /\ spc' = "write" => asker' \in Clients
        BY <1>5, <2>1, <3>2 DEF ServerRead, ServerPcs, ServerAt, DsTypes
    <3>4. crossed' \in BOOLEAN /\ IsTimeToQuit' \in BOOLEAN
        BY <1>5, <2>1 DEF ServerRead, Touch, hist, DsTypes
    <3> QED BY <1>1, <1>5, <3>3, <3>4 DEF ServerRead, ServerAt, Client0, hist, DsTypes
  <2>2. CASE spc' = "accept" /\ UNCHANGED <<Client0, hist, asker, tries, IsTimeToQuit>>
    BY <1>1, <2>2 DEF Client0, hist, DsTypes, ServerPcs
  <2> QED BY <1>5, <2>1, <2>2 DEF ServerRead, ServerAt
<1>6. CASE ServerWrite
  <2>1. crossed' \in BOOLEAN /\ on' = on /\ UNCHANGED <<cpc, kind, IsTimeToQuit>>
    BY <1>6 DEF ServerWrite, Touch, Client0, hist, DsTypes
  <2>2. tries' \in Nat /\ asker' \in Clients \cup {NoOne} /\ spc' \in ServerPcs
    BY <1>6 DEF ServerWrite, ServerAt, DsTypes, ServerPcs
  <2>3. spc' = "write" => asker' \in Clients
    BY <1>6 DEF ServerWrite, ServerAt, DsTypes
  <2> QED BY <1>1, <2>1, <2>2, <2>3 DEF DsTypes
<1>7. CASE ServerReply \/ ServerNull
    BY <1>1, <1>7 DEF ServerReply, ServerNull, ServerAt, Touch, Client0, DsTypes, ServerPcs
<1>8. ASSUME NEW c \in Clients, ClientSocket(c) \/ ClientConnect(c) \/ ClientExit(c)
      PROVE  DsTypes'
    BY <1>1, <1>8 DEF ClientSocket, ClientConnect, ClientExit, ClientAt, Server0, hist, DsTypes,
                      ClientPcs, InCall
<1>9. ASSUME NEW c \in Clients, ClientStep(c) PROVE DsTypes'
  <2>1. kind' \in [Clients -> Kinds \cup {NoKind}] /\ cpc' \in [Clients -> ClientPcs]
    BY <1>9 DEF ClientStep, ClientRequest, ClientWait, ClientRecv, ClientEnd, ClientAt, DsTypes,
                ClientPcs
  <2>2. \A e \in Clients : cpc'[e] \in InCall => kind'[e] \in Kinds
    BY <1>9 DEF ClientStep, ClientRequest, ClientWait, ClientRecv, ClientEnd, ClientAt, DsTypes,
                InCall
  <2>3. UNCHANGED <<spc, asker, tries, IsTimeToQuit, on, crossed>>
    BY <1>9 DEF ClientStep, ClientRequest, ClientWait, ClientRecv, ClientEnd, Server0, hist
  <2> QED BY <1>1, <2>1, <2>2, <2>3 DEF DsTypes
<1>10. ASSUME NEW c \in Clients, NEW k \in Kinds, ClientSend(c, k) PROVE DsTypes'
    BY <1>1, <1>10 DEF ClientSend, ClientAt, Server0, hist, DsTypes, ClientPcs, InCall
<1> QED BY Zenon, <1>2, <1>3, <1>4, <1>5, <1>6, <1>7, <1>8, <1>9, <1>10 DEF DsNext, ServerStep

----------------------------------------------------------------------------
(* Descriptors.                                                            *)

\* A client has one socket or none.
LEMMA MineType ==
    ASSUME TypeOK, NEW c \in Clients
    PROVE  Mine(c) \in Ids \cup {Null}
BY DsConst DEF TypeOK, Mine

\* A client keeps its socket for ever, and gets only a new one.
Kept == \A c \in Clients :
            \/ Mine(c)' = Mine(c)
            \/ /\ Mine(c) = Null /\ Mine(c)' = nsock' /\ nsock' > nsock
               /\ UNCHANGED fileVars

\* Steps that leave the descriptors 3 to 30 as they are.
SlotsKept == /\ \A p \in Procs : \A d \in Slots : obj'[p][d] = obj[p][d]
             /\ UNCHANGED <<born, nsock>>

\* accept, connect and the calls on files leave descriptors 3 to 30 alone.
LEMMA AcceptSlots ==
    ASSUME TypeOK, NEW p \in Procs, NEW d \in Fds, sys_accept(p, d)
    PROVE  SlotsKept
BY DsConst DEF SlotsKept, sys_accept, TypeOK

LEMMA ConnectSlots ==
    ASSUME TypeOK, NEW p \in Procs, NEW d \in Fds, sys_connect(p, d)
    PROVE  SlotsKept
BY DsConst DEF SlotsKept, sys_connect, TypeOK

LEMMA FileSlots ==
    ASSUME UNCHANGED <<procVars, sockVars>>
    PROVE  SlotsKept
BY DEF SlotsKept, procVars, sockVars

\* With those, the places are kept by whoever moves on past its own socket call.
LEMMA PlacesKept ==
    ASSUME Places, SlotsKept,
           \/ spc' = spc
           \/ /\ spc \notin {"socket", "failed", "quit"} /\ spc' # "register"
              /\ spc = "register" => spc' = "socket" /\ Server \in born
              /\ spc # "register" => spc' \notin {"socket", "failed"},
           \A c \in Clients : \/ cpc'[c] = cpc[c]
                              \/ cpc[c] # "start" /\ cpc'[c] # "start" /\ cpc[c] # "gone"
    PROVE  Places' /\ Kept
<1> USE DsConst
<1>1. \A c \in Clients : Mine(c)' = Mine(c)
    BY DEF SlotsKept, Mine
<1>2. Distinct' /\ Kept
    BY <1>1 DEF Places, Distinct, Kept
<1>3. InitBare'
    BY DEF Places, InitBare, SlotsKept
<1>4. ServerPlace'
    BY DEF Places, ServerPlace, SlotsKept
<1>5. ASSUME NEW c \in Clients PROVE ClientPlace(c)'
    BY <1>1, <1>5 DEF Places, ClientPlace, SlotsKept
<1> QED BY <1>2, <1>3, <1>4, <1>5 DEF Places

\* A new socket has a number above all that clients have.
LEMMA NewSocket ==
    ASSUME TypeOK, NEW p \in Procs, sys_socket(p)
    PROVE  /\ nsock' = nsock + 1 /\ nsock \in Nat /\ nsock' \in Ids /\ nsock' # Null
           /\ born' = born /\ UNCHANGED <<pend, fileVars, panic>>
           /\ \A i \in Ids \cup {Null} : i <= nsock => i <= nsock' /\ i # nsock'
<1>1. nsock' = nsock + 1 /\ nsock \in Nat /\ nsock < MaxSock /\ MaxSock \in Nat
    BY SocketAssumption DEF sys_socket, TypeOK
<1>2. nsock' \in Ids /\ nsock' # Null
    BY <1>1 DEF Ids, Null
<1>3. \A i \in Ids \cup {Null} : i <= nsock => i <= nsock' /\ i # nsock'
    BY <1>1 DEF Ids, Null
<1> QED BY <1>1, <1>2, <1>3 DEF sys_socket

\* Init, server and clients keep their descriptors where the programs expect them.
LEMMA PlacesStep ==
    ASSUME DsTypes, Places, [DsNext]_dsVars
    PROVE  Places' /\ Kept
<1> USE DsConst
<1>0. TypeOK /\ TypeOK'
    BY KernelStep DEF DsTypes
<1>1. CASE Clone(0, Server) /\ UNCHANGED <<spc, cpc>>
  <2>1. \A c \in Clients : obj'[c] = obj[c]
    BY <1>0, <1>1 DEF Clone, TypeOK
  <2>2. obj'[Server] = obj[0] /\ obj'[0] = obj[0] /\ Server \notin born /\ UNCHANGED nsock
    BY <1>0, <1>1 DEF Clone, TypeOK, sockVars
  <2>3. \A c \in Clients : Mine(c)' = Mine(c)
    BY <2>1 DEF Mine
  <2>4. InitBare' /\ ServerPlace'
    BY <1>1, <2>2 DEF Places, InitBare, ServerPlace
  <2>5. ASSUME NEW c \in Clients PROVE ClientPlace(c)'
    BY <1>1, <2>1, <2>2, <2>3 DEF Places, ClientPlace, Clone
  <2> QED BY <2>3, <2>4, <2>5 DEF Places, Distinct, Kept
<1>2. ASSUME NEW c \in Clients, spc = "accept", Clone(Server, c), UNCHANGED <<spc, cpc>>
      PROVE  Places' /\ Kept
  <2>1. \A e \in Procs \ {c} : obj'[e] = obj[e]
    BY <1>0, <1>2 DEF Clone, TypeOK
  <2>2. obj'[c] = obj[Server] /\ c \notin born /\ Server \in born /\ UNCHANGED nsock
        /\ born' = born \cup {c}
    BY <1>0, <1>2 DEF Clone, TypeOK, sockVars, Running
  <2>3. Mine(c) = Null /\ cpc[c] = "start" /\ Mine(c)' = Null /\ obj'[c][ServerFd] # Null
    BY <1>2, <2>2 DEF Places, ClientPlace, ServerPlace, Mine
  <2>4. \A e \in Clients : Mine(e)' = Mine(e)
    BY <2>1, <2>3 DEF Mine
  <2>5. InitBare' /\ ServerPlace'
    BY <1>2, <2>1, <2>2 DEF Places, InitBare, ServerPlace
  <2>6. ASSUME NEW e \in Clients PROVE ClientPlace(e)'
    BY <1>2, <2>1, <2>2, <2>3, <2>4 DEF Places, ClientPlace
  <2> QED BY <2>4, <2>5, <2>6 DEF Places, Distinct, Kept
<1>3. CASE ServerSocket
  <2>1. sys_socket(Server) /\ spc = "socket" /\ UNCHANGED cpc
    BY <1>3 DEF ServerSocket, Client0
  <2>2. obj[Server][ServerFd] = Null /\ obj[Server][ClientFd] = Null /\ Server \in born
    BY <2>1 DEF Places, ServerPlace
  <2>3. obj' = obj \/ obj' = [obj EXCEPT ![Server][ServerFd] = nsock']
    BY <1>0, <2>1, <2>2, ServerFirst DEF sys_socket
  <2>4. \A p \in Procs \ {Server} : obj'[p] = obj[p]
    BY <1>0, <2>3 DEF TypeOK
  <2>5. \A c \in Clients : Mine(c)' = Mine(c)
    BY <2>4 DEF Mine
  <2>6. InitBare'
    BY <2>4 DEF Places, InitBare
  <2>7. ServerPlace'
    BY <1>0, <1>3, <2>1, <2>2, <2>3, NewSocket DEF ServerPlace, ServerSocket, TypeOK
  <2>8. ASSUME NEW c \in Clients PROVE ClientPlace(c)'
    BY <1>0, <2>1, <2>4, <2>5, MineType, NewSocket DEF Places, ClientPlace
  <2> QED BY <2>5, <2>6, <2>7, <2>8 DEF Places, Distinct, Kept
<1>4. ASSUME NEW c \in Clients, ClientSocket(c) PROVE Places' /\ Kept
  <2>1. sys_socket(c) /\ cpc[c] = "start" /\ UNCHANGED spc /\ c \in born
    BY <1>4 DEF ClientSocket, Server0, sys_socket, Running
  <2>2. Mine(c) = Null /\ obj[c][ServerFd] # Null
    BY <2>1 DEF Places, ClientPlace
  <2>3. obj' = obj \/ obj' = [obj EXCEPT ![c][ClientFd] = nsock']
    BY <1>0, <2>1, <2>2, ClientSecond DEF sys_socket
  <2>4. \A p \in Procs \ {c} : obj'[p] = obj[p]
    BY <1>0, <2>3 DEF TypeOK
  <2>5. \A e \in Clients \ {c} : Mine(e)' = Mine(e)
    BY <2>4 DEF Mine
  <2>6. Mine(c)' \in {Null, nsock'} /\ (Mine(c)' = Null => obj' = obj)
    BY <1>0, <2>1, <2>2, <2>3, NewSocket DEF Mine, TypeOK
  <2>7. InitBare' /\ ServerPlace'
    BY <2>1, <2>4, <1>0, NewSocket DEF Places, InitBare, ServerPlace
  <2>8. \A e \in Clients : Mine(e) \in Ids \cup {Null} /\ Mine(e) <= nsock
    BY <1>0, MineType DEF Places, ClientPlace
  <2>9. Distinct'
    BY <1>0, <2>1, <2>5, <2>6, <2>8, NewSocket DEF Places, Distinct
  <2>10. cpc'[c] = IF obj' = obj THEN "gone" ELSE "connect"
    BY <1>4 DEF ClientSocket, DsTypes
  <2>11. ClientPlace(c)'
    <3>1. nsock' <= nsock' /\ Null <= nsock'
        BY <1>0, <2>1, NewSocket DEF Null
    <3> QED BY <1>0, <2>1, <2>6, <2>10, <3>1, NewSocket DEF ClientPlace
  <2>12. ASSUME NEW e \in Clients \ {c} PROVE ClientPlace(e)'
    <3>1. cpc'[e] = cpc[e]
        BY <1>4 DEF ClientSocket, DsTypes
    <3> QED BY <1>0, <2>1, <2>4, <2>5, <2>8, <3>1, NewSocket DEF Places, ClientPlace
  <2>13. Kept
    BY <1>0, <2>1, <2>2, <2>5, <2>6, NewSocket DEF Kept
  <2> QED BY <2>7, <2>9, <2>11, <2>12, <2>13 DEF Places
<1>5. CASE registerDS
    BY <1>5, PlacesKept DEF registerDS, SetPort, ServerAt, Client0, SlotsKept, sockVars, Running
<1>6. CASE ServerListen
  <2>1. SlotsKept
    BY <1>6 DEF ServerListen, sys_listen, SlotsKept, procVars
  <2> QED BY <1>6, <2>1, PlacesKept DEF ServerListen, ServerAt, Client0
<1>7. CASE ServerAccept
  <2>1. SlotsKept
    BY <1>0, <1>7, AcceptSlots DEF ServerAccept
  <2> QED BY <1>7, <2>1, PlacesKept DEF ServerAccept, ServerAt, Client0
<1>8. CASE ServerGet \/ ServerRead \/ ServerWrite \/ ServerReply \/ ServerNull
  <2>1. SlotsKept
    BY <1>8, FileSlots DEF ServerGet, ServerRead, ServerWrite, ServerReply, ServerNull, vars,
                sys_read, sys_write, set_action
  <2>2. UNCHANGED cpc /\ spc \notin {"register", "socket", "failed", "quit"}
        /\ spc' \notin {"register", "socket", "failed"}
    BY <1>8 DEF ServerGet, ServerRead, ServerWrite, ServerReply, ServerNull, ServerAt, Client0
  <2> QED BY <2>1, <2>2, PlacesKept
<1>9. ASSUME NEW c \in Clients, ClientConnect(c) PROVE Places' /\ Kept
  <2>1. SlotsKept
    BY <1>0, <1>9, ConnectSlots DEF ClientConnect
  <2> QED BY <1>9, <2>1, PlacesKept DEF ClientConnect, ClientAt, Server0, DsTypes
<1>10. ASSUME NEW c \in Clients,
              ClientStep(c) \/ ClientExit(c) \/ \E k \in Kinds : ClientSend(c, k)
       PROVE  Places' /\ Kept
  <2>1. SlotsKept
    BY <1>10, FileSlots DEF ClientStep, ClientRequest, ClientWait, ClientRecv, ClientEnd,
                 ClientSend, ClientExit, vars, sys_read, sys_write, set_action
  <2>2. UNCHANGED spc
    BY <1>10 DEF ClientStep, ClientRequest, ClientWait, ClientRecv, ClientEnd, ClientSend,
                 ClientExit, Server0
  <2>3. \A e \in Clients : \/ cpc'[e] = cpc[e]
                           \/ cpc[e] # "start" /\ cpc'[e] # "start" /\ cpc[e] # "gone"
    BY <1>10 DEF ClientStep, ClientRequest, ClientWait, ClientRecv, ClientEnd, ClientSend,
                 ClientExit, ClientAt, DsTypes
  <2> QED BY <2>1, <2>2, <2>3, PlacesKept
<1>11. CASE UNCHANGED dsVars
    BY <1>11, PlacesKept, FileSlots DEF dsVars, vars
<1>12. CASE ServerQuit
  <2>1. obj' = [obj EXCEPT ![Server][ServerFd] = Null] /\ UNCHANGED <<born, nsock, cpc>>
    BY <1>12 DEF ServerQuit, sys_close, Client0
  <2>2. /\ \A p \in Procs \ {Server} : obj'[p] = obj[p]
        /\ obj'[Server][ClientFd] = obj[Server][ClientFd]
    BY <1>0, <2>1 DEF TypeOK
  <2>3. \A c \in Clients : Mine(c)' = Mine(c)
    BY <2>2 DEF Mine
  <2>4. spc = "accept" /\ spc' = "quit"
    BY <1>12 DEF ServerQuit, ServerAt
  <2>5. InitBare' /\ ServerPlace'
    BY <2>1, <2>2, <2>4 DEF Places, InitBare, ServerPlace
  <2>6. ASSUME NEW c \in Clients PROVE ClientPlace(c)'
    BY <2>1, <2>2, <2>3 DEF Places, ClientPlace
  <2> QED BY <2>3, <2>5, <2>6 DEF Places, Distinct, Kept
<1> QED BY Zenon, <1>1, <1>2, <1>3, <1>4, <1>5, <1>6, <1>7, <1>8, <1>9, <1>10, <1>11, <1>12
       DEF DsNext, ServerStep, Launch

\* Pending lists and descriptor 31 keep naming sockets of clients.
LEMMA LinkedKept ==
    ASSUME Linked, Kept,
           \A s \in Ids : \A i \in Cells : pend'[s][i] # Null => OfClient(pend'[s][i]),
           \A p \in Procs : obj'[p][ConnFd] # Null => OfClient(obj'[p][ConnFd]),
           spc' \in Serving \cup {"get"} => obj'[Server][ConnFd] # Null
    PROVE  Linked'
<1>1. ASSUME NEW i, i # Null, OfClient(i) PROVE OfClient(i)'
    BY <1>1 DEF OfClient, Kept
<1> QED BY <1>1 DEF Linked, Conn

\* sys_socket never gives out descriptor 31.
LEMMA SocketConn ==
    ASSUME TypeOK, NEW p \in Procs, sys_socket(p)
    PROVE  \A q \in Procs : obj'[q][ConnFd] = obj[q][ConnFd]
<1>1. CASE UNCHANGED obj
    BY <1>1
<1>2. CASE FreeFds(p) # {} /\ obj' = [obj EXCEPT ![p][Least(FreeFds(p))] = nsock']
  <2>1. FreeFds(p) \subseteq Nat
    BY SocketAssumption DEF FreeFds, Slots
  <2>2. Least(FreeFds(p)) \in Slots
    BY <1>2, <2>1, FoundLeast DEF FreeFds
  <2> QED BY <1>2, <2>2, DsConst DEF TypeOK
<1> QED BY <1>1, <1>2 DEF sys_socket

\* Every step keeps the pending lists and descriptor 31 on sockets of clients.
LEMMA LinkedStep ==
    ASSUME DsTypes, Places, Linked, [DsNext]_dsVars
    PROVE  Linked'
<1> USE DsConst
<1>0. TypeOK /\ Kept
    BY PlacesStep DEF DsTypes
<1>1. CASE Clone(0, Server) /\ UNCHANGED spc
  <2>1. obj'[Server] = obj[0] /\ \A p \in Procs \ {Server} : obj'[p] = obj[p]
    BY <1>0, <1>1 DEF Clone, TypeOK
  <2>2. spc = "register" /\ UNCHANGED pend
    BY <1>1 DEF Clone, Places, ServerPlace, sockVars
  <2> QED BY <1>0, <1>1, <2>1, <2>2, LinkedKept DEF Linked, Serving
<1>2. ASSUME NEW c \in Clients, Clone(Server, c), UNCHANGED spc PROVE Linked'
  <2>1. obj'[c] = obj[Server] /\ (\A p \in Procs \ {c} : obj'[p] = obj[p]) /\ UNCHANGED pend
    BY <1>0, <1>2 DEF Clone, TypeOK, sockVars
  <2> QED BY <1>0, <1>2, <2>1, LinkedKept DEF Linked, Conn
<1>3. CASE ServerSocket
  <2>1. sys_socket(Server) /\ spc' \in {"failed", "listen"}
    BY <1>3 DEF ServerSocket
  <2> QED BY <1>0, <2>1, SocketConn, NewSocket, LinkedKept DEF Linked, Serving
<1>4. ASSUME NEW c \in Clients, ClientSocket(c) PROVE Linked'
  <2>1. sys_socket(c) /\ UNCHANGED spc
    BY <1>4 DEF ClientSocket, Server0
  <2> QED BY <1>0, <2>1, SocketConn, NewSocket, LinkedKept DEF Linked, Conn
<1>5. CASE ServerAccept
  <2> DEFINE s == obj[Server][ServerFd]
  <2>1. sys_accept(Server, ServerFd) /\ s \in Ids /\ UNCHANGED pend
    BY <1>0, <1>5, InUse DEF ServerAccept, sys_accept, Acceptable
  <2>2. CASE Client(s) = Null
    BY <1>0, <1>5, <2>1, <2>2, LinkedKept DEF ServerAccept, ServerAt, sys_accept, Linked, Serving
  <2>3. CASE Client(s) # Null
    <3>1. PICK i \in Cells : Client(s) = pend[s][i]
        BY <1>0, <2>1, <2>3, ClientFound
    <3>2. obj' = [obj EXCEPT ![Server][ConnFd] = Client(s)]
        BY <2>1, <2>3 DEF sys_accept
    <3>3. OfClient(Client(s))
        BY <2>1, <2>3, <3>1 DEF Linked
    <3>4. \A p \in Procs : obj'[p][ConnFd] # Null => OfClient(obj'[p][ConnFd])
        BY <1>0, <3>2, <3>3 DEF Linked, TypeOK
    <3>5. obj'[Server][ConnFd] # Null
        BY <1>0, <2>3, <3>2 DEF TypeOK
    <3> QED BY <1>0, <2>1, <3>4, <3>5, LinkedKept DEF Linked
  <2> QED BY <2>2, <2>3
<1>6. ASSUME NEW c \in Clients, ClientConnect(c) PROVE Linked'
  <2>1. sys_connect(c, ClientFd) /\ UNCHANGED spc
    BY <1>6 DEF ClientConnect, Server0
  <2>2. Mine(c) # Null /\ Mine(c) = obj[c][ClientFd] /\ port \in Procs /\ priv[port] \in Ids
    BY <1>0, <2>1 DEF sys_connect, ConnectOk, Connecting, Mine, TypeOK
  <2>3. obj' = [obj EXCEPT ![port][ConnFd] = Mine(c)] /\ OfClient(Mine(c))
    BY <2>1, <2>2 DEF sys_connect, OfClient
  <2>4. \A p \in Procs : obj'[p][ConnFd] # Null => OfClient(obj'[p][ConnFd])
    BY <1>0, <2>2, <2>3 DEF Linked, TypeOK
  <2>5. \A s \in Ids : \A i \in Cells : pend'[s][i] # Null => OfClient(pend'[s][i])
    BY <1>0, <2>1, <2>2, <2>3 DEF Linked, TypeOK, sys_connect
  <2>6. spc' \in Serving \cup {"get"} => obj'[Server][ConnFd] # Null
    BY <1>0, <2>1, <2>2, <2>3 DEF Linked, TypeOK, Conn
  <2> QED BY <1>0, <2>4, <2>5, <2>6, LinkedKept
<1>7. ASSUME UNCHANGED <<obj, pend>>, spc' \in Serving \cup {"get"} => spc \in Serving \cup {"get"}
      PROVE  Linked'
    BY <1>0, <1>7, LinkedKept DEF Linked, Conn
<1>8. CASE registerDS \/ ServerListen
    BY <1>7, <1>8 DEF registerDS, ServerListen, ServerAt, SetPort, sys_listen, procVars, sockVars,
                      Serving
<1>9. CASE ServerGet \/ ServerRead \/ ServerWrite \/ ServerReply \/ ServerNull
  <2>1. UNCHANGED <<obj, pend>>
    BY <1>9 DEF ServerGet, ServerRead, ServerWrite, ServerReply, ServerNull, vars, sys_read,
                sys_write, set_action, procVars, sockVars
  <2>2. spc \in Serving \cup {"get"}
    BY <1>9 DEF ServerGet, ServerRead, ServerWrite, ServerReply, ServerNull, ServerAt, Serving
  <2> QED BY <1>7, <2>1, <2>2
<1>10. ASSUME NEW c \in Clients,
              ClientStep(c) \/ ClientExit(c) \/ \E k \in Kinds : ClientSend(c, k)
       PROVE  Linked'
  <2>1. UNCHANGED <<obj, pend, spc>>
    BY <1>10 DEF ClientStep, ClientRequest, ClientWait, ClientRecv, ClientEnd, ClientSend,
                 ClientExit, vars, sys_read, sys_write, set_action, procVars, sockVars, Server0
  <2> QED BY <1>7, <2>1
<1>11. CASE UNCHANGED dsVars
    BY <1>7, <1>11 DEF dsVars, vars, procVars, sockVars
<1>12. CASE ServerQuit
  <2>1. obj' = [obj EXCEPT ![Server][ServerFd] = Null] /\ UNCHANGED pend /\ spc' = "quit"
    BY <1>12 DEF ServerQuit, ServerAt, sys_close
  <2>2. \A p \in Procs : obj'[p][ConnFd] = obj[p][ConnFd]
    BY <1>0, <2>1 DEF TypeOK
  <2> QED BY <1>0, <2>1, <2>2, LinkedKept DEF Linked, Serving
<1> QED BY Zenon, <1>1, <1>2, <1>3, <1>4, <1>5, <1>6, <1>8, <1>9, <1>10, <1>11, <1>12
       DEF DsNext, ServerStep, Launch

\* Programs reach only sockets that were made.
LEMMA Made ==
    ASSUME DsTypes, Places, Linked, NEW f,
           f = Conn \/ \E c \in Clients : f = Mine(c), f # Null
    PROVE  f \in Ids /\ \A i \in Ids : i > nsock => i # f
<1>1. PICK c \in Clients : f = Mine(c)
    BY DsConst DEF Linked, OfClient, Conn
<1>2. f \in Ids /\ f <= nsock
    BY <1>1, MineType DEF DsTypes, Places, ClientPlace
<1>3. f \in Nat /\ nsock \in Nat
    BY <1>2, SocketAssumption DEF Ids, DsTypes, TypeOK
<1> QED BY <1>2, <1>3 DEF Ids

\* Sockets not made yet stay as create_socket_object will find them.
LEMMA UnmadeStep ==
    ASSUME DsTypes, Places, Linked, Unmade, [DsNext]_dsVars
    PROVE  Unmade'
<1> USE DsConst
<1>0. TypeOK
    BY DEF DsTypes
<1>1. ASSUME UNCHANGED <<nsock, fileVars>> PROVE Unmade'
    BY <1>1 DEF Unmade, Free, fileVars
<1>2. ASSUME NEW p \in Procs, sys_socket(p) PROVE Unmade'
  <2>1. \A i \in Ids : i > nsock' => i > nsock
    BY <1>0, <1>2, NewSocket DEF Ids
  <2> QED BY <1>0, <1>2, <2>1, NewSocket DEF Unmade, Free, fileVars
<1>3. ASSUME NEW p, NEW d, obj[p][d] = Conn \/ \E c \in Clients : obj[p][d] = Mine(c),
             \/ sys_read(p, d) \/ \E m : sys_write(p, d, m) \/ \E a : set_action(p, d, a)
      PROVE  Unmade'
  <2>1. obj[p][d] # Null
    BY <1>3 DEF sys_read, ReadOk, sys_write, WriteOk, set_action
  <2>2. obj[p][d] \in Ids /\ \A i \in Ids : i > nsock => i # obj[p][d]
    BY <1>3, <2>1, Made
  <2>3. UNCHANGED nsock
    BY <1>3 DEF sys_read, sys_write, set_action, sockVars
  <2>4. \A i \in Ids : i # obj[p][d] => /\ flags'[i] = flags[i] /\ full'[i] = full[i]
                                        /\ action'[i] = action[i]
    BY <1>0, <1>3 DEF sys_read, sys_write, set_action, TypeOK
  <2> QED BY <2>2, <2>3, <2>4 DEF Unmade, Free
<1>4. CASE Launch
    BY <1>1, <1>4 DEF Launch, Clone, sockVars
<1>5. CASE registerDS \/ ServerListen \/ ServerAccept \/ ServerGet \/ ServerQuit
    BY <1>1, <1>5 DEF registerDS, ServerListen, ServerAccept, ServerGet, ServerQuit, SetPort,
                      sys_listen, sys_accept, sys_close, vars, sockVars
<1>6. CASE ServerSocket \/ \E c \in Clients : ClientSocket(c)
    BY <1>2, <1>6 DEF ServerSocket, ClientSocket
<1>7. CASE ServerRead \/ ServerWrite \/ ServerReply \/ ServerNull
  <2>1. \/ UNCHANGED vars \/ sys_read(Server, ConnFd) \/ \E m : sys_write(Server, ConnFd, m)
        \/ \E a : set_action(Server, ConnFd, a)
    BY <1>7 DEF ServerRead, ServerWrite, ServerReply, ServerNull
  <2> QED BY <1>1, <1>3, <2>1 DEF vars, sockVars, Conn
<1>8. ASSUME NEW c \in Clients,
             ClientStep(c) \/ ClientExit(c) \/ \E k \in Kinds : ClientSend(c, k)
      PROVE  Unmade'
  <2>1. \/ UNCHANGED vars \/ sys_read(c, ClientFd) \/ \E m : sys_write(c, ClientFd, m)
        \/ \E a : set_action(c, ClientFd, a)
    BY <1>8 DEF ClientStep, ClientRequest, ClientWait, ClientRecv, ClientEnd, ClientSend,
                ClientExit
  <2> QED BY <1>1, <1>3, <2>1 DEF vars, sockVars, Mine
<1>9. ASSUME NEW c \in Clients, ClientConnect(c) PROVE Unmade'
    BY <1>1, <1>9 DEF ClientConnect, sys_connect
<1>10. CASE UNCHANGED dsVars
    BY <1>1, <1>10 DEF dsVars, vars, sockVars
<1> QED BY Zenon, <1>4, <1>5, <1>6, <1>7, <1>8, <1>9, <1>10 DEF DsNext, ServerStep

----------------------------------------------------------------------------
(* The protocol.                                                           *)

\* What connection m holds does not change, and: only f changes.
Still(m)   == /\ flags'[m] = flags[m] /\ full'[m] = full[m]
              /\ buf'[m] = buf[m] /\ action'[m] = action[m]
Touches(f) == \A i \in Ids : i # f => Still(i)

\* A read, a write or a new action changes one connection.
LEMMA FileTouches ==
    ASSUME TypeOK, NEW p, NEW d,
           \/ sys_read(p, d) \/ \E m : sys_write(p, d, m) \/ \E a : set_action(p, d, a)
    PROVE  Touches(obj[p][d]) /\ UNCHANGED obj
BY DEF Touches, Still, sys_read, sys_write, set_action, TypeOK, procVars

\* A client in the middle of its program has a socket of its own.
LEMMA OwnSocket ==
    ASSUME DsTypes, Places, NEW c \in Clients, cpc[c] \notin {"start", "gone"}
    PROVE  /\ Mine(c) \in Ids /\ Mine(c) # Null /\ c \in born
           /\ \A e \in Clients : e # c => Mine(e) # Mine(c)
BY MineType DEF DsTypes, Places, ClientPlace, Distinct

\* The call of a client goes on as long as nothing happens to its connection and the
\* server neither takes it up nor reports back.
LEMMA CallKept ==
    ASSUME DsTypes, Places, Kept, NEW c \in Clients, CallOk(c), cpc'[c] = cpc[c],
           cpc[c] \notin {"start", "gone"} => Still(Mine(c)),
           \/ UNCHANGED <<spc, on>> /\ (Conn' = Conn \/ Conn' # Mine(c))
           \/ ~Answering(Mine(c)) /\ ~(on' = Mine(c) /\ spc' \in {"write", "null", "reply"})
    PROVE  CallOk(c)'
<1>1. CASE cpc[c] \in {"start", "gone"}
    BY <1>1 DEF CallOk
<1>2. CASE cpc[c] \notin {"start", "gone"}
  <2> DEFINE m == Mine(c)
  <2>1. Mine(c)' = m /\ Still(m)
    BY <1>2, OwnSocket DEF Kept
  <2>2. ASSUME Waiting(m) PROVE Waiting(Mine(c))'
    BY <2>1, <2>2 DEF Waiting, Answering, Still, Free, Asks, Replied
  <2> QED BY <2>1, <2>2 DEF CallOk, Still, Free, Asks, Replied
<1> QED BY <1>1, <1>2

\* A client's step does nothing to the others: what is left to show is that its own call
\* is in order, and that it does not leave a server that is working for it.
LEMMA ClientProtocol ==
    ASSUME DsTypes, Places, Kept, Engaged, \A e \in Clients : CallOk(e),
           NEW c \in Clients, UNCHANGED <<spc, on>>,
           \A e \in Clients \ {c} : cpc'[e] = cpc[e],
           \A e \in Clients \ {c} :
                Mine(e) # Null => Still(Mine(e)) /\ (Conn' = Conn \/ Conn' # Mine(e)),
           CallOk(c)',
           on = Mine(c) /\ cpc[c] \in {"wait", "gone"} /\ on # Null
                /\ (cpc[c] = "wait" => action[on] = ACTION_REQUEST)
              => /\ cpc'[c] \in {"wait", "gone"}
                 /\ cpc'[c] = "wait" => action'[on] = ACTION_REQUEST
    PROVE  Engaged' /\ \A e \in Clients : CallOk(e)'
<1>1. ASSUME NEW e \in Clients \ {c} PROVE CallOk(e)'
  <2>1. cpc[e] \notin {"start", "gone"} => Mine(e) # Null
    BY OwnSocket
  <2>2. CASE Mine(e) = Null
    BY <2>1, <2>2 DEF CallOk
  <2>3. CASE Mine(e) # Null
    BY <2>3, CallKept
  <2> QED BY <2>2, <2>3
<1>2. Engaged'
  <2> SUFFICES ASSUME spc \in Serving
               PROVE  \E e \in Clients : /\ on = Mine(e)' /\ on # Null
                                         /\ cpc'[e] \in {"wait", "gone"}
                                         /\ cpc'[e] = "wait" => action'[on] = ACTION_REQUEST
    BY DEF Engaged
  <2>1. PICK e \in Clients : /\ on = Mine(e) /\ on # Null
                             /\ cpc[e] \in {"wait", "gone"}
                             /\ cpc[e] = "wait" => action[on] = ACTION_REQUEST
    BY DEF Engaged
  <2>2. Mine(e)' = Mine(e)
    BY <2>1 DEF Kept
  <2>3. CASE e = c
    BY <2>1, <2>2, <2>3
  <2>4. CASE e # c
    BY <2>1, <2>2, <2>4 DEF Still
  <2> QED BY <2>3, <2>4
<1> QED BY <1>1, <1>2

\* The steps of clients.
LEMMA ClientActs ==
    ASSUME DsInv, ~crossed, [DsNext]_dsVars, NEW c \in Clients,
           \/ ClientSocket(c) \/ ClientConnect(c) \/ ClientStep(c) \/ ClientExit(c)
           \/ \E k \in Kinds : ClientSend(c, k)
    PROVE  Engaged' /\ \A e \in Clients : CallOk(e)'
<1> USE DsConst, DsStores
<1> DEFINE m == Mine(c)
<1>0. /\ TypeOK /\ DsTypes /\ Places /\ Linked /\ Engaged /\ Kept /\ Unmade
      /\ \A e \in Clients : CallOk(e)
    BY PlacesStep DEF DsInv, DsTypes, Protocol
<1>1. UNCHANGED <<spc, on>> /\ \A e \in Clients \ {c} : cpc'[e] = cpc[e]
    BY <1>0 DEF ClientSocket, ClientConnect, ClientStep, ClientRequest, ClientWait, ClientRecv,
                ClientEnd, ClientSend, ClientExit, ClientAt, Server0, hist, DsTypes
\* Calls that touch nothing but the client's own connection.
<1>2. ASSUME cpc[c] \notin {"start", "gone"},
             \/ UNCHANGED vars \/ sys_read(c, ClientFd)
             \/ (\E x : sys_write(c, ClientFd, x)) \/ \E a : set_action(c, ClientFd, a)
      PROVE  /\ m \in Ids /\ Mine(c)' = m /\ Running(c) /\ m # Null /\ m = obj[c][ClientFd]
             /\ \A e \in Clients \ {c} : Mine(e) # Null => Still(Mine(e)) /\ Conn' = Conn
  <2>1. Touches(m) /\ UNCHANGED obj
    BY <1>0, <1>2, FileTouches DEF Mine, Touches, Still, vars, procVars, fileVars
  <2>2. m \in Ids /\ m # Null /\ c \in born /\ \A e \in Clients : e # c => Mine(e) # m
    BY <1>0, <1>2, OwnSocket
  <2>3. \A e \in Clients \ {c} : Mine(e) # Null => Still(Mine(e))
    BY <1>0, <2>1, <2>2, MineType DEF Touches
  <2>4. Running(c)
    BY <1>0, <2>2 DEF Running, DsTypes
  <2> QED BY <2>1, <2>2, <2>3, <2>4 DEF Mine, Conn
<1>3. CASE ClientSocket(c)
  <2>1. sys_socket(c) /\ cpc[c] = "start" /\ c \in born
    BY <1>3 DEF ClientSocket, sys_socket, Running
  <2>2. m = Null /\ obj[c][ServerFd] # Null
    BY <1>0, <2>1 DEF Places, ClientPlace
  <2>3. UNCHANGED fileVars /\ nsock' \in Ids /\ nsock' > nsock
    BY <1>0, <2>1, NewSocket
  <2>4. Conn' = Conn
    BY <1>0, <2>1, SocketConn DEF Conn
  <2>5. CASE obj' = obj
    <3>1. cpc'[c] = "gone"
        BY <1>0, <1>3, <2>5 DEF ClientSocket, DsTypes
    <3>2. CallOk(c)'
        BY <3>1 DEF CallOk
    <3> QED BY <1>0, <1>1, <2>1, <2>3, <2>4, <3>2, ClientProtocol DEF Still, fileVars
  <2>6. CASE obj' # obj
    <3>1. cpc'[c] = "connect"
        BY <1>0, <1>3, <2>6 DEF ClientSocket, DsTypes
    <3>2. Mine(c)' = nsock'
        BY <1>0, <2>1, <2>2, <2>6, ClientSecond DEF sys_socket, Mine, TypeOK
    <3>3. Free(nsock') /\ action[nsock'] = ACTION_NULL
        BY <1>0, <2>3 DEF Unmade
    <3>4. CallOk(c)'
        BY <2>3, <3>1, <3>2, <3>3 DEF CallOk, Free, fileVars
    <3> QED BY <1>0, <1>1, <2>1, <2>3, <2>4, <3>4, ClientProtocol DEF Still, fileVars
  <2> QED BY <2>5, <2>6
<1>4. CASE ClientConnect(c)
  <2>1. sys_connect(c, ClientFd) /\ cpc[c] = "connect" /\ cpc'[c] = "idle"
    BY <1>0, <1>4 DEF ClientConnect, ClientAt, DsTypes
  <2>2. m \in Ids /\ m # Null /\ Mine(c)' = m /\ \A e \in Clients : e # c => Mine(e) # m
    BY <1>0, <2>1, OwnSocket DEF Kept
  <2>3. UNCHANGED fileVars /\ (Conn' = Conn \/ Conn' = m)
    BY <1>0, <2>1 DEF sys_connect, Conn, Mine, TypeOK
  <2>4. CallOk(c)'
    BY <1>0, <2>1, <2>2, <2>3 DEF CallOk, Free, fileVars
  <2> QED BY <1>0, <1>1, <2>1, <2>2, <2>3, <2>4, ClientProtocol DEF Still, fileVars
<1>5. ASSUME NEW k \in Kinds, ClientSend(c, k) PROVE Engaged' /\ \A e \in Clients : CallOk(e)'
  <2>1. cpc[c] = "idle" /\ Free(m)
    BY <1>0, <1>5 DEF ClientSend, ClientAt, CallOk
  <2>2. m \in Ids /\ m # Null /\ Running(c)
    BY <1>0, <2>1, OwnSocket DEF Running, DsTypes
  <2>3. WriteOk(c, ClientFd)
    BY <2>1, <2>2 DEF WriteOk, Free, Mine
  <2>4. sys_write(c, ClientFd, Request(k, c)) /\ cpc'[c] = "sent"
    BY <1>0, <1>5, <2>3 DEF ClientSend, ClientAt, DsTypes
  <2>5. /\ Mine(c)' = m /\ m = obj[c][ClientFd]
        /\ \A e \in Clients \ {c} : Mine(e) # Null => Still(Mine(e)) /\ Conn' = Conn
    BY <1>2, <2>1, <2>4
  <2>6. CallOk(c)'
    BY <1>0, <2>1, <2>2, <2>4, <2>5 DEF CallOk, Asks, sys_write, TypeOK
  <2> QED BY <1>0, <1>1, <2>1, <2>5, <2>6, ClientProtocol
<1>6. CASE ClientRequest(c)
  <2>1. cpc[c] = "sent" /\ cpc'[c] = "wait" /\ set_action(c, ClientFd, ACTION_REQUEST)
    BY <1>0, <1>6 DEF ClientRequest, ClientAt, DsTypes
  <2>2. /\ m \in Ids /\ Mine(c)' = m /\ m # Null /\ m = obj[c][ClientFd]
        /\ \A e \in Clients \ {c} : Mine(e) # Null => Still(Mine(e)) /\ Conn' = Conn
    BY <1>2, <2>1
  <2>3. Asks(m)
    BY <1>0, <2>1 DEF CallOk
  <2>4. ~Answering(m)
    BY <1>0, <2>1, <2>2 DEF Answering, Engaged, Serving, Places, Distinct
  <2>5. CallOk(c)'
    BY <1>0, <1>1, <2>1, <2>2, <2>3, <2>4
       DEF CallOk, Waiting, Asks, Answering, set_action, TypeOK
  <2> QED BY <1>0, <1>1, <2>1, <2>2, <2>5, ClientProtocol
<1>7. CASE ClientWait(c)
  <2>1. /\ cpc[c] = "wait" /\ UNCHANGED vars
        /\ cpc'[c] = IF action[m] = ACTION_REPLY THEN "recv" ELSE "end"
    BY <1>0, <1>7 DEF ClientWait, ClientAt, DsTypes
  <2>2. action[m] \in Ends(kind[c]) /\ kind[c] \in Kinds
    BY <1>0, <1>7, <2>1 DEF ClientWait, DsTypes, InCall
  <2>3. action[m] \in {ACTION_REPLY, ACTION_NULL}
    BY <2>2, DsAssumption DEF Ends, NoReply
  <2>4. /\ m \in Ids /\ Mine(c)' = m /\ m # Null
        /\ \A e \in Clients \ {c} : Mine(e) # Null => Still(Mine(e)) /\ Conn' = Conn
    BY <1>2, <2>1
  <2>5. Waiting(m)
    BY <1>0, <2>1 DEF CallOk
  <2>6. CallOk(c)'
    BY <2>1, <2>3, <2>4, <2>5 DEF CallOk, Waiting, Free, Replied, vars, fileVars
  <2> QED BY <1>0, <1>1, <2>1, <2>3, <2>4, <2>6, ClientProtocol
<1>8. CASE ClientRecv(c)
  <2>1. cpc[c] = "recv" /\ cpc'[c] = "end"
    BY <1>0, <1>8 DEF ClientRecv, ClientAt, DsTypes
  <2>2. m \in Ids /\ m # Null /\ Running(c) /\ Replied(m) /\ action[m] = ACTION_REPLY
    BY <1>0, <2>1, OwnSocket DEF Running, DsTypes, CallOk
  <2>3. sys_read(c, ClientFd)
    BY <1>8, <2>2 DEF ClientRecv, ReadOk, Replied, Mine
  <2>4. /\ Mine(c)' = m /\ m = obj[c][ClientFd]
        /\ \A e \in Clients \ {c} : Mine(e) # Null => Still(Mine(e)) /\ Conn' = Conn
    BY <1>2, <2>1, <2>3
  <2>5. flags'[m] = {"SWR"} /\ full'[m] = FALSE /\ action'[m] = ACTION_REPLY
    BY <1>0, <2>2, <2>3, <2>4 DEF sys_read, Replied, TypeOK
  <2>6. CallOk(c)'
    BY <2>1, <2>4, <2>5 DEF CallOk, Free
  <2> QED BY <1>0, <1>1, <2>1, <2>4, <2>6, ClientProtocol
<1>9. CASE ClientEnd(c)
  <2>1. cpc[c] = "end" /\ cpc'[c] = "idle" /\ set_action(c, ClientFd, ACTION_NULL)
    BY <1>0, <1>9 DEF ClientEnd, ClientAt, DsTypes
  <2>2. /\ m \in Ids /\ Mine(c)' = m /\ m # Null /\ m = obj[c][ClientFd]
        /\ \A e \in Clients \ {c} : Mine(e) # Null => Still(Mine(e)) /\ Conn' = Conn
    BY <1>2, <2>1
  <2>3. CallOk(c)'
    BY <1>0, <2>1, <2>2 DEF CallOk, Free, set_action, TypeOK
  <2> QED BY <1>0, <1>1, <2>1, <2>2, <2>3, ClientProtocol
<1>10. CASE ClientExit(c)
  <2>1. cpc[c] \notin {"start", "gone"} /\ cpc'[c] = "gone" /\ UNCHANGED vars
    BY <1>0, <1>10 DEF ClientExit, DsTypes
  <2>2. \A e \in Clients \ {c} : Mine(e) # Null => Still(Mine(e)) /\ Conn' = Conn
    BY <1>2, <2>1
  <2>3. CallOk(c)'
    BY <2>1 DEF CallOk
  <2> QED BY <1>0, <1>1, <2>1, <2>2, <2>3, ClientProtocol
<1> QED BY <1>3, <1>4, <1>5, <1>6, <1>7, <1>8, <1>9, <1>10 DEF ClientStep

\* The server gets to its next request, looks at a connection, or quits: no call is
\* disturbed.
LEMMA ServerLooks ==
    ASSUME DsInv, ~crossed, [DsNext]_dsVars,
           \/ Launch \/ registerDS \/ ServerSocket \/ ServerListen \/ ServerAccept \/ ServerGet
           \/ ServerQuit
    PROVE  Engaged' /\ \A e \in Clients : CallOk(e)'
<1> USE DsConst
<1>0. /\ TypeOK /\ DsTypes /\ Places /\ Linked /\ Engaged /\ Kept
      /\ \A e \in Clients : CallOk(e)
    BY PlacesStep DEF DsInv, DsTypes, Protocol
<1>1. UNCHANGED <<cpc, fileVars>>
    BY DEF Launch, Clone, registerDS, SetPort, ServerSocket, sys_socket, ServerListen, sys_listen,
           ServerAccept, sys_accept, ServerGet, ServerQuit, sys_close, Client0, vars
<1>2. spc \notin Serving
  <2>1. Clone(0, Server) => spc = "register"
    BY <1>0 DEF Clone, Places, ServerPlace
  <2> QED BY <2>1 DEF Launch, registerDS, ServerSocket, ServerListen, ServerAccept, ServerGet,
           ServerQuit, ServerAt, Serving
<1>3. spc' \notin Serving \/ (ServerGet /\ spc' = "read")
    BY <1>2 DEF Launch, registerDS, ServerSocket, ServerListen, ServerAccept, ServerGet,
           ServerQuit, ServerAt, Serving
<1>4. ASSUME NEW e \in Clients PROVE CallOk(e)'
    BY <1>0, <1>1, <1>2, <1>3, CallKept DEF Answering, Serving, Still, fileVars
<1>5. Engaged'
  <2>1. CASE spc' \notin Serving
    BY <2>1 DEF Engaged
  <2>2. CASE ServerGet /\ spc' = "read"
    <3>1. spc = "get" /\ action[Conn] = ACTION_REQUEST /\ on' = Conn /\ UNCHANGED vars
        BY <2>2 DEF ServerGet, ServerAt
    <3>2. Conn # Null /\ OfClient(Conn)
        BY <1>0, <3>1 DEF Linked, Conn
    <3>3. PICK c \in Clients : Conn = Mine(c)
        BY <3>2 DEF OfClient
    <3>4. cpc[c] \in {"wait", "gone"}
        BY <1>0, <3>1, <3>2, <3>3 DEF CallOk, DsTypes, ClientPcs, Places, ClientPlace
    <3>5. Mine(c)' = Mine(c) /\ action' = action
        BY <1>0, <3>1, <3>2, <3>3 DEF Kept, vars, fileVars
    <3> QED BY <1>1, <3>1, <3>2, <3>3, <3>4, <3>5 DEF Engaged
  <2> QED BY <1>3, <2>1, <2>2
<1> QED BY <1>4, <1>5

\* The server at work, on the connection whose action it saw: the client behind it waits
\* or has ended, and the others are not concerned.
LEMMA ServerWorks ==
    ASSUME DsInv, ~crossed, ~crossed', [DsNext]_dsVars,
           ServerRead \/ ServerWrite \/ ServerReply \/ ServerNull
    PROVE  Engaged' /\ \A e \in Clients : CallOk(e)'
<1> USE DsConst, DsStores
<1>0. /\ TypeOK /\ DsTypes /\ Places /\ Linked /\ Engaged /\ Kept
      /\ \A e \in Clients : CallOk(e)
    BY PlacesStep DEF DsInv, DsTypes, Protocol
<1>1. UNCHANGED <<cpc, on>> /\ spc \in Serving
    BY DEF ServerRead, ServerWrite, ServerReply, ServerNull, ServerAt, Client0, hist, Serving
<1>2. PICK c \in Clients : /\ on = Mine(c) /\ on # Null /\ cpc[c] \in {"wait", "gone"}
                           /\ cpc[c] = "wait" => action[on] = ACTION_REQUEST
    BY <1>0, <1>1 DEF Engaged
<1>3. Server \in born /\ Conn # Null /\ Mine(c)' = on /\ on \in Ids
    BY <1>0, <1>1, <1>2, MineType DEF Places, ServerPlace, Linked, Serving, Kept
<1>4. Running(Server)
    BY <1>0, <1>3 DEF Running, DsTypes
<1>5. Touches(on) /\ UNCHANGED obj
  <2>1. CASE UNCHANGED vars
    BY <2>1 DEF vars, procVars, fileVars, Touches, Still
  <2>2. ASSUME \/ sys_read(Server, ConnFd) \/ (\E x : sys_write(Server, ConnFd, x))
               \/ \E a : set_action(Server, ConnFd, a), Touch
        PROVE  Touches(on) /\ UNCHANGED obj
    <3>1. Conn = on
        BY <2>2 DEF Touch
    <3> QED BY <1>0, <2>2, <3>1, FileTouches DEF Conn
  <2> QED BY <2>1, <2>2 DEF ServerRead, ServerWrite, ServerReply, ServerNull
<1>6. ASSUME NEW e \in Clients, e # c PROVE CallOk(e)'
  <2>1. Mine(e) # on
    BY <1>0, <1>2, <1>6 DEF Places, Distinct
  <2>2. cpc[e] \notin {"start", "gone"} => Still(Mine(e))
    BY <1>0, <1>5, <2>1, OwnSocket DEF Touches
  <2> QED BY <1>0, <1>1, <2>1, <2>2, CallKept DEF Answering
<1>7. cpc[c] = "gone" => CallOk(c)'
    BY <1>1 DEF CallOk
<1>8. cpc[c] = "wait" => Waiting(on) /\ action[on] = ACTION_REQUEST
    BY <1>0, <1>2 DEF CallOk
\* It is enough that the call of c is in order, and its request still open if the server
\* is not done.
<1>9. ASSUME cpc[c] = "wait" => /\ (Waiting(Mine(c)))'
                                /\ spc' \in Serving => action'[on] = ACTION_REQUEST
      PROVE  Engaged' /\ \A e \in Clients : CallOk(e)'
  <2>1. CallOk(c)'
    BY <1>1, <1>2, <1>7, <1>9 DEF CallOk
  <2>2. Engaged'
    BY <1>1, <1>2, <1>3, <1>9 DEF Engaged
  <2> QED BY <1>6, <2>1, <2>2
<1>10. CASE ServerRead
  <2>1. spc = "read"
    BY <1>10 DEF ServerRead, ServerAt
  <2>2. cpc[c] = "wait" => Asks(on)
    BY <1>8, <2>1 DEF Waiting, Answering
  <2>3. CASE sys_read(Server, ConnFd) /\ Touch /\ spc' \in {"write", "null"}
    <3>1. Conn = on /\ on = obj[Server][ConnFd]
        BY <2>3 DEF Touch, Conn
    <3>2. cpc[c] = "wait" => flags'[on] = {"SWR"} /\ full'[on] = FALSE /\ action' = action
        BY <1>0, <1>3, <2>2, <2>3, <3>1 DEF sys_read, Asks, TypeOK
    <3> QED BY <1>1, <1>3, <1>8, <1>9, <2>3, <3>2 DEF Waiting, Free, Answering
  <2>4. CASE spc' = "accept" /\ UNCHANGED vars
    <3>1. cpc[c] = "wait" => (Waiting(Mine(c)))'
        BY <1>1, <1>3, <1>8, <2>2, <2>4 DEF Waiting, Asks, Answering, vars, fileVars
    <3> QED BY <1>9, <2>4, <3>1 DEF Serving
  <2> QED BY <1>10, <2>3, <2>4 DEF ServerRead, ServerAt
<1>11. CASE ServerWrite
  <2>1. spc = "write"
    BY <1>11 DEF ServerWrite, ServerAt
  <2>2. cpc[c] = "wait" => Free(on)
    BY <1>2, <1>8, <2>1 DEF Waiting, Answering
  <2>3. CASE sys_write(Server, ConnFd, Reply(asker)) /\ Touch /\ spc' = "reply"
    <3>1. Conn = on /\ on = obj[Server][ConnFd] /\ Reply(asker).type = "reply"
        BY <1>0, <2>1, <2>3 DEF Touch, Conn, DsTypes
    <3>2. flags'[on] = {"SRD"} /\ full'[on] = TRUE /\ buf'[on] = Reply(asker) /\ action' = action
        BY <1>0, <1>3, <2>3, <3>1 DEF sys_write, TypeOK
    <3> QED BY <1>1, <1>3, <1>8, <1>9, <2>3, <3>1, <3>2 DEF Waiting, Replied
  <2>4. CASE ~WriteOk(Server, ConnFd) /\ UNCHANGED vars /\ spc' \in {"write", "reply"}
    <3>1. cpc[c] = "wait" => Conn # on
        BY <1>3, <1>4, <2>2, <2>4 DEF WriteOk, Free, Conn
    <3>2. cpc[c] = "wait" => (Waiting(Mine(c)))'
        BY <1>1, <1>3, <1>5, <1>8, <2>2, <2>4, <3>1
           DEF Waiting, Free, Answering, Conn, vars, fileVars
    <3> QED BY <1>8, <1>9, <2>4, <3>2 DEF vars, fileVars
  <2> QED BY <1>11, <2>3, <2>4 DEF ServerWrite, ServerAt
<1>12. CASE ServerReply
  <2>1. spc = "reply" /\ set_action(Server, ConnFd, ACTION_REPLY) /\ spc' = "accept" /\ Conn = on
    BY <1>12 DEF ServerReply, ServerAt, Touch
  <2>2. cpc[c] = "wait" => Replied(on)
    BY <1>2, <1>8, <2>1 DEF Waiting, Answering
  <2>3. action'[on] = ACTION_REPLY /\ UNCHANGED <<flags, full, buf>>
    BY <1>0, <1>3, <2>1 DEF set_action, Conn, TypeOK
  <2>4. cpc[c] = "wait" => (Waiting(Mine(c)))'
    BY <1>3, <2>2, <2>3 DEF Waiting, Replied
  <2> QED BY <1>9, <2>1, <2>4 DEF Serving
<1>13. CASE ServerNull
  <2>1. spc = "null" /\ set_action(Server, ConnFd, ACTION_NULL) /\ spc' = "accept" /\ Conn = on
    BY <1>13 DEF ServerNull, ServerAt, Touch
  <2>2. cpc[c] = "wait" => Free(on)
    BY <1>2, <1>8, <2>1 DEF Waiting, Answering
  <2>3. action'[on] = ACTION_NULL /\ UNCHANGED <<flags, full, buf>>
    BY <1>0, <1>3, <2>1 DEF set_action, Conn, TypeOK
  <2>4. cpc[c] = "wait" => (Waiting(Mine(c)))'
    BY <1>3, <2>2, <2>3 DEF Waiting, Free
  <2> QED BY <1>9, <2>1, <2>4 DEF Serving
<1> QED BY <1>10, <1>11, <1>12, <1>13

\* A broken promise stays broken.
LEMMA CrossedStays == [DsNext]_dsVars /\ crossed => crossed'
BY DEF DsNext, dsVars, Launch, ServerStep, registerDS, ServerSocket, ServerListen, ServerAccept,
       ServerGet, ServerRead, ServerWrite, ServerReply, ServerNull, ServerQuit, Touch, hist,
       ClientSocket, ClientConnect, ClientStep, ClientRequest, ClientWait, ClientRecv, ClientEnd, ClientSend,
       ClientExit, Server0

\* Every step keeps the protocol until the server touches the wrong connection.
LEMMA ProtocolStep ==
    ASSUME DsInv, [DsNext]_dsVars
    PROVE  Protocol'
<1> SUFFICES ASSUME ~crossed' PROVE Engaged' /\ \A e \in Clients : CallOk(e)'
    BY DEF Protocol
<1>1. ~crossed
    BY CrossedStays
<1>2. CASE UNCHANGED dsVars
  <2>1. Engaged /\ (\A e \in Clients : CallOk(e)) /\ DsTypes /\ Places /\ Kept
    BY <1>1, PlacesStep DEF DsInv, Protocol
  <2>2. UNCHANGED <<spc, on, obj, cpc, action, flags, full, buf>>
    BY <1>2 DEF dsVars, vars, procVars, fileVars
  <2>3. ASSUME NEW e \in Clients PROVE CallOk(e)'
    BY <2>1, <2>2, CallKept DEF Still, Conn
  <2> QED BY <2>1, <2>2, <2>3 DEF Engaged, Mine
<1> QED BY Zenon, <1>1, <1>2, ClientActs, ServerLooks, ServerWorks DEF DsNext, ServerStep

\* The boot state.
LEMMA DsInit0 == DsInit => DsInv
<1> SUFFICES ASSUME DsInit PROVE DsInv
    OBVIOUS
<1> USE DsConst
<1>1. /\ TypeOK /\ nsock = 0 /\ panic = "none" /\ born = {0}
      /\ \A p \in Procs : \A d \in Fds : obj[p][d] = Null
    BY InitType DEF DsInit, Init
<1>2. DsTypes
    BY <1>1 DEF DsInit, DsTypes, ServerPcs, ClientPcs, InCall
<1>3. Places
  <2>1. \A c \in Clients : Mine(c) = Null /\ Null <= nsock
    BY <1>1 DEF Mine, Null
  <2> QED BY <1>1, <2>1 DEF DsInit, Places, InitBare, ServerPlace, ClientPlace, Distinct
<1>4. Linked
    BY <1>1 DEF DsInit, Init, Linked, Serving
<1>5. Unmade
    BY DEF DsInit, Init, Unmade, Free, ACTION_NULL
<1>6. Protocol
    BY DEF DsInit, Protocol, Engaged, Serving, CallOk
<1> QED BY <1>2, <1>3, <1>4, <1>5, <1>6 DEF DsInv

\* The invariant behind the refinement.
THEOREM DsInvariant == DsSpec => []DsInv
<1>1. DsInv /\ [DsNext]_dsVars => DsInv'
    BY DsTypesStep, PlacesStep, LinkedStep, UnmadeStep, ProtocolStep DEF DsInv
<1> QED BY <1>1, DsInit0, PTL DEF DsSpec

----------------------------------------------------------------------------
(* The refinement.                                                         *)

\* The phase of a call changes only with the client's own step or with its buffer.
LEMMA PhaseKept ==
    ASSUME DsTypes, Places, Kept, NEW c \in Clients, cpc'[c] = cpc[c],
           cpc[c] \in InCall =>
                \/ Still(Mine(c))
                \/ ~(Asked(c)) /\ ~(full'[Mine(c)] /\ buf'[Mine(c)].type # "reply")
    PROVE  Phase(c)' = Phase(c)
<1>1. CASE cpc[c] \in InCall
  <2>1. Mine(c)' = Mine(c)
    BY <1>1, OwnSocket DEF InCall, Kept
  <2>2. Asked(c)' <=> Asked(c)
    BY <1>1, <2>1 DEF Asked, Still
  <2> QED BY <2>2 DEF Phase
<1>2. CASE cpc[c] \notin InCall
    BY <1>2 DEF Phase, InCall
<1> QED BY <1>1, <1>2

\* One call moves from one phase to another.
LEMMA PhaseMove ==
    ASSUME NEW c \in Clients, ~crossed, ~crossed', crossed \in BOOLEAN, crossed' \in BOOLEAN,
           \A e \in Clients \ {c} : Phase(e)' = Phase(e)
    PROVE  /\ Phase(c) = "idle" /\ Phase(c)' = "asked" => R!Ask(c)
           /\ Phase(c) = "asked" /\ Phase(c)' = "served" => R!Serve(c)
           /\ Phase(c) = "served" /\ Phase(c)' = "idle" => R!Return(c)
           /\ Phase(c)' = "gone" => R!Leave(c)
           /\ Phase(c)' = Phase(c) => UNCHANGED R!vars
<1>1. [e \in Clients |-> Phase(e)]'
        = [[e \in Clients |-> Phase(e)] EXCEPT ![c] = Phase(c)']
    OBVIOUS
<1>2. crossed' = crossed
    OBVIOUS
<1>3. /\ Phase(c) = "idle" /\ Phase(c)' = "asked" => R!Ask(c)
      /\ Phase(c) = "asked" /\ Phase(c)' = "served" => R!Serve(c)
      /\ Phase(c) = "served" /\ Phase(c)' = "idle" => R!Return(c)
    BY <1>1, <1>2 DEF R!Ask, R!Serve, R!Return, R!Move
<1>4. Phase(c)' = "gone" => R!Leave(c)
    BY <1>1, <1>2 DEF R!Leave
<1>5. Phase(c)' = Phase(c) => UNCHANGED R!vars
    BY <1>1, <1>2 DEF R!vars
<1> QED BY <1>3, <1>4, <1>5

\* A step of a client is a step of its call, or none.
LEMMA ClientRefines ==
    ASSUME DsInv, ~crossed, ~crossed', crossed \in BOOLEAN, crossed' \in BOOLEAN,
           [DsNext]_dsVars, NEW c \in Clients,
           \/ ClientSocket(c) \/ ClientConnect(c) \/ ClientStep(c) \/ ClientExit(c)
           \/ \E k \in Kinds : ClientSend(c, k)
    PROVE  R!Next \/ UNCHANGED R!vars
<1> USE DsConst, DsStores
<1> DEFINE m == Mine(c)
<1>0. TypeOK /\ DsTypes /\ Places /\ Kept /\ CallOk(c)
    BY PlacesStep DEF DsInv, DsTypes, Protocol
<1>1. \A e \in Clients \ {c} : cpc'[e] = cpc[e]
    BY <1>0 DEF ClientSocket, ClientConnect, ClientStep, ClientRequest, ClientWait, ClientRecv,
                ClientEnd, ClientSend, ClientExit, ClientAt, DsTypes
<1>2. \A e \in Clients \ {c} : cpc[e] \in InCall => Still(Mine(e))
  <2> SUFFICES ASSUME NEW e \in Clients \ {c}, cpc[e] \in InCall PROVE Still(Mine(e))
    OBVIOUS
  <2>1. Mine(e) \in Ids /\ Mine(e) # Mine(c)
    BY <1>0, OwnSocket DEF InCall
  <2>2. \/ UNCHANGED fileVars \/ sys_read(c, ClientFd)
        \/ (\E x : sys_write(c, ClientFd, x)) \/ \E a : set_action(c, ClientFd, a)
    BY DEF ClientSocket, sys_socket, ClientConnect, sys_connect, ClientStep, ClientRequest,
           ClientWait, ClientRecv, ClientEnd, ClientSend, ClientExit, vars
  <2>3. CASE UNCHANGED fileVars
    BY <2>3 DEF fileVars, Still
  <2> QED BY <1>0, <2>1, <2>2, <2>3, FileTouches DEF Touches, Mine
<1>3. \A e \in Clients \ {c} : Phase(e)' = Phase(e)
    BY <1>0, <1>1, <1>2, PhaseKept
\* What the step of c is.
<1>4. \/ Phase(c) = "idle" /\ Phase(c)' = "asked"
      \/ Phase(c) = "served" /\ Phase(c)' = "idle"
      \/ Phase(c)' = "gone"
      \/ Phase(c)' = Phase(c)
  <2>1. CASE ClientSocket(c)
    BY <1>0, <2>1 DEF ClientSocket, Phase, DsTypes
  <2>2. CASE ClientConnect(c)
    BY <1>0, <2>2 DEF ClientConnect, ClientAt, Phase, DsTypes
  <2>3. ASSUME NEW k \in Kinds, ClientSend(c, k) PROVE Phase(c) = "idle" /\ Phase(c)' = "asked"
    <3>1. cpc[c] = "idle" /\ Free(m)
        BY <1>0, <2>3 DEF ClientSend, ClientAt, CallOk
    <3>2. m \in Ids /\ m # Null /\ Running(c) /\ Mine(c)' = m
        BY <1>0, <3>1, OwnSocket DEF Running, DsTypes, Kept
    <3>3. sys_write(c, ClientFd, Request(k, c)) /\ cpc'[c] = "sent"
        BY <1>0, <2>3, <3>1, <3>2 DEF ClientSend, ClientAt, DsTypes, WriteOk, Free, Mine
    <3>4. Asked(c)'
        BY <1>0, <3>2, <3>3 DEF Asked, sys_write, TypeOK, Mine
    <3> QED BY <3>1, <3>3, <3>4 DEF Phase
  <2>4. CASE ClientRequest(c) \/ ClientWait(c)
    <3>1. cpc[c] \in InCall /\ cpc'[c] \in InCall /\ UNCHANGED <<full, buf>>
        BY <1>0, <2>4 DEF ClientRequest, ClientWait, ClientAt, DsTypes, InCall, set_action, vars,
                          fileVars
    <3>2. Mine(c)' = Mine(c)
        BY <1>0, <3>1, OwnSocket DEF Kept, InCall
    <3> QED BY <3>1, <3>2 DEF Phase, Asked, InCall
  <2>5. CASE ClientRecv(c)
    <3>1. cpc[c] = "recv" /\ cpc'[c] = "end" /\ Replied(m) /\ m \in Ids /\ Mine(c)' = m
        BY <1>0, <2>5, OwnSocket DEF ClientRecv, ClientAt, DsTypes, CallOk, Kept
    <3>2. ~Asked(c) /\ ~(Asked(c)')
        BY <1>0, <2>5, <3>1 DEF ClientRecv, Asked, Replied, sys_read, Mine, TypeOK, vars, fileVars
    <3> QED BY <3>1, <3>2 DEF Phase
  <2>6. CASE ClientEnd(c)
    <3>1. cpc[c] = "end" /\ cpc'[c] = "idle" /\ Free(m)
        BY <1>0, <2>6 DEF ClientEnd, ClientAt, DsTypes, CallOk
    <3> QED BY <3>1 DEF Phase, Asked, Free
  <2>7. CASE ClientExit(c)
    BY <1>0, <2>7 DEF ClientExit, Phase, DsTypes
  <2> QED BY <2>1, <2>2, <2>3, <2>4, <2>5, <2>6, <2>7 DEF ClientStep
<1> QED BY <1>3, <1>4, PhaseMove DEF R!Next

\* A step of the server carries out one request, or none.
LEMMA ServerRefines ==
    ASSUME DsInv, ~crossed, ~crossed', crossed \in BOOLEAN, crossed' \in BOOLEAN,
           [DsNext]_dsVars, ServerStep \/ Launch \/ UNCHANGED dsVars
    PROVE  R!Next \/ UNCHANGED R!vars
<1> USE DsConst, DsStores
<1>0. /\ TypeOK /\ DsTypes /\ Places /\ Linked /\ Engaged /\ Kept
      /\ \A e \in Clients : CallOk(e)
    BY PlacesStep DEF DsInv, DsTypes, Protocol
<1>1. UNCHANGED cpc
    BY DEF ServerStep, Launch, dsVars, registerDS, ServerSocket, ServerListen, ServerAccept,
           ServerGet, ServerRead, ServerWrite, ServerReply, ServerNull, ServerQuit, Client0
<1>2. ASSUME \A e \in Clients : Phase(e)' = Phase(e) PROVE UNCHANGED R!vars
  <2>1. [e \in Clients |-> Phase(e)]' = [e \in Clients |-> Phase(e)] /\ crossed' = crossed
    BY <1>2
  <2> QED BY <2>1 DEF R!vars
\* Steps that leave the messages alone.
<1>3. ASSUME UNCHANGED <<full, buf>> PROVE UNCHANGED R!vars
  <2>1. ASSUME NEW e \in Clients PROVE Phase(e)' = Phase(e)
    <3>1. CASE cpc[e] \in InCall
      <4>1. Mine(e)' = Mine(e)
        BY <1>0, <3>1, OwnSocket DEF Kept, InCall
      <4> QED BY <1>1, <1>3, <4>1 DEF Phase, Asked
    <3>2. CASE cpc[e] \notin InCall
        BY <1>1, <3>2 DEF Phase, InCall
    <3> QED BY <3>1, <3>2
  <2> QED BY <1>2, <2>1
<1>4. CASE ServerRead
  <2>1. CASE sys_read(Server, ConnFd) /\ Touch /\ spc = "read"
    <3>1. Conn = on /\ on = obj[Server][ConnFd] /\ spc \in Serving
        BY <2>1 DEF Touch, Conn, Serving
    <3>2. PICK c \in Clients : /\ on = Mine(c) /\ on # Null /\ cpc[c] \in {"wait", "gone"}
                               /\ cpc[c] = "wait" => action[on] = ACTION_REQUEST
        BY <1>0, <3>1 DEF Engaged
    <3>3. Touches(on) /\ on \in Ids /\ Mine(c)' = on
      <4>1. Touches(on)
        BY <1>0, <2>1, <3>1, FileTouches
      <4>2. on \in Ids /\ Mine(c)' = on
        BY <1>0, <3>2, MineType DEF Kept
      <4> QED BY <4>1, <4>2
    <3>4. ASSUME NEW e \in Clients \ {c} PROVE Phase(e)' = Phase(e)
      <4>1. cpc[e] \in InCall => Still(Mine(e))
        BY <1>0, <3>2, <3>3, OwnSocket DEF InCall, Touches
      <4> QED BY <1>0, <1>1, <4>1, PhaseKept
    <3>5. CASE cpc[c] = "gone"
        BY <1>1, <3>4, <3>5, PhaseMove DEF Phase
    <3>6. CASE cpc[c] = "wait"
      <4>1. Asks(on)
        BY <1>0, <2>1, <3>2, <3>6 DEF CallOk, Waiting, Answering
      <4>2. Asked(c) /\ ~(Asked(c)')
        BY <1>0, <2>1, <3>1, <3>2, <3>3, <4>1 DEF Asked, Asks, sys_read, TypeOK
      <4>3. Phase(c) = "asked" /\ Phase(c)' = "served"
        BY <1>1, <3>6, <4>2 DEF Phase
      <4> QED BY <3>4, <4>3, PhaseMove DEF R!Next
    <3> QED BY <3>2, <3>5, <3>6
  <2>2. CASE UNCHANGED vars
    BY <1>3, <2>2 DEF vars, fileVars
  <2> QED BY <1>4, <2>1, <2>2 DEF ServerRead, ServerAt
<1>5. CASE ServerWrite
  <2>1. CASE sys_write(Server, ConnFd, Reply(asker)) /\ spc = "write"
    <3>1. Conn = obj[Server][ConnFd] /\ Conn \in Ids /\ ~full[Conn]
        BY <1>0, <2>1, InUse DEF sys_write, WriteOk, Conn
    <3>2. Reply(asker).type = "reply" /\ buf'[Conn] = Reply(asker)
        BY <1>0, <2>1, <3>1 DEF sys_write, DsTypes, TypeOK
    <3>3. Touches(Conn)
        BY <1>0, <2>1, <3>1, FileTouches
    <3>4. ASSUME NEW e \in Clients PROVE Phase(e)' = Phase(e)
      <4>1. CASE Mine(e) = Conn
        BY <1>0, <1>1, <3>1, <3>2, <4>1, PhaseKept DEF Asked
      <4>2. CASE Mine(e) # Conn
        <5>1. cpc[e] \in InCall => Still(Mine(e))
            BY <1>0, <3>3, <4>2, OwnSocket DEF InCall, Touches
        <5> QED BY <1>0, <1>1, <5>1, PhaseKept
      <4> QED BY <4>1, <4>2
    <3> QED BY <1>2, <3>4
  <2>2. CASE UNCHANGED vars
    BY <1>3, <2>2 DEF vars, fileVars
  <2> QED BY <1>5, <2>1, <2>2 DEF ServerWrite, ServerAt
<1>6. CASE ~ServerRead /\ ~ServerWrite
  <2>1. UNCHANGED <<full, buf>>
    BY <1>6 DEF ServerStep, Launch, Clone, dsVars, vars, registerDS, SetPort, ServerSocket,
                sys_socket, ServerListen, sys_listen, ServerAccept, sys_accept, ServerGet,
                ServerReply, ServerNull, set_action, ServerQuit, sys_close, fileVars
  <2> QED BY <1>3, <2>1
<1> QED BY <1>4, <1>5, <1>6

\* Every step is a step of Rpc or leaves it as it is.
LEMMA DsRefines ==
    ASSUME DsInv, DsInv', [DsNext]_dsVars
    PROVE  [R!Next]_(R!vars)
<1>1. crossed \in BOOLEAN /\ crossed' \in BOOLEAN
    BY DEF DsInv, DsTypes
<1>2. CASE crossed'
  <2>1. \A c \in Clients : Phase(c)' \in R!Phases
    BY DEF Phase, R!Phases
  <2>2. R!Break
    BY <1>1, <1>2, <2>1 DEF R!Break
  <2> QED BY <2>2 DEF R!Next
<1>3. CASE ~crossed'
  <2>1. ~crossed
    BY <1>3, CrossedStays
  <2> QED BY Zenon, <1>1, <1>3, <2>1, ClientRefines, ServerRefines DEF DsNext
<1> QED BY <1>1, <1>2, <1>3

\* For every number of clients, descriptors and sockets: until the server touches the
\* wrong connection, each request is carried out exactly once and its call returns only
\* after that, whatever server and clients interleave and whoever ends.
THEOREM DisplayServerImplementsRpc == DsSpec => ImplementsRpc
<1>1. DsInit => R!Init
    BY DEF DsInit, R!Init, Phase
<1>2. DsInv /\ DsInv' /\ [DsNext]_dsVars => [R!Next]_(R!vars)
    BY DsRefines
<1> QED BY <1>1, <1>2, DsInvariant, PTL DEF DsSpec, ImplementsRpc, R!Spec

----------------------------------------------------------------------------
(* Whose answer it is.                                                     *)

\* What lies in a client's connection is its own request or the answer to it, and the
\* server makes its answer for the client whose connection it looked at.
OwnBuffer(c) == Mine(c) # Null /\ full[Mine(c)] => buf[Mine(c)].who = c
OwnAsker     == spc = "write" => on = Mine(asker)

Own == ~crossed => OwnAsker /\ \A c \in Clients : OwnBuffer(c)

\* A message stays the client's own as long as no other is written to its connection.
LEMMA OwnKept ==
    ASSUME DsInv, Kept, TypeOK', NEW c \in Clients, OwnBuffer(c),
           \A i \in Ids : i = Mine(c) /\ full'[i] => full[i] /\ buf'[i] = buf[i]
    PROVE  OwnBuffer(c)'
<1>1. Mine(c) \in Ids \cup {Null} /\ Mine(c)' \in Ids \cup {Null}
    BY DsConst, MineType DEF DsInv, DsTypes, TypeOK, Mine
<1>2. CASE Mine(c)' = Mine(c)
    BY <1>1, <1>2 DEF OwnBuffer
<1>3. CASE Mine(c)' # Mine(c)
  <2>1. Mine(c)' = nsock' /\ nsock' > nsock /\ UNCHANGED fileVars
    BY <1>3 DEF Kept
  <2>2. Mine(c)' # Null => ~full[Mine(c)']
    BY <1>1, <2>1 DEF DsInv, Unmade, Free
  <2> QED BY <2>1, <2>2 DEF OwnBuffer, fileVars
<1> QED BY <1>2, <1>3

\* Every step keeps messages with their clients.
LEMMA OwnStep ==
    ASSUME DsInv, Own, [DsNext]_dsVars
    PROVE  Own'
<1> USE DsConst, DsStores
<1> SUFFICES ASSUME ~crossed' PROVE OwnAsker' /\ \A c \in Clients : OwnBuffer(c)'
    BY DEF Own
<1>0. /\ TypeOK /\ TypeOK' /\ DsTypes /\ Places /\ Linked /\ Kept /\ ~crossed /\ Engaged
      /\ OwnAsker /\ \A c \in Clients : OwnBuffer(c)
    BY KernelStep, PlacesStep, CrossedStays DEF DsInv, DsTypes, Protocol, Own
<1>1. \A c \in Clients : \A k \in Kinds : Request(k, c).who = c /\ Reply(c).who = c
    BY DEF Request, Reply
\* The server goes on with its answer only for the client it has begun to answer.
<1>2. ASSUME UNCHANGED <<spc, on, asker>> \/ spc' # "write" PROVE OwnAsker'
  <2>1. CASE spc = "write" /\ UNCHANGED <<spc, on, asker>>
    <3>1. asker \in Clients /\ on = Mine(asker) /\ on # Null
        BY <1>0, <2>1 DEF OwnAsker, DsTypes, Engaged, Serving
    <3>2. Mine(asker)' = Mine(asker)
      <4>1. PICK c \in Clients : c = asker
        BY <3>1
      <4>2. obj'[c][ClientFd] = obj[c][ClientFd]
        BY <1>0, <3>1, <4>1 DEF Kept, Mine
      <4> QED BY <2>1, <4>1, <4>2 DEF Mine
    <3> QED BY <2>1, <3>1, <3>2 DEF OwnAsker
  <2> QED BY <1>2, <2>1 DEF OwnAsker
\* Steps that write no message.
<1>3. ASSUME UNCHANGED buf, \A i \in Ids : full'[i] => full[i]
      PROVE  \A c \in Clients : OwnBuffer(c)'
    BY <1>0, <1>3, OwnKept
<1>4. ASSUME UNCHANGED <<full, buf>> PROVE \A c \in Clients : OwnBuffer(c)'
    BY <1>3, <1>4
<1>5. CASE ServerRead
  <2>1. CASE sys_read(Server, ConnFd) /\ Touch /\ spc = "read"
             /\ (spc' = "write" => asker' = buf[Conn].who) /\ UNCHANGED on
    <3>1. Conn = on /\ on = obj[Server][ConnFd] /\ full[on] /\ UNCHANGED <<buf, obj>>
        BY <2>1 DEF Touch, Conn, sys_read, ReadOk, procVars
    <3>2. PICK c \in Clients : on = Mine(c) /\ on # Null
        BY <1>0, <2>1 DEF Engaged, Serving
    <3>3. buf[on].who = c
        BY <1>0, <3>1, <3>2 DEF OwnBuffer
    <3>4. OwnAsker'
        BY <2>1, <3>1, <3>2, <3>3 DEF OwnAsker, Mine
    <3>5. \A i \in Ids : full'[i] => full[i]
        BY <1>0, <2>1 DEF sys_read, TypeOK
    <3> QED BY <1>3, <3>1, <3>4, <3>5
  <2>2. CASE spc' = "accept" /\ UNCHANGED vars
    BY <1>2, <1>4, <2>2 DEF vars, fileVars
  <2> QED BY <1>5, <2>1, <2>2 DEF ServerRead, ServerAt, NoReply
<1>6. CASE ServerWrite
  <2>1. CASE sys_write(Server, ConnFd, Reply(asker)) /\ Touch /\ spc = "write" /\ spc' = "reply"
    <3>1. /\ Conn = on /\ on = obj[Server][ConnFd] /\ on = Mine(asker) /\ asker \in Clients
          /\ on # Null /\ on \in Ids /\ UNCHANGED obj
        BY <1>0, <2>1, MineType
           DEF Touch, Conn, OwnAsker, DsTypes, Engaged, Serving, sys_write, procVars
    <3>2. ASSUME NEW c \in Clients PROVE OwnBuffer(c)'
      <4>1. CASE Mine(c) = on
        <5>1. c = asker
            BY <1>0, <3>1, <4>1 DEF Places, Distinct
        <5>2. buf'[on] = Reply(c) /\ Reply(c).who = c
            BY <1>0, <2>1, <3>1, <5>1 DEF sys_write, TypeOK, Reply
        <5> QED BY <3>1, <4>1, <5>2 DEF OwnBuffer, Mine
      <4>2. CASE Mine(c) # on
        <5>1. Touches(on)
          <6>1. \E m : sys_write(Server, ConnFd, m)
            BY <2>1
          <6>2. Touches(obj[Server][ConnFd])
            BY <1>0, <6>1, FileTouches
          <6> QED BY <3>1, <6>2 DEF Touches
        <5> QED BY <1>0, <4>2, <5>1, OwnKept DEF Touches, Still
      <4> QED BY <4>1, <4>2
    <3> QED BY <1>2, <2>1, <3>2
  <2>2. CASE UNCHANGED vars /\ (spc' = "reply" \/ UNCHANGED <<spc, on, asker>>)
    BY <1>2, <1>4, <2>2 DEF vars, fileVars
  <2> QED BY <1>6, <2>1, <2>2 DEF ServerWrite, ServerAt, hist
<1>7. CASE \/ Launch \/ registerDS \/ ServerSocket \/ ServerListen \/ ServerAccept \/ ServerGet
           \/ ServerReply \/ ServerNull \/ ServerQuit \/ UNCHANGED dsVars
  <2>1. UNCHANGED <<full, buf>>
    BY <1>7 DEF Launch, Clone, dsVars, vars, registerDS, SetPort, ServerSocket, sys_socket,
                ServerListen, sys_listen, ServerAccept, sys_accept, ServerGet, ServerReply,
                ServerNull, set_action, ServerQuit, sys_close, fileVars
  <2>2. UNCHANGED <<spc, on, asker>> \/ spc' # "write"
    BY <1>7 DEF Launch, dsVars, registerDS, ServerSocket, ServerListen, ServerAccept, ServerGet,
                ServerReply, ServerNull, ServerQuit, ServerAt, hist
  <2> QED BY <1>2, <1>4, <2>1, <2>2
<1>8. ASSUME NEW c \in Clients, NEW k \in Kinds, ClientSend(c, k)
      PROVE  OwnAsker' /\ \A e \in Clients : OwnBuffer(e)'
  <2>1. UNCHANGED <<spc, on, asker>>
    BY <1>8 DEF ClientSend, Server0, hist
  <2>2. CASE sys_write(c, ClientFd, Request(k, c))
    <3>1. Mine(c) \in Ids /\ Mine(c) # Null /\ Mine(c) = obj[c][ClientFd] /\ UNCHANGED obj
        BY <1>0, <2>2, InUse DEF Mine, sys_write, WriteOk, procVars
    <3>2. Touches(Mine(c)) /\ buf'[Mine(c)] = Request(k, c)
      <4>1. \E m : sys_write(c, ClientFd, m)
        BY <2>2
      <4>2. buf'[Mine(c)] = Request(k, c)
        BY <1>0, <2>2, <3>1 DEF sys_write, TypeOK
      <4> QED BY <1>0, <3>1, <4>1, <4>2, FileTouches
    <3>3. ASSUME NEW e \in Clients PROVE OwnBuffer(e)'
      <4>1. CASE e = c
        BY <1>1, <3>1, <3>2, <4>1 DEF OwnBuffer, Mine
      <4>2. CASE e # c
        <5>1. Mine(e) # Mine(c)
            BY <1>0, <3>1, <4>2 DEF Places, Distinct
        <5> QED BY <1>0, <3>2, <5>1, OwnKept DEF Touches, Still
      <4> QED BY <4>1, <4>2
    <3> QED BY <1>2, <2>1, <3>3
  <2>3. CASE UNCHANGED vars
    BY <1>2, <1>4, <2>1, <2>3 DEF vars, fileVars
  <2> QED BY <1>8, <2>2, <2>3 DEF ClientSend
<1>9. ASSUME NEW c \in Clients,
             ClientSocket(c) \/ ClientConnect(c) \/ ClientStep(c) \/ ClientExit(c)
      PROVE  OwnAsker' /\ \A e \in Clients : OwnBuffer(e)'
  <2>1. UNCHANGED <<spc, on, asker>>
    BY <1>9 DEF ClientSocket, ClientConnect, ClientStep, ClientRequest, ClientWait, ClientRecv,
                ClientEnd, ClientExit, Server0, hist
  <2>2. UNCHANGED buf /\ \A i \in Ids : full'[i] => full[i]
    BY <1>0, <1>9 DEF ClientSocket, sys_socket, ClientConnect, sys_connect, ClientStep,
                ClientRequest, ClientWait, ClientRecv, ClientEnd, ClientExit, vars, fileVars,
                sys_read, set_action, TypeOK
  <2> QED BY <1>2, <1>3, <2>1, <2>2
<1> QED BY Zenon, <1>5, <1>6, <1>7, <1>8, <1>9 DEF DsNext, ServerStep

\* For every number of clients: an answer lies only in the connection of the client it is
\* for, until the server touches the wrong connection.
THEOREM AnswersReachTheirAsker == DsSpec => []AnsweredToAsker
<1>1. DsInit => Own
    BY DsConst DEF DsInit, Init, Own, OwnAsker, OwnBuffer, Mine
<1>2. DsInv /\ Own /\ [DsNext]_dsVars => Own'
    BY OwnStep
<1>3. Own => AnsweredToAsker
    BY DEF Own, OwnBuffer, AnsweredToAsker, ReplyToRequester
<1> QED BY <1>1, <1>2, <1>3, DsInvariant, PTL DEF DsSpec
=============================================================================
