------------------------------- MODULE DsRpc -------------------------------
(***************************************************************************)
(* The display server and its clients over the sockets of Socket: the      *)
(* start-up and main loop of the server (ds00/main.c, libos/gramado/       *)
(* connect.c) and the calls of the client library (libgws/gws.c).          *)
(*                                                                         *)
(* Processes are preempted between any two system calls, so every system   *)
(* call is a step; what a program does between two of them belongs to the  *)
(* step before.  Process 0 is init, 1 the display server, the others are   *)
(* clients, which may end at any point; nothing is closed for them         *)
(* (gws_close_display does not close the socket, exit does not either).    *)
(* The server leaves its loop when a client asks it to.                    *)
(*                                                                         *)
(* A request is its kind and its sender.  Kinds are told apart by what the *)
(* library waits for and whether the server answers: "create" (answered),  *)
(* "text" (answered, and the call also ends on ACTION_NULL), "draw" (not   *)
(* answered, the call ends on ACTION_NULL), "quit" (as "draw", and the     *)
(* server is to quit: requests 1 and 88 of gws_async_command).             *)
(*                                                                         *)
(* Left out: message codes that no function of the library sends (GWS_Quit *)
(* and others, for which dsProcedure leaves NoReply, a static variable, as *)
(* the request before set it), and shutdown.bin, which a server that quit  *)
(* launches to turn the machine off.                                       *)
(***************************************************************************)
EXTENDS Socket

CONSTANTS
    Backlogs,   \* bound: the lengths the server listens with; SERVER_BACKLOG is 8
    MaxTries,   \* attempts of dsSendResponse to write (8)
    Kinds       \* bound: the kinds of requests clients make

Server  == 1
Clients == 2..(NProcs - 1)

ACTION_NULL    == 0
ACTION_REQUEST == 1
ACTION_REPLY   == 2
DsActions == {ACTION_NULL, ACTION_REQUEST, ACTION_REPLY}

Request(kind, c) == [type |-> kind, who |-> c]
Reply(c)         == [type |-> "reply", who |-> c]
NoOne   == 0
NoKind  == "none"
DsPayload == [type: Kinds \cup {"reply"}, who: Clients]

ASSUME DsAssumption ==
    /\ NProcs >= 2 /\ NSlots >= 2
    /\ Backlogs \subseteq 0..NPending /\ MaxTries \in Nat \ {0}
    /\ Kinds \subseteq {"create", "text", "draw", "quit"}
    /\ Actions = DsActions /\ Payload = DsPayload

NoReply(kind) == kind \in {"draw", "quit"}
\* Mutant: the loop ends on any action but ACTION_NULL.
EndsEarly(kind) == CASE kind = "create" -> {ACTION_REPLY, ACTION_REQUEST}
                     [] kind = "text"   -> {ACTION_REPLY, ACTION_NULL}
                     [] NoReply(kind)   -> {ACTION_NULL}
\* The actions on which the wait loop of a call ends.
Ends(kind) == CASE kind = "create" -> {ACTION_REPLY}
                [] kind = "text"   -> {ACTION_REPLY, ACTION_NULL}
                [] NoReply(kind)   -> {ACTION_NULL}

VARIABLES
    spc, cpc,  \* where the server and each client are in their programs
    asker,     \* whose request the server is working on (__buffer), or NoOne
    tries,     \* attempts to write the answer
    IsTimeToQuit,  \* the server is to leave its loop
    kind,      \* the kind of request each client is making
    on,        \* history: the connection whose action the server looked at last
    crossed    \* history: the server read, wrote or set the action of another one

dsVars == <<vars, spc, cpc, asker, tries, IsTimeToQuit, kind, on, crossed>>

ServerFd == 1                        \* the first free descriptor of the server ...
ClientFd == 2                        \* ... and the first one after it
Conn     == obj[Server][ConnFd]      \* the connection behind descriptor 31 right now
Mine(c)  == obj[c][ClientFd]         \* the socket of client c

DsInit ==
    /\ Init
    /\ spc = "register"
    /\ cpc = [c \in Clients |-> "start"]
    /\ asker = NoOne
    /\ tries = 0
    /\ IsTimeToQuit = FALSE
    /\ kind = [c \in Clients |-> NoKind]
    /\ on = Null /\ crossed = FALSE

----------------------------------------------------------------------------
(* Init launches the display server.  The server launches the clients (the *)
(* taskbar, then what it is asked to): they start with its descriptors.    *)

Launch ==
    /\ \/ Clone(0, Server)
       \/ spc = "accept" /\ ~IsTimeToQuit /\ \E c \in Clients : Clone(Server, c)
    /\ UNCHANGED <<spc, cpc, asker, tries, IsTimeToQuit, kind, on, crossed>>

----------------------------------------------------------------------------
(* The display server.                                                     *)

ServerAt(from, to) == spc = from /\ spc' = to
Client0 == <<cpc, kind>>
hist    == <<on, crossed>>
\* The server does something to the connection behind descriptor 31.
Touch   == crossed' = (crossed \/ Conn # on)

registerDS ==
    /\ ServerAt("register", "socket")
    /\ SetPort(Server, Server)
    /\ UNCHANGED <<Client0, hist, asker, tries, IsTimeToQuit>>

\* ServerLoop up to its loop: socket, bind (no effect here), listen.
ServerSocket ==
    /\ spc = "socket"
    /\ sys_socket(Server)
    /\ spc' = IF obj' = obj THEN "failed" ELSE "listen"
    /\ UNCHANGED <<Client0, hist, asker, tries, IsTimeToQuit>>

ServerListen ==
    /\ ServerAt("listen", "accept")
    /\ \E backlog \in Backlogs : sys_listen(Server, ServerFd, backlog)
    /\ UNCHANGED <<Client0, hist, asker, tries, IsTimeToQuit>>

\* The loop: accept, and dispacher(31) if it returned a client.
ServerAccept ==
    /\ ~IsTimeToQuit
    /\ ServerAt("accept", IF Client(obj[Server][ServerFd]) = Null THEN "accept" ELSE "get")
    /\ sys_accept(Server, ServerFd)
    /\ UNCHANGED <<Client0, hist, asker, tries, IsTimeToQuit>>

\* dispacher: only a connection whose action is ACTION_REQUEST is read.
ServerGet ==
    /\ ServerAt("get", IF action[Conn] = ACTION_REQUEST THEN "read" ELSE "accept")
    /\ on' = Conn
    /\ UNCHANGED <<vars, Client0, crossed, asker, tries, IsTimeToQuit>>

\* Mutant: the buffer is cleaned before the answer is made from it.
ServerReadCleans ==
    \/ /\ spc = "read"
       /\ sys_read(Server, ConnFd)
       /\ asker' = NoOne
       /\ spc' = IF NoReply(buf[Conn].type) THEN "null" ELSE "write"
       /\ IsTimeToQuit' = (IsTimeToQuit \/ buf[Conn].type = "quit")
       /\ Touch /\ UNCHANGED <<Client0, on, tries>>
    \/ /\ ServerAt("read", "accept")
       /\ ~ReadOk(Server, ConnFd)
       /\ UNCHANGED <<vars, Client0, hist, asker, tries, IsTimeToQuit>>
\* dispacher: the request is read and dsProcedure carries it out.  A read that fails
\* leaves the connection as it is.
ServerRead ==
    \/ /\ spc = "read"
       /\ sys_read(Server, ConnFd)
       /\ asker' = IF NoReply(buf[Conn].type) THEN NoOne ELSE buf[Conn].who
       /\ spc' = IF NoReply(buf[Conn].type) THEN "null" ELSE "write"
       /\ IsTimeToQuit' = (IsTimeToQuit \/ buf[Conn].type = "quit")
       /\ Touch /\ UNCHANGED <<Client0, on, tries>>
    \/ /\ ServerAt("read", "accept")
       /\ ~ReadOk(Server, ConnFd)
       /\ UNCHANGED <<vars, Client0, hist, asker, tries, IsTimeToQuit>>

\* dsSendResponse: up to eight attempts, then ACTION_REPLY whether one succeeded or not.
ServerWrite ==
    \/ /\ ServerAt("write", "reply")
       /\ sys_write(Server, ConnFd, Reply(asker))
       /\ asker' = NoOne /\ tries' = 0
       /\ Touch /\ UNCHANGED <<Client0, on, IsTimeToQuit>>
    \/ /\ ~WriteOk(Server, ConnFd)
       /\ \/ /\ tries + 1 < MaxTries
             /\ ServerAt("write", "write") /\ tries' = tries + 1 /\ UNCHANGED asker
          \/ /\ tries + 1 = MaxTries
             /\ ServerAt("write", "reply") /\ tries' = 0 /\ asker' = NoOne
       /\ UNCHANGED <<vars, Client0, hist, IsTimeToQuit>>

ServerReply ==
    /\ ServerAt("reply", "accept")
    /\ set_action(Server, ConnFd, ACTION_REPLY)
    /\ Touch /\ UNCHANGED <<Client0, on, asker, tries, IsTimeToQuit>>

\* Mutant: the action is left as it is.
ServerNullForgotten ==
    /\ ServerAt("null", "accept")
    /\ UNCHANGED <<vars, Client0, hist, asker, tries, IsTimeToQuit>>
\* dispacher, NoReply: ACTION_NULL tells the client that the request was carried out.
ServerNull ==
    /\ ServerAt("null", "accept")
    /\ set_action(Server, ConnFd, ACTION_NULL)
    /\ Touch /\ UNCHANGED <<Client0, on, asker, tries, IsTimeToQuit>>

\* The end of ServerLoop and ServerShutdown: the server's socket is closed and the
\* process exits.  Clients can still connect: connect asks for the socket of the port's
\* process, not whether it is open.
ServerQuit ==
    /\ IsTimeToQuit
    /\ ServerAt("accept", "quit")
    /\ sys_close(Server, ServerFd)
    /\ UNCHANGED <<Client0, hist, asker, tries, IsTimeToQuit>>

ServerStep ==
    \/ registerDS \/ ServerSocket \/ ServerListen \/ ServerAccept \/ ServerGet
    \/ ServerRead \/ ServerWrite \/ ServerReply \/ ServerNull \/ ServerQuit

----------------------------------------------------------------------------
(* A client.                                                               *)

ClientAt(c, from, to) == cpc[c] = from /\ cpc' = [cpc EXCEPT ![c] = to]
Server0 == <<spc, asker, tries, IsTimeToQuit, hist>>

\* gws_open_display: socket, then connect until it succeeds.
ClientSocket(c) ==
    /\ cpc[c] = "start"
    /\ sys_socket(c)
    /\ cpc' = [cpc EXCEPT ![c] = IF obj' = obj THEN "gone" ELSE "connect"]
    /\ UNCHANGED <<Server0, kind>>

\* Descriptor 31 of the server now leads to this client, whatever the server is doing.
ClientConnect(c) ==
    /\ ClientAt(c, "connect", "idle")
    /\ sys_connect(c, ClientFd)
    /\ UNCHANGED <<Server0, kind>>

\* A request function: send; if that fails the call ends with ACTION_NULL.
ClientSend(c, k) ==
    /\ kind' = [kind EXCEPT ![c] = k]
    /\ \/ /\ ClientAt(c, "idle", "sent")
          /\ sys_write(c, ClientFd, Request(k, c))
       \/ /\ ClientAt(c, "idle", "end")
          /\ ~WriteOk(c, ClientFd)
          /\ UNCHANGED vars
    /\ UNCHANGED Server0

ClientRequest(c) ==
    /\ ClientAt(c, "sent", "wait")
    /\ set_action(c, ClientFd, ACTION_REQUEST)
    /\ UNCHANGED <<Server0, kind>>

\* The wait loop reads the action until it is one that ends it.
ClientWait(c) ==
    /\ ClientAt(c, "wait", IF action[Mine(c)] = ACTION_REPLY THEN "recv" ELSE "end")
    /\ action[Mine(c)] \in Ends(kind[c])
    /\ UNCHANGED <<vars, Server0, kind>>

ClientRecv(c) ==
    /\ ClientAt(c, "recv", "end")
    /\ sys_read(c, ClientFd) \/ (~ReadOk(c, ClientFd) /\ UNCHANGED vars)
    /\ UNCHANGED <<Server0, kind>>

ClientEnd(c) ==
    /\ ClientAt(c, "end", "idle")
    /\ set_action(c, ClientFd, ACTION_NULL)
    /\ kind' = [kind EXCEPT ![c] = NoKind]
    /\ UNCHANGED Server0

\* The process of the client ends in the middle of a call; its descriptors are not
\* closed.  Between two calls that is the same as to make no further call.
ClientExit(c) ==
    /\ cpc[c] \in {"sent", "wait", "recv", "end"} /\ cpc' = [cpc EXCEPT ![c] = "gone"]
    /\ UNCHANGED <<vars, Server0, kind>>

\* The steps of a call that was begun.
ClientStep(c) ==
    \/ ClientRequest(c) \/ ClientWait(c) \/ ClientRecv(c) \/ ClientEnd(c)

DsNext ==
    \/ Launch
    \/ ServerStep
    \/ \E c \in Clients :
        \/ ClientSocket(c) \/ ClientConnect(c) \/ ClientStep(c)
        \/ \E k \in Kinds : ClientSend(c, k)
        \/ ClientExit(c)

DsSpec == DsInit /\ [][DsNext]_dsVars

\* Every process gets the processor again and again (NoStarvation in Sched) and goes on
\* with its program; clients need not connect or make requests, but finish a call.
DsFairness == WF_dsVars(ServerStep) /\ \A c \in Clients : WF_dsVars(ClientStep(c))

DsFairSpec == DsSpec /\ DsFairness

----------------------------------------------------------------------------
(* Properties.                                                             *)

\* socket.c:618-620 "Retornando o fd do cliente. Dessa forma o servido pode escrever nele
\* e o cliente podera ler.": what the server writes to the descriptor accept returned
\* reaches that client, so an answer lies only in the connection of the one who asked.
ReplyToRequester ==
    \A c \in Clients :
        Mine(c) # Null /\ full[Mine(c)] /\ buf[Mine(c)].type = "reply"
            => buf[Mine(c)].who = c

\* That much holds: unless a connect came in between, an answer lies only in the
\* connection of the client it is for, however the requests of several clients and the
\* exits of some of them interleave with the server's loop.
AnsweredToAsker == ~crossed => ReplyToRequester

\* The call of a client as its caller sees it.
Asked(c) == full[Mine(c)] /\ buf[Mine(c)].type # "reply"
Phase(c) ==
    CASE cpc[c] = "gone" -> "gone"
      [] cpc[c] \in {"sent", "wait", "recv", "end"} -> IF Asked(c) THEN "asked" ELSE "served"
      [] OTHER -> "idle"

R == INSTANCE Rpc WITH phase <- [c \in Clients |-> Phase(c)], broken <- crossed

\* Each request is carried out exactly once and its call returns after that, whatever the
\* server and the clients interleave and whichever of them end, until a client
\* connects in the middle of an answer.
ImplementsRpc == R!Spec

\* The entry of c in the pending list was written over: connect never looks at the cell
\* it takes (socket.c:1391-1404), so this is what becomes of the oldest client when more
\* clients connect than the list has cells.  accept does not return it any more.
Dropped(c) == \A i \in Cells : pend[priv[Server]][i] # Mine(c)

\* A client that waits for the server does not wait for ever, whatever the others do,
\* while it stays in the pending list and the server in its loop.
Answered ==
    \A c \in Clients :
        cpc[c] = "wait" ~> \/ cpc[c] # "wait"
                           \/ crossed \/ Dropped(c) \/ spc \in {"failed", "quit"}
=============================================================================
