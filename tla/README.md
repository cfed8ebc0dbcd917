# Verification of the Gramado kernel core

Gramado is a 64-bit kernel with a boot loader, ring-0 modules, an init process, a
ring-3 display server and command programs. This directory holds TLA+ models of
*which thread runs and what it is told* (threads, scheduler, task switcher, dispatcher,
message rings) and of *how programs talk to each other* (sockets and their files, and
the protocol between the display server and its clients on top of them). TLC checks
small instances; TLAPS proves every safety result, and the two refinements (the switcher
implements a round robin, the display server implements remote calls), for every size of
the tables.

All paths are relative to `src/kernel/`; `intake/` is `core/ke/intake/`.

## 1. Inventory of the system

| part | state | operations | what makes it correct |
|---|---|---|---|
| task switcher, dispatcher, spawn (`intake/disp/ts.c`, `dispatch.c`, `spawn.c`) | `current_thread`, `currentq`, lock flag | one call per tick: charge, keep / preempt, spawn, event responder, round, dispatch | one RUNNING thread; a live thread on the processor; the search for a thread ends |
| scheduler (`intake/sched/sched.c`, `schedi.c`) | `next` pointers, quanta, credits, lock flag | `psScheduler`, `yield`, `sys_sleep`, `sys_broken_vessels`, wake-ups | a round is a forward walk; nobody starves; sleepers wake |
| threads (`intake/thread.c`, `ithread.c`, `tlib.c`) | `threadList`, state, flags | create, copy, exit, destroy | a tid names one thread for ever |
| processes, clone (`intake/process.c`, `clone.c`, `x64init.c`) | `processList`, control thread | create, clone, destroy | a dispatched thread has a process |
| faults (`core/ke/hal/x86_64/x64fault.c`) | - | destroy the current process, dispatch init | the kernel goes on |
| messages (`intake/ipc.c`) | ring, head, tail of each thread; `ev_responder_thread` | post, post to display server, broadcast, the two reads | no message twice; bounded waiting |
| display server registration and callback (`res/net/net.c`, `gramk/evi/callback.c`) | `DisplayServerInfo`, port owner, `ds_callback_info` | register, request, deliver at a tick | at most one request outstanding |
| timer and input (`core/ke/hal/x86_64/pit.c`, `gramk/evi/ibroker.c`) | `jiffies` | tick, key, mouse | events reach the display server |
| system calls (`core/kmain/sci`) | - | dispatch by number | - |
| files, tty, pipes (`res/fs/fslib.c`, `fs.c`, `pipe.c`) | buffers, flags, `sync.action`, `tid_waiting` | read, write, close, synchronisation requests, pipe, dup | the flags of a buffer agree with its content; bounds |
| FAT16, image loading (`res/fs/fat`, `fsload.c`) | FAT cache, clusters | load, save, search | chains end and do not cross |
| sockets (`res/net/socket.c`, `sockint.c`) | sockets, pending list of each, ports, descriptors | socket, bind, listen, connect, accept, shutdown, close | a client is listed once, returned again and again, dropped only from a full list |
| display server requests (`core/gdeps/preshell/ds/ds00/main.c`, `libos/gramado/connect.c`) | one request buffer, descriptor 31 | register, listen, accept, `dispacher`, `dsProcedure`, `dsSendResponse` | each request is carried out once and answered to its client |
| client library (`core/gdeps/shell/shell01/api/libs/libgws/gws.c`) | one display socket | open display, send, wait for the action, receive | every call returns |
| protocols (`res/net/prot`) | ARP table, DHCP and UDP state | handle packet, send | table stays consistent |
| memory (`res/mm`) | heap and page pools | allocate, share, free | no overlap |
| graphics, drivers, HAL, boot | device state | - | outside the scope |

Interaction: a program reaches the kernel by interrupt `0x80..0x83`; devices reach it
by interrupts. All gates are interrupt gates and there is one processor in the kernel
core, so a handler runs to its end once it began; what interleaves is *handlers*. The
timer handler first counts the tick (which may post a timer message to the display
server) and then calls `tsTaskSwitch`. Everyone else influences the switcher only
through the thread table: a post marks its receiver READY and makes it the event
responder, a clone leaves a STANDBY child, an exit a flag that the next round looks
at, a fault a destroyed structure.

Client and server share one *file* per connection: one buffer for both directions, two
flags and one word, `sync.action`, with which they signal each other. Nothing blocks: the
server polls `accept`, the client polls the action. `connect` puts the client's file
straight into descriptor 31 of the server and its socket into the pending list of the
server; `accept` goes round that list for ever and puts the next client into the same
descriptor. A program is preempted between any two of its system calls.

What is hard here is the order of those influences. The hazards, each at its line and
with the properties aimed at it, are in `PROJECT.json`.

## 2. Modules

| module | what it is |
|---|---|
| `Sched` | thread table, process table, switcher, scheduler, services, interrupts and faults |
| `MCSched` | the programs (sets of services) of the small instances |
| `SchedProofs` | the inductive invariant of `Sched` and its theorems |
| `SchedRoundProofs` | the order of a round |
| `SchedSoundProofs` | what can stop the kernel when programs are sound |
| `RoundRobin` | abstract specification: rounds, turns, and what may end a round early |
| `SchedTurns` | `Sched` with the history variable `due`; refinement mapping to `RoundRobin` |
| `MCSchedTurns` | the programs of its small instance |
| `SchedTurnsProofs` | the proof that the switcher implements `RoundRobin` |
| `MsgQueue` | the ring of one thread with its posters and its reader |
| `MCMsgQueue` | readers of the small instances |
| `MsgQueueProofs` | the theorems about the ring |
| `Socket` | sockets, files, descriptors, ports: the services on them (all but `dup`), by any process in any order |
| `MCSocket` | processes and payloads of the small instance |
| `SocketProofs` | invariants and theorems of `Socket` |
| `Rpc` | abstract specification: a request is made, carried out once, and its call returns |
| `DsRpc` | display server and clients as programs over `Socket`; refinement mapping to `Rpc` |
| `MCDsRpc` | clients and kinds of requests of the small instance |
| `DsRpcProofs` | invariant of `DsRpc`, and the proof that it implements `Rpc` |

### Sched

State and code: `thread` is `threadList` (state `FREE` is a NULL entry, `used` the
pair used/magic), `proc` is `processList`, the other variables carry the names of the
kernel's globals. `cpu` says where the processor is: `user` between handlers, then the
labels of the timer handler (`tsTaskSwitch`, `ZeroGravity`, `go_ahead`), and `halted`
after `panic()` or `die()`, with the reason in `cause`.

- **One action per handler.** A service, a fault, a key or mouse interrupt is one
  action, enabled only in `user`. The timer handler contains a loop that may not end,
  so it is followed label by label: `Irq0`, one of `TsCallback`, `TsNoProcess`,
  `TsLocked`, `TsSameThread`, `TsFinished`, then `ZeroGravity`, `Retry`,
  `DispatchCurrent`.
- **A round is one operator.** `Round(tab)` gives the table after `__scheduler_rr`:
  each thread is exiting, reaped, queued or left alone, and the queued ones are linked
  in tid order. `psScheduler` adds the lock and the single-thread shortcut.
- **Uninitialised pointer.** `sched.c:430` passes `TmpThread->tid` before `TmpThread` is
  assigned. The model lets it lead to any member of `StrayReads`; the passing runs use
  every thread or none.
- **Programs.** What a program may ask for is the constants `InitServices` and
  `UserServices`; the theorems hold for all of them.
- **Caller checks.** Every service begins by looking at its caller's process; a caller
  without one stops the kernel (`sci_validation`), so every other service needs a live
  process.
- **Credits.** Taking a message and the socket and file services credit their caller;
  `do_credits` is that effect on its own, at any moment.
- **Data left out.** Priorities (written, never read to choose a thread), register
  contexts, message contents, profiling counters. `jiffies` is kept as the ticks left of
  each sleep, `runningCount` is held at the largest quantum, tids from
  `USER_THRESHOLD_TID` are 1, 2, ...

### SchedTurns and RoundRobin

The code has no object that *is* the round: it has `currentq` and a `next` in every thread,
written by rounds (`sched.c:589`), by the responder branch (`ts.c:569`) and by spawn
(`spawn.c:319`), and read one link at a time. `RoundRobin` says what the threads get out of it.
A round holds every thread that can run when it is made, at least those that could before
and did not ask to exit; its threads are chosen in tid order, once each; the one chosen gets
the processor if it still can run. Only a message or a chosen thread that cannot run ends
a round early, and between two choices the processor goes only to the idle thread (a fault
falls back on it) or to a thread outside the round (a first run). What programs, devices
and faults do to the threads meanwhile is arbitrary.

`SchedTurns` adds the history variable `due`, the threads of the round that were not chosen
yet: set when a round is made, emptied when a responder replaces the rest of the round,
otherwise losing the thread the switcher goes to. No action reads it. `RoundRobin` is
instantiated with `due` itself, with `cpu` as the phase, and with the READY threads, the
exit flags, the pending responder and the scheduler lock.

### MsgQueue

`slot`, `head`, `tail` are `MsgQueue`, `MsgQueueHead`, `MsgQueueTail`. A message is the
number of its post; 0 is an empty slot. A post writes the slot at the tail without
looking at it (`Post`, and `PostVoid` for message code 0, which a reader takes for an
empty slot). `sys_get_message` reads at the head and advances it even when the slot was
empty; `sys_get_message2` reads at any index, with or without restart. `got`, `fate` and
`calls` are history: what the receiver has, what became of each message, and the polls in
a row since it was posted (a `sys_get_message2` starts the count again, because it moves
the head away). The index sweep `wmInputReader2` has no caller at this commit and
is not an action; its calls are among those of `sys_get_message2`.

### Socket

A socket and its file are made together by `sys_socket` and are never freed, so both go
by one id: `valid`, `state`, `head`, `tail`, `max`, `pend` are the socket's fields, `flags`,
`full`, `action`, `buf` the file's. `obj` is `Objects[]` of each process: descriptors
`1..NSlots` stand for 3..30 and `ConnFd` for 31. `priv` is the socket a process made
last, which is where `connect` looks for the server's socket. `port` is the one entry of
`gramado_ports[]` that is used.

- **Each service is one action**, with interrupts off; a call that fails without changing
  anything has no action. Calls that fail *after* they changed something do
  (`sys_write_fails`; `sys_socket` without a descriptor), and so do the panics.
  `sys_sleep_if_socket_is_empty` (service 913) only asks whether there is something to read,
  but it opens the file for what its buffer is ready for, so it is an action too.
- **`sys_accept`** moves the head first, scans from there to the cell *at* `backlog_max`,
  never wraps within one call, and leaves the client in the list.
- **History.** `waits` counts accepts since a pending client was returned, `forced` are
  files that request 217 made readable with nothing in them, `resized` lists whose
  length `listen` changed while clients were in them. No action reads them.
- **Bounds.** `Services` says which services each process calls and `Talks` on which
  sockets it reads, writes and closes; the theorems hold for every choice of both.
- **Data left out.** Names and port numbers that nothing compares, `link` and
  `clientfd_on_server` (never read), the connectors of terminals. `dup`, `dup2` and `dup3`
  (`pipe.c`) make a second file on the same buffer without the socket, the flags and the action of
  the first, in memory that is not cleared; what such a copy does is undefined and not modelled.

### DsRpc and Rpc

`DsRpc` uses the actions of `Socket` as system calls: process 0 is init, 1 the server, the
others are clients. `spc` and `cpc` say which system call comes next in each program;
what a program computes between two calls belongs to the step before. Clients may end in
the middle of any call, and nothing is closed for them. Requests are told apart by what
the library waits for and whether `dsProcedure` answers: `create` (answered), `text`
(answered; the wait loop also ends on `ACTION_NULL`), `draw` (not answered; the server sets
`ACTION_NULL`) and `quit` (as `draw`, and it sets `IsTimeToQuit`: the asynchronous requests 1
and 88). At its next turn a server that is to quit leaves its loop, closes its socket and ends
(`ServerQuit`); the port still names it, so clients can connect and wait. Not among the kinds
are message codes that no function of the library sends (`GWS_Quit` among them), for which
`dsProcedure` leaves `NoReply`, a static variable, as the request before set it. `on` is the connection whose action the server looked at, and `crossed` says
that it then read, wrote or set the action of another one, because a `connect` replaced
descriptor 31 in between.

`Rpc` knows only the phase of each client's call: idle, asked, served, gone. `Phase(c)` maps
a client to it: a call is *asked* while its request is in the buffer and *served* from the
moment the server took it out. `crossed` maps to `broken`, after which `Rpc` promises
nothing.

## 3. Runs

| run | instance | shows |
|---|---|---|
| `sched_life` | 3 user tids, 2 user pids; create, start, clone, exit of threads and processes, fault, mistakes included | `OneRunning`, `CurrentIsValid`, `DestroyedStaysDestroyed` |
| `sched_event` | 2 user tids, 2 messages; post, broadcast, display server, callback, wait, exit, fault | `OneRunning`, `RoundGoesForward` |
| `sched_turn` | sleep, quantum services, credits, foreground thread, both locks | `TypeOK`, `RoundGoesForward` |
| `sched_sound` | programs that make no mistakes: yield, sleep, post, wait, clone, exit, with faults and failed clones; `SchedTurns` | `StopsOnlyWhenFull`, `ImplementsRoundRobin` |
| `sched_live` | yield, sleep, post, clone by init and exit, under fairness | `SwitchEnds`, `NoStarvation`, `SleepersWake` |
| `msg_ring` | ring of 3, 6 posts, both services, all indices and restarts | `TypeOK`, `ExactlyOnce`, `DeliveredInOneTurn` |
| `sock_calls` | 2 processes, 2 descriptors and 31, 3 sockets, lists of 3 cells; init serves, its clone connects, writes, resets and closes | `TypeOK`, `BufferDirection`, `EnqueuedOnce`, `ServedEveryTurn`, `DropsOnlyWhenFull` |
| `ds_rpc` | server with a pending list of 1 or 2 cells (so one that overflows), 2 clients, all kinds of requests, exits; under fairness | `AnsweredToAsker`, `ImplementsRpc`, `Answered` |
| `init_wakes`, `zombie_destroyed`, `msg_fifo`, `ds_crossed` | smallest instance that shows it | a comment and the code disagree, section 5 |

What the properties say:

- `OneRunning`: only the thread on the processor is RUNNING, and none is while the
  switcher is choosing.
- `CurrentIsValid`: whenever a tick can arrive, the current thread is a live structure.
- `DestroyedStaysDestroyed`: no step revives a destroyed thread or reuses its slot.
- `RoundGoesForward`: the switcher's next pointer goes up in tid order or ends the round.
- `StopsOnlyWhenFull`: sound programs reach no panic but one, a clone that finds every thread
  slot taken (`thread.c:1376`).
- `ImplementsRoundRobin`: `SchedTurns` is a refinement of `RoundRobin`.
- `SwitchEnds`, `NoStarvation`, `SleepersWake`: the search loop ends, READY threads run,
  sleepers wake.
- `ExactlyOnce`: the queued messages are exactly those in the slots, one slot each, and
  the receiver has each delivered message once.
- `DeliveredInOneTurn`: after as many polls in a row as the ring has slots, a message has
  been delivered or overwritten, wherever earlier reads left the indices.
- `BufferDirection`: the flags of a buffer agree with what is in it: it is writable only when
  empty and, but for a request 217, readable only when full. So the panic of `__read_imp` needs a request 217, and the branch
  of `__write_imp` that wakes `tid_waiting` is never taken.
- `EnqueuedOnce`: a client is in one pending list, once.
- `ServedEveryTurn`: a client in the list is returned at least once in every `backlog_max`
  accepts, whoever closed or failed meanwhile.
- `DropsOnlyWhenFull`: `connect`, which does not look at the cell it writes, overwrites a
  client only when no cell is free (or `listen` changed a list in use).
- `ImplementsRpc`: `DsRpc` is a refinement of `Rpc`.
- `AnsweredToAsker`: until `crossed`, an answer lies only in the connection of the client
  it is for.
- `Answered`: a client that waits for the server does not wait for ever while it stays in the
  pending list and the server in its loop. The exemptions are the ways the code has to leave
  a client waiting: a `connect` overwrote its cell in a full list (`Dropped`), the server quit
  or never got its socket, or something `crossed`. Without the first or the second TLC finds
  the property violated in this instance, so both happen in it.

**Bounds.** Two user threads plus init are enough for a spawn, a responder and a round to
compete; `sched_life` has three so that one process can have two threads while another
is cloned. A round is then the idle thread, a middle and an end. `sched_sound` has more pids than
tids, as the code has (1024 process slots, 924 slots for user threads), so that the full
thread table is reached. `Q1 = 1` is the code's value of the normal quantum (the multiplier is 1), and
`Q3 = Q4 = QMax = 2` keeps the two cases the switcher tells apart, in quantum and out of
quantum; `QBoost = 1` stands for the 88 above `QUANTUM_MAX`. `MaxEvents` bounds posts:
two are needed for one to replace the other as responder. A ring of 3 with 6 posts goes
round twice. In `sock_calls` a list of three cells has the cell at `backlog_max`, the wrap
and a cut-off cell after `listen`, and three sockets are one server and two clients, or two
servers and a client in either; process 1 starts as a clone and shares descriptors. In
`ds_rpc` two clients are what it takes for a connect to fall into the other's call, or, with
`Backlogs = {1, 2}` and a list of one cell, to overwrite the other in the pending list as the
ninth client does in the code (`SERVER_BACKLOG` is 8); `MaxTries = 2` has both a retry and a
last attempt. `ds_rpc` and `ds_crossed` do not check deadlock: a server that quits or gets no
socket ends, and then nothing need move.

**What is outside `sched_sound`.** Its programs have one thread per process and an init
thread that does not sleep. With a second thread, a fault of one leaves the other without
a process, and its next dispatch stops the kernel; `sched_life` and `sched_event` allow
this and check what holds all the same.

**Fairness** (`FairSpec`). `WF` on the timer handler: the PIT keeps interrupting and a
handler keeps running. `SF` on the two unlock services: the init program calls them at its
start (`core/deps/ucore/init/main.c:1071`), but ticks come in between, so weak fairness
would not let it get there. Nothing else is fair: a program need not call anything.
Posts are finite in a behaviour (`MaxEvents`), so `NoStarvation` says that rounds cut
short by messages do not starve a thread *once the messages stop*; a program that posts
for ever is outside it (`ipc.c` itself asks whether such a program starves the others).

`DsFairSpec` adds `WF` on the server's next step and on the next step of a client that is
inside a call: a READY process runs again (`NoStarvation`), and neither program blocks.
Opening the display, making a request and ending are not fair: a client need do none of
them.

## 4. Proofs

`SchedProofs` proves, from `SizeAssumption`, `QuantumAssumption` and `StrayAssumption`
only (at least one user slot; quanta ordered `Q1 <= Q3 <= Q4 <= QMax`; the stray pointer
leads to a slot or nowhere):

- `Invariance`: `Spec => []IInv`
- `TypeCorrect` (`TypeOK`), `MutualExclusion` (`OneRunning`), `CurrentThreadValid`
  (`CurrentIsValid`), `NoResurrection` (`DestroyedStaysDestroyed`).

`IInv` is `TypeOK /\ InitAlive /\ OneRunning /\ CurrentIsValid`. None of its last three
parts is inductive alone. A fault and a failed search fall back on the init thread, so
`CurrentIsValid` needs that it is never destroyed (`InitAlive`). A dispatch makes a thread
RUNNING, so `OneRunning` needs that nobody is RUNNING while the switcher chooses, and that
in turn needs that preemption acts on the RUNNING thread, hence a valid current thread.
The proof goes bottom up: one lemma per operator on the thread table (`PostedStep`,
`DispatchedStep`, `RoundThreadSwept`, ...) shows that it keeps types and used flags and
makes at most the named thread RUNNING; one lemma per action (`Irq0Inv`, `ZeroGravityInv`,
`copy_processInv`, ...) then gives `IInv'` and `NoReturn`, from which `NoResurrection`
follows. `LeastInSet` shows that the code's first-free-slot searches find a slot.

`SchedRoundProofs` proves `RoundsGoForward`, `StartedOnce => (Spec => []RoundGoesForward)`.
`StartedOnce` says that no program hands `core_start_thread` a thread that already was
started. It is needed: such a thread becomes STANDBY while it is linked in a round, and spawn
then writes the init thread into its `next`, which bends the list back. All runs but
`sched_life` satisfy it. `RoundGoesForward` speaks of the thread at `currentq`; the inductive
`RoundInv` speaks of every thread that the switcher could come to (`OnTheWay`: the head, the
one it is at, and every target of a `next`), and says of each that its `next` leads forward or
nowhere *and* that it has had its first run, so that spawn will not write it.

`SchedSoundProofs` proves `KernelStopsOnlyWhenFull`, `SoundPrograms => (Spec =>
[]StopsOnlyWhenFull)`. `SoundPrograms` lists what programs must not do: make a second thread
in a process, start one twice, post to a tid without a thread, let init exit, sleep, wait or
fault, or be a display server; the programs of `sched_sound` satisfy it. `SoundInv` negates the
condition of each panic: a thread in use is the control thread of a process in use (so
neither a dispatch nor a service finds a process gone, and clone is called by the control
thread); a STANDBY thread was never saved (spawn stops on a saved one); the init thread is
READY or RUNNING (a fault dispatches it); the thread on the processor is not STANDBY; there is
no display server. Making it inductive needs that no helper on the thread table puts
a thread back into a fresh state or changes its owner; this is `Onward`, proved once for
each helper in `SchedRoundProofs`. The panic that remains is real: thread slots are never
freed (section 5, `zombie_destroyed`), so the clone after the last slot stops the kernel.

`SchedTurnsProofs` proves `SwitcherImplementsRoundRobin`, `StartedOnce => (TurnsSpec =>
ImplementsRoundRobin)`. Its invariant `DueInv` (`LinksAreTheRound`) ties pointers to round: every
due thread is above `currentq`; from `currentq`, and from each due thread, `next` is the least
due thread above it, or NULL; and none of them is fresh. The steps outside the switcher keep
it because they write `next` only in fresh threads (`RoundKept`); a turn keeps it because
removing the least due thread does not change who follows the others; a round establishes
it because it links exactly the threads it leaves READY. With `DueInv` each action of `Sched`
maps to one abstract action: the four branches of `ZeroGravity` to `Alone`, `Respond`,
`NewRound` or `Refuse`, `Turn`; `Retry` to `NewRound` or `Refuse`; `DispatchCurrent` to `Dispatch`;
everything else to `Away` or to no step. That a spawned thread is outside the round is where
`IInv` and `DueInv` meet. `Refuse` (a locked scheduler makes no round) is not reached by
`sched_sound`, whose programs never lock again; the proof covers it.

`MsgQueueProofs` proves `DeliveredAtMostOnce` (`ExactlyOnce`), `IndicesInRange` (`TypeOK`) and
`OneTurnDelivers` (`DeliveredInOneTurn`) for every ring size, number of posts and kind of
reader. `ExactlyOnce` needs `Fresh`, that a message not yet posted has no fate: a post must
not hand out a number that a slot or the receiver already has. `DeliveredInOneTurn` needs
`InReach`: the polls a queued message has seen plus the slots between the head and its own
stay below one turn. Every poll moves one from the second to the first, and a post starts
at zero.

`SocketProofs` proves from `SocketAssumption` (at least one process and descriptor,
`DefaultMax` from 1 to one less than the array, 0 among the actions), for any sequence of calls:

- `TypeCorrect` (`TypeOK`): no index leaves the array, also where `accept` reads one cell past
  the bound;
- `BufferHasOneDirection` (`BufferDirection`), inductive with the types;
- `EnqueuedAtMostOnce` (`EnqueuedOnce`), with `Taken`: a client in a list is no longer
  UNCONNECTED, so it cannot connect again;
- `OneTurnServes` (`ServedEveryTurn`), with an `InReach` of the same kind as for the ring; that
  `accept` returns the client it reaches rests on `FirstIsReturned`;
- `OnlyAFullListDrops` (`DropsOnlyWhenFull`), with `Filled`: cells fill from 1 up to the tail,
  cell 0 last, and then stay full.

`DsRpcProofs` proves `DisplayServerImplementsRpc`, `DsSpec => ImplementsRpc`, from `DsAssumption`
and `SocketAssumption`. Its invariant `DsInv` has five parts: the types; `Places` (init has no
descriptors, the server its socket in the first until it quits, each client its own in the second, no two
the same); `Linked` (pending lists and descriptor 31 name only sockets of clients); `Unmade`
(sockets not made yet are empty); and `Protocol`, which says what connection and action hold
at each point of a call (`CallOk`) and that a server in the middle of a request works for a
client that waits or has ended (`Engaged`), as long as nothing `crossed`. `Engaged` is what
makes a request be carried out for one call only: a client cannot leave its wait loop while
the server is on its connection, because no loop ends on `ACTION_REQUEST`. Each step then
maps to one step of `Rpc` or to none: sending to `Ask`, the server's read to `Serve`, the end of
a call to `Return`, an exit to `Leave`, a crossing to `Break`. `AnswersReachTheirAsker`
(`AnsweredToAsker`) adds `Own` to `DsInv`: what lies in a client's connection is its own
request or the answer to it, and the client whose request the server holds is the one
behind the connection it looked at.

**Only model-checked.** The liveness properties `SwitchEnds`, `NoStarvation`, `SleepersWake` and
`Answered`: fairness is beyond the prover. Every invariant and action property of the
passing runs is a theorem.

## 5. Where comments and code disagree

| run | the comment | the code |
|---|---|---|
| `init_wakes` | `sched.c:429` "Wake up init thread." | wakes the thread of an unassigned pointer; a sleeping init thread stays WAITING |
| `zombie_destroyed` | `thread.c:740` another routine destroys zombies | the exit branch leaves the loop body before the one that destroys (`sched.c:490`) |
| `msg_fifo` | `wminput.c:719` "respecting the circular queue" | polling an empty ring moves the head past the tail (`ipc.c:665`), order is lost |
| `ds_crossed` | `socket.c:618` the server writes to the descriptor `accept` returned and that client reads it | the descriptor is always 31 and any `connect` replaces what is behind it (`socket.c:1816`); the answer goes to the new client |

Three more, without a run of their own: `sched.c:466` says that a ZOMBIE is not selected any
more, but a post makes it READY (`ipc.c:212`); `schedi.c:800` says that `__task_switch()` will
call `sleep_until()`, but it does so only while the thread is in quantum, which a quantum of
one tick never is (`ts.c:399`); `socket.c:1386` and `1882` say that new connections are rejected
when the queue is full, but `connect` overwrites the oldest client of a full list, which `accept`
never returns again (`socket.c:1391-1404`). The last is what `DropsOnlyWhenFull` and `Answered` leave
room for.

The crossing of `ds_crossed` has a quieter form that explains the exemption in `Answered`: if a
client connects and sends between the server's look at the action of another connection and
its read, the server carries out the new request before its client has set
`ACTION_REQUEST`; the client then sets it, and waits for an answer that was already given.

## 6. Not modelled

The repository has about 540,000 lines; most of them are copies of the C runtime and of the
window manager in each user tree, demos, drivers and drawing code, which keep no state that
two actors share. Of the kernel's own logic:

- FAT16, memory pools and network protocols are planned (below).
- Pipes: both searches of `sys_pipe` (`pipe.c:317-336`) find the same free slot, against the
  comment at `pipe.c:257`; what follows is one file under one descriptor.
- Regular files, ttys and the console copy data; nothing reads the waiters they record.
- In `socket.c`: `bind` stores a name that nothing compares, `socketpair` and `ioctl` do
  nothing; the internet family does the same as
  the local one once the target process is known.
- The user-level gate (services 226 to 228): the library itself calls it a spin lock that is
  not atomic, so there is nothing to check it against.
- What a request draws, and the display server's input loop; its reader is the reader of
  `MsgQueue`.
- Graphics, drivers, HAL tables and the boot loader: device I/O, drawing, or sequential
  start-up whose result is `Init`.
- `queue.c` and `schedq.c` keep lists that no decision reads at this commit, and nothing calls
  the dead-thread collector of `tlib.c`.

Of the modelled parts the following is left out: address spaces and image contents in
`clone.c`, scan code translation and console commands in `ibroker.c`, packets in `net.c`,
payloads of requests.

## 7. Plan

Done: scheduler with its round robin, message rings, sockets, display server protocol, and
the refinements of the first and the last. Next:

1. Processes: clone with its failure points, exit of a process, threads of a destroyed
   process, the lost exit of a STANDBY thread.
2. Heap and page pools (`heap00.c`, `mmpool.c`); FAT16 chains and the FAT cache.
3. Input broker and console rings; ARP table, DHCP exchange and UDP buffers.
4. Theorems: the rings of all threads together as mailboxes that `MsgQueue` implements, an
   abstract bounded list for the pending connections of `Socket`.
