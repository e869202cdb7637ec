# CS2RemoteConsole in TLA+

A model of the concurrent core of CS2RemoteConsole: the control server, the
client's link to the Counter-Strike 2 console, the client's link to the
control server, the byte streams that pass over both, and the client's user
interface. The modules are model-checked with TLC on small instances, and their
safety properties are proved with TLAPS for instances of any size.

Paths are relative to the repository (`server/` stands for
`CS2RemoteConsole-server/src/`, `client/` for `CS2RemoteConsole-client/src/`).

## The system

| Component | Files | State | Operations | Talks to |
|---|---|---|---|---|
| Control server | `server/server.cpp`, `server.h`, `client_handler.h`, `main.cpp` | `m_clients` (a `std::vector` under `m_clientsMutex`), listening socket, `m_port`, `applicationRunning`, stdin | `start`, `run`, `acceptClients`, `handleClient` (a detached thread per client), `userInputHandler`, `broadcastToClients`, `removeClient`, `cleanupSockets`, `signalHandler` | clients over TCP, the operator over stdin |
| CS2 console link | `client/connection/connection_cs2console.cpp`, `libvconsole/src/vconsole.cpp`, `vconsole.h` | `cs2ConsoleConnected`, `listeningCS2`, `running`, the handle `cs2ListenerThread`, `VConsole::clientSocket` | connector loop, listener loop, `sendPayloadToCS2Console`, `cleanupCS2Console` | the game over TCP; callbacks into the UI and `handlePRNT` |
| Remote server link | `client/connection/connection_remoteserver.cpp`, `handlePRNT` in `client/main.cpp` | `remoteServerConnected`, `listeningRemoteServer`, `remoteServerListenerThread`, `remoteServerSock`, `globalClientInfo.name` | connector loop, listener loop, `sendMessageToRemoteServer`, `cleanupRemoteServer` | the control server over TCP; hands commands to the CS2 link |
| Console UI | `client/tui/` | messages and channels under two mutexes, dirty flag, scroll position, colour cache | `addConsoleMessage`, `registerChannel`, drawing, input | all threads of the client, through callbacks and the log sink |
| VConsole protocol | `libvconsole/src/` | where the reader is in the console's stream | `readChunk`, `processIncomingData`, `processPacket`, `createCommandPayload`, `sendCmd`, the parsers | bytes of the CS2 link |
| Configuration, platform layer, unused `client_handler.cpp`, vendored spdlog/PDCurses, builds | | | | |

A command travels operator → `broadcastToClients` → socket →
`listenForRemoteServerData` → `sendPayloadToCS2Console` → socket → game. The
player's name travels the other way: game → `handlePRNT` →
`globalClientInfo.name` → `PLAYERNAME:` message → `handleClientMessage`.

What is hard here:

* Server: handlers hold C++ references into a vector that grows and erases;
  `removeClient` finds entries by a descriptor number that may have been given
  out again; a client may be registered after the clean-up; a signal has to wake
  a thread blocked in `getline`; a peer that resets its connection in the middle
  of a broadcast.
* Links: three threads share flags, a thread handle and a socket variable with
  no lock. A listener that ends late clears the flags of the next link. `join`,
  `recv` and `connect` block, and the clean-up has to end all the same.
* Name: two threads send it, each if the other came too early.
* Streams: `recv` returns any part of what was sent. The console's chunks carry a
  length, which `readChunk` does not use to put them together again; between
  client and server nothing separates one message from the next.
* Port search: a 16-bit counter that is tested after it may have wrapped.
* UI: two mutexes taken in both orders through the log sink, a dirty flag that is
  cleared after drawing, a signal handler that logs.

Every such place is listed with its line under `hazards` in `PROJECT.json`, with
the properties that cover it.

## Modules

| Module | Models |
|---|---|
| `RemoteServer` | the control server: port search, main thread, accept thread, handlers, signals, peers |
| `SocketLedger` | what the server promises of connections, with no threads and no descriptors |
| `RemoteServer_proofs` | its inductive invariant and five theorems |
| `RemoteServerRefs_proofs` | what becomes of the handlers' references: an invariant on top of that one and four theorems |
| `RemoteServerLedger_proofs` | `RemoteServer` implements `SocketLedger` |
| `Cs2Link` | the link to the CS2 console: connector, listener, main, the console |
| `Cs2Link_proofs` | its inductive invariant, four theorems, and that `Cs2Link` implements `ThreadHandle` |
| `RemoteLink` | the link to the control server: connector, listener, main, `handlePRNT`, the server |
| `RemoteLink_proofs` | its inductive invariant, five theorems, and that `RemoteLink` implements `ThreadHandle` |
| `ThreadHandle` | what both links promise of the listener's thread and its `std::thread` handle |
| `Tui` | the user interface: main thread, the CS2 listener's callbacks, the log sink, the signal handler |
| `Tui_proofs` | its inductive invariants and five theorems |
| `VConsole` | the console's protocol on one link: reading chunks, writing commands |
| `Relay` | extends `VConsole` with the link to the server and the server's handler: what passes through the client |
| `Relay_proofs` | inductive invariants of both and seven theorems |
| `MCRemoteServer`, `MCCs2Link`, `MCRemoteLink`, `MCTui`, `MCRelay` | constants of the TLC instances |

`PROJECT.json` maps each definition to the lines it stands for. Operators whose
comment begins with *Fault* are wrong variants of the definition that follows;
no specification uses them. They are there to show that the properties would
notice such a bug.

### RemoteServer

Each thread has a program counter (`mainPc`, `acceptPc`, `handlerPc`), and one
action per step that another thread can tell apart. A section under
`m_clientsMutex` is one action. What the code does to the list outside the mutex
has actions of its own: a handler's reads of `client.socket` and its write of
`client.name`. `userInputHandler` tests `m_running` once, at server.cpp:217
(`TakeLine`); what it then does with the line, `SendCommand` included, does not look at
the flag again, and a signal may have cleared it meanwhile.

The vector is modelled as memory: `slots` is the storage, `size` the number of
elements, `capacity` names the storage, since it changes exactly when the storage
does. A handler's `client` is a pair of storage and index. Hence

* `erase` shifts later clients down (`EraseAt`) and a reference then denotes the
  neighbour or an unused slot, whose integer is still there;
* growth frees the storage: a reference into it reads any integer (`Deref`), and
  using its strings may end the process (`StringCrash`);
* `clear` keeps the storage, `~Server` frees it (`capacity` 0).

`Server::start` is the first part of the main thread: `socket`, `bind` (possible on
the ports `FreePorts`), `listen`, each with its failure, and `m_port++` on 16 bits
(`NextPort`). The counter wraps before its test can be true, so the branch that
reports "Exhausted all available ports" is never taken: the search goes on with
port 0, which the kernel takes for "any". The server then listens on a port of the
kernel's choice and reports 0, where the source's message says that it fails to start.
That is a disagreement of code and message; `FirstFreePort` does not bless it, and
speaks only of searches that find a port before the counter wraps. `address` is the
port the listener has, `port` is `m_port`, the one the server reports.

Using a name while another thread changes it may end the process as well
(`NameRace`). The kernel is `fdTable` (the connection behind each descriptor),
`peer` (a connection's life), and `inbox` (at most one unread message per
connection). Closing frees the number at once, and `Accept` takes any free number.

Abstractions. Reading `client.socket` and the system call on it are one step, so the
descriptor cannot be closed between the two. Peers drain their receive buffers, so
`send` never reports EAGAIN. Messages have two kinds: `PLAYERNAME`, which has an
effect, and any other, which is only printed. Output, client addresses and connection
times are left out. After `~Server` the handlers run on until the process ends;
locking the destroyed mutex is taken to work as before. A port that is taken stays
taken, and the command line is the constant `InitialPort`. The model's accept thread
takes no connection while `MaxClients` are listed (`CanAccept`): the code has no such
limit, it is a bound of the instance, and every theorem holds for any value of it. The
listening socket and those of clients have descriptors of their own, since only the
latter are given out again.

### SocketLedger

The abstract server: a connection is waiting, open or closed. `Admit` opens one,
`Drop` closes one, `Sweep` closes all but at most one (the client that is being
accepted while `run` shuts down), and `Finish` closes everything for good. Each
connection is therefore open once, and nothing is open or opens after the end,
although the handlers are detached and outlive the server. `RemoteServer` maps its
state to it with `Status` and `Over` (`Ledger == INSTANCE SocketLedger WITH ...`), and
`ImplementsLedger` is `Ledger!Spec`.

### Cs2Link

The connector tests `running` and the connected flag on two lines, and so in two steps
(`ConnectorLoop`, `TestConnected`); the clean-up may run in between, in which case the
code goes on to dial and starts a listener nobody joins. `join` is tested for and
called in two steps as well (`TestJoinable`). A blocking call is two actions: the
call, which reads the shared variable, and its return; `waiting` holds the socket each
thread sleeps on. `shutdown` wakes whoever sleeps on the socket. `sock` is the
kernel's state of each descriptor, `pending` says that a chunk has come. `isConnected`
blocks as `recv` does, since the code never makes this socket non-blocking: `MSG_PEEK`
alone does not. A second `socket()` overwrites `clientSocket` and leaves the first one
open. `disconnect` is two actions, closing and forgetting.

Abstractions. A chunk is read whole or not at all (`VConsole` has the framing). In
`connect`, closing a failed socket and forgetting it are one step. The retry delay and
the pauses of the loops take no time. The sends of the link (`sendCmd`, the sanity
check) change nothing the module keeps. `setOnDisconnected` is only called by
`initializeCS2Connection`, which nothing calls. `InvalidJoin` is `join` on a handle
that another thread is in `join` on, or has joined since it was found joinable; it
ends the process.

### ThreadHandle

The abstract listener of a link: a thread, a handle and the process. `Start` needs an
empty handle and no running thread, `Join` a thread that is over, `Finish` an empty
handle; `Abort` (`std::terminate`, for a handle that is destroyed while in use, or an
exception out of an invalid `join`) comes only after shutdown has begun. Both links
map to it with `Thread` and `Process` (`Handle == INSTANCE ThreadHandle WITH ...`),
and `ImplementsHandle` is `Handle!Spec`. What it leaves out is what makes the links
hard: flags that are cleared by the wrong thread, sockets that are abandoned, a
connector and a clean-up that both join.

### RemoteLink

As `Cs2Link`, with the same two tests in two steps (and `CleanupTests` for the
clean-up's own test of the socket), except that the listener polls: it makes its
socket non-blocking, and `close` without `shutdown` wakes nobody, which only `connect`
could need. The listener closes whatever `remoteServerSock` holds when it ends, in two
steps, and so does the clean-up, so each may close the other's socket or the
connector's new one. `handlePRNT` stores the name in two steps; a connector that reads
it in between gets an empty, a whole or a torn name (`tellTorn`). `told` records the
sockets the whole name was sent on.

Abstractions. A failed `connect` closes and forgets in one step. `SIGPIPE` on the
client's sends is left out. The listener's relay to the CS2 link and its
receiving nothing are the same step.

### Tui

Three kinds of threads: the main thread in `TUI::run`, the CS2 listener, whose
callbacks add messages and register channels, and threads that only log. A
thread's `pc` is what it is about to do. Adding a message is a procedure called
from four places, one of them the signal handler, so each thread has a `stack` of
the places it goes on at: `Call` and `Return`. A log line takes the sink's mutex
and then, in the callback, `m_consoleMutex`; drawing takes `m_consoleMutex` and then
`m_channelsMutex`; registering takes `m_channelsMutex`, and logs with it held when
the colour pairs have run out. Each lock is an action that waits for its mutex.

`dirty` is `m_consoleDirty`; `unshown` is the model's own and says that the last
message has not been drawn. Messages and channels are their colours. A colour pair
is taken (`TakePair`) and cached (`CachePair`) in two steps. The count is a `short`,
which `Incremented` wraps from `MaxShort` to its most negative value; `NoPair` marks a
colour that is not in the cache. `registerChannel` looks
in the cache under the bare colour, while `initializeColor` stores under colour and
background combined, so that `ChoosePair` finds nothing there and warns as soon as
the numbers are used up, whether the colour has a pair or not. `Signal` puts
`signalHandler` on top of whatever a thread is doing, where `SignalAt` allows it.

Abstractions. The 16 ms between two drawings have always passed. Sizes are read
without the lock as the code does (`SizesRead`: any size while a message is being
added). Visible messages get their pairs in any order. The input line, the windows,
the height after a resize, mouse scrolling by three lines, text and what
`m_channels` holds are left out; so are the numbers of extended colours.

### VConsole

The console's stream is the chunks `1..N` end to end, and a byte is its offset in it,
so the module needs no byte values: `taken` bytes have been read, and a header is one
of chunk `i` exactly if it was read at `Start[i]`. Any other header is garbage, with
any length and any type. `ReadHeader` and `ReadBody` are the two `recv` calls of
`readChunk`, and each may return less than it asks for (`shortRead` remembers that one
did); the function then gives up what it read and `listenForCS2ConsoleData`, finding
the link connected, calls it again. `ReadGarbage` is a body read behind a garbage
header; it is dispatched like any chunk, so that garbage whose first bytes read `CHAN`
hands on records (`registered[0]`, of which one stands for any number) and, in
`Relay`, garbage that reads `PRNT` may give a name. `ReadOverruns` is what a length
below the header's size does: the subtraction wraps, and the header is copied over the
end of the buffer. Asked for no bytes, `recv` waits for the next one on Linux, so a
chunk with an empty body is processed only when the next one arrives.

`registered` is what `parseCHAN` hands on. A `Channel` takes 60 bytes in memory and 58
in the stream (six words and a name of 34), so the count `(58 * k) \div 60` falls
short of `k` (`LastChannelLost`); it never exceeds it. `ChannelsInside` adds that the
records came of a chunk that was read whole, and of other bytes only after a short
read.
`createCommandPayload` is `Truncated`, `FrameSize` and `Frame`, with the length field
modulo its size.

### Relay

Down the link, the server's `send` calls append to a stream in which a byte is again
its offset; `lines` keeps the kind of each call (a command of the operator or an
announcement) and where it ended, `relayed` what each `recv` of
`listenForRemoteServerData` took and whether it was run. Up the link the text matters,
because `handleClientMessage` looks for a colon: `up` is the characters under way,
with `PLAYER` and `NAME` standing for their letters, so that the prefix, too, may be
cut. `ReadConsole` is a step of `VConsole`'s reader with `onPRNTReceived`: a PRNT that
carries the name makes `handlePRNT` store and send it, and so does garbage that reads
like one (`GarbageNames` are what it may yield). `Greet` is the connector, once the
listener is started. `RelayCommand` and typing both end in `SendCmd`. `connected` is
`cs2ConsoleConnected`: the console may connect after the server and may be lost, and
what `listenForRemoteServerData` receives while it is not connected is dropped by
`sendPayloadToCS2Console` (`Passed`). When the link to the server closes, what was under
way in it is forgotten; the name the client keeps is not.

Abstractions. Who may race whom on the flags and sockets of the links is the subject
of `Cs2Link` and `RemoteLink`; here a link opens and closes in one step, and the
console is not reconnected once it was lost. `handlePRNT` is one step. The game's own
replies to commands are not modelled.

## Checks

All runs take at most about three minutes with two workers.

| Run | Instance | Shows |
|---|---|---|
| `server_safety` | 2 clients, `PLAYERNAME`, SIGPIPE, ports 1 to 3 of which 2 and 3 are free | `TypeOK`, `SocketsAccounted`, `DestroyedMeansClosed`, `FirstFreePort`, `ImplementsLedger`, `ReferencesLostOnlyByMoves`, `OnlyLostHandlersDropClients`, `OpenClientsAreSent` |
| `server_single` | 2 connections, 1 client at a time, all lines and messages, SIGPIPE, no port free from the given one up, fair | `GoneClientsReaped`, `ShutdownCompletes` |
| `server_hub` | 2 clients | **violated**: `CommandsReachAllConnected` |
| `server_sigpipe` | 1 client at a time, SIGPIPE | **violated**: `ClientsCannotStopServer` |
| `cs2_link` | 2 descriptors, fair | `TypeOK`, `ConnectedIsListenedTo`, `SpawnFindsNoHandle`, `ImplementsHandle`, `SettledCleanupFinishes` |
| `cs2_loss` | 2 descriptors, fair | **violated**: `LossIsNoticed` |
| `remote_link` | 2 descriptors, fair | `TypeOK`, `ConnectedIsListenedTo`, `SpawnFindsNoHandle`, `ServerKnowsName`, `ImplementsHandle`, `LossIsNoticed`, `SettledCleanupFinishes` |
| `relay` | 3 chunks, a console that connects late or is lost, 2 links to the server, 1 line of 2 bytes per link, a buffer of 2, fair | `TypeOK`, `InStep`, `FramesDelimited`, `ChannelsInside`, `NameIsThePlayers`, `NameIsDelivered`, `LinesAreRelayed`, `ChunksAreProcessed` |
| `relay_commands` | the same, 1 link, 2 lines of 1 or 3 bytes of either kind, a buffer of 4 | **violated**: `OnlyCommandsRun` |
| `tui` | 2 colours, pair numbers up to 3, after which the count wraps, 2 messages, signals at `input`, fair | `TypeOK`, `PairsAccounted`, `OnlyWarningsDeadlock`, `OperationsEnd`, `DirtyIsDrawn` |
| `tui_pairs` | no pair left, fair | **violated**: `DefaultColourGiven` |
| `tui_signal` | signals anywhere, fair | **violated**: `SignalStopsLoops` |

**Properties that hold.**

* `SocketsAccounted`: the open client sockets are exactly those in `m_clients`
  and the one between `accept` and `emplace_back`; none is listed twice. It holds
  however wrong the handlers' references are, because `removeClient` closes and
  erases the same entry under the lock. What goes wrong is *which* entry.
* `DestroyedMeansClosed`: a client registered after the clean-up of `run` is
  closed by `~Server`.
* `FirstFreePort`: when some port from the given one up is free, the server takes the
  first of them and reports the one it took. It promises nothing of a search that
  finds none, where the code and its message disagree (see `RemoteServer` above).
* `ReferencesLostOnlyByMoves`, `OnlyLostHandlersDropClients`: how a client comes to be
  dropped although it did not leave. A handler starts on its own client's entry; it
  loses it when the storage moves, or when that entry or one before it is closed; and
  only a handler that lost its client drops another's. So growth and erase are the
  only causes of what `server_hub` shows.
* `OpenClientsAreSent`: whatever happened to the vector, a command is sent to every
  client that has a handler and whose connection is up, also when a signal came between
  the test of `m_running` and the broadcast. What a client can miss a command by is
  being dropped before.
* `ImplementsLedger`: what the two properties before say of states, said of whole
  executions: no connection is opened twice or reopened, whatever the handlers do
  after `~Server`. Joining the accept thread is what it hangs on.
* `ShutdownCompletes`: closing stdin in the signal handler is what makes it hold.
* `GoneClientsReaped`: with one client at a time, a handler notices that its client
  left and closes its socket. With two it need not, since its reference may show
  another's descriptor: see `server_hub`.
* `ConnectedIsListenedTo`, `SpawnFindsNoHandle`: in both links, a connected flag
  always has a listener that will clear it or a connector about to start one, and
  a thread handle is never overwritten while joinable.
* `ImplementsHandle`: what `SpawnFindsNoHandle` says of one step, said of whole
  executions: one thread at a time, joined when it is over and before the next, and
  an abort only in a shutdown.
* `ServerKnowsName`: the connector sets the socket and then reads the name,
  `handlePRNT` sets the name and then reads the socket; at least one sees the
  other.
* `LossIsNoticed` in `RemoteLink`: polling makes the difference to `Cs2Link`.
* `SettledCleanupFinishes`: the clean-up ends with every handle joined, when it begins
  while the connector neither opens a link nor has read `running` as set and is about
  to test the connected flag, and (in `Cs2Link`) no link was abandoned before. Otherwise it
  need not end: the connector may dial and
  start a listener after the clean-up looked for one, sleep in `connect` or
  `isConnected`, or join the same handle. In `RemoteLink` the step before the link is
  announced counts as opening.
* `PairsAccounted`: drawing and registering both hand out colour pairs, and
  `m_channelsMutex` keeps them from losing one or giving it to two colours, until every
  positive number of a `short` is some colour's; after that the count wraps and numbers
  repeat. `ColourPairs`, curses' own limit, is looked at by registering and not by
  drawing, as in the code.
* `OnlyWarningsDeadlock`: there is no set of threads in which each waits for a mutex
  that another one of them (or itself) holds, unless the listener is among them and is
  warning about a channel.
* `OperationsEnd`: what the listener begins (a PRNT, a channel or a log line) ends
  although it may need three mutexes, with the one exception of a channel that is warned
  about.
* `DirtyIsDrawn`: the loop does draw what the flag tells it about. What it loses are
  messages that find it between `drawWindows` and `m_consoleDirty = false`: they stay
  undrawn until another message, a scroll or a resize, which is why the property is
  about the other moments only.
* `InStep`: with whole reads the reader processes the chunks in order and stands where
  the next one begins; in particular it never sees a length below the header's size.
  After one short read all bets are off: it may misread the stream for good.
* `FramesDelimited`: truncation leaves room for header and terminator, so that the
  16-bit length never wraps.
* `ChannelsInside`: `onCHANReceived` is given no record past the end of a chunk or of a
  chunk that did not come whole, and none made out of other bytes before a short read.
* `NameIsThePlayers`: the messages of the connector and of `handlePRNT` may be cut or
  run together (then the server's name is cut, or goes on with `PLAYERNAME:...`), but
  what the server has agrees with the client's name as far as both go, and the client's
  is the player's until a short read lets garbage pass for a PRNT.
* `NameIsDelivered`: connector and `handlePRNT` between them tell every link the name.
* `LinesAreRelayed`: a byte the server sends while the console is connected is handed to
  `sendCmd`, unless one of the two links is lost first. What is received while the
  console is not connected is dropped, and the sender is not told; of that nothing is
  promised.
* `ChunksAreProcessed`: while the console is connected and no read was short, the
  listener catches up with the console again and again.

**Violations.** Each is a short execution that a comment or the README denies;
`PROJECT.json` quotes the line.

* `server_hub`: a client is connected and its handler running. A second one is
  registered, `m_clients` grows, and the first handler's reference is left in the
  freed storage. It reads some number there, takes its client for gone, and
  `removeClient` closes and erases an entry whose client is still connected. After
  an `erase` the same happens without any freed memory: a reference denotes the
  slot its neighbour moved into, or the one behind the last.
* `server_sigpipe`: a command sent to a client that is gone ends the server.
* `cs2_loss`: `connection lost` makes the connector clear the flags and reconnect
  while the old listener is still on its way out; that listener then clears the
  flags of the new link, the connector opens a third, and waits in `join` for a
  listener that sleeps on the abandoned second one.
* `relay_commands`: the server's "Player ... has joined the game." goes to the console
  as a command, and so does the end of one line with the beginning of the next. A mere
  piece of one command is run as well; the formula does not speak of it.
* `tui_pairs`: the listener warns with `m_channelsMutex` held and waits for
  `m_consoleMutex`; the main thread draws, holds that and waits for
  `m_channelsMutex`. Every thread that logs then waits too.
* `tui_signal`: the signal comes while its thread is in the sink or in
  `addConsoleMessage`; the handler's own log line waits for that very thread.

**Bounds.** `Conn`, `Fd` and `MaxClients` bound the server's instance. Two clients
are what it takes for references to alias, for an entry to shift and for the
storage to grow. The accept thread takes no
connection when `MaxClients` are listed (`CanAccept`). Ports 1 to 3 let a search start
below a port that is free; in `server_single` none is free from the given one up and
the counter wraps. A peer connects once per connection, and there are more connections than `MaxClients` in `server_single` so
that entries, and with two descriptors also numbers, are used again. In the links, `Sock` is the number of
descriptors; with two, a link can be abandoned and replaced, and numbers are
reused without bound, so no run of a link is cut short. `server_safety`
uses symmetry in connections and descriptors; the other runs do not. In `Tui`, two
messages in a window of one line are enough to scroll and to drop the oldest;
`ColourPairs` is 3, so that a channel is warned about once a pair is taken, and
`MaxShort` is 3, so that both colours get a number (drawing does not look at
`ColourPairs`) and the count wraps after the second.
In `Relay` sizes are scaled: headers of 2 bytes, bodies of 0, 1 and 2, so that
`recv` can cut both and garbage can be read at every offset; a chunk with no body, one
with two channel records and one that prints the name; a length field up to 4, so that
a command of 3 or a line of 2 comes to the limit and a command of 3 is truncated; a line
that one `recv` may return whole or in two pieces. The run has lines of one kind, since
the client cannot tell them apart; `relay_commands` has both. Two links let a name that
is known greet the second; the name is made of two `Characters`, and garbage may yield
another one; `MaxGarbage` bounds one
read behind a garbage header, and the stream ends after three chunks. Proofs cover any
layout.

**Fairness.** Weak fairness of each thread (the code's threads sleep a bounded time
and are scheduled), of the handlers one by one, and of the end of input once stdin
is closed. `connect` returns one way or the other, as TCP's timeouts guarantee. The
operator, signals, peers, the game and the server owe nothing. `StringCrash` and
`InvalidJoin` are never forced. In `Tui`, strong fairness of each thread's steps: a
thread that waits for a mutex which is released again and again gets it, since the
others sleep or block between two uses. In `Relay`, weak fairness of the console's
listener while the console is connected, the connector's greeting, the server's listener in the client (whether or
not the console is connected) and the handler in the server. Nobody is forced to print, to announce a
channel, to log or to press a key.

The server and the links may end in states where nothing more happens; `Terminated`
stutters there, so deadlock is checked. The runs of `Tui` and `Relay` do not check it.
The user interface really stops: in `tui` a channel may be warned about, in
`tui_pairs` it always is, in `tui_signal` a signal may find its mutex held. In `Relay`
the client may be ended by a read behind a garbage header, and the environment may
have nothing left to send.

## Proofs

The theorems hold for any values of the constants under the assumptions named in the
modules (`ConstantsAssumption`, `SockAssumption`, `LayoutAssumption`,
`CommandAssumption`, `RelayAssumption`): sentinels are not members of the sets,
bounds are positive, lines and messages are of the kinds the code distinguishes, ports
are within `MaxPort`, chunks start at least a header apart, the player's name is made
of `Characters`. Two theorems have a hypothesis of their own, for they are not true
without it: `NameIsPlain` and `SignalAt \subseteq SafePlaces`; each is explained below.

* `RemoteServer_proofs`: `IInv` adds to `TypeOK` and `SocketsAccounted` that there
  is room in the model's storage when the accept thread registers
  (`RoomToRegister`), that the accept thread is over once it was joined and not there
  before `run` (`JoinedIsDone`, `NotYetAccepting`), without which a client could be
  listed after `~Server`, that the list is empty from then on (`ListDestroyed`), that
  no connection is behind two descriptors (`KernelConsistent`), and that the ports
  passed over are taken (`PortSearch`). Lemmas say what `Register` and `EraseAt` do to
  the set of listed sockets; each action has a lemma for the shape of the state and
  one for the accounting. Theorems: `Invariance`, `TypeCorrect`, `LedgerCorrect`,
  `DestructorCloses`, `PortCorrect`.
* `RemoteServerRefs_proofs`: `RefInv` is inductive together with `IInv`. Storage only
  grows until `~Server` frees it (`StorageOnlyGrows`), so a dangling reference dangles for
  good; the entry of a handler's client is never behind the one its reference denotes
  (`EntriesMoveDown`). A reference that was lost is therefore never regained
  (`LostForGood`), and a handler about to remove the client it still serves has read that
  client's own end (`EndReadByItsHandler`). Theorems: `RefInvariance`,
  `ReferencesCorrect`, `DropsCorrect`, `CommandsCorrect`, the last three for the action
  properties of `server_safety`, for any number of clients and any growth and erase.
* `RemoteServerLedger_proofs`: every step, under `IInv`, opens one waiting connection
  (`Accept`), closes one (`RemoveClient`), sweeps, finishes, or leaves `Status` and
  `Over` alone. Theorem: `Refinement`.
* `Cs2Link_proofs`: `TypeOK`, `SpawnFindsNoHandle` and `ConnectedIsListenedTo` are
  inductive together; a free handle is why `SpawnListener` really starts a
  listener. Theorems: `Invariance`, `TypeCorrect`, `NobodyForgotten`, `HandleIsFree`,
  and `HandleFollowed`: every step of the link is a step of `ThreadHandle` or none. It
  needs `HandleInv` besides: the handle is empty only while no thread runs, and a
  connector that waits to join finds it in use unless `main` was faster.
* `RemoteLink_proofs`: the same, and for `ServerKnowsName` that the name is stored
  before `handlePRNT` sends it (`NamedFirst`) and that a torn name is followed by a
  whole one on the same link (`TornIsCorrected`). Theorems: `Invariance`,
  `TypeCorrect`, `NobodyForgotten`, `HandleIsFree`, `NameArrives`, and `HandleFollowed`.
* `Relay_proofs`: `ConsoleInv` is inductive under every step of `Relay`, the relayed
  commands included. Lemmas on the layout: chunks start in order and at different
  offsets, a body and its header fill what lies between two starts. Theorems:
  `ConsoleInvariance`, `ReaderInStep`, `CommandsDelimited`, `ParserInside`,
  `TypeCorrect`, and `LastChannelLost` on the arithmetic of `parseCHAN`. `ParserInside`
  rests on `InStep`'s invariant: a chunk that was read whole in step is in `processed`, and
  a garbage header is only read after a short read.
  `NameCorrect` proves `NameIsThePlayers`. Per link the name is sent at most twice, so
  what the server has not received is an end of two messages (`UpInv`: `up` is a suffix
  of `SentTwice`, of one message while the connector has still to greet, and empty
  before the name is known). Wherever `recv` cuts it, a text that starts with the
  prefix starts with one of the two messages, and what follows agrees with the name. Its
  hypothesis is `NameIsPlain`: the text of `PLAYERNAME:` occurs neither in the name nor in
  those that garbage may yield. A player who is called so can be cut in the middle of the name and be read as another;
  nothing in the protocol prevents that.
* `Tui_proofs`: a thread's stack has, under the places of `addConsoleMessage`, the
  sink and the signal handler (`Called`), exactly one place of its own work, `base`
  (`ControlOK`). A thread holds `m_channelsMutex` exactly while its base is one of four
  places (`HoldsChannels`), whatever was called or signalled on top; the pair it has
  taken and not cached is the one number the cache lacks (`PairsOK`, `AtCache`,
  `Pending`), until the numbers have run out (`RanOut`), which stays so. Theorems: `Invariance`, `TypeCorrect`, `ChannelsExclusive`,
  `PairsCorrect`, and `DeadlockFreedom`, which proves `OnlyWarningsDeadlock`. `WaitInv`
  says where a thread can be when it holds a mutex: `m_consoleMutex` exactly while it
  adds a message or draws (`HoldsConsole`), the sink's only inside its callback, and no
  place on its stack is inside either. Then sink, console and channels are an order in
  which every thread takes them, the warning excepted. The hypothesis
  `SignalAt \subseteq SafePlaces` says that signals find threads where these hold neither
  of the two mutexes `signalHandler` needs for its log line; without it, `tui_signal` is
  a thread that waits for itself. The run `tui` has signals at one of the
  places, the theorem at all.

Every safety invariant and every action property of a passing run is proved, and so are
the refinements. Only model-checked is liveness: `GoneClientsReaped`, `ShutdownCompletes`,
`SettledCleanupFinishes`, `LossIsNoticed`, `OperationsEnd`, `DirtyIsDrawn`,
`NameIsDelivered`, `LinesAreRelayed` and `ChunksAreProcessed` rest on fairness, for which
the prover has no rules it could use here.

## Not modelled

* Console UI: the input line, the windows and the contents of `m_channels`. That
  curses is called from two threads (`init_pair` from the listener) is listed as a
  hazard and not modelled: it would need curses' own state.
* The fields of the console's messages other than CHAN records: the parsers copy them,
  and no check relates them to anything else. That the parsers trust the length of
  what they copy is a fact about garbage headers, which `ReadOverruns` stands for.
* The client's two clean-ups in sequence (`gracefulShutdown`): each is modelled with
  its link; their sharing one table of descriptors is not.
* Configuration: a map filled before any thread starts.
* `server/client_handler.cpp`, `initializeCS2Connection`: nothing calls them.
* Platform layer, utilities, builds: no state of the program.
* Vendored libraries: of the repository's lines of code some nine tenths are spdlog,
  fmt and PDCurses headers under `CS2RemoteConsole-client/include`. The program's own
  code is about 2200 lines, and the models stand for half of them; no model of the
  vendored code would say anything about this program.
* Windows: descriptors and blocking are those of POSIX; `SigPipeKills = FALSE` gives
  the Windows behaviour of `send`.
* README.md:101 says to type `quit`; the server takes `/quit` and broadcasts `quit` as
  a command. A difference of wording, noted here and not modelled.

## What could come next

1. The two clean-ups in sequence with both connectors and one table of descriptors:
   a socket one link closes twice may be the other's by then.
2. For the links, the invariant of the sockets: which of them a thread can sleep on,
   and that only an abandoned one is open with nobody to close it.
3. curses' colour pairs as state shared by `registerChannel` and drawing.
