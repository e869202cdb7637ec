---------------------------- MODULE RemoteServer ----------------------------
(***************************************************************************)
(* The control server (CS2RemoteConsole-server/src/server.cpp, main.cpp):  *)
(* the operator's input loop on the main thread, the accept thread, one    *)
(* detached handler thread per client, and the signal handler, all sharing *)
(* the std::vector m_clients and the descriptors of its sockets.           *)
(*                                                                         *)
(* A handler is named by the connection it was started for.  It holds a    *)
(* C++ reference into m_clients (std::ref(m_clients.back())), so a slot of *)
(* the vector, and not a client, is what it denotes: erase() shifts other  *)
(* clients into the slot, and growth frees the storage it points into.     *)
(*                                                                         *)
(* Every section under m_clientsMutex is one step: the only accesses to    *)
(* m_clients outside the mutex are the handlers' reads of client.socket    *)
(* and the write of client.name, which have steps of their own.            *)
(***************************************************************************)
EXTENDS Naturals, FiniteSets

CONSTANTS
  Conn,         (* Connections that peers may open; bounds the run.         *)
  Fd,           (* Descriptor numbers the kernel can give client sockets.   *)
  NoConn,       (* No connection: a closed descriptor, an empty name.       *)
  NoFd,         (* Any integer that is not an open client descriptor.       *)
  MaxClients,   (* Bound on m_clients.size().                               *)
  Lines,        (* Lines the operator may type.                             *)
  PeerMessages, (* Kinds of message a peer may send.                        *)
  SigPipeKills, (* TRUE on POSIX, where nothing ignores SIGPIPE.            *)
  MaxPort,      (* MAX_PORT, the largest uint16_t.                          *)
  InitialPort,  (* m_initialPort                                            *)
  FreePorts     (* Ports that bind() can have.                              *)

ASSUME ConstantsAssumption ==
  /\ NoConn \notin Conn
  /\ NoFd \notin Fd
  /\ MaxClients \in Nat \ {0}
  /\ Lines \subseteq {"/quit", "/list", "say"}
  /\ PeerMessages \subseteq {"PLAYERNAME", "other"}
  /\ SigPipeKills \in BOOLEAN
  /\ MaxPort \in Nat
  /\ InitialPort \in 0..MaxPort
  /\ FreePorts \subseteq 1..MaxPort

VARIABLES
  running,      (* applicationRunning                                       *)
  stdinOpen,    (* STDIN_FILENO is open                                     *)
  port,         (* m_port                                                   *)
  address,      (* Kernel: the port m_listenSocket is bound to, or 0.       *)
  listener,     (* The state of m_listenSocket.                             *)
  mainPc,
  input,        (* The line main() got from getline; "eof" when it failed.  *)
  acceptPc,
  clientSocket, (* acceptClients()'s local                                  *)
  slots,        (* The storage m_clients points to, used or not.            *)
  size,         (* m_clients.size()                                         *)
  capacity,     (* m_clients.capacity(); names the storage, as it only grows *)
  handlerPc,
  client,       (* Each handler's reference: a storage and an index in it.  *)
  sender,       (* Whose PLAYERNAME a handler has in its buffer.            *)
  fdTable,      (* Kernel: the connection behind each open client socket.   *)
  peer,         (* Kernel: each connection; its peer left, or we dropped it. *)
  inbox,        (* Kernel: the message waiting in each socket, if any.      *)
  reached       (* Kernel: the peers the latest broadcast reached.          *)

portVars   == <<port, address>>
serverVars == <<slots, size, capacity>>
threadVars == <<handlerPc, client, sender>>
netVars    == <<fdTable, peer, inbox, reached>>
vars == <<portVars, running, stdinOpen, listener, mainPc, input, acceptPc, clientSocket,
          serverVars, threadVars, netVars>>

EmptySlot == [socket |-> NoFd, name |-> NoConn]
NoRef     == [capacity |-> 0, index |-> 0]

(***************************************************************************)
(* The process ends when main() returns or a signal or a crash kills it.   *)
(***************************************************************************)
Alive == mainPc \notin {"exited", "killed"}

Live    == 1..size
Listed  == {slots[i].socket : i \in Live}
OpenFds == {fd \in Fd : fdTable[fd] # NoConn}

(***************************************************************************)
(* std::vector growth in libstdc++: 0, 1, 2, 4, ...                        *)
(***************************************************************************)
Grow(n) == IF n = 0 THEN 1 ELSE 2 * n

CapacityForOneMore == IF size = capacity THEN Grow(capacity) ELSE capacity

(***************************************************************************)
(* What a handler can read as client.socket.  An int survives in a slot    *)
(* that was erased or cleared; freed storage can hold any integer.         *)
(***************************************************************************)
Dangling(h) == client[h].capacity # capacity

Deref(h) == IF Dangling(h) THEN Fd \cup {NoFd}
                           ELSE {slots[client[h].index].socket}

(***************************************************************************)
(* broadcastToClients() under the lock, up to the n-th client: everyone    *)
(* but the owner of descriptor except is sent to; a peer that has left     *)
(* takes nothing.  Peers are assumed to drain their receive buffers.       *)
(***************************************************************************)
Recipients(n, except) ==
  {fdTable[slots[i].socket] : i \in {j \in 1..n : slots[j].socket # except}}

BroadcastTo(n, except) ==
  reached' = {c \in Conn : c \in Recipients(n, except) /\ peer[c] = "up"}

(***************************************************************************)
(* send() without MSG_NOSIGNAL to a peer that reset the connection raises  *)
(* SIGPIPE on POSIX, which ends the process in the middle of the loop.     *)
(***************************************************************************)
BroadcastKilled(except) ==
  /\ SigPipeKills
  /\ \E k \in Live :
        /\ slots[k].socket # except
        /\ peer[fdTable[slots[k].socket]] = "left"
        /\ BroadcastTo(k - 1, except)
  /\ mainPc' = "killed"

(***************************************************************************)
(* cleanupSockets() under the lock: shut down and close every listed       *)
(* socket, clear() the vector (its storage stays), close the listener.     *)
(***************************************************************************)
CleanupSockets ==
  /\ fdTable' = [fd \in Fd |-> IF fd \in Listed THEN NoConn ELSE fdTable[fd]]
  /\ peer' = [c \in Conn |->
                IF \/ peer[c] = "backlog"
                   \/ peer[c] = "up" /\ \E fd \in Listed : fdTable[fd] = c
                THEN "dropped" ELSE peer[c]]
  /\ size' = 0
  /\ listener' = "closed"
  /\ address' = 0

-----------------------------------------------------------------------------
(***************************************************************************)
(* The main thread: Server::start(), which looks for a port from           *)
(* m_initialPort up, Server::run() with userInputHandler(), then ~Server.  *)
(* When start() fails, main() returns at once and only ~Server is left.    *)
(***************************************************************************)
CreateListener ==
  /\ mainPc = "start"
  /\ listener' = "open"
  /\ mainPc' = "bind"
  /\ UNCHANGED <<portVars, running, stdinOpen, input, acceptPc, clientSocket,
                 serverVars, threadVars, netVars>>

\* socket() fails, or setsockopt() does and the socket is closed again.
CreateListenerFails ==
  /\ mainPc = "start"
  /\ mainPc' = "destroy"
  /\ UNCHANGED <<portVars, running, stdinOpen, listener, input, acceptPc, clientSocket,
                 serverVars, threadVars, netVars>>

\* What bind() gives for m_port: port 0 asks the kernel to choose one.
Bindable == IF port = 0 THEN FreePorts ELSE FreePorts \cap {port}

Bind ==
  /\ mainPc = "bind"
  /\ address' \in Bindable
  /\ listener' = "bound"
  /\ mainPc' = "listen"
  /\ UNCHANGED <<port, running, stdinOpen, input, acceptPc, clientSocket, serverVars,
                 threadVars, netVars>>

\* Fault: two ports up at a time.
SkipPort == (port + 2) % (MaxPort + 1)

\* m_port is a uint16_t: m_port++ leaves 0 after MAX_PORT, so that the test
\* m_port > MAX_PORT, which would end the search, is never true.
NextPort == (port + 1) % (MaxPort + 1)

BindFails ==
  /\ mainPc = "bind"
  /\ Bindable = {}
  /\ CleanupSockets
  /\ port' = NextPort
  /\ mainPc' = "start"
  /\ UNCHANGED <<running, stdinOpen, input, acceptPc, clientSocket, slots, capacity,
                 threadVars, inbox, reached>>

Listen ==
  /\ mainPc = "listen"
  /\ listener' = "listening"
  /\ mainPc' = "run"
  /\ UNCHANGED <<portVars, running, stdinOpen, input, acceptPc, clientSocket,
                 serverVars, threadVars, netVars>>

ListenFails ==
  /\ mainPc = "listen"
  /\ CleanupSockets
  /\ mainPc' = "destroy"
  /\ UNCHANGED <<port, running, stdinOpen, input, acceptPc, clientSocket, slots,
                 capacity, threadVars, inbox, reached>>

\* run() starts the accept thread and enters the input loop.
Run ==
  /\ mainPc = "run"
  /\ acceptPc' = "loop"
  /\ mainPc' = "loop"
  /\ UNCHANGED <<portVars, running, stdinOpen, listener, input, clientSocket,
                 serverVars, threadVars, netVars>>

StartStep == \/ CreateListener \/ CreateListenerFails \/ Bind \/ BindFails
             \/ Listen \/ ListenFails \/ Run

InputLoop ==
  /\ mainPc = "loop"
  /\ mainPc' = IF running THEN "getline" ELSE "cleanup"
  /\ UNCHANGED <<portVars, running, stdinOpen, listener, input, acceptPc, clientSocket,
                 serverVars, threadVars, netVars>>

TypeLine(line) ==
  /\ mainPc = "getline"
  /\ stdinOpen
  /\ input' = line
  /\ mainPc' = "dispatch"
  /\ UNCHANGED <<portVars, running, stdinOpen, listener, acceptPc, clientSocket,
                 serverVars, threadVars, netVars>>

EndOfInput ==
  /\ mainPc = "getline"
  /\ input' = "eof"
  /\ mainPc' = "dispatch"
  /\ UNCHANGED <<portVars, running, stdinOpen, listener, acceptPc, clientSocket,
                 serverVars, threadVars, netVars>>

StopInput ==
  /\ mainPc = "dispatch"
  /\ input \in {"eof", "/quit"} \/ ~running
  /\ running' = FALSE
  /\ mainPc' = "cleanup"
  /\ UNCHANGED <<portVars, stdinOpen, listener, input, acceptPc, clientSocket,
                 serverVars, threadVars, netVars>>

\* The only test of m_running between getline() and the command's effect.
TakeLine ==
  /\ mainPc = "dispatch"
  /\ running
  /\ input \notin {"eof", "/quit"}
  /\ mainPc' = IF input = "/list" THEN "list" ELSE "send"
  /\ UNCHANGED <<portVars, running, stdinOpen, listener, input, acceptPc, clientSocket,
                 serverVars, threadVars, netVars>>

ListClients ==
  /\ mainPc = "list"
  /\ mainPc' = "loop"
  /\ UNCHANGED <<portVars, running, stdinOpen, listener, input, acceptPc, clientSocket,
                 serverVars, threadVars, netVars>>

SendCommand ==
  /\ mainPc = "send"
  /\ \/ BroadcastTo(size, NoFd) /\ mainPc' = "loop"
     \/ BroadcastKilled(NoFd)
  /\ UNCHANGED <<portVars, running, stdinOpen, listener, input, acceptPc, clientSocket,
                 serverVars, threadVars, fdTable, peer, inbox>>

Shutdown ==
  /\ mainPc = "cleanup"
  /\ CleanupSockets
  /\ mainPc' = "join"
  /\ UNCHANGED <<port, running, stdinOpen, input, acceptPc, clientSocket, slots,
                 capacity, threadVars, inbox, reached>>

\* Fault: the accept thread is detached, and nothing waits for it.
DetachAcceptThread ==
  /\ mainPc = "join"
  /\ mainPc' = "destroy"
  /\ UNCHANGED <<portVars, running, stdinOpen, listener, input, acceptPc, clientSocket,
                 serverVars, threadVars, netVars>>

JoinAcceptThread ==
  /\ mainPc = "join"
  /\ acceptPc = "done"
  /\ mainPc' = "destroy"
  /\ UNCHANGED <<portVars, running, stdinOpen, listener, input, acceptPc, clientSocket,
                 serverVars, threadVars, netVars>>

\* Fault: ~Server relies on run() having closed every socket.
DestroyWithoutCleanup ==
  /\ mainPc = "destroy"
  /\ capacity' = 0
  /\ mainPc' = "destroyed"
  /\ UNCHANGED <<portVars, running, stdinOpen, listener, input, acceptPc, clientSocket,
                 slots, size, threadVars, netVars>>

DestroyServer ==
  /\ mainPc = "destroy"
  /\ CleanupSockets
  /\ capacity' = 0
  /\ mainPc' = "destroyed"
  /\ UNCHANGED <<port, running, stdinOpen, input, acceptPc, clientSocket, slots,
                 threadVars, inbox, reached>>

Exit ==
  /\ mainPc = "destroyed"
  /\ mainPc' = "exited"
  /\ UNCHANGED <<portVars, running, stdinOpen, listener, input, acceptPc, clientSocket,
                 serverVars, threadVars, netVars>>

MainStep == \/ StartStep \/ InputLoop \/ StopInput \/ TakeLine \/ ListClients
            \/ SendCommand \/ Shutdown \/ JoinAcceptThread \/ DestroyServer \/ Exit

-----------------------------------------------------------------------------
(***************************************************************************)
(* The accept thread: acceptClients().                                     *)
(***************************************************************************)
AcceptLoop ==
  /\ Alive
  /\ acceptPc = "loop"
  /\ acceptPc' = IF running THEN "accept" ELSE "done"
  /\ UNCHANGED <<portVars, running, stdinOpen, listener, mainPc, input, clientSocket,
                 serverVars, threadVars, netVars>>

CanAccept(c) == listener = "listening" /\ peer[c] = "backlog" /\ size < MaxClients

Accept(c) ==
  /\ Alive
  /\ acceptPc = "accept"
  /\ CanAccept(c)
  /\ \E fd \in Fd \ OpenFds :
        /\ fdTable' = [fdTable EXCEPT ![fd] = c]
        /\ clientSocket' = fd
  /\ peer' = [peer EXCEPT ![c] = "up"]
  /\ acceptPc' = "register"
  /\ UNCHANGED <<portVars, running, stdinOpen, listener, mainPc, input, serverVars,
                 threadVars, inbox, reached>>

\* No connection waits, or the listener is closed, or descriptors ran out.
AcceptFails ==
  /\ Alive
  /\ acceptPc = "accept"
  /\ OpenFds = Fd \/ \A c \in Conn : ~CanAccept(c)
  /\ acceptPc' = "loop"
  /\ UNCHANGED <<portVars, running, stdinOpen, listener, mainPc, input, clientSocket,
                 serverVars, threadVars, netVars>>

\* Fault: the reference is taken before emplace_back() moves the storage.
BackBeforeGrowth == [capacity |-> capacity, index |-> size + 1]

\* std::ref(m_clients.back()) once emplace_back() has run.
Back == [capacity |-> CapacityForOneMore, index |-> size + 1]

\* emplace_back() and the start of the handler, in one locked section.
Register ==
  /\ Alive
  /\ acceptPc = "register"
  /\ capacity' = CapacityForOneMore
  /\ size' = size + 1
  /\ slots' = [i \in 1..MaxClients |->
                 CASE i = size + 1 -> [socket |-> clientSocket, name |-> NoConn]
                   [] i > size + 1 /\ size = capacity -> EmptySlot
                   [] OTHER -> slots[i]]
  /\ LET h == fdTable[clientSocket]
     IN  /\ handlerPc' = [handlerPc EXCEPT ![h] = "loop"]
         /\ client' = [client EXCEPT ![h] = Back]
  /\ acceptPc' = "loop"
  /\ UNCHANGED <<portVars, running, stdinOpen, listener, mainPc, input, clientSocket,
                 sender, netVars>>

AcceptStep == \/ AcceptLoop \/ AcceptFails \/ Register
              \/ \E c \in Conn : Accept(c)

-----------------------------------------------------------------------------
(***************************************************************************)
(* A handler thread: handleClient(), handleClientMessage(),                *)
(* removeClient().                                                         *)
(***************************************************************************)
HandlerLoop(h) ==
  /\ Alive
  /\ handlerPc[h] = "loop"
  /\ handlerPc' = [handlerPc EXCEPT ![h] = IF running THEN "recv" ELSE "remove"]
  /\ UNCHANGED <<portVars, running, stdinOpen, listener, mainPc, input, acceptPc,
                 clientSocket, serverVars, client, sender, netVars>>

\* Fault: recv() returning 0 is taken for "nothing yet".
HungUpUnnoticed(fd) == FALSE

\* Fault: recv() that would block is taken for a failure.
HungUpWhenIdle(fd) == fd \in OpenFds /\ inbox[fdTable[fd]] = "none"

\* recv() returns 0, or fails for good, when nothing is left to read.
HungUp(fd) ==
  fd \in OpenFds /\ inbox[fdTable[fd]] = "none" /\ peer[fdTable[fd]] = "left"

RecvFails(h) ==
  /\ Alive
  /\ handlerPc[h] = "recv"
  /\ \E fd \in Deref(h) : fd \notin OpenFds \/ HungUp(fd)
  /\ handlerPc' = [handlerPc EXCEPT ![h] = "remove"]
  /\ UNCHANGED <<portVars, running, stdinOpen, listener, mainPc, input, acceptPc,
                 clientSocket, serverVars, client, sender, netVars>>

RecvWouldBlock(h) ==
  /\ Alive
  /\ handlerPc[h] = "recv"
  /\ \E fd \in Deref(h) \cap OpenFds :
        inbox[fdTable[fd]] = "none" /\ peer[fdTable[fd]] = "up"
  /\ handlerPc' = [handlerPc EXCEPT ![h] = "loop"]
  /\ UNCHANGED <<portVars, running, stdinOpen, listener, mainPc, input, acceptPc,
                 clientSocket, serverVars, client, sender, netVars>>

\* Only PLAYERNAME has an effect; any other message is logged.
RecvMessage(h) ==
  /\ Alive
  /\ handlerPc[h] = "recv"
  /\ \E fd \in Deref(h) \cap OpenFds :
        LET c == fdTable[fd]
        IN  /\ inbox[c] # "none"
            /\ inbox' = [inbox EXCEPT ![c] = "none"]
            /\ IF inbox[c] = "PLAYERNAME"
               THEN /\ sender' = [sender EXCEPT ![h] = c]
                    /\ handlerPc' = [handlerPc EXCEPT ![h] = "rename"]
               ELSE /\ handlerPc' = [handlerPc EXCEPT ![h] = "loop"]
                    /\ UNCHANGED sender
  /\ UNCHANGED <<portVars, running, stdinOpen, listener, mainPc, input, acceptPc,
                 clientSocket, serverVars, client, fdTable, peer, reached>>

\* client.name = content, without the lock; into freed storage it is lost.
Rename(h) ==
  /\ Alive
  /\ handlerPc[h] = "rename"
  /\ slots' = IF Dangling(h) THEN slots
              ELSE [slots EXCEPT ![client[h].index].name = sender[h]]
  /\ handlerPc' = [handlerPc EXCEPT ![h] = "announce"]
  /\ UNCHANGED <<portVars, running, stdinOpen, listener, mainPc, input, acceptPc,
                 clientSocket, size, capacity, client, sender, netVars>>

\* "Player ... has joined the game." to every client but &client.
Announce(h) ==
  /\ Alive
  /\ handlerPc[h] = "announce"
  /\ \E fd \in Deref(h) :
        \/ BroadcastTo(size, fd) /\ UNCHANGED mainPc
        \/ BroadcastKilled(fd)
  /\ handlerPc' = [handlerPc EXCEPT ![h] = "loop"]
  /\ UNCHANGED <<portVars, running, stdinOpen, listener, input, acceptPc, clientSocket,
                 serverVars, client, sender, fdTable, peer, inbox>>

\* Fault: the find_if() of removeClient() runs on into the unused storage.
FoundInStorage(fd) ==
  {i \in 1..MaxClients : i <= capacity /\ slots[i].socket = fd}

Found(fd) == {i \in Live : slots[i].socket = fd}

\* Fault: pop_back() for erase().
EraseBack(i) == UNCHANGED slots /\ size' = size - 1

\* m_clients.erase(): later elements move down, the last slot keeps its int.
EraseAt(i) ==
  /\ slots' = [j \in 1..MaxClients |->
                 IF i <= j /\ j < size THEN slots[j + 1] ELSE slots[j]]
  /\ size' = size - 1

\* Fault: the entry goes and its socket stays open.
EraseOnly(i) == EraseAt(i) /\ UNCHANGED <<fdTable, peer>>

CloseAndErase(i) ==
  LET fd == slots[i].socket
  IN  /\ fdTable' = [fdTable EXCEPT ![fd] = NoConn]
      /\ peer' = [peer EXCEPT ![fdTable[fd]] = IF @ = "up" THEN "dropped" ELSE @]
      /\ EraseAt(i)

RemoveClient(h) ==
  /\ Alive
  /\ handlerPc[h] = "remove"
  /\ \E fd \in Deref(h) :
        \/ \E i \in Found(fd) : CloseAndErase(i)
        \/ Found(fd) = {} /\ UNCHANGED <<slots, size, fdTable, peer>>
  /\ handlerPc' = [handlerPc EXCEPT ![h] = "done"]
  /\ UNCHANGED <<portVars, running, stdinOpen, listener, mainPc, input, acceptPc,
                 clientSocket, capacity, client, sender, inbox, reached>>

\* Another thread reads, writes, moves or destroys the name h writes.
NameRace(h) ==
  /\ handlerPc[h] = "rename"
  /\ \/ \E g \in Conn \ {h} :
          \/ handlerPc[g] \in {"rename", "announce"} /\ client[g] = client[h]
          \/ handlerPc[g] = "remove"
     \/ acceptPc = "register"
     \/ mainPc = "list"
     \/ mainPc \in {"cleanup", "destroy"}

\* Using a string in freed storage, or one that another thread changes, may
\* crash.
StringCrash(h) ==
  /\ Alive
  /\ \/ handlerPc[h] \in {"recv", "rename", "announce"} /\ Dangling(h)
     \/ NameRace(h)
  /\ mainPc' = "killed"
  /\ UNCHANGED <<portVars, running, stdinOpen, listener, input, acceptPc, clientSocket,
                 serverVars, threadVars, netVars>>

HandlerStep(h) ==
  \/ HandlerLoop(h) \/ RecvFails(h) \/ RecvWouldBlock(h) \/ RecvMessage(h)
  \/ Rename(h) \/ Announce(h) \/ RemoveClient(h)

-----------------------------------------------------------------------------
(***************************************************************************)
(* The environment: signals and peers.                                     *)
(***************************************************************************)
\* Fault: the handler clears the flag and leaves getline() waiting.
SignalClearsFlagOnly ==
  /\ Alive
  /\ running
  /\ running' = FALSE
  /\ UNCHANGED <<portVars, stdinOpen, listener, mainPc, input, acceptPc, clientSocket,
                 serverVars, threadVars, netVars>>

SignalHandler ==
  /\ Alive
  /\ running \/ stdinOpen
  /\ running' = FALSE
  /\ stdinOpen' = FALSE
  /\ UNCHANGED <<portVars, listener, mainPc, input, acceptPc, clientSocket, serverVars,
                 threadVars, netVars>>

PeerConnect(c) ==
  /\ Alive
  /\ peer[c] = "new"
  /\ listener = "listening"
  /\ peer' = [peer EXCEPT ![c] = "backlog"]
  /\ UNCHANGED <<portVars, running, stdinOpen, listener, mainPc, input, acceptPc,
                 clientSocket, serverVars, threadVars, fdTable, inbox, reached>>

PeerSend(c, msg) ==
  /\ Alive
  /\ peer[c] = "up"
  /\ inbox[c] = "none"
  /\ inbox' = [inbox EXCEPT ![c] = msg]
  /\ UNCHANGED <<portVars, running, stdinOpen, listener, mainPc, input, acceptPc,
                 clientSocket, serverVars, threadVars, fdTable, peer, reached>>

PeerClose(c) ==
  /\ Alive
  /\ peer[c] = "up"
  /\ peer' = [peer EXCEPT ![c] = "left"]
  /\ UNCHANGED <<portVars, running, stdinOpen, listener, mainPc, input, acceptPc,
                 clientSocket, serverVars, threadVars, fdTable, inbox, reached>>

Terminated == ~Alive /\ UNCHANGED vars

-----------------------------------------------------------------------------
(***************************************************************************)
(* main() has constructed the server with the port of the command line.    *)
(***************************************************************************)
Init ==
  /\ running = TRUE
  /\ stdinOpen = TRUE
  /\ port = InitialPort
  /\ address = 0
  /\ listener = "closed"
  /\ mainPc = "start"
  /\ input = "none"
  /\ acceptPc = "none"
  /\ clientSocket = NoFd
  /\ slots = [i \in 1..MaxClients |-> EmptySlot]
  /\ size = 0
  /\ capacity = 0
  /\ handlerPc = [h \in Conn |-> "none"]
  /\ client = [h \in Conn |-> NoRef]
  /\ sender = [h \in Conn |-> NoConn]
  /\ fdTable = [fd \in Fd |-> NoConn]
  /\ peer = [c \in Conn |-> "new"]
  /\ inbox = [c \in Conn |-> "none"]
  /\ reached = {}

Next ==
  \/ MainStep
  \/ EndOfInput
  \/ \E line \in Lines : TypeLine(line)
  \/ AcceptStep
  \/ \E h \in Conn : HandlerStep(h) \/ StringCrash(h)
  \/ SignalHandler
  \/ \E c \in Conn : PeerConnect(c) \/ PeerClose(c)
  \/ \E c \in Conn, msg \in PeerMessages : PeerSend(c, msg)
  \/ Terminated

(***************************************************************************)
(* Threads are scheduled; the operator, the peers and signals owe nothing. *)
(* A closed stdin makes getline() return, which signalHandler() relies on. *)
(***************************************************************************)
Fairness ==
  /\ WF_vars(MainStep)
  /\ WF_vars(EndOfInput /\ ~stdinOpen)
  /\ WF_vars(AcceptStep)
  /\ \A h \in Conn : WF_vars(HandlerStep(h))

Spec     == Init /\ [][Next]_vars
FairSpec == Spec /\ Fairness

-----------------------------------------------------------------------------
(***************************************************************************)
(* The shape of the state.                                                 *)
(***************************************************************************)
TypeOK ==
  /\ running \in BOOLEAN /\ stdinOpen \in BOOLEAN
  /\ port \in 0..MaxPort /\ address \in 0..MaxPort
  /\ listener \in {"closed", "open", "bound", "listening"}
  /\ mainPc \in {"start", "bind", "listen", "run", "loop", "getline", "dispatch",
                 "list", "send", "cleanup", "join", "destroy", "destroyed", "exited",
                 "killed"}
  /\ input \in Lines \cup {"none", "eof"}
  /\ acceptPc \in {"none", "loop", "accept", "register", "done"}
  /\ clientSocket \in Fd \cup {NoFd}
  /\ slots \in [1..MaxClients -> [socket : Fd \cup {NoFd}, name : Conn \cup {NoConn}]]
  /\ size \in 0..MaxClients
  /\ capacity \in Nat
  /\ handlerPc \in [Conn -> {"none", "loop", "recv", "rename", "announce",
                             "remove", "done"}]
  /\ client \in [Conn -> [capacity : Nat, index : 0..MaxClients]]
  /\ sender \in [Conn -> Conn \cup {NoConn}]
  /\ fdTable \in [Fd -> Conn \cup {NoConn}]
  /\ peer \in [Conn -> {"new", "backlog", "up", "left", "dropped"}]
  /\ inbox \in [Conn -> PeerMessages \cup {"none"}]
  /\ reached \subseteq Conn

(***************************************************************************)
(* Ownership of descriptors (emplace_back, removeClient, cleanupSockets):  *)
(* the open client sockets are exactly those listed in m_clients plus the  *)
(* one acceptClients() has accepted and not yet listed, and none is listed *)
(* twice.  So nothing leaks, and no entry outlives its socket, whichever   *)
(* slot a handler's reference has come to denote.                          *)
(***************************************************************************)
Held == IF acceptPc = "register" THEN {clientSocket} ELSE {}

SocketsAccounted ==
  /\ OpenFds = Listed \cup Held
  /\ Listed \cap Held = {}
  /\ \A i, j \in Live : slots[i].socket = slots[j].socket => i = j

(***************************************************************************)
(* A client accepted before run() closed the listener may be listed after  *)
(* run() emptied m_clients.  Once ~Server has run, its socket is closed    *)
(* too: no client socket is open when the Server object is gone.           *)
(***************************************************************************)
DestroyedMeansClosed ==
  mainPc \in {"destroyed", "exited"} => OpenFds = {}

(***************************************************************************)
(* start() listens on the first free port from m_initialPort up, and       *)
(* m_port, which it reports, is the port it listens on.  This says nothing *)
(* of a server started with port 0, and nothing when every port from       *)
(* m_initialPort to MAX_PORT is taken: the code then means to give up      *)
(* ("Exhausted all available ports"), but m_port wraps to 0 instead, and   *)
(* bind() takes a port of the kernel's choice that nothing reports.        *)
(***************************************************************************)
FreeAbove == FreePorts \cap InitialPort..MaxPort

FirstFreePort ==
  listener = "listening" /\ InitialPort # 0 /\ FreeAbove # {} =>
    port \in FreeAbove /\ address = port /\ \A p \in FreeAbove : port <= p

(***************************************************************************)
(* Each client's connection is opened once and closed once; cleanupSockets *)
(* misses at most the one being accepted; and once ~Server has run nothing *)
(* opens again, although handlers are detached and may still be running.   *)
(* When the process is killed, the kernel closes what it held.             *)
(***************************************************************************)
StatusOf(c) ==
  IF mainPc # "killed" /\ \E fd \in Fd : fdTable[fd] = c THEN "open"
  ELSE IF peer[c] \in {"new", "backlog"} THEN "waiting" ELSE "closed"

Status == [c \in Conn |-> StatusOf(c)]
Over   == mainPc \in {"destroyed", "exited", "killed"}

Ledger == INSTANCE SocketLedger WITH status <- Status, over <- Over

ImplementsLedger == Ledger!Spec

(***************************************************************************)
(* What the properties above rest on: the accept thread lists only when    *)
(* there is room, it lives from run() until run() has joined it, ~Server   *)
(* leaves the list empty, no connection is behind two descriptors, and the *)
(* search for a port skips none.                                           *)
(***************************************************************************)
RoomToRegister == acceptPc = "register" => size < MaxClients
JoinedIsDone   == mainPc \in {"destroy", "destroyed", "exited"} =>
                    acceptPc \in {"none", "done"}
NotYetAccepting == mainPc \in {"start", "bind", "listen", "run"} => acceptPc = "none"
ListDestroyed  == mainPc \in {"destroyed", "exited"} => size = 0

KernelConsistent ==
  /\ \A fd \in OpenFds : peer[fdTable[fd]] \in {"up", "left"}
  /\ \A fd, gd \in OpenFds : fdTable[fd] = fdTable[gd] => fd = gd

PortSearch ==
  /\ InitialPort # 0 /\ FreeAbove # {} =>
       InitialPort <= port /\ \A p \in FreeAbove : port <= p
  /\ listener \in {"bound", "listening"} => address \in Bindable
  /\ mainPc = "listen" => listener = "bound"

IInv == /\ TypeOK
        /\ SocketsAccounted
        /\ RoomToRegister
        /\ JoinedIsDone
        /\ ListDestroyed
        /\ NotYetAccepting
        /\ KernelConsistent
        /\ PortSearch

(***************************************************************************)
(* Whatever stopped the server (/quit, end of input, a signal at any       *)
(* moment), main() leaves the input loop, joins the accept thread and      *)
(* returns.                                                                *)
(***************************************************************************)
ShutdownCompletes == ~running ~> ~Alive

(***************************************************************************)
(* A client that goes away is noticed and its socket closed.               *)
(***************************************************************************)
GoneClientsReaped ==
  \A c \in Conn :
    (peer[c] = "left") ~> (~Alive \/ \A fd \in Fd : fdTable[fd] # c)

(***************************************************************************)
(* A handler serves its client while the reference it works through        *)
(* denotes the entry of the client it was started for.                     *)
(***************************************************************************)
ServesItsClient(h) ==
  /\ ~Dangling(h)
  /\ client[h].index \in Live
  /\ fdTable[slots[client[h].index].socket] = h

(***************************************************************************)
(* Every handler starts on the entry of its own client (std::ref of the    *)
(* back after emplace_back), and loses it only in a step that moves the    *)
(* vector's storage or closes the entry or one before it.                  *)
(***************************************************************************)
Started(h) == handlerPc[h] # "none"

ReferencesLostOnlyByMoves ==
  [][\A h \in Conn :
       /\ ~Started(h) /\ Started(h)' => ServesItsClient(h)'
       /\ ServesItsClient(h) /\ ~ServesItsClient(h)' =>
            \/ capacity' # capacity
            \/ \E i \in 1..client[h].index : fdTable'[slots[i].socket] = NoConn]_vars

(***************************************************************************)
(* While the server runs, the socket of a client that did not leave is     *)
(* closed by no handler but one that had lost its own client's entry: a    *)
(* handler that still serves its client ends only when that client left.   *)
(***************************************************************************)
OnlyLostHandlersDropClients ==
  [][\A c \in Conn :
       running /\ peer[c] = "up" /\ peer'[c] = "dropped" =>
         \E h \in Conn : /\ handlerPc[h] = "remove" /\ handlerPc'[h] = "done"
                        /\ ~ServesItsClient(h)]_vars

(***************************************************************************)
(* A command the operator entered is sent to every client that has a       *)
(* handler and whose connection is still up, whatever the vector and the   *)
(* handlers' references went through before.                               *)
(***************************************************************************)
OpenClientsAreSent ==
  [][mainPc = "send" /\ mainPc' = "loop" =>
       \A c \in Conn : Started(c) /\ peer[c] = "up" => c \in reached']_vars

(***************************************************************************)
(* README.md, Usage/Server: "Enter commands to be broadcasted to all       *)
(* connected clients".  While the server runs, every client that was       *)
(* accepted, got a handler and did not leave is sent the command.          *)
(***************************************************************************)
Connected(c) == Started(c) /\ peer[c] # "left"

CommandsReachAllConnected ==
  [][running /\ mainPc = "send" /\ mainPc' = "loop" =>
       \A c \in Conn : Connected(c) => c \in reached']_vars

(***************************************************************************)
(* Only the operator or a signal ends the server: a client that resets its *)
(* connection does not.                                                    *)
(***************************************************************************)
ClientsCannotStopServer == mainPc # "killed"
=============================================================================
