------------------------------ MODULE Cs2Link -------------------------------
(***************************************************************************)
(* The client's link to the CS2 console                                    *)
(* (CS2RemoteConsole-client/src/connection/connection_cs2console.cpp over  *)
(* libvconsole's VConsole): a connector thread that opens the link and     *)
(* watches it, a listener thread per link that reads it, and main(), which *)
(* tears both down.  They share three atomic flags, the std::thread handle *)
(* of the listener and VConsole::clientSocket; nothing is locked.          *)
(*                                                                         *)
(* The socket is a blocking one, so a recv() is two steps: the call, which *)
(* reads clientSocket, and its return.  What arrives is a chunk or none:   *)
(* how chunks are cut from the byte stream is not part of this module.     *)
(***************************************************************************)
CONSTANTS
  Sock,   (* Descriptors the process can get: their number is the limit.    *)
  NoSock  (* INVALID_SOCKET                                                 *)

ASSUME SockAssumption == NoSock \notin Sock

VARIABLES
  running,      (* running                                                  *)
  connected,    (* cs2ConsoleConnected                                      *)
  listening,    (* listeningCS2                                             *)
  joinable,     (* cs2ListenerThread.joinable()                             *)
  clientSocket, (* VConsole::clientSocket                                   *)
  connectorPc,
  listenerPc,
  mainPc,
  waiting,      (* The socket a thread's call works on; NoSock once it is   *)
                (* closed, or if it was not open: the call then fails.      *)
  sock,         (* Kernel: the state of each descriptor.                    *)
  pending       (* Kernel: sockets with a chunk to read.                    *)

flags     == <<running, connected, listening>>
kernel    == <<sock, pending>>
vars == <<flags, joinable, clientSocket, connectorPc, listenerPc, mainPc,
          waiting, kernel>>

Alive == mainPc \notin {"finished", "aborted"}

(***************************************************************************)
(* shutdown() and close(): calls blocked on the socket return, and the     *)
(* descriptor can be given out again.                                      *)
(***************************************************************************)
\* Fault: INVALID_SOCKET is closed like any other.
CloseUnchecked(s) ==
  /\ sock' = [t \in Sock \cup {s} |-> IF t = s THEN "free" ELSE sock[t]]
  /\ UNCHANGED <<pending, waiting>>

\* Fault: no shutdown(), so that a blocked recv() sleeps on.
CloseWithoutShutdown(s) == UNCHANGED <<kernel, waiting>>

Close(s) ==
  /\ sock' = [t \in Sock |-> IF t = s THEN "free" ELSE sock[t]]
  /\ pending' = pending \ {s}
  /\ waiting' = [t \in DOMAIN waiting |->
                   IF waiting[t] = s THEN NoSock ELSE waiting[t]]

(***************************************************************************)
(* A recv() on clientSocket by thread t.  It blocks while the socket is up *)
(* and nothing has come; it reads data before the end of the stream.       *)
(***************************************************************************)
CallRecv(t) ==
  waiting' = [waiting EXCEPT ![t] =
                IF clientSocket # NoSock /\ sock[clientSocket] # "free"
                THEN clientSocket ELSE NoSock]

HasData(t)   == waiting[t] \in pending
HasFailed(t) == waiting[t] \notin pending \cup {s \in Sock : sock[s] = "up"}

-----------------------------------------------------------------------------
(***************************************************************************)
(* The connector thread: cs2ConsoleConnectorLoop().                        *)
(***************************************************************************)
ConnectorLoop ==
  /\ connectorPc = "loop"
  /\ connectorPc' = IF running THEN "test" ELSE "done"
  /\ UNCHANGED <<flags, joinable, clientSocket, listenerPc, mainPc, waiting, kernel>>

\* Clean-up may clear both flags between the two tests: then the connector
\* dials once more.
TestConnected ==
  /\ connectorPc = "test"
  /\ connectorPc' = IF connected THEN "isConnected" ELSE "socket"
  /\ UNCHANGED <<flags, joinable, clientSocket, listenerPc, mainPc, waiting, kernel>>

\* VConsole::connect(): socket() overwrites the member, whatever it held.
Socket ==
  /\ connectorPc = "socket"
  /\ \/ \E s \in Sock :
          /\ sock[s] = "free"
          /\ sock' = [sock EXCEPT ![s] = "connecting"]
          /\ clientSocket' = s
     \/ /\ \A s \in Sock : sock[s] # "free"
        /\ clientSocket' = NoSock
        /\ UNCHANGED sock
  /\ connectorPc' = IF clientSocket' = NoSock THEN "loop" ELSE "connect"
  /\ UNCHANGED <<flags, joinable, listenerPc, mainPc, waiting, pending>>

CallConnect ==
  /\ connectorPc = "connect"
  /\ CallRecv("connector")
  /\ connectorPc' = "connecting"
  /\ UNCHANGED <<flags, joinable, clientSocket, listenerPc, mainPc, kernel>>

\* connectToCS2Console() sets the flag as VConsole::connect() returns.
ConnectSucceeds ==
  /\ connectorPc = "connecting"
  /\ waiting["connector"] # NoSock
  /\ sock' = [sock EXCEPT ![waiting["connector"]] = "up"]
  /\ connected' = TRUE
  /\ connectorPc' = "connected"
  /\ UNCHANGED <<running, listening, joinable, clientSocket, listenerPc, mainPc,
                 waiting, pending>>

\* closesocket(clientSocket), then a delay and the next attempt.
ConnectFails ==
  /\ connectorPc = "connecting"
  /\ Close(clientSocket)
  /\ clientSocket' = NoSock
  /\ connectorPc' = "loop"
  /\ UNCHANGED <<flags, joinable, listenerPc, mainPc>>

SetConnected ==
  /\ connectorPc = "connected"
  /\ connected' = TRUE
  /\ connectorPc' = "listening"
  /\ UNCHANGED <<running, listening, joinable, clientSocket, listenerPc, mainPc,
                 waiting, kernel>>

SetListening ==
  /\ connectorPc = "listening"
  /\ listening' = TRUE
  /\ connectorPc' = "joinable"
  /\ UNCHANGED <<running, connected, joinable, clientSocket, listenerPc, mainPc,
                 waiting, kernel>>

\* Fault: the old listener is taken to be over and is not joined.
SpawnWithoutJoin ==
  /\ connectorPc = "joinable"
  /\ connectorPc' = "spawn"
  /\ UNCHANGED <<flags, joinable, clientSocket, listenerPc, mainPc, waiting, kernel>>

TestJoinable ==
  /\ connectorPc = "joinable"
  /\ connectorPc' = IF joinable THEN "join" ELSE "spawn"
  /\ UNCHANGED <<flags, joinable, clientSocket, listenerPc, mainPc, waiting, kernel>>

JoinOldListener ==
  /\ connectorPc = "join"
  /\ joinable
  /\ listenerPc = "done"
  /\ joinable' = FALSE
  /\ connectorPc' = "spawn"
  /\ UNCHANGED <<flags, clientSocket, listenerPc, mainPc, waiting, kernel>>

\* Assigning to a std::thread that is joinable would end the process.
SpawnListener ==
  /\ connectorPc = "spawn"
  /\ IF joinable
     THEN mainPc' = "aborted" /\ UNCHANGED <<joinable, listenerPc>>
     ELSE joinable' = TRUE /\ listenerPc' = "loop" /\ UNCHANGED mainPc
  /\ connectorPc' = "name"
  /\ UNCHANGED <<flags, clientSocket, waiting, kernel>>

\* sendCmd("name"); nothing depends on whether it could be sent.
AskName ==
  /\ connectorPc = "name"
  /\ connectorPc' = "isConnected"
  /\ UNCHANGED <<flags, joinable, clientSocket, listenerPc, mainPc, waiting, kernel>>

\* VConsole::isConnected(): recv() with MSG_PEEK.
CallIsConnected ==
  /\ connectorPc = "isConnected"
  /\ CallRecv("connector")
  /\ connectorPc' = "peek"
  /\ UNCHANGED <<flags, joinable, clientSocket, listenerPc, mainPc, kernel>>

IsConnectedReturns ==
  /\ connectorPc = "peek"
  /\ \/ HasData("connector") /\ connectorPc' = "loop"
     \/ HasFailed("connector") /\ connectorPc' = "lost"
  /\ UNCHANGED <<flags, joinable, clientSocket, listenerPc, mainPc, waiting, kernel>>

ClearConnected ==
  /\ connectorPc = "lost"
  /\ connected' = FALSE
  /\ connectorPc' = "unlisten"
  /\ UNCHANGED <<running, listening, joinable, clientSocket, listenerPc, mainPc,
                 waiting, kernel>>

ClearListening ==
  /\ connectorPc = "unlisten"
  /\ listening' = FALSE
  /\ connectorPc' = "disconnect"
  /\ UNCHANGED <<running, connected, joinable, clientSocket, listenerPc, mainPc,
                 waiting, kernel>>

\* VConsole::disconnect(): close what the member names, then forget it.
Disconnect ==
  /\ connectorPc = "disconnect"
  /\ Close(clientSocket)
  /\ connectorPc' = "forget"
  /\ UNCHANGED <<flags, joinable, clientSocket, listenerPc, mainPc>>

Forget ==
  /\ connectorPc = "forget"
  /\ clientSocket' = NoSock
  /\ connectorPc' = "loop"
  /\ UNCHANGED <<flags, joinable, listenerPc, mainPc, waiting, kernel>>

ConnectorStep ==
  Alive /\ \/ ConnectorLoop \/ TestConnected \/ Socket \/ CallConnect
           \/ ConnectSucceeds \/ ConnectFails \/ SetConnected \/ SetListening
           \/ TestJoinable \/ JoinOldListener \/ SpawnListener \/ AskName \/ CallIsConnected
           \/ IsConnectedReturns \/ ClearConnected \/ ClearListening
           \/ Disconnect \/ Forget

-----------------------------------------------------------------------------
(***************************************************************************)
(* The listener thread: listenForCS2ConsoleData().                         *)
(***************************************************************************)
\* Both flags are read in one step: running is never set again, so that reading
\* both at once, at the first read or at the second, has the same outcome.
ListenerLoop ==
  /\ listenerPc = "loop"
  /\ listenerPc' = IF listening /\ running THEN "read" ELSE "exit"
  /\ UNCHANGED <<flags, joinable, clientSocket, connectorPc, mainPc, waiting, kernel>>

CallReadChunk ==
  /\ listenerPc = "read"
  /\ CallRecv("listener")
  /\ listenerPc' = "reading"
  /\ UNCHANGED <<flags, joinable, clientSocket, connectorPc, mainPc, kernel>>

\* processIncomingData(): a chunk is dispatched, which may throw.
ReadChunk ==
  /\ listenerPc = "reading"
  /\ HasData("listener")
  /\ pending' = pending \ {waiting["listener"]}
  /\ listenerPc' \in {"loop", "exit"}
  /\ UNCHANGED <<flags, joinable, clientSocket, connectorPc, mainPc, waiting, sock>>

ReadFails ==
  /\ listenerPc = "reading"
  /\ HasFailed("listener")
  /\ listenerPc' = "isConnected"
  /\ UNCHANGED <<flags, joinable, clientSocket, connectorPc, mainPc, waiting, kernel>>

ListenerIsConnected ==
  /\ listenerPc = "isConnected"
  /\ CallRecv("listener")
  /\ listenerPc' = "peek"
  /\ UNCHANGED <<flags, joinable, clientSocket, connectorPc, mainPc, kernel>>

ListenerPeeked ==
  /\ listenerPc = "peek"
  /\ \/ HasData("listener") /\ listenerPc' = "loop"
     \/ HasFailed("listener") /\ listenerPc' = "exit"
  /\ UNCHANGED <<flags, joinable, clientSocket, connectorPc, mainPc, waiting, kernel>>

\* Fault: the listener ends without clearing cs2ConsoleConnected.
ListenerLeavesConnected ==
  /\ listenerPc = "exit"
  /\ listenerPc' = "unlisten"
  /\ UNCHANGED <<flags, joinable, clientSocket, connectorPc, mainPc, waiting, kernel>>

ListenerClearsConnected ==
  /\ listenerPc = "exit"
  /\ connected' = FALSE
  /\ listenerPc' = "unlisten"
  /\ UNCHANGED <<running, listening, joinable, clientSocket, connectorPc, mainPc,
                 waiting, kernel>>

ListenerClearsListening ==
  /\ listenerPc = "unlisten"
  /\ listening' = FALSE
  /\ listenerPc' = "done"
  /\ UNCHANGED <<running, connected, joinable, clientSocket, connectorPc, mainPc,
                 waiting, kernel>>

ListenerStep ==
  Alive /\ \/ ListenerLoop \/ CallReadChunk \/ ReadChunk \/ ReadFails
           \/ ListenerIsConnected \/ ListenerPeeked
           \/ ListenerClearsConnected \/ ListenerClearsListening

-----------------------------------------------------------------------------
(***************************************************************************)
(* The main thread: signalHandler(), cleanupCS2Console(), exit.            *)
(***************************************************************************)
Interrupt ==
  /\ mainPc = "run"
  /\ running' = FALSE
  /\ mainPc' = "unlisten"
  /\ UNCHANGED <<connected, listening, joinable, clientSocket, connectorPc,
                 listenerPc, waiting, kernel>>

CleanupListening ==
  /\ mainPc = "unlisten"
  /\ listening' = FALSE
  /\ mainPc' = "unconnect"
  /\ UNCHANGED <<running, connected, joinable, clientSocket, connectorPc,
                 listenerPc, waiting, kernel>>

CleanupConnected ==
  /\ mainPc = "unconnect"
  /\ connected' = FALSE
  /\ mainPc' = "disconnect"
  /\ UNCHANGED <<running, listening, joinable, clientSocket, connectorPc,
                 listenerPc, waiting, kernel>>

CleanupDisconnect ==
  /\ mainPc = "disconnect"
  /\ Close(clientSocket)
  /\ mainPc' = "forget"
  /\ UNCHANGED <<flags, joinable, clientSocket, connectorPc, listenerPc>>

CleanupForget ==
  /\ mainPc = "forget"
  /\ clientSocket' = NoSock
  /\ mainPc' = "joinable"
  /\ UNCHANGED <<flags, joinable, connectorPc, listenerPc, waiting, kernel>>

CleanupJoinable ==
  /\ mainPc = "joinable"
  /\ mainPc' = IF joinable THEN "joinListener" ELSE "joinConnector"
  /\ UNCHANGED <<flags, joinable, clientSocket, connectorPc, listenerPc, waiting, kernel>>

JoinListener ==
  /\ mainPc = "joinListener"
  /\ joinable
  /\ listenerPc = "done"
  /\ joinable' = FALSE
  /\ mainPc' = "joinConnector"
  /\ UNCHANGED <<flags, clientSocket, connectorPc, listenerPc, waiting, kernel>>

\* Two threads in join() on one std::thread, or join() on one that the other
\* thread has joined: std::system_error, which nobody catches.
InvalidJoin ==
  /\ Alive
  /\ \/ mainPc = "joinListener" /\ connectorPc = "join"
     \/ ~joinable /\ (mainPc = "joinListener" \/ connectorPc = "join")
  /\ mainPc' = "aborted"
  /\ UNCHANGED <<flags, joinable, clientSocket, connectorPc, listenerPc, waiting, kernel>>

\* At exit the destructor of a joinable cs2ListenerThread ends the process.
JoinConnector ==
  /\ mainPc = "joinConnector"
  /\ connectorPc = "done"
  /\ mainPc' = IF joinable THEN "aborted" ELSE "finished"
  /\ UNCHANGED <<flags, joinable, clientSocket, connectorPc, listenerPc, waiting, kernel>>

MainStep ==
  \/ CleanupListening \/ CleanupConnected \/ CleanupDisconnect \/ CleanupForget
  \/ CleanupJoinable \/ JoinListener \/ JoinConnector

-----------------------------------------------------------------------------
(***************************************************************************)
(* The game's console: it may send and may close whenever it likes.        *)
(***************************************************************************)
ConsoleSends(s) ==
  /\ Alive
  /\ sock[s] = "up"
  /\ s \notin pending
  /\ pending' = pending \cup {s}
  /\ UNCHANGED <<flags, joinable, clientSocket, connectorPc, listenerPc, mainPc,
                 waiting, sock>>

ConsoleCloses(s) ==
  /\ Alive
  /\ sock[s] = "up"
  /\ sock' = [sock EXCEPT ![s] = "lost"]
  /\ UNCHANGED <<flags, joinable, clientSocket, connectorPc, listenerPc, mainPc,
                 waiting, pending>>

Terminated == ~Alive /\ UNCHANGED vars

-----------------------------------------------------------------------------
Init ==
  /\ running = TRUE /\ connected = FALSE /\ listening = FALSE
  /\ joinable = FALSE
  /\ clientSocket = NoSock
  /\ connectorPc = "loop"
  /\ listenerPc = "none"
  /\ mainPc = "run"
  /\ waiting = [t \in {"connector", "listener"} |-> NoSock]
  /\ sock = [s \in Sock |-> "free"]
  /\ pending = {}

Next ==
  \/ ConnectorStep \/ ListenerStep \/ MainStep \/ Interrupt \/ InvalidJoin
  \/ \E s \in Sock : ConsoleSends(s) \/ ConsoleCloses(s)
  \/ Terminated

(***************************************************************************)
(* The three threads are scheduled, and connect() ends one way or the      *)
(* other; neither the console nor the user owes anything.                  *)
(***************************************************************************)
Fairness ==
  /\ WF_vars(ConnectorStep)
  /\ WF_vars(ListenerStep)
  /\ WF_vars(MainStep)

Spec     == Init /\ [][Next]_vars
FairSpec == Spec /\ Fairness

-----------------------------------------------------------------------------
(***************************************************************************)
(* The shape of the state.                                                 *)
(***************************************************************************)
TypeOK ==
  /\ running \in BOOLEAN /\ connected \in BOOLEAN /\ listening \in BOOLEAN
  /\ joinable \in BOOLEAN
  /\ clientSocket \in Sock \cup {NoSock}
  /\ connectorPc \in {"loop", "test", "socket", "connect", "connecting",
                      "connected", "listening", "joinable", "join", "spawn",
                      "name", "isConnected", "peek", "lost", "unlisten",
                      "disconnect", "forget", "done"}
  /\ listenerPc \in {"none", "loop", "read", "reading", "isConnected", "peek",
                     "exit", "unlisten", "done"}
  /\ mainPc \in {"run", "unlisten", "unconnect", "disconnect", "forget", "joinable",
                 "joinListener", "joinConnector", "finished", "aborted"}
  /\ waiting \in [{"connector", "listener"} -> Sock \cup {NoSock}]
  /\ sock \in [Sock -> {"free", "connecting", "up", "lost"}]
  /\ pending \subseteq Sock

(***************************************************************************)
(* The flag cs2ConsoleConnected never stays set with nobody reading the    *)
(* link: a listener is alive that will clear it, unless the connector is   *)
(* still on its way to start one.                                          *)
(***************************************************************************)
Opening == connectorPc \in {"connected", "listening", "joinable", "join", "spawn"}

ListenerAlive == listenerPc \notin {"none", "unlisten", "done"}

ConnectedIsListenedTo == connected => Opening \/ ListenerAlive

(***************************************************************************)
(* A new listener never replaces the handle of one that was not joined     *)
(* (std::terminate).                                                       *)
(***************************************************************************)
SpawnFindsNoHandle == connectorPc = "spawn" => ~joinable

(***************************************************************************)
(* cs2ListenerThread follows ThreadHandle: the connector, main()           *)
(* and the listener itself never run two listeners at once, never assign   *)
(* to or destroy a handle in use while the client runs, and end cleanly    *)
(* only when the last listener was joined.                                 *)
(***************************************************************************)
Thread ==
  CASE listenerPc = "none" -> "none"
    [] listenerPc = "done" -> "over"
    [] OTHER               -> "running"

Process ==
  CASE mainPc = "run"                     -> "running"
    [] mainPc \in {"finished", "aborted"} -> mainPc
    [] OTHER                              -> "stopping"

Handle == INSTANCE ThreadHandle WITH thread <- Thread, handle <- joinable, process <- Process

ImplementsHandle == Handle!Spec

(***************************************************************************)
(* cleanupCS2Console() on a settled link: if no reconnection is under way, *)
(* not even decided on, and no socket was left behind by an earlier one,   *)
(* disconnect() wakes both threads, wherever they are blocked, and the     *)
(* process ends cleanly.                                                   *)
(***************************************************************************)
Reconnecting ==
  Opening \/ connectorPc \in {"test", "socket", "connect", "connecting"}

SettledCleanupFinishes ==
  (/\ mainPc = "disconnect"
   /\ ~Reconnecting
   /\ \A s \in Sock : sock[s] # "free" => s = clientSocket)
    ~> mainPc = "finished"

(***************************************************************************)
(* connection_cs2console.cpp:86: "Check if the connection is still alive". *)
(* While the client runs, a link that the console closed is not kept: the  *)
(* connector closes or replaces the socket.                                *)
(***************************************************************************)
LossIsNoticed ==
  \A s \in Sock :
    (clientSocket = s /\ sock[s] = "lost")
      ~> (~running \/ clientSocket # s \/ sock[s] # "lost")
=============================================================================
