----------------------------- MODULE RemoteLink -----------------------------
(***************************************************************************)
(* The client's link to the remote control server                          *)
(* (CS2RemoteConsole-client/src/connection/connection_remoteserver.cpp):   *)
(* a connector thread, a listener thread per link, main(), which tears     *)
(* both down, and handlePRNT() of main.cpp on the CS2 console's listener,  *)
(* which learns the player's name and tells the server.  They share two    *)
(* atomic flags, a std::thread handle, remoteServerSock and the name, and  *)
(* lock nothing.                                                           *)
(*                                                                         *)
(* The listener made its socket non-blocking, so it polls; only connect()  *)
(* blocks.  close() without shutdown() interrupts no call.                 *)
(***************************************************************************)
CONSTANTS
  Sock,   (* Descriptors the process can get: their number is the limit.    *)
  NoSock  (* INVALID_SOCKET                                                 *)

ASSUME SockAssumption == NoSock \notin Sock

VARIABLES
  running,          (* running, shared with the CS2 console's link          *)
  connected,        (* remoteServerConnected                                *)
  listening,        (* listeningRemoteServer                                *)
  joinable,         (* remoteServerListenerThread.joinable()                *)
  remoteServerSock,
  dialed,           (* The socket connect() works on.                       *)
  named,            (* ~globalClientInfo.name.empty()                       *)
  connectorPc,
  listenerPc,
  namePc,           (* handlePRNT(), the one time the name is empty.        *)
  mainPc,
  sock,             (* Kernel: the state of each descriptor.                *)
  told              (* Sockets the player's name was sent on.               *)

flags  == <<running, connected, listening>>
kernel == <<sock, told>>
vars   == <<flags, joinable, remoteServerSock, dialed, named, connectorPc,
            listenerPc, namePc, mainPc, kernel>>

Alive == mainPc \notin {"finished", "aborted"}

(***************************************************************************)
(* closesocket() of whatever the shared variable holds.                    *)
(***************************************************************************)
\* Fault: INVALID_SOCKET is closed like any other.
CloseUnchecked(s) ==
  /\ sock' = [t \in Sock \cup {s} |-> IF t = s THEN "free" ELSE sock[t]]
  /\ told' = told \ {s}

Close(s) ==
  /\ sock' = [t \in Sock |-> IF t = s THEN "free" ELSE sock[t]]
  /\ told' = told \ {s}

(***************************************************************************)
(* sendMessageToRemoteServer("PLAYERNAME:...").                            *)
(***************************************************************************)
SendName ==
  told' = told \cup {s \in Sock : s = remoteServerSock /\ sock[s] = "up"}

-----------------------------------------------------------------------------
(***************************************************************************)
(* The connector thread: remoteServerConnectorLoop().                      *)
(***************************************************************************)
\* Fault: the loop is left by nothing.
ConnectorLoopForever ==
  /\ connectorPc = "loop"
  /\ connectorPc' = "test"
  /\ UNCHANGED <<flags, joinable, remoteServerSock, dialed, named, listenerPc,
                 namePc, mainPc, kernel>>

ConnectorLoop ==
  /\ connectorPc = "loop"
  /\ connectorPc' = IF running THEN "test" ELSE "done"
  /\ UNCHANGED <<flags, joinable, remoteServerSock, dialed, named, listenerPc,
                 namePc, mainPc, kernel>>

\* Clean-up may clear both flags between the two tests: then the connector
\* dials once more.
TestConnected ==
  /\ connectorPc = "test"
  /\ connectorPc' = IF connected THEN "loop" ELSE "socket"
  /\ UNCHANGED <<flags, joinable, remoteServerSock, dialed, named, listenerPc,
                 namePc, mainPc, kernel>>

Socket ==
  /\ connectorPc = "socket"
  /\ \/ \E s \in Sock :
          /\ sock[s] = "free"
          /\ sock' = [sock EXCEPT ![s] = "connecting"]
          /\ remoteServerSock' = s
          /\ connectorPc' = "connect"
     \/ /\ \A s \in Sock : sock[s] # "free"
        /\ remoteServerSock' = NoSock
        /\ connectorPc' = "loop"
        /\ UNCHANGED sock
  /\ UNCHANGED <<flags, joinable, dialed, named, listenerPc, namePc, mainPc, told>>

CallConnect ==
  /\ connectorPc = "connect"
  /\ dialed' = remoteServerSock
  /\ connectorPc' = "connecting"
  /\ UNCHANGED <<flags, joinable, remoteServerSock, named, listenerPc, namePc,
                 mainPc, kernel>>

\* A socket closed meanwhile connects, and is gone when connect() returns.
ConnectSucceeds ==
  /\ connectorPc = "connecting"
  /\ dialed # NoSock
  /\ sock' = [s \in Sock |-> IF s = dialed /\ sock[s] = "connecting"
                             THEN "up" ELSE sock[s]]
  /\ connectorPc' = "connected"
  /\ UNCHANGED <<flags, joinable, remoteServerSock, dialed, named, listenerPc,
                 namePc, mainPc, told>>

ConnectFails ==
  /\ connectorPc = "connecting"
  /\ Close(remoteServerSock)
  /\ remoteServerSock' = NoSock
  /\ connectorPc' = "loop"
  /\ UNCHANGED <<flags, joinable, dialed, named, listenerPc, namePc, mainPc>>

SetConnected ==
  /\ connectorPc = "connected"
  /\ connected' = TRUE
  /\ connectorPc' = "listening"
  /\ UNCHANGED <<running, listening, joinable, remoteServerSock, dialed, named,
                 listenerPc, namePc, mainPc, kernel>>

SetListening ==
  /\ connectorPc = "listening"
  /\ listening' = TRUE
  /\ connectorPc' = "joinable"
  /\ UNCHANGED <<running, connected, joinable, remoteServerSock, dialed, named,
                 listenerPc, namePc, mainPc, kernel>>

\* Fault: the old listener is taken to be over and is not joined.
SpawnWithoutJoin ==
  /\ connectorPc = "joinable"
  /\ connectorPc' = "spawn"
  /\ UNCHANGED <<flags, joinable, remoteServerSock, dialed, named, listenerPc,
                 namePc, mainPc, kernel>>

TestJoinable ==
  /\ connectorPc = "joinable"
  /\ connectorPc' = IF joinable THEN "join" ELSE "spawn"
  /\ UNCHANGED <<flags, joinable, remoteServerSock, dialed, named, listenerPc,
                 namePc, mainPc, kernel>>

JoinOldListener ==
  /\ connectorPc = "join"
  /\ joinable
  /\ listenerPc = "done"
  /\ joinable' = FALSE
  /\ connectorPc' = "spawn"
  /\ UNCHANGED <<flags, remoteServerSock, dialed, named, listenerPc, namePc,
                 mainPc, kernel>>

\* Assigning to a std::thread that is joinable would end the process.
SpawnListener ==
  /\ connectorPc = "spawn"
  /\ IF joinable
     THEN mainPc' = "aborted" /\ UNCHANGED <<joinable, listenerPc>>
     ELSE joinable' = TRUE /\ listenerPc' = "loop" /\ UNCHANGED mainPc
  /\ connectorPc' = "name"
  /\ UNCHANGED <<flags, remoteServerSock, dialed, named, namePc, kernel>>

\* Fault: the name is left to handlePRNT().
ConnectorKeepsQuiet ==
  /\ connectorPc = "name"
  /\ connectorPc' = "loop"
  /\ UNCHANGED <<flags, joinable, remoteServerSock, dialed, named, listenerPc,
                 namePc, mainPc, kernel>>

\* The string is read while handlePRNT() may be writing it: empty, or with
\* the new name, or with neither.
ReadName ==
  /\ connectorPc = "name"
  /\ IF namePc = "storing" THEN connectorPc' \in {"loop", "tell", "tellTorn"}
     ELSE connectorPc' = IF named THEN "tell" ELSE "loop"
  /\ UNCHANGED <<flags, joinable, remoteServerSock, dialed, named, listenerPc,
                 namePc, mainPc, kernel>>

ConnectorTells ==
  /\ \/ connectorPc = "tell" /\ SendName
     \/ connectorPc = "tellTorn" /\ UNCHANGED told
  /\ connectorPc' = "loop"
  /\ UNCHANGED <<flags, joinable, remoteServerSock, dialed, named, listenerPc,
                 namePc, mainPc, sock>>

ConnectorStep ==
  Alive /\ \/ ConnectorLoop \/ TestConnected \/ Socket \/ CallConnect
           \/ ConnectSucceeds \/ ConnectFails \/ SetConnected \/ SetListening
           \/ TestJoinable \/ JoinOldListener \/ SpawnListener \/ ReadName \/ ConnectorTells

-----------------------------------------------------------------------------
(***************************************************************************)
(* The listener thread: listenForRemoteServerData().  A received command   *)
(* is handed to the CS2 console's link and polling goes on, which is no    *)
(* different here from there being nothing to receive.                     *)
(***************************************************************************)
\* Both flags are read in one step: running is never set again, so that reading
\* both at once, at the first read or at the second, has the same outcome.
ListenerLoop ==
  /\ listenerPc = "loop"
  /\ listenerPc' = IF listening /\ running THEN "recv" ELSE "exit"
  /\ UNCHANGED <<flags, joinable, remoteServerSock, dialed, named, connectorPc,
                 namePc, mainPc, kernel>>

UpSocks == {s \in Sock : sock[s] = "up"}

\* Fault: the end of the stream is taken for "nothing yet".
PollIgnoringEnd ==
  /\ listenerPc = "recv"
  /\ listenerPc' = IF remoteServerSock # NoSock THEN "loop" ELSE "exit"
  /\ UNCHANGED <<flags, joinable, remoteServerSock, dialed, named, connectorPc,
                 namePc, mainPc, kernel>>

Poll ==
  /\ listenerPc = "recv"
  /\ listenerPc' = IF remoteServerSock \in UpSocks THEN "loop" ELSE "exit"
  /\ UNCHANGED <<flags, joinable, remoteServerSock, dialed, named, connectorPc,
                 namePc, mainPc, kernel>>

\* Fault: the listener ends without clearing remoteServerConnected.
ListenerLeavesConnected ==
  /\ listenerPc = "exit"
  /\ listenerPc' = "unlisten"
  /\ UNCHANGED <<flags, joinable, remoteServerSock, dialed, named, connectorPc,
                 namePc, mainPc, kernel>>

ListenerClearsConnected ==
  /\ listenerPc = "exit"
  /\ connected' = FALSE
  /\ listenerPc' = "unlisten"
  /\ UNCHANGED <<running, listening, joinable, remoteServerSock, dialed, named,
                 connectorPc, namePc, mainPc, kernel>>

ListenerClearsListening ==
  /\ listenerPc = "unlisten"
  /\ listening' = FALSE
  /\ listenerPc' = "close"
  /\ UNCHANGED <<running, connected, joinable, remoteServerSock, dialed, named,
                 connectorPc, namePc, mainPc, kernel>>

ListenerCloses ==
  /\ listenerPc = "close"
  /\ Close(remoteServerSock)
  /\ listenerPc' = "forget"
  /\ UNCHANGED <<flags, joinable, remoteServerSock, dialed, named, connectorPc,
                 namePc, mainPc>>

ListenerForgets ==
  /\ listenerPc = "forget"
  /\ remoteServerSock' = NoSock
  /\ listenerPc' = "done"
  /\ UNCHANGED <<flags, joinable, dialed, named, connectorPc, namePc, mainPc, kernel>>

ListenerStep ==
  Alive /\ \/ ListenerLoop \/ Poll \/ ListenerClearsConnected
           \/ ListenerClearsListening \/ ListenerCloses \/ ListenerForgets

-----------------------------------------------------------------------------
(***************************************************************************)
(* handlePRNT(): the first console line that tells the player's name.      *)
(***************************************************************************)
BeginName ==
  /\ namePc = "unknown"
  /\ namePc' = "storing"
  /\ UNCHANGED <<flags, joinable, remoteServerSock, dialed, named, connectorPc,
                 listenerPc, mainPc, kernel>>

StoreName ==
  /\ namePc = "storing"
  /\ named' = TRUE
  /\ namePc' = "tell"
  /\ UNCHANGED <<flags, joinable, remoteServerSock, dialed, connectorPc,
                 listenerPc, mainPc, kernel>>

TellName ==
  /\ namePc = "tell"
  /\ SendName
  /\ namePc' = "done"
  /\ UNCHANGED <<flags, joinable, remoteServerSock, dialed, named, connectorPc,
                 listenerPc, mainPc, sock>>

-----------------------------------------------------------------------------
(***************************************************************************)
(* The main thread: signalHandler(), cleanupRemoteServer(), exit.          *)
(***************************************************************************)
Interrupt ==
  /\ mainPc = "run"
  /\ running' = FALSE
  /\ mainPc' = "unlisten"
  /\ UNCHANGED <<connected, listening, joinable, remoteServerSock, dialed, named,
                 connectorPc, listenerPc, namePc, kernel>>

CleanupListening ==
  /\ mainPc = "unlisten"
  /\ listening' = FALSE
  /\ mainPc' = "unconnect"
  /\ UNCHANGED <<running, connected, joinable, remoteServerSock, dialed, named,
                 connectorPc, listenerPc, namePc, kernel>>

CleanupConnected ==
  /\ mainPc = "unconnect"
  /\ connected' = FALSE
  /\ mainPc' = "test"
  /\ UNCHANGED <<running, listening, joinable, remoteServerSock, dialed, named,
                 connectorPc, listenerPc, namePc, kernel>>

CleanupTests ==
  /\ mainPc = "test"
  /\ mainPc' = IF remoteServerSock = NoSock THEN "joinable" ELSE "close"
  /\ UNCHANGED <<flags, joinable, remoteServerSock, dialed, named, connectorPc,
                 listenerPc, namePc, kernel>>

CleanupCloses ==
  /\ mainPc = "close"
  /\ Close(remoteServerSock)
  /\ mainPc' = "forget"
  /\ UNCHANGED <<flags, joinable, remoteServerSock, dialed, named, connectorPc,
                 listenerPc, namePc>>

CleanupForgets ==
  /\ mainPc = "forget"
  /\ remoteServerSock' = NoSock
  /\ mainPc' = "joinable"
  /\ UNCHANGED <<flags, joinable, dialed, named, connectorPc, listenerPc, namePc,
                 kernel>>

CleanupJoinable ==
  /\ mainPc = "joinable"
  /\ mainPc' = IF joinable THEN "joinListener" ELSE "joinConnector"
  /\ UNCHANGED <<flags, joinable, remoteServerSock, dialed, named, connectorPc,
                 listenerPc, namePc, kernel>>

JoinListener ==
  /\ mainPc = "joinListener"
  /\ joinable
  /\ listenerPc = "done"
  /\ joinable' = FALSE
  /\ mainPc' = "joinConnector"
  /\ UNCHANGED <<flags, remoteServerSock, dialed, named, connectorPc, listenerPc,
                 namePc, kernel>>

\* Two threads in join() on one std::thread, or join() on one that the other
\* thread has joined: std::system_error, which nobody catches.
InvalidJoin ==
  /\ Alive
  /\ \/ mainPc = "joinListener" /\ connectorPc = "join"
     \/ ~joinable /\ (mainPc = "joinListener" \/ connectorPc = "join")
  /\ mainPc' = "aborted"
  /\ UNCHANGED <<flags, joinable, remoteServerSock, dialed, named, connectorPc,
                 listenerPc, namePc, kernel>>

\* At exit the destructor of a joinable thread handle ends the process.
JoinConnector ==
  /\ mainPc = "joinConnector"
  /\ connectorPc = "done"
  /\ mainPc' = IF joinable THEN "aborted" ELSE "finished"
  /\ UNCHANGED <<flags, joinable, remoteServerSock, dialed, named, connectorPc,
                 listenerPc, namePc, kernel>>

MainStep ==
  \/ CleanupListening \/ CleanupConnected \/ CleanupTests \/ CleanupCloses
  \/ CleanupForgets \/ CleanupJoinable \/ JoinListener \/ JoinConnector

-----------------------------------------------------------------------------
(***************************************************************************)
(* The server may end a connection whenever it likes.                      *)
(***************************************************************************)
ServerCloses(s) ==
  /\ Alive
  /\ sock[s] = "up"
  /\ sock' = [sock EXCEPT ![s] = "lost"]
  /\ UNCHANGED <<flags, joinable, remoteServerSock, dialed, named, connectorPc,
                 listenerPc, namePc, mainPc, told>>

Terminated == ~Alive /\ UNCHANGED vars

-----------------------------------------------------------------------------
Init ==
  /\ running = TRUE /\ connected = FALSE /\ listening = FALSE
  /\ joinable = FALSE
  /\ remoteServerSock = NoSock
  /\ dialed = NoSock
  /\ named = FALSE
  /\ connectorPc = "loop" /\ listenerPc = "none" /\ namePc = "unknown"
  /\ mainPc = "run"
  /\ sock = [s \in Sock |-> "free"]
  /\ told = {}

Next ==
  \/ ConnectorStep \/ ListenerStep \/ MainStep \/ Interrupt \/ InvalidJoin
  \/ Alive /\ (BeginName \/ StoreName \/ TellName)
  \/ \E s \in Sock : ServerCloses(s)
  \/ Terminated

(***************************************************************************)
(* The three threads are scheduled, and connect() ends one way or the      *)
(* other; the server, the console and the user owe nothing.                *)
(***************************************************************************)
Fairness ==
  /\ WF_vars(ConnectorStep)
  /\ WF_vars(ListenerStep)
  /\ WF_vars(MainStep)

Spec     == Init /\ [][Next]_vars
FairSpec == Spec /\ Fairness

-----------------------------------------------------------------------------
(***************************************************************************)
(* The shape of the state.                                                 *)
(***************************************************************************)
TypeOK ==
  /\ running \in BOOLEAN /\ connected \in BOOLEAN /\ listening \in BOOLEAN
  /\ joinable \in BOOLEAN /\ named \in BOOLEAN
  /\ remoteServerSock \in Sock \cup {NoSock}
  /\ dialed \in Sock \cup {NoSock}
  /\ connectorPc \in {"loop", "test", "socket", "connect", "connecting",
                      "connected", "listening", "joinable", "join", "spawn",
                      "name", "tell", "tellTorn", "done"}
  /\ listenerPc \in {"none", "loop", "recv", "exit", "unlisten", "close",
                     "forget", "done"}
  /\ namePc \in {"unknown", "storing", "tell", "done"}
  /\ mainPc \in {"run", "unlisten", "unconnect", "test", "close", "forget",
                 "joinable", "joinListener", "joinConnector", "finished", "aborted"}
  /\ sock \in [Sock -> {"free", "connecting", "up", "lost"}]
  /\ told \subseteq Sock

(***************************************************************************)
(* remoteServerConnected never stays set with nobody polling the link, so  *)
(* the connector never rests on a link that no one would report lost.      *)
(***************************************************************************)
Opening == connectorPc \in {"listening", "joinable", "join", "spawn"}

ListenerAlive == listenerPc \in {"loop", "recv", "exit"}

ConnectedIsListenedTo == connected => Opening \/ ListenerAlive

(***************************************************************************)
(* A new listener never replaces the handle of one that was not joined     *)
(* (std::terminate).                                                       *)
(***************************************************************************)
SpawnFindsNoHandle == connectorPc = "spawn" => ~joinable

(***************************************************************************)
(* remoteServerListenerThread follows ThreadHandle: the connector, main()  *)
(* and the listener itself never run two listeners at once, never assign   *)
(* to or destroy a handle in use while the client runs, and end cleanly    *)
(* only when the last listener was joined.                                 *)
(***************************************************************************)
Thread ==
  CASE listenerPc = "none" -> "none"
    [] listenerPc = "done" -> "over"
    [] OTHER               -> "running"

Process ==
  CASE mainPc = "run"                     -> "running"
    [] mainPc \in {"finished", "aborted"} -> mainPc
    [] OTHER                              -> "stopping"

Handle == INSTANCE ThreadHandle WITH thread <- Thread, handle <- joinable, process <- Process

ImplementsHandle == Handle!Spec

(***************************************************************************)
(* The name is sent by whoever comes second: the connector, which reads it *)
(* after it has set the socket, or handlePRNT(), which reads the socket    *)
(* after it has set the name.  Once both have passed, the server at the    *)
(* other end of the link has been told.                                    *)
(***************************************************************************)
ServerKnowsName ==
  /\ connectorPc \in {"loop", "test"}
  /\ namePc = "done"
  /\ remoteServerSock \in UpSocks
  => remoteServerSock \in told

(***************************************************************************)
(* A link the server closed is dropped: its descriptor is closed or        *)
(* replaced, however the old listener's end and the next connection        *)
(* interleave.                                                             *)
(***************************************************************************)
LossIsNoticed ==
  \A s \in Sock :
    (remoteServerSock = s /\ sock[s] = "lost")
      ~> (~running \/ remoteServerSock # s \/ sock[s] # "lost")

(***************************************************************************)
(* cleanupRemoteServer() on a settled link, with no reconnection under way *)
(* or decided on, ends, and ends cleanly: no thread handle is left         *)
(* joinable for its destructor.                                            *)
(***************************************************************************)
Reconnecting ==
  Opening \/ connectorPc \in {"test", "socket", "connect", "connecting", "connected"}

SettledCleanupFinishes ==
  (mainPc = "test" /\ ~Reconnecting) ~> mainPc = "finished"
=============================================================================
