------------------------ MODULE RemoteServer_proofs -------------------------
(***************************************************************************)
(* Safety of the control server for every number of connections,           *)
(* descriptors and clients.  IInv is the inductive invariant; the two      *)
(* lemmas on Listed are the facts about std::vector it needs.              *)
(***************************************************************************)
EXTENDS RemoteServer, TLAPS

USE DEF portVars, serverVars, threadVars, netVars

(***************************************************************************)
(* emplace_back(): the list gains exactly the accepted socket.             *)
(***************************************************************************)
LEMMA RegisterLists ==
  ASSUME IInv, Register
  PROVE  /\ clientSocket \in OpenFds \ Listed
         /\ Listed' = Listed \cup {clientSocket}
         /\ \A i \in Live' : slots'[i].socket =
              IF i = size + 1 THEN clientSocket ELSE slots[i].socket
<1>1. /\ size \in Nat /\ size + 1 \in 1..MaxClients /\ size' = size + 1
      /\ MaxClients \in Nat
  BY ConstantsAssumption DEF IInv, TypeOK, Register, RoomToRegister
<1>2. \A i \in Live' : i \in 1..MaxClients /\ (i # size + 1 => i \in Live)
  BY <1>1 DEF Live
<1>3. \A i \in Live' : slots'[i] =
        IF i = size + 1 THEN [socket |-> clientSocket, name |-> NoConn]
                        ELSE slots[i]
  BY <1>1, <1>2 DEF Register, Live
<1>4. \A i \in Live' : slots'[i].socket =
        IF i = size + 1 THEN clientSocket ELSE slots[i].socket
  BY <1>3
<1>5. clientSocket \in OpenFds \ Listed
  BY DEF IInv, SocketsAccounted, Held, Register
<1>6. size + 1 \in Live' /\ Live \subseteq Live' /\ size + 1 \notin Live
  BY <1>1 DEF Live
<1>7. Listed' = Listed \cup {clientSocket}
  BY <1>2, <1>4, <1>6 DEF Listed
<1> QED BY <1>4, <1>5, <1>7

(***************************************************************************)
(* close() and erase(): the list loses exactly the closed socket, and the  *)
(* remaining entries keep theirs, each in a slot of its own.               *)
(***************************************************************************)
LEMMA EraseUnlists ==
  ASSUME IInv, NEW i \in Live, CloseAndErase(i)
  PROVE  /\ slots[i].socket \in Listed
         /\ Listed' = Listed \ {slots[i].socket}
         /\ \A j, k \in Live' : slots'[j].socket = slots'[k].socket => j = k
<1>1. /\ size \in 1..MaxClients /\ MaxClients \in Nat /\ i \in 1..size
      /\ size' = size - 1
  BY ConstantsAssumption DEF IInv, TypeOK, CloseAndErase, EraseAt, Live
<1> DEFINE From(j) == IF i <= j THEN j + 1 ELSE j
<1>2. \A j \in Live' : slots'[j] = slots[From(j)] /\ From(j) \in Live \ {i}
  BY <1>1 DEF CloseAndErase, EraseAt, Live
<1>3. \A j, k \in Live' : From(j) = From(k) => j = k
  BY <1>1 DEF Live
<1>4. \A k \in Live \ {i} : \E j \in Live' : From(j) = k
  <2> TAKE k \in Live \ {i}
  <2>1. CASE k < i
    <3>1. k \in Live' /\ From(k) = k
      BY <1>1, <2>1 DEF Live
    <3> QED BY <3>1
  <2>2. CASE i < k
    <3>1. k - 1 \in Live' /\ From(k - 1) = k
      BY <1>1, <2>2 DEF Live
    <3> QED BY <3>1
  <2> QED BY <1>1, <2>1, <2>2 DEF Live
<1> HIDE DEF From
<1>5. \A j, k \in Live : slots[j].socket = slots[k].socket => j = k
  BY DEF IInv, SocketsAccounted
<1>6. \A j, k \in Live' : slots'[j].socket = slots'[k].socket => j = k
  BY <1>2, <1>3, <1>5
<1>7. Listed' = {slots[k].socket : k \in Live \ {i}}
  BY <1>2, <1>4 DEF Listed
<1>8. Listed' = Listed \ {slots[i].socket}
  BY <1>5, <1>7 DEF Listed
<1> QED BY <1>6, <1>8 DEF Listed

-----------------------------------------------------------------------------
(***************************************************************************)
(* The shape of the state.                                                 *)
(***************************************************************************)
LEMMA BroadcastTyped ==
  ASSUME NEW n, NEW except, BroadcastTo(n, except)
  PROVE  reached' \subseteq Conn
BY DEF BroadcastTo

LEMMA CleanupTyped ==
  ASSUME TypeOK, CleanupSockets
  PROVE  /\ fdTable' \in [Fd -> Conn \cup {NoConn}]
         /\ peer' \in [Conn -> {"new", "backlog", "up", "left", "dropped"}]
         /\ size' \in 0..MaxClients
         /\ listener' = "closed" /\ address' \in 0..MaxPort
<1>1. fdTable' \in [Fd -> Conn \cup {NoConn}]
  BY DEF CleanupSockets, TypeOK
<1>2. peer' \in [Conn -> {"new", "backlog", "up", "left", "dropped"}]
  BY DEF CleanupSockets, TypeOK
<1>3. size' \in 0..MaxClients
  BY ConstantsAssumption DEF CleanupSockets
<1>4. listener' = "closed" /\ address' \in 0..MaxPort
  BY ConstantsAssumption DEF CleanupSockets
<1> QED BY <1>1, <1>2, <1>3, <1>4

LEMMA TypeInit == Init => TypeOK
BY ConstantsAssumption DEF Init, TypeOK, EmptySlot, NoRef

LEMMA StartTyped ==
  ASSUME TypeOK, StartStep
  PROVE  TypeOK'
<1>1. CASE CreateListener
  BY <1>1 DEF CreateListener, TypeOK
<1>2. CASE CreateListenerFails
  BY <1>2 DEF CreateListenerFails, TypeOK
<1>3. CASE Bind
  <2>1. address' \in 0..MaxPort
    BY <1>3, ConstantsAssumption DEF Bind, Bindable
  <2> QED BY <1>3, <2>1 DEF Bind, TypeOK
<1>4. CASE BindFails
  <2>1. port' \in 0..MaxPort
    BY <1>4, ConstantsAssumption DEF BindFails, NextPort, TypeOK
  <2> QED BY <1>4, <2>1, CleanupTyped DEF BindFails, TypeOK
<1>5. CASE Listen
  BY <1>5 DEF Listen, TypeOK
<1>6. CASE ListenFails
  BY <1>6, CleanupTyped DEF ListenFails, TypeOK
<1>7. CASE Run
  BY <1>7 DEF Run, TypeOK
<1> QED BY <1>1, <1>2, <1>3, <1>4, <1>5, <1>6, <1>7 DEF StartStep

LEMMA MainTyped ==
  ASSUME TypeOK, MainStep
  PROVE  TypeOK'
<1>1. CASE InputLoop
  BY <1>1 DEF InputLoop, TypeOK
<1>2. CASE StopInput \/ TakeLine
  BY <1>2 DEF StopInput, TakeLine, TypeOK
<1>3. CASE ListClients
  BY <1>3 DEF ListClients, TypeOK
<1>4. CASE SendCommand
  <2>1. reached' \subseteq Conn
    BY <1>4, BroadcastTyped DEF SendCommand, BroadcastKilled
  <2>2. mainPc' \in {"loop", "killed"}
    BY <1>4 DEF SendCommand, BroadcastKilled
  <2> QED BY <1>4, <2>1, <2>2 DEF SendCommand, TypeOK
<1>5. CASE Shutdown
  BY <1>5, CleanupTyped DEF Shutdown, TypeOK
<1>6. CASE JoinAcceptThread
  BY <1>6 DEF JoinAcceptThread, TypeOK
<1>7. CASE DestroyServer
  BY <1>7, CleanupTyped DEF DestroyServer, TypeOK
<1>8. CASE Exit
  BY <1>8 DEF Exit, TypeOK
<1> QED BY <1>1, <1>2, <1>3, <1>4, <1>5, <1>6, <1>7, <1>8, StartTyped DEF MainStep

LEMMA AcceptTyped ==
  ASSUME IInv, AcceptStep
  PROVE  TypeOK'
<1> USE DEF IInv
<1>1. CASE AcceptLoop
  BY <1>1 DEF AcceptLoop, TypeOK
<1>2. CASE AcceptFails
  BY <1>2 DEF AcceptFails, TypeOK
<1>3. CASE Register
  <2>1. size + 1 \in 1..MaxClients /\ size \in Nat
    BY <1>3, ConstantsAssumption DEF Register, RoomToRegister, TypeOK
  <2>2. CapacityForOneMore \in Nat
    BY DEF CapacityForOneMore, Grow, TypeOK
  <2>3. Back \in [capacity : Nat, index : 0..MaxClients]
    BY <2>1, <2>2 DEF Back
  <2>4. slots' \in [1..MaxClients ->
                    [socket : Fd \cup {NoFd}, name : Conn \cup {NoConn}]]
    BY <1>3, <2>1 DEF Register, TypeOK, EmptySlot
  <2>5. client' \in [Conn -> [capacity : Nat, index : 0..MaxClients]]
    BY <1>3, <2>3 DEF Register, TypeOK
  <2>6. handlerPc' \in [Conn -> {"none", "loop", "recv", "rename", "announce",
                                 "remove", "done"}]
    BY <1>3 DEF Register, TypeOK
  <2> QED BY <1>3, <2>1, <2>2, <2>4, <2>5, <2>6 DEF Register, TypeOK
<1>4. ASSUME NEW c \in Conn, Accept(c)
      PROVE  TypeOK'
  <2>1. PICK fd \in Fd : fdTable' = [fdTable EXCEPT ![fd] = c]
                         /\ clientSocket' = fd
    BY <1>4 DEF Accept
  <2>2. fdTable' \in [Fd -> Conn \cup {NoConn}] /\ clientSocket' \in Fd
    BY <2>1 DEF TypeOK
  <2>3. peer' \in [Conn -> {"new", "backlog", "up", "left", "dropped"}]
    BY <1>4 DEF Accept, TypeOK
  <2> QED BY <1>4, <2>2, <2>3 DEF Accept, TypeOK
<1> QED BY <1>1, <1>2, <1>3, <1>4 DEF AcceptStep

LEMMA EraseTyped ==
  ASSUME TypeOK, NEW i \in Live, CloseAndErase(i)
  PROVE  /\ slots' \in [1..MaxClients ->
                         [socket : Fd \cup {NoFd}, name : Conn \cup {NoConn}]]
         /\ size' \in 0..MaxClients
         /\ fdTable' \in [Fd -> Conn \cup {NoConn}]
         /\ peer' \in [Conn -> {"new", "backlog", "up", "left", "dropped"}]
<1>1. size \in 1..MaxClients /\ MaxClients \in Nat /\ size' = size - 1
  BY ConstantsAssumption DEF TypeOK, Live, CloseAndErase, EraseAt
<1>2. slots' \in [1..MaxClients ->
                  [socket : Fd \cup {NoFd}, name : Conn \cup {NoConn}]]
  BY <1>1 DEF TypeOK, CloseAndErase, EraseAt
<1>3. fdTable' \in [Fd -> Conn \cup {NoConn}]
  BY DEF TypeOK, CloseAndErase
<1>4. peer' \in [Conn -> {"new", "backlog", "up", "left", "dropped"}]
  BY DEF TypeOK, CloseAndErase
<1> QED BY <1>1, <1>2, <1>3, <1>4

LEMMA HandlerTyped ==
  ASSUME TypeOK, NEW h \in Conn, HandlerStep(h) \/ StringCrash(h)
  PROVE  TypeOK'
<1>1. CASE HandlerLoop(h)
  BY <1>1 DEF HandlerLoop, TypeOK
<1>2. CASE RecvFails(h)
  BY <1>2 DEF RecvFails, TypeOK
<1>3. CASE RecvWouldBlock(h)
  BY <1>3 DEF RecvWouldBlock, TypeOK
<1>4. CASE RecvMessage(h)
  <2>1. PICK c \in Conn \cup {NoConn} :
          /\ inbox' = [inbox EXCEPT ![c] = "none"]
          /\ c \in Conn
          /\ IF inbox[c] = "PLAYERNAME"
             THEN /\ sender' = [sender EXCEPT ![h] = c]
                  /\ handlerPc' = [handlerPc EXCEPT ![h] = "rename"]
             ELSE /\ handlerPc' = [handlerPc EXCEPT ![h] = "loop"]
                  /\ UNCHANGED sender
    BY <1>4 DEF RecvMessage, OpenFds, TypeOK
  <2>2. /\ inbox' \in [Conn -> PeerMessages \cup {"none"}]
        /\ sender' \in [Conn -> Conn \cup {NoConn}]
    <3>1. inbox' \in [Conn -> PeerMessages \cup {"none"}]
      BY <2>1 DEF TypeOK
    <3>2. sender' = sender \/ sender' = [sender EXCEPT ![h] = c]
      BY <2>1
    <3>3. sender' \in [Conn -> Conn \cup {NoConn}]
      BY <3>2 DEF TypeOK
    <3> QED BY <3>1, <3>3
  <2>3. handlerPc' \in [Conn -> {"none", "loop", "recv", "rename", "announce",
                                 "remove", "done"}]
    BY <2>1 DEF TypeOK
  <2> QED BY <1>4, <2>2, <2>3 DEF RecvMessage, TypeOK
<1>5. CASE Rename(h)
  <2>1. slots' \in [1..MaxClients ->
                    [socket : Fd \cup {NoFd}, name : Conn \cup {NoConn}]]
    <3> DEFINE at == client[h].index
    <3>1. slots' = slots \/ slots' = [slots EXCEPT ![at].name = sender[h]]
      BY <1>5 DEF Rename
    <3>2. sender[h] \in Conn \cup {NoConn}
      BY DEF TypeOK
    <3> HIDE DEF at
    <3>3. CASE slots' = slots
      BY <3>3 DEF TypeOK
    <3>4. CASE slots' = [slots EXCEPT ![at].name = sender[h]]
      <4> DEFINE named(i) == [slots[i] EXCEPT !.name = sender[h]]
      <4>1. \A i \in 1..MaxClients :
              slots[i] \in [socket : Fd \cup {NoFd}, name : Conn \cup {NoConn}]
        BY DEF TypeOK
      <4>2. \A i \in 1..MaxClients :
              named(i) \in [socket : Fd \cup {NoFd}, name : Conn \cup {NoConn}]
        BY <3>2, <4>1
      <4>3. slots' = [i \in 1..MaxClients |-> IF i = at THEN named(i) ELSE slots[i]]
        BY <3>4 DEF TypeOK
      <4> HIDE DEF named
      <4> QED BY <4>1, <4>2, <4>3
    <3> QED BY <3>1, <3>3, <3>4
  <2>2. handlerPc' \in [Conn -> {"none", "loop", "recv", "rename", "announce",
                                 "remove", "done"}]
    BY <1>5 DEF Rename, TypeOK
  <2> QED BY <1>5, <2>1, <2>2 DEF Rename, TypeOK
<1>6. CASE Announce(h)
  <2>1. reached' \subseteq Conn
    BY <1>6, BroadcastTyped DEF Announce, BroadcastKilled
  <2>2. mainPc' \in {mainPc, "killed"}
    BY <1>6 DEF Announce, BroadcastKilled
  <2>3. handlerPc' = [handlerPc EXCEPT ![h] = "loop"]
    BY <1>6 DEF Announce
  <2>4. UNCHANGED <<portVars, running, stdinOpen, listener, input, acceptPc,
                    clientSocket, serverVars, client, sender, fdTable, peer, inbox>>
    BY <1>6 DEF Announce
  <2> QED BY <2>1, <2>2, <2>3, <2>4 DEF TypeOK
<1>7. CASE RemoveClient(h)
  <2>1. CASE UNCHANGED <<slots, size, fdTable, peer>>
    BY <1>7, <2>1 DEF RemoveClient, TypeOK
  <2>2. CASE \E i \in Live : CloseAndErase(i)
    BY <1>7, <2>2, EraseTyped DEF RemoveClient, TypeOK
  <2> QED BY <1>7, <2>1, <2>2 DEF RemoveClient, Found
<1>8. CASE StringCrash(h)
  BY <1>8 DEF StringCrash, TypeOK
<1> QED BY <1>1, <1>2, <1>3, <1>4, <1>5, <1>6, <1>7, <1>8 DEF HandlerStep

LEMMA EnvironmentTyped ==
  ASSUME TypeOK,
         \/ EndOfInput
         \/ \E line \in Lines : TypeLine(line)
         \/ SignalHandler
         \/ \E c \in Conn : PeerConnect(c) \/ PeerClose(c)
         \/ \E c \in Conn, msg \in PeerMessages : PeerSend(c, msg)
  PROVE  TypeOK'
<1>1. CASE EndOfInput
  BY <1>1 DEF EndOfInput, TypeOK
<1>2. ASSUME NEW line \in Lines, TypeLine(line) PROVE TypeOK'
  BY <1>2 DEF TypeLine, TypeOK
<1>3. CASE SignalHandler
  BY <1>3 DEF SignalHandler, TypeOK
<1>4. ASSUME NEW c \in Conn, PeerConnect(c) \/ PeerClose(c) PROVE TypeOK'
  <2>1. peer' \in [Conn -> {"new", "backlog", "up", "left", "dropped"}]
    BY <1>4 DEF PeerConnect, PeerClose, TypeOK
  <2>2. UNCHANGED <<portVars, running, stdinOpen, listener, mainPc, input, acceptPc,
                    clientSocket, serverVars, threadVars, fdTable, inbox, reached>>
    BY <1>4 DEF PeerConnect, PeerClose
  <2> QED BY <2>1, <2>2 DEF TypeOK
<1>5. ASSUME NEW c \in Conn, NEW msg \in PeerMessages, PeerSend(c, msg)
      PROVE  TypeOK'
  <2>1. inbox' \in [Conn -> PeerMessages \cup {"none"}]
    BY <1>5 DEF PeerSend, TypeOK
  <2> QED BY <1>5, <2>1 DEF PeerSend, TypeOK
<1> QED BY <1>1, <1>2, <1>3, <1>4, <1>5

-----------------------------------------------------------------------------
(***************************************************************************)
(* The ledger of sockets.  First the four ways a step can treat it: leave  *)
(* it alone, list an accepted socket, close and erase one, clean up.       *)
(***************************************************************************)
LEMMA LedgerUntouched ==
  ASSUME SocketsAccounted, UNCHANGED <<size, fdTable>>, Held' = Held,
         \A i \in Live : slots'[i].socket = slots[i].socket
  PROVE  SocketsAccounted'
<1>1. Live' = Live /\ OpenFds' = OpenFds
  BY DEF Live, OpenFds
<1>2. Listed' = Listed
  BY <1>1 DEF Listed
<1> QED BY <1>1, <1>2 DEF SocketsAccounted

LEMMA LedgerRegister ==
  ASSUME IInv, Register
  PROVE  SocketsAccounted'
<1>1. OpenFds' = OpenFds /\ Held' = {} /\ Held = {clientSocket}
  BY DEF Register, OpenFds, Held
<1>2. OpenFds' = Listed' \cup Held'
  BY <1>1, RegisterLists DEF IInv, SocketsAccounted
<1>3. \A i \in Live' : i = size + 1 \/ i \in Live
  BY ConstantsAssumption DEF Live, Register, IInv, TypeOK
<1>4. \A i \in Live : slots[i].socket # clientSocket
  BY RegisterLists DEF Listed
<1>5. \A i, j \in Live' : slots'[i].socket = slots'[j].socket => i = j
  BY <1>3, <1>4, RegisterLists DEF IInv, SocketsAccounted
<1> QED BY <1>1, <1>2, <1>5 DEF SocketsAccounted

LEMMA LedgerErase ==
  ASSUME IInv, NEW i \in Live, CloseAndErase(i), Held' = Held
  PROVE  SocketsAccounted'
<1> DEFINE fd == slots[i].socket
<1>1. fd \in Listed /\ fd \in Fd /\ fd \notin Held
  BY EraseUnlists DEF IInv, SocketsAccounted, OpenFds
<1>2. OpenFds' = OpenFds \ {fd}
  BY DEF CloseAndErase, OpenFds, IInv, TypeOK
<1>3. OpenFds' = Listed' \cup Held' /\ Listed' \cap Held' = {}
  BY <1>1, <1>2, EraseUnlists DEF IInv, SocketsAccounted
<1> QED BY <1>3, EraseUnlists DEF SocketsAccounted

LEMMA LedgerCleanup ==
  ASSUME IInv, CleanupSockets, Held' = Held
  PROVE  SocketsAccounted' /\ Live' = {} /\ OpenFds' = Held
<1>1. Live' = {} /\ Listed' = {}
  BY DEF Live, Listed, CleanupSockets
<1>2. OpenFds' = OpenFds \ Listed
  BY DEF CleanupSockets, OpenFds, IInv, TypeOK
<1>3. OpenFds' = Held
  BY <1>2 DEF IInv, SocketsAccounted
<1> QED BY <1>1, <1>3 DEF SocketsAccounted

(***************************************************************************)
(* The part of IInv about who owns a descriptor.                           *)
(***************************************************************************)
Ownership == /\ TypeOK
             /\ SocketsAccounted
             /\ RoomToRegister
             /\ JoinedIsDone
             /\ ListDestroyed
             /\ NotYetAccepting

(***************************************************************************)
(* Ownership is preserved, thread by thread.                               *)
(***************************************************************************)
LEMMA OwnershipInit == Init => Ownership
<1> SUFFICES ASSUME Init PROVE Ownership
  OBVIOUS
<1>1. TypeOK
  BY TypeInit
<1>2. Live = {} /\ OpenFds = {} /\ Held = {}
  BY DEF Init, Live, OpenFds, Held
<1>3. SocketsAccounted
  BY <1>2 DEF SocketsAccounted, Listed
<1>4. RoomToRegister /\ JoinedIsDone /\ ListDestroyed /\ NotYetAccepting
  BY DEF Init, RoomToRegister, JoinedIsDone, ListDestroyed, NotYetAccepting
<1> QED BY <1>1, <1>3, <1>4 DEF Ownership

LEMMA OwnershipStart ==
  ASSUME IInv, StartStep
  PROVE  Ownership'
<1> USE DEF IInv, Ownership
<1>1. TypeOK'
  BY StartTyped
<1>2. Held' = {} /\ Held = {}
  BY DEF StartStep, CreateListener, CreateListenerFails, Bind, BindFails, Listen,
         ListenFails, Run, Held, NotYetAccepting
<1>3. SocketsAccounted'
  <2>1. CASE BindFails \/ ListenFails
    BY <1>2, <2>1, LedgerCleanup DEF BindFails, ListenFails
  <2>2. CASE UNCHANGED <<slots, size, fdTable>>
    BY <1>2, <2>2, LedgerUntouched
  <2> QED BY <2>1, <2>2
       DEF StartStep, CreateListener, CreateListenerFails, Bind, Listen, Run
<1>4. mainPc \in {"start", "bind", "listen", "run"} /\ acceptPc = "none"
  BY DEF StartStep, CreateListener, CreateListenerFails, Bind, BindFails, Listen,
         ListenFails, Run, NotYetAccepting
<1>5. RoomToRegister' /\ JoinedIsDone' /\ ListDestroyed' /\ NotYetAccepting'
  BY <1>4 DEF StartStep, CreateListener, CreateListenerFails, Bind, BindFails, Listen,
         ListenFails, Run, RoomToRegister, JoinedIsDone, ListDestroyed, NotYetAccepting
<1> QED BY <1>1, <1>3, <1>5

LEMMA OwnershipMain ==
  ASSUME IInv, MainStep
  PROVE  Ownership'
<1> USE DEF IInv, Ownership
<1>1. TypeOK'
  BY MainTyped
<1>2. CASE StartStep
  BY <1>2, OwnershipStart
<1> SUFFICES ASSUME ~StartStep PROVE Ownership'
  BY <1>2
<1>3. Held' = Held
  BY DEF MainStep, InputLoop, StopInput, TakeLine, ListClients, SendCommand, Shutdown,
         JoinAcceptThread, DestroyServer, Exit, Held
<1>4. SocketsAccounted'
  <2>1. CASE Shutdown \/ DestroyServer
    BY <1>3, <2>1, LedgerCleanup DEF Shutdown, DestroyServer
  <2>2. CASE UNCHANGED <<slots, size, fdTable>>
    BY <1>3, <2>2, LedgerUntouched
  <2> QED BY <2>1, <2>2
       DEF MainStep, InputLoop, StopInput, TakeLine, ListClients, SendCommand,
           JoinAcceptThread, Exit
<1>5. RoomToRegister'
  <2>1. acceptPc' = acceptPc /\ (size' = size \/ size' = 0)
    BY DEF MainStep, InputLoop, StopInput, TakeLine, ListClients, SendCommand, Shutdown,
           JoinAcceptThread, DestroyServer, Exit, CleanupSockets
  <2> QED BY <2>1, ConstantsAssumption DEF RoomToRegister
<1>6. JoinedIsDone'
  BY DEF MainStep, InputLoop, StopInput, TakeLine, ListClients, SendCommand, Shutdown,
         JoinAcceptThread, DestroyServer, Exit, BroadcastKilled, JoinedIsDone
<1>7. ListDestroyed'
  BY DEF MainStep, InputLoop, StopInput, TakeLine, ListClients, SendCommand, Shutdown,
         JoinAcceptThread, DestroyServer, Exit, BroadcastKilled, CleanupSockets,
         ListDestroyed
<1>8. NotYetAccepting'
  BY DEF MainStep, InputLoop, StopInput, TakeLine, ListClients, SendCommand, Shutdown,
         JoinAcceptThread, DestroyServer, Exit, BroadcastKilled, NotYetAccepting
<1> QED BY <1>1, <1>4, <1>5, <1>6, <1>7, <1>8

LEMMA OwnershipAccept ==
  ASSUME IInv, AcceptStep
  PROVE  Ownership'
<1> USE DEF IInv, Ownership
<1>1. TypeOK'
  BY AcceptTyped
<1>2. /\ acceptPc \notin {"none", "done"} /\ mainPc' = mainPc
      /\ mainPc \notin {"start", "bind", "listen", "run",
                        "destroy", "destroyed", "exited"}
  BY DEF AcceptStep, AcceptLoop, AcceptFails, Register, Accept, JoinedIsDone,
         NotYetAccepting
<1>3. JoinedIsDone' /\ ListDestroyed' /\ NotYetAccepting'
  BY <1>2 DEF JoinedIsDone, ListDestroyed, NotYetAccepting
<1>4. CASE AcceptLoop \/ AcceptFails
  <2>1. Held' = Held /\ UNCHANGED <<slots, size, fdTable>> /\ RoomToRegister'
    BY <1>4 DEF AcceptLoop, AcceptFails, Held, RoomToRegister
  <2> QED BY <1>1, <1>3, <2>1, LedgerUntouched
<1>5. CASE Register
  <2>1. RoomToRegister'
    BY <1>5 DEF Register, RoomToRegister
  <2> QED BY <1>1, <1>3, <1>5, <2>1, LedgerRegister
<1>6. ASSUME NEW c \in Conn, Accept(c)
      PROVE  Ownership'
  <2>1. PICK fd \in Fd \ OpenFds : fdTable' = [fdTable EXCEPT ![fd] = c]
                                   /\ clientSocket' = fd
    BY <1>6 DEF Accept
  <2>2. Held = {} /\ Held' = {fd} /\ RoomToRegister'
    BY <1>6, <2>1 DEF Accept, Held, RoomToRegister, CanAccept
  <2>3. OpenFds' = OpenFds \cup {fd}
    BY <2>1, ConstantsAssumption DEF OpenFds, TypeOK
  <2>4. Listed' = Listed /\ Live' = Live /\ slots' = slots
    BY <1>6 DEF Accept, Listed, Live
  <2>5. SocketsAccounted'
    BY <2>1, <2>2, <2>3, <2>4 DEF SocketsAccounted
  <2> QED BY <1>1, <1>3, <2>2, <2>5
<1> QED BY <1>4, <1>5, <1>6 DEF AcceptStep

LEMMA OwnershipHandler ==
  ASSUME IInv, NEW h \in Conn, HandlerStep(h) \/ StringCrash(h)
  PROVE  Ownership'
<1> USE DEF IInv, Ownership
<1>1. TypeOK'
  BY HandlerTyped
<1>2. Held' = Held /\ UNCHANGED acceptPc /\ mainPc' \in {mainPc, "killed"}
  BY DEF HandlerStep, HandlerLoop, RecvFails, RecvWouldBlock, RecvMessage, Rename,
         Announce, BroadcastKilled, RemoveClient, StringCrash, Held
<1>3. JoinedIsDone' /\ NotYetAccepting'
  BY <1>2 DEF JoinedIsDone, NotYetAccepting
<1>4. CASE \E i \in Live : CloseAndErase(i)
  <2>1. SocketsAccounted'
    BY <1>2, <1>4, LedgerErase
  <2>2. size \in 1..MaxClients /\ size' = size - 1 /\ MaxClients \in Nat
    BY <1>4, ConstantsAssumption DEF TypeOK, Live, CloseAndErase, EraseAt
  <2>3. RoomToRegister' /\ ListDestroyed'
    BY <1>2, <2>2 DEF RoomToRegister, ListDestroyed
  <2> QED BY <1>1, <1>3, <2>1, <2>3
<1>5. CASE /\ UNCHANGED <<size, fdTable>>
           /\ \A i \in Live : slots'[i].socket = slots[i].socket
  <2>1. SocketsAccounted'
    BY <1>2, <1>5, LedgerUntouched
  <2>2. RoomToRegister' /\ ListDestroyed'
    BY <1>2, <1>5 DEF RoomToRegister, ListDestroyed
  <2> QED BY <1>1, <1>3, <2>1, <2>2
<1>6. CASE Rename(h)
  <2>1. \A i \in Live : slots'[i].socket = slots[i].socket
    <3> DEFINE at == client[h].index
    <3>1. slots' = slots \/ slots' = [slots EXCEPT ![at].name = sender[h]]
      BY <1>6 DEF Rename
    <3>2. Live \subseteq 1..MaxClients
      BY ConstantsAssumption DEF Live, TypeOK
    <3> HIDE DEF at
    <3>3. \A i \in 1..MaxClients : slots'[i] = slots[i]
                                    \/ slots'[i] = [slots[i] EXCEPT !.name = sender[h]]
      BY <3>1 DEF TypeOK
    <3>4. \A i \in 1..MaxClients :
            slots[i] \in [socket : Fd \cup {NoFd}, name : Conn \cup {NoConn}]
      BY DEF TypeOK
    <3>5. \A i \in 1..MaxClients : slots'[i].socket = slots[i].socket
      BY <3>3, <3>4
    <3> QED BY <3>2, <3>5
  <2> QED BY <1>5, <1>6, <2>1 DEF Rename
<1>7. CASE RemoveClient(h)
  BY <1>4, <1>5, <1>7 DEF RemoveClient, Found
<1>8. CASE UNCHANGED <<slots, size, fdTable>>
  BY <1>5, <1>8
<1> QED BY <1>6, <1>7, <1>8
     DEF HandlerStep, HandlerLoop, RecvFails, RecvWouldBlock, RecvMessage,
         Announce, StringCrash

LEMMA OwnershipEnvironment ==
  ASSUME IInv,
         \/ EndOfInput
         \/ \E line \in Lines : TypeLine(line)
         \/ SignalHandler
         \/ \E c \in Conn : PeerConnect(c) \/ PeerClose(c)
         \/ \E c \in Conn, msg \in PeerMessages : PeerSend(c, msg)
  PROVE  Ownership'
<1> USE DEF IInv, Ownership
<1>1. TypeOK'
  BY EnvironmentTyped
<1>2. UNCHANGED <<slots, size, fdTable, acceptPc, clientSocket>>
      /\ (mainPc' = mainPc \/ mainPc' = "dispatch")
  BY DEF EndOfInput, TypeLine, SignalHandler, PeerConnect, PeerClose, PeerSend
<1>3. SocketsAccounted'
  BY <1>2, LedgerUntouched DEF Held
<1>4. RoomToRegister' /\ JoinedIsDone' /\ ListDestroyed' /\ NotYetAccepting'
  BY <1>2 DEF RoomToRegister, JoinedIsDone, ListDestroyed, NotYetAccepting
<1> QED BY <1>1, <1>3, <1>4

LEMMA OwnershipStutter ==
  ASSUME IInv, UNCHANGED vars
  PROVE  Ownership'
BY DEF vars, IInv, Ownership, TypeOK, SocketsAccounted, Held, OpenFds, Listed, Live,
       RoomToRegister, JoinedIsDone, ListDestroyed, NotYetAccepting

LEMMA OwnershipNext == IInv /\ [Next]_vars => Ownership'
<1> SUFFICES ASSUME IInv, [Next]_vars PROVE Ownership'
  OBVIOUS
<1>1. CASE MainStep
  BY <1>1, OwnershipMain
<1>2. CASE AcceptStep
  BY <1>2, OwnershipAccept
<1>3. ASSUME NEW h \in Conn, HandlerStep(h) \/ StringCrash(h) PROVE Ownership'
  BY <1>3, OwnershipHandler
<1>4. CASE \/ EndOfInput
           \/ \E line \in Lines : TypeLine(line)
           \/ SignalHandler
           \/ \E c \in Conn : PeerConnect(c) \/ PeerClose(c)
           \/ \E c \in Conn, msg \in PeerMessages : PeerSend(c, msg)
  BY <1>4, OwnershipEnvironment
<1>5. CASE UNCHANGED vars \/ Terminated
  BY <1>5, OwnershipStutter DEF Terminated
<1> QED BY <1>1, <1>2, <1>3, <1>4, <1>5 DEF Next

-----------------------------------------------------------------------------
(***************************************************************************)
(* No connection is behind two descriptors, and none that is behind one    *)
(* has been closed by this side.                                           *)
(***************************************************************************)
LEMMA ConsistentCleanup ==
  ASSUME IInv, CleanupSockets
  PROVE  KernelConsistent'
<1>1. OpenFds' = OpenFds \ Listed /\ \A fd \in OpenFds' : fdTable'[fd] = fdTable[fd]
  BY DEF CleanupSockets, OpenFds, IInv, TypeOK
<1>2. \A fd, gd \in OpenFds' : fdTable'[fd] = fdTable'[gd] => fd = gd
  BY <1>1 DEF IInv, KernelConsistent
<1>3. ASSUME NEW fd \in OpenFds' PROVE peer'[fdTable'[fd]] \in {"up", "left"}
  <2>1. fd \in OpenFds /\ fd \notin Listed /\ fdTable'[fd] = fdTable[fd]
        /\ fdTable[fd] \in Conn
    BY <1>1, <1>3 DEF OpenFds, IInv, TypeOK
  <2>2. peer[fdTable[fd]] \in {"up", "left"}
    BY <2>1 DEF IInv, KernelConsistent
  <2>3. Listed \subseteq OpenFds
    BY DEF IInv, SocketsAccounted
  <2>4. ~\E gd \in Listed : fdTable[gd] = fdTable[fd]
    BY <2>1, <2>3 DEF IInv, KernelConsistent
  <2> QED BY <2>1, <2>2, <2>4 DEF CleanupSockets
<1> QED BY <1>2, <1>3 DEF KernelConsistent

LEMMA ConsistentErase ==
  ASSUME IInv, NEW i \in Live, CloseAndErase(i)
  PROVE  KernelConsistent'
<1> DEFINE closed == slots[i].socket
<1>1. closed \in OpenFds
  BY DEF IInv, SocketsAccounted, Listed
<1>2. /\ OpenFds' = OpenFds \ {closed}
      /\ \A fd \in OpenFds' : fdTable'[fd] = fdTable[fd] /\ fdTable[fd] \in Conn
  BY <1>1 DEF CloseAndErase, OpenFds, IInv, TypeOK
<1>3. \A fd, gd \in OpenFds' : fdTable'[fd] = fdTable'[gd] => fd = gd
  BY <1>2 DEF IInv, KernelConsistent
<1>4. ASSUME NEW fd \in OpenFds' PROVE peer'[fdTable'[fd]] \in {"up", "left"}
  <2>1. fd \in OpenFds /\ fd # closed
    BY <1>2
  <2>2. fdTable[fd] # fdTable[closed] /\ peer[fdTable[fd]] \in {"up", "left"}
    BY <1>1, <2>1 DEF IInv, KernelConsistent
  <2> QED BY <1>2, <2>2 DEF CloseAndErase, IInv, TypeOK
<1> QED BY <1>3, <1>4 DEF KernelConsistent

LEMMA ConsistentAccept ==
  ASSUME IInv, NEW c \in Conn, Accept(c)
  PROVE  KernelConsistent'
<1>1. PICK fd \in Fd \ OpenFds : fdTable' = [fdTable EXCEPT ![fd] = c]
  BY DEF Accept
<1>2. /\ OpenFds' = OpenFds \cup {fd}
      /\ fdTable'[fd] = c
      /\ \A gd \in OpenFds : fdTable'[gd] = fdTable[gd]
  BY <1>1, ConstantsAssumption DEF OpenFds, IInv, TypeOK
<1>3. \A gd \in OpenFds : fdTable[gd] # c /\ fdTable[gd] \in Conn
  BY DEF Accept, CanAccept, IInv, KernelConsistent, OpenFds, TypeOK
<1>4. \A d \in Conn : peer'[d] = IF d = c THEN "up" ELSE peer[d]
  BY DEF Accept, IInv, TypeOK
<1> QED BY <1>2, <1>3, <1>4 DEF IInv, KernelConsistent

LEMMA ConsistentNext == IInv /\ [Next]_vars => KernelConsistent'
<1> SUFFICES ASSUME IInv, [Next]_vars PROVE KernelConsistent'
  OBVIOUS
<1>1. CASE CleanupSockets
  BY <1>1, ConsistentCleanup
<1>2. ASSUME NEW i \in Live, CloseAndErase(i) PROVE KernelConsistent'
  BY <1>2, ConsistentErase
<1>3. ASSUME NEW c \in Conn, Accept(c) PROVE KernelConsistent'
  BY <1>3, ConsistentAccept
<1>4. ASSUME NEW c \in Conn, PeerConnect(c) \/ PeerClose(c) PROVE KernelConsistent'
  <2>1. /\ fdTable' = fdTable /\ peer[c] \in {"new", "up"}
        /\ peer' = [peer EXCEPT ![c] = IF @ = "new" THEN "backlog" ELSE "left"]
    BY <1>4 DEF PeerConnect, PeerClose
  <2>2. OpenFds' = OpenFds /\ \A fd \in OpenFds : fdTable[fd] \in Conn
    BY <2>1 DEF OpenFds, IInv, TypeOK
  <2> QED BY <2>1, <2>2 DEF IInv, KernelConsistent, TypeOK
<1>5. CASE UNCHANGED <<fdTable, peer>>
  BY <1>5 DEF IInv, KernelConsistent, OpenFds
<1>6. CASE MainStep
  BY <1>1, <1>5, <1>6
     DEF MainStep, StartStep, CreateListener, CreateListenerFails, Bind, BindFails,
         Listen, ListenFails, Run, InputLoop, StopInput, TakeLine, ListClients, SendCommand,
         Shutdown, JoinAcceptThread, DestroyServer, Exit
<1>7. CASE AcceptStep
  BY <1>3, <1>5, <1>7 DEF AcceptStep, AcceptLoop, AcceptFails, Register
<1>8. ASSUME NEW h \in Conn, HandlerStep(h) \/ StringCrash(h) PROVE KernelConsistent'
  BY <1>2, <1>5, <1>8
     DEF HandlerStep, HandlerLoop, RecvFails, RecvWouldBlock, RecvMessage, Rename,
         Announce, RemoveClient, Found, StringCrash
<1>9. CASE \/ EndOfInput
           \/ \E line \in Lines : TypeLine(line)
           \/ SignalHandler
           \/ \E c \in Conn, msg \in PeerMessages : PeerSend(c, msg)
  BY <1>5, <1>9 DEF EndOfInput, TypeLine, SignalHandler, PeerSend
<1>10. CASE Terminated \/ UNCHANGED vars
  BY <1>5, <1>10 DEF Terminated, vars
<1> QED BY <1>4, <1>6, <1>7, <1>8, <1>9, <1>10 DEF Next

-----------------------------------------------------------------------------
(***************************************************************************)
(* The search for a port tries every one from m_initialPort up.            *)
(***************************************************************************)
LEMMA SearchInit == Init => PortSearch
BY ConstantsAssumption DEF Init, PortSearch, FreeAbove

LEMMA SearchGoesOn ==
  ASSUME IInv, BindFails
  PROVE  PortSearch'
<1>1. port \in 0..MaxPort /\ MaxPort \in Nat /\ InitialPort \in 0..MaxPort
  BY ConstantsAssumption DEF IInv, TypeOK
<1>2. listener' = "closed" /\ mainPc' = "start" /\ Bindable = {}
  BY DEF BindFails, CleanupSockets
<1> SUFFICES ASSUME InitialPort # 0, FreeAbove # {}
             PROVE  InitialPort <= port' /\ \A p \in FreeAbove : port' <= p
  BY <1>2 DEF PortSearch, FreeAbove
<1>3. InitialPort <= port /\ \A p \in FreeAbove : port <= p
  BY DEF IInv, PortSearch
<1>4. port \notin FreePorts
  BY <1>1, <1>2, <1>3 DEF Bindable
<1>5. \A p \in FreeAbove : p \in Nat /\ p <= MaxPort /\ port < p
  BY <1>1, <1>3, <1>4 DEF FreeAbove
<1>6. port' = port + 1
  BY <1>1, <1>5 DEF BindFails, NextPort
<1> QED BY <1>1, <1>3, <1>5, <1>6

LEMMA SearchNext == IInv /\ [Next]_vars => PortSearch'
<1> SUFFICES ASSUME IInv, [Next]_vars PROVE PortSearch'
  OBVIOUS
<1>1. CASE UNCHANGED <<port, address, listener>> /\ (mainPc' = mainPc \/ mainPc' # "listen")
  BY <1>1 DEF IInv, PortSearch, Bindable, FreeAbove
<1>2. CASE port' = port /\ listener' \in {"closed", "open"} /\ mainPc' # "listen"
  BY <1>2 DEF IInv, PortSearch, FreeAbove
<1>3. CASE MainStep
  <2>1. CASE Bind
    BY <2>1 DEF Bind, IInv, PortSearch, Bindable, FreeAbove
  <2>2. CASE BindFails
    BY <2>2, SearchGoesOn
  <2>3. CASE Listen
    BY <2>3 DEF Listen, IInv, PortSearch, Bindable, FreeAbove
  <2> QED BY <1>1, <1>2, <1>3, <2>1, <2>2, <2>3
       DEF MainStep, StartStep, CreateListener, CreateListenerFails, ListenFails, Run,
           InputLoop, StopInput, TakeLine, ListClients, SendCommand, BroadcastKilled, Shutdown,
           JoinAcceptThread, DestroyServer, Exit, CleanupSockets
<1>4. CASE AcceptStep
  BY <1>1, <1>4 DEF AcceptStep, AcceptLoop, AcceptFails, Register, Accept
<1>5. ASSUME NEW h \in Conn, HandlerStep(h) \/ StringCrash(h) PROVE PortSearch'
  BY <1>1, <1>5
     DEF HandlerStep, HandlerLoop, RecvFails, RecvWouldBlock, RecvMessage, Rename,
         Announce, BroadcastKilled, RemoveClient, StringCrash
<1>6. CASE \/ EndOfInput
           \/ \E line \in Lines : TypeLine(line)
           \/ SignalHandler
           \/ \E c \in Conn : PeerConnect(c) \/ PeerClose(c)
           \/ \E c \in Conn, msg \in PeerMessages : PeerSend(c, msg)
  BY <1>1, <1>6 DEF EndOfInput, TypeLine, SignalHandler, PeerConnect, PeerClose, PeerSend
<1>7. CASE Terminated \/ UNCHANGED vars
  BY <1>1, <1>7 DEF Terminated, vars
<1> QED BY <1>3, <1>4, <1>5, <1>6, <1>7 DEF Next

-----------------------------------------------------------------------------
LEMMA IInvInit == Init => IInv
<1>1. Init => KernelConsistent
  BY DEF Init, KernelConsistent, OpenFds
<1> QED BY <1>1, OwnershipInit, SearchInit DEF IInv, Ownership

LEMMA IInvNext == IInv /\ [Next]_vars => IInv'
BY OwnershipNext, ConsistentNext, SearchNext DEF IInv, Ownership

(***************************************************************************)
(* The inductive invariant holds throughout every execution.               *)
(***************************************************************************)
THEOREM Invariance == Spec => []IInv
BY IInvInit, IInvNext, PTL DEF Spec

(***************************************************************************)
(* The state keeps its shape: m_clients never outgrows its storage and     *)
(* every socket in it is a descriptor.                                     *)
(***************************************************************************)
THEOREM TypeCorrect == Spec => []TypeOK
<1>1. IInv => TypeOK
  BY DEF IInv
<1> QED BY <1>1, Invariance, PTL

(***************************************************************************)
(* removeClient(), acceptClients() and cleanupSockets() neither leak a     *)
(* client socket nor keep an entry for a closed one, however the handlers' *)
(* references alias each other.                                            *)
(***************************************************************************)
THEOREM LedgerCorrect == Spec => []SocketsAccounted
<1>1. IInv => SocketsAccounted
  BY DEF IInv
<1> QED BY <1>1, Invariance, PTL

(***************************************************************************)
(* When ~Server is over, no client socket is open, whatever registered     *)
(* after run() had closed them.                                            *)
(***************************************************************************)
THEOREM DestructorCloses == Spec => []DestroyedMeansClosed
<1>1. IInv => DestroyedMeansClosed
  <2> SUFFICES ASSUME IInv, mainPc \in {"destroyed", "exited"} PROVE OpenFds = {}
    BY DEF DestroyedMeansClosed
  <2>1. acceptPc # "register" /\ size = 0
    BY DEF IInv, JoinedIsDone, ListDestroyed
  <2>2. Live = {} /\ Held = {}
    BY <2>1 DEF Live, Held
  <2> QED BY <2>2 DEF IInv, SocketsAccounted, Listed
<1> QED BY <1>1, Invariance, PTL

(***************************************************************************)
(* The server listens on the first free port from the one it was given,    *)
(* and reports that port, whenever one is free and it was not given 0.     *)
(***************************************************************************)
THEOREM PortCorrect == Spec => []FirstFreePort
<1>1. IInv => FirstFreePort
  <2> SUFFICES ASSUME IInv, listener = "listening", InitialPort # 0, FreeAbove # {}
               PROVE  /\ port \in FreeAbove /\ address = port
                      /\ \A p \in FreeAbove : port <= p
    BY DEF FirstFreePort
  <2>1. /\ address \in Bindable /\ port \in 0..MaxPort
        /\ InitialPort <= port /\ \A p \in FreeAbove : port <= p
    BY DEF IInv, PortSearch, TypeOK
  <2>2. address = port /\ port \in FreePorts
    BY <2>1, ConstantsAssumption DEF Bindable
  <2>3. port \in FreeAbove
    BY <2>1, <2>2, ConstantsAssumption DEF FreeAbove
  <2> QED BY <2>1, <2>2, <2>3
<1> QED BY <1>1, Invariance, PTL
=============================================================================
