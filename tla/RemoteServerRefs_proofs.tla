----------------------- MODULE RemoteServerRefs_proofs -----------------------
(***************************************************************************)
(* What becomes of the handlers' references into m_clients, for every      *)
(* number of clients.  RefInv is inductive together with IInv; its core is *)
(* LostForGood: a handler that no longer serves its client never does      *)
(* again.  The steps fall into five kinds, by what they do to the list.    *)
(***************************************************************************)
EXTENDS RemoteServer_proofs

USE DEF portVars, serverVars, threadVars, netVars

(***************************************************************************)
(* A reference that was lost is never regained.  Storage only grows        *)
(* until ~Server frees it, so a dangling reference dangles for good; and   *)
(* in the storage a reference points into, the entry of its client only    *)
(* moves down, away from it.  A handler that still serves its client when  *)
(* it is about to remove it has therefore read its own client's end.       *)
(***************************************************************************)
AcceptedOnce ==
  /\ \A c \in Conn : peer[c] \in {"new", "backlog"} => ~Started(c)
  /\ acceptPc = "register" => ~Started(fdTable[clientSocket])

UpMeansOpen == \A c \in Conn : peer[c] = "up" => \E fd \in Fd : fdTable[fd] = c

StorageOnlyGrows ==
  /\ size <= capacity
  /\ \A h \in Conn : Started(h) =>
       /\ client[h].capacity # 0
       /\ client[h].capacity <= capacity \/ Over

EntriesMoveDown ==
  \A h \in Conn : \A i \in Live :
    Started(h) /\ ~Dangling(h) /\ fdTable[slots[i].socket] = h => i <= client[h].index

RunningMeans ==
  /\ running => mainPc \notin {"cleanup", "join"}
  /\ running /\ mainPc \in {"start", "bind", "listen", "run", "destroy", "destroyed",
                            "exited"} => acceptPc = "none"
  /\ acceptPc = "none" => size = 0

EndReadByItsHandler ==
  running => \A h \in Conn :
    handlerPc[h] = "remove" /\ ServesItsClient(h) => peer[h] = "left"

RefInv == /\ AcceptedOnce
          /\ UpMeansOpen
          /\ StorageOnlyGrows
          /\ EntriesMoveDown
          /\ RunningMeans
          /\ EndReadByItsHandler

-----------------------------------------------------------------------------
Handlers == {"none", "loop", "recv", "rename", "announce", "remove", "done"}

(***************************************************************************)
(* A step that touches no entry, no reference and no descriptor, and moves *)
(* handlers and threads only on.                                           *)
(***************************************************************************)
Quiet ==
  /\ UNCHANGED <<size, capacity, client, fdTable>>
  /\ \A i \in Live : slots'[i].socket = slots[i].socket

CleanedUp == CleanupSockets /\ UNCHANGED <<slots, handlerPc, client>>

Erased(h) ==
  /\ handlerPc[h] = "remove" /\ handlerPc' = [handlerPc EXCEPT ![h] = "done"]
  /\ UNCHANGED <<capacity, client>>
  /\ \E i \in Live : slots[i].socket \in Deref(h) /\ CloseAndErase(i)

LEMMA LiveOpen ==
  ASSUME IInv, NEW i \in Live
  PROVE  /\ i \in 1..MaxClients /\ slots[i].socket \in OpenFds
         /\ fdTable[slots[i].socket] \in Conn
<1>1. i \in 1..MaxClients
  BY ConstantsAssumption DEF Live, IInv, TypeOK
<1>2. slots[i].socket \in OpenFds
  BY DEF IInv, SocketsAccounted, Listed
<1> QED BY <1>1, <1>2 DEF OpenFds, IInv, TypeOK

LEMMA RenameQuiet ==
  ASSUME IInv, NEW h \in Conn, Rename(h)
  PROVE  Quiet
<1> DEFINE at == client[h].index
<1>1. slots' = slots \/ slots' = [slots EXCEPT ![at].name = sender[h]]
  BY DEF Rename
<1> HIDE DEF at
<1>2. \A i \in 1..MaxClients : slots'[i] = slots[i]
                                \/ slots'[i] = [slots[i] EXCEPT !.name = sender[h]]
  BY <1>1 DEF IInv, TypeOK
<1>3. \A i \in 1..MaxClients :
        slots[i] \in [socket : Fd \cup {NoFd}, name : Conn \cup {NoConn}]
  BY DEF IInv, TypeOK
<1>4. \A i \in Live : slots'[i].socket = slots[i].socket
  BY <1>2, <1>3, LiveOpen
<1> QED BY <1>4 DEF Quiet, Rename

(***************************************************************************)
(* What every step is, for the references.                                 *)
(***************************************************************************)
LEMMA MainKinds ==
  ASSUME IInv, MainStep
  PROVE  /\ UNCHANGED handlerPc
         /\ \/ Quiet /\ UNCHANGED peer
            \/ CleanedUp /\ capacity' = capacity
            \/ CleanedUp /\ capacity' = 0 /\ Over'
BY DEF MainStep, StartStep, CreateListener, CreateListenerFails, Bind, BindFails,
   Listen, ListenFails, Run, InputLoop, StopInput, TakeLine, ListClients, SendCommand,
   Shutdown, JoinAcceptThread, DestroyServer, Exit, Quiet, CleanedUp, Over, Live

LEMMA HandlerKinds ==
  ASSUME IInv, NEW h \in Conn, HandlerStep(h) \/ StringCrash(h)
  PROVE  /\ UNCHANGED <<running, acceptPc, clientSocket>>
         /\ mainPc' \in {mainPc, "killed"}
         /\ \E pc \in Handlers : handlerPc' = [handlerPc EXCEPT ![h] = pc]
         /\ handlerPc[h] # "none" /\ handlerPc'[h] # "none"
         /\ \/ Quiet /\ UNCHANGED peer
            \/ Erased(h)
<1>1. CASE RemoveClient(h)
  <2>1. PICK fd \in Deref(h) :
          \/ \E i \in Found(fd) : CloseAndErase(i)
          \/ UNCHANGED <<slots, size, fdTable, peer>>
    BY <1>1 DEF RemoveClient
  <2>2. CASE UNCHANGED <<slots, size, fdTable, peer>>
    <3>1. Quiet /\ UNCHANGED peer
      BY <1>1, <2>2 DEF RemoveClient, Quiet
    <3> QED BY <1>1, <3>1 DEF RemoveClient, IInv, TypeOK, Handlers
  <2>3. CASE \E i \in Found(fd) : CloseAndErase(i)
    <3>1. Erased(h)
      BY <1>1, <2>3 DEF RemoveClient, Erased, Found
    <3> QED BY <1>1, <3>1 DEF RemoveClient, IInv, TypeOK, Handlers
  <2> QED BY <2>1, <2>2, <2>3
<1>2. CASE Rename(h)
  <2>1. Quiet /\ UNCHANGED peer
    BY <1>2, RenameQuiet DEF Rename
  <2> QED BY <1>2, <2>1 DEF Rename, IInv, TypeOK, Handlers
<1>3. CASE StringCrash(h)
  <2>1. Quiet /\ UNCHANGED peer
    BY <1>3 DEF StringCrash, Quiet
  <2>2. handlerPc' = [handlerPc EXCEPT ![h] = handlerPc[h]] /\ handlerPc[h] \in Handlers
    BY <1>3 DEF StringCrash, IInv, TypeOK, Handlers
  <2>3. handlerPc[h] # "none"
    BY <1>3 DEF StringCrash, NameRace
  <2> QED BY <1>3, <2>1, <2>2, <2>3 DEF StringCrash
<1>4. CASE HandlerLoop(h) \/ RecvFails(h) \/ RecvWouldBlock(h) \/ RecvMessage(h)
           \/ Announce(h)
  <2>1. Quiet /\ UNCHANGED peer
    BY <1>4 DEF HandlerLoop, RecvFails, RecvWouldBlock, RecvMessage, Announce, Quiet
  <2>2. /\ \E pc \in Handlers : handlerPc' = [handlerPc EXCEPT ![h] = pc]
        /\ handlerPc[h] # "none"
    BY <1>4 DEF HandlerLoop, RecvFails, RecvWouldBlock, RecvMessage, Announce, Handlers
  <2>3. handlerPc'[h] # "none"
    BY <1>4 DEF HandlerLoop, RecvFails, RecvWouldBlock, RecvMessage, Announce, IInv,
       TypeOK
  <2> QED BY <1>4, <2>1, <2>2, <2>3
       DEF HandlerLoop, RecvFails, RecvWouldBlock, RecvMessage, Announce,
           BroadcastKilled
<1> QED BY <1>1, <1>2, <1>3, <1>4 DEF HandlerStep

LEMMA EnvironmentKinds ==
  ASSUME \/ EndOfInput
         \/ \E line \in Lines : TypeLine(line)
         \/ SignalHandler
         \/ \E c \in Conn : PeerConnect(c) \/ PeerClose(c)
         \/ \E c \in Conn, msg \in PeerMessages : PeerSend(c, msg)
         \/ Terminated \/ UNCHANGED vars
  PROVE  /\ Quiet /\ UNCHANGED <<handlerPc, acceptPc, clientSocket>>
         /\ running' => running
         /\ mainPc' \in {mainPc, "dispatch"}
         /\ \/ UNCHANGED peer
            \/ \E c \in Conn :
                 \/ peer[c] = "new" /\ peer' = [peer EXCEPT ![c] = "backlog"]
                 \/ peer[c] = "up" /\ peer' = [peer EXCEPT ![c] = "left"]
BY DEF EndOfInput, TypeLine, SignalHandler, PeerConnect, PeerClose, PeerSend,
   Terminated, vars, Quiet

-----------------------------------------------------------------------------
(***************************************************************************)
(* The entries of the list after each kind of step.                        *)
(***************************************************************************)
EntriesKept ==
  /\ UNCHANGED <<size, capacity, client>>
  /\ \A i \in Live : /\ slots'[i].socket = slots[i].socket
                     /\ fdTable'[slots[i].socket] = fdTable[slots[i].socket]

LEMMA QuietKeeps == Quiet => EntriesKept
BY DEF Quiet, EntriesKept

LEMMA AcceptKeeps ==
  ASSUME IInv, NEW c \in Conn, Accept(c)
  PROVE  EntriesKept
<1>1. PICK fd \in Fd \ OpenFds : fdTable' = [fdTable EXCEPT ![fd] = c]
  BY DEF Accept
<1>2. \A i \in Live : slots[i].socket \in OpenFds
  BY LiveOpen
<1>3. \A i \in Live : fdTable'[slots[i].socket] = fdTable[slots[i].socket]
  BY <1>1, <1>2
<1> QED BY <1>3 DEF Accept, EntriesKept

LEMMA OneEntryEach ==
  ASSUME IInv, NEW i \in Live, NEW j \in Live,
         fdTable[slots[i].socket] = fdTable[slots[j].socket]
  PROVE  i = j
<1>1. slots[i].socket = slots[j].socket
  BY LiveOpen DEF IInv, KernelConsistent
<1> QED BY <1>1 DEF IInv, SocketsAccounted

LEMMA ErasedEntries ==
  ASSUME IInv, NEW i \in Live, CloseAndErase(i), NEW j \in Live'
  PROVE  \E k \in Live \ {i} :
           /\ k = IF i <= j THEN j + 1 ELSE j
           /\ slots'[j] = slots[k]
           /\ fdTable'[slots'[j].socket] = fdTable[slots[k].socket]
<1>1. /\ size \in 1..MaxClients /\ MaxClients \in Nat /\ i \in 1..size
      /\ size' = size - 1 /\ j \in 1..(size - 1)
  BY ConstantsAssumption DEF IInv, TypeOK, CloseAndErase, EraseAt, Live
<1> DEFINE k == IF i <= j THEN j + 1 ELSE j
<1>2. k \in Live \ {i} /\ slots'[j] = slots[k]
  BY <1>1 DEF CloseAndErase, EraseAt, Live
<1>3. slots[k].socket # slots[i].socket
  BY <1>2 DEF IInv, SocketsAccounted
<1>4. fdTable'[slots[k].socket] = fdTable[slots[k].socket]
  BY <1>2, <1>3, LiveOpen DEF CloseAndErase, OpenFds, IInv, TypeOK
<1> QED BY <1>2, <1>4

LEMMA RegisteredEntries ==
  ASSUME IInv, Register
  PROVE  /\ size' = size + 1 /\ size \in Nat /\ fdTable' = fdTable
         /\ fdTable[clientSocket] \in Conn
         /\ handlerPc' = [handlerPc EXCEPT ![fdTable[clientSocket]] = "loop"]
         /\ client' = [client EXCEPT ![fdTable[clientSocket]] = Back]
         /\ \A i \in Live' : \/ i \in Live /\ slots'[i].socket = slots[i].socket
                             \/ i = size + 1 /\ slots'[i].socket = clientSocket
<1>1. size' = size + 1 /\ size \in Nat /\ fdTable' = fdTable
  BY DEF Register, IInv, TypeOK
<1>2. fdTable[clientSocket] \in Conn
  BY RegisterLists DEF OpenFds, IInv, TypeOK
<1>3. \A i \in Live' : i = size + 1 \/ i \in Live
  BY <1>1 DEF Live
<1>4. \A i \in Live : i # size + 1
  BY <1>1 DEF Live
<1> QED BY <1>1, <1>2, <1>3, <1>4, RegisterLists DEF Register

LEMMA GrowsMore ==
  ASSUME IInv
  PROVE  /\ capacity \in Nat /\ CapacityForOneMore \in Nat
         /\ CapacityForOneMore # 0 \/ size # capacity
         /\ CapacityForOneMore = capacity \/ CapacityForOneMore > capacity
<1>1. capacity \in Nat /\ size \in Nat
  BY DEF IInv, TypeOK
<1> QED BY <1>1 DEF CapacityForOneMore, Grow

(***************************************************************************)
(* A handler that has lost its client's entry never serves it again.       *)
(***************************************************************************)
LEMMA KeptServes ==
  ASSUME EntriesKept, NEW h \in Conn
  PROVE  ServesItsClient(h)' <=> ServesItsClient(h)
BY DEF EntriesKept, ServesItsClient, Dangling, Live

LEMMA CleanedServesNone ==
  ASSUME CleanupSockets, NEW h \in Conn
  PROVE  ~ServesItsClient(h)'
BY DEF CleanupSockets, ServesItsClient, Live

LEMMA LostByErase ==
  ASSUME IInv, RefInv, NEW g \in Conn, Erased(g), NEW h \in Conn,
         Started(h), ServesItsClient(h)'
  PROVE  ServesItsClient(h)
<1>1. PICK i \in Live : CloseAndErase(i)
  BY DEF Erased
<1> DEFINE j == client[h].index
<1>2. j \in Live' /\ fdTable'[slots'[j].socket] = h /\ ~Dangling(h)
  BY DEF ServesItsClient, Erased, Dangling
<1>3. PICK k \in Live \ {i} : /\ k = IF i <= j THEN j + 1 ELSE j
                              /\ fdTable[slots[k].socket] = h
  BY <1>1, <1>2, ErasedEntries
<1>4. k <= j
  BY <1>2, <1>3 DEF RefInv, EntriesMoveDown
<1>5. i \in Nat /\ j \in Nat
  BY <1>2 DEF Live
<1>6. k = j
  BY <1>3, <1>4, <1>5
<1> QED BY <1>2, <1>3, <1>6 DEF ServesItsClient

LEMMA LostByRegister ==
  ASSUME IInv, RefInv, Register, NEW h \in Conn, Started(h), ServesItsClient(h)'
  PROVE  ServesItsClient(h)
<1> DEFINE c == fdTable[clientSocket]
<1>1. c \in Conn /\ ~Started(c)
  BY RegisteredEntries DEF RefInv, AcceptedOnce, Register
<1>2. h # c /\ client'[h] = client[h]
  BY <1>1, RegisteredEntries DEF IInv, TypeOK
<1> DEFINE j == client[h].index
<1>3. client[h].capacity = capacity' /\ j \in Live' /\ fdTable[slots'[j].socket] = h
  BY <1>2, RegisteredEntries DEF ServesItsClient, Dangling
<1>4. j \in Live /\ fdTable[slots[j].socket] = h
  BY <1>2, <1>3, RegisteredEntries
<1>5. client[h].capacity <= capacity
  <2>1. ~Over
    BY DEF Over, Register, Alive, IInv, JoinedIsDone
  <2> QED BY <2>1 DEF RefInv, StorageOnlyGrows
<1>6. capacity' = CapacityForOneMore
  BY DEF Register
<1>7. capacity' = capacity
  BY <1>3, <1>5, <1>6, GrowsMore
<1> QED BY <1>3, <1>4, <1>7 DEF ServesItsClient, Dangling

LEMMA LostForGood ==
  ASSUME IInv, RefInv, [Next]_vars, NEW h \in Conn, Started(h), ServesItsClient(h)'
  PROVE  ServesItsClient(h)
<1>1. CASE EntriesKept
  BY <1>1, KeptServes
<1>2. CASE MainStep
  BY <1>1, <1>2, MainKinds, QuietKeeps, CleanedServesNone DEF CleanedUp
<1>3. CASE AcceptStep
  <2>1. CASE AcceptLoop \/ AcceptFails
    BY <1>1, <2>1 DEF AcceptLoop, AcceptFails, EntriesKept
  <2>2. CASE Register
    BY <2>2, LostByRegister
  <2> QED BY <1>1, <1>3, <2>1, <2>2, AcceptKeeps DEF AcceptStep
<1>4. ASSUME NEW g \in Conn, HandlerStep(g) \/ StringCrash(g)
      PROVE  ServesItsClient(h)
  BY <1>1, <1>4, HandlerKinds, QuietKeeps, LostByErase
<1>5. CASE \/ EndOfInput
           \/ \E line \in Lines : TypeLine(line)
           \/ SignalHandler
           \/ \E c \in Conn : PeerConnect(c) \/ PeerClose(c)
           \/ \E c \in Conn, msg \in PeerMessages : PeerSend(c, msg)
           \/ Terminated \/ UNCHANGED vars
  BY <1>1, <1>5, EnvironmentKinds, QuietKeeps
<1> QED BY <1>2, <1>3, <1>4, <1>5 DEF Next

-----------------------------------------------------------------------------
(***************************************************************************)
(* RefInv is preserved, one conjunct at a time.                            *)
(***************************************************************************)
Environment ==
  \/ EndOfInput
  \/ \E line \in Lines : TypeLine(line)
  \/ SignalHandler
  \/ \E c \in Conn : PeerConnect(c) \/ PeerClose(c)
  \/ \E c \in Conn, msg \in PeerMessages : PeerSend(c, msg)
  \/ Terminated \/ UNCHANGED vars

LEMMA StepKinds ==
  ASSUME [Next]_vars
  PROVE  \/ MainStep \/ AcceptLoop \/ AcceptFails \/ Register
         \/ \E c \in Conn : Accept(c)
         \/ \E h \in Conn : HandlerStep(h) \/ StringCrash(h)
         \/ Environment
BY DEF Next, AcceptStep, Environment

LEMMA AcceptIdles ==
  ASSUME AcceptLoop \/ AcceptFails
  PROVE  /\ Quiet /\ UNCHANGED <<peer, handlerPc, mainPc, running>>
         /\ acceptPc # "none" /\ acceptPc' \notin {"register", "none"}
BY DEF AcceptLoop, AcceptFails, Quiet

LEMMA SameStarted ==
  ASSUME IInv, NEW h \in Conn, HandlerStep(h) \/ StringCrash(h), NEW c \in Conn
  PROVE  Started(c)' <=> Started(c)
<1>1. PICK pc \in Handlers : handlerPc' = [handlerPc EXCEPT ![h] = pc]
  BY HandlerKinds
<1>2. handlerPc[h] # "none" /\ handlerPc'[h] # "none"
  BY HandlerKinds
<1> QED BY <1>1, <1>2 DEF Started, IInv, TypeOK

LEMMA NeverNewAgain ==
  ASSUME IInv, [Next]_vars, NEW c \in Conn, peer'[c] \in {"new", "backlog"}
  PROVE  peer[c] \in {"new", "backlog"}
<1>1. peer \in [Conn -> {"new", "backlog", "up", "left", "dropped"}]
  BY DEF IInv, TypeOK
<1>2. ASSUME CleanupSockets PROVE peer[c] \in {"new", "backlog"}
  BY <1>1, <1>2 DEF CleanupSockets
<1>3. CASE MainStep
  BY <1>2, <1>3, MainKinds DEF CleanedUp
<1>4. CASE AcceptLoop \/ AcceptFails
  BY <1>4, AcceptIdles
<1>5. CASE Register
  BY <1>5 DEF Register
<1>6. ASSUME NEW d \in Conn, Accept(d) PROVE peer[c] \in {"new", "backlog"}
  BY <1>1, <1>6 DEF Accept
<1>7. ASSUME NEW h \in Conn, HandlerStep(h) \/ StringCrash(h)
      PROVE  peer[c] \in {"new", "backlog"}
  <2>1. CASE Erased(h)
    BY <1>1, <2>1 DEF Erased, CloseAndErase
  <2> QED BY <1>7, <2>1, HandlerKinds
<1>8. CASE Environment
  BY <1>1, <1>8, EnvironmentKinds DEF Environment
<1> QED BY <1>3, <1>4, <1>5, <1>6, <1>7, <1>8, StepKinds

LEMMA AcceptedOnceNext ==
  ASSUME IInv, RefInv, [Next]_vars
  PROVE  AcceptedOnce'
<1> USE DEF Started
<1>1. ASSUME \A c \in Conn : Started(c)' => Started(c),
             acceptPc' = "register" => acceptPc = "register" /\ clientSocket' = clientSocket,
             acceptPc = "register" => fdTable'[clientSocket] = fdTable[clientSocket]
      PROVE  AcceptedOnce'
  <2>1. \A c \in Conn : peer'[c] \in {"new", "backlog"} => handlerPc'[c] = "none"
    BY <1>1, NeverNewAgain DEF RefInv, AcceptedOnce
  <2>2. acceptPc = "register" => fdTable[clientSocket] \in Conn
    BY DEF IInv, SocketsAccounted, Held, OpenFds, TypeOK
  <2> QED BY <1>1, <2>1, <2>2 DEF RefInv, AcceptedOnce
<1>2. CASE MainStep
  <2>1. UNCHANGED handlerPc
    BY <1>2, MainKinds
  <2>2. acceptPc' = "register" => acceptPc = "register" /\ clientSocket' = clientSocket
    BY <1>2 DEF MainStep, StartStep, CreateListener, CreateListenerFails, Bind,
       BindFails, Listen, ListenFails, Run, InputLoop, StopInput, TakeLine, ListClients,
       SendCommand, Shutdown, JoinAcceptThread, DestroyServer, Exit
  <2>3. ASSUME acceptPc = "register" PROVE fdTable'[clientSocket] = fdTable[clientSocket]
    <3>1. clientSocket \in OpenFds \ Listed
      BY <2>3 DEF IInv, SocketsAccounted, Held
    <3>2. CASE CleanupSockets
      BY <3>1, <3>2 DEF CleanupSockets, OpenFds
    <3> QED BY <1>2, <3>2, MainKinds DEF CleanedUp, Quiet
  <2> QED BY <1>1, <2>1, <2>2, <2>3
<1>3. CASE AcceptLoop \/ AcceptFails
  BY <1>1, <1>3, AcceptIdles DEF AcceptLoop, AcceptFails
<1>4. CASE Register
  <2>1. acceptPc' # "register" /\ peer' = peer
    BY <1>4 DEF Register
  <2>2. peer[fdTable[clientSocket]] \in {"up", "left"}
    BY <1>4, RegisterLists DEF IInv, KernelConsistent
  <2>3. \A c \in Conn : c # fdTable[clientSocket] => handlerPc'[c] = handlerPc[c]
    BY <1>4, RegisteredEntries DEF IInv, TypeOK
  <2> QED BY <2>1, <2>2, <2>3 DEF RefInv, AcceptedOnce
<1>5. ASSUME NEW c \in Conn, Accept(c) PROVE AcceptedOnce'
  <2>1. handlerPc' = handlerPc /\ handlerPc[c] = "none"
    BY <1>5 DEF Accept, CanAccept, RefInv, AcceptedOnce
  <2>2. fdTable'[clientSocket'] = c
    BY <1>5 DEF Accept, IInv, TypeOK
  <2>3. \A d \in Conn : peer'[d] \in {"new", "backlog"} => handlerPc'[d] = "none"
    BY <2>1, NeverNewAgain DEF RefInv, AcceptedOnce
  <2> QED BY <2>1, <2>2, <2>3 DEF AcceptedOnce
<1>6. ASSUME NEW h \in Conn, HandlerStep(h) \/ StringCrash(h) PROVE AcceptedOnce'
  <2>1. \A c \in Conn : Started(c)' => Started(c)
    BY <1>6, SameStarted
  <2>2. UNCHANGED <<acceptPc, clientSocket>>
    BY <1>6, HandlerKinds
  <2>3. ASSUME acceptPc = "register" PROVE fdTable'[clientSocket] = fdTable[clientSocket]
    <3>1. clientSocket \in OpenFds \ Listed
      BY <2>3 DEF IInv, SocketsAccounted, Held
    <3>2. CASE Erased(h)
      BY <3>1, <3>2 DEF Erased, CloseAndErase, OpenFds, Listed, IInv, TypeOK
    <3> QED BY <1>6, <3>2, HandlerKinds DEF Quiet
  <2> QED BY <1>1, <2>1, <2>2, <2>3
<1>7. CASE Environment
  <2>1. UNCHANGED <<handlerPc, acceptPc, clientSocket, fdTable>>
    BY <1>7, EnvironmentKinds DEF Environment, Quiet
  <2> QED BY <1>1, <2>1
<1> QED BY <1>2, <1>3, <1>4, <1>5, <1>6, <1>7, StepKinds

LEMMA UpMeansOpenNext ==
  ASSUME IInv, RefInv, [Next]_vars
  PROVE  UpMeansOpen'
<1>1. peer \in [Conn -> {"new", "backlog", "up", "left", "dropped"}]
  BY DEF IInv, TypeOK
<1>2. ASSUME UNCHANGED fdTable, \A c \in Conn : peer'[c] = "up" => peer[c] = "up"
      PROVE  UpMeansOpen'
  BY <1>2 DEF RefInv, UpMeansOpen
<1>3. CASE MainStep
  <2>1. CASE CleanupSockets
    BY <1>1, <2>1 DEF CleanupSockets, RefInv, UpMeansOpen
  <2> QED BY <1>2, <1>3, <2>1, MainKinds DEF CleanedUp, Quiet
<1>4. CASE AcceptLoop \/ AcceptFails
  BY <1>2, <1>4, AcceptIdles DEF Quiet
<1>5. CASE Register
  BY <1>2, <1>5 DEF Register
<1>6. ASSUME NEW c \in Conn, Accept(c) PROVE UpMeansOpen'
  <2>1. PICK fd \in Fd \ OpenFds : fdTable' = [fdTable EXCEPT ![fd] = c]
    BY <1>6 DEF Accept
  <2>2. fdTable'[fd] = c /\ \A gd \in OpenFds : fdTable'[gd] = fdTable[gd]
    BY <2>1 DEF IInv, TypeOK, OpenFds
  <2>3. \A d \in Conn : peer'[d] = "up" => d = c \/ peer[d] = "up"
    BY <1>1, <1>6 DEF Accept
  <2> QED BY <2>2, <2>3, ConstantsAssumption DEF RefInv, UpMeansOpen, OpenFds
<1>7. ASSUME NEW h \in Conn, HandlerStep(h) \/ StringCrash(h) PROVE UpMeansOpen'
  <2>1. CASE Erased(h)
    <3>1. PICK i \in Live : CloseAndErase(i)
      BY <2>1 DEF Erased
    <3> DEFINE fd == slots[i].socket
    <3>2. /\ fdTable' = [fdTable EXCEPT ![fd] = NoConn]
          /\ fdTable[fd] \in Conn
          /\ peer' = [peer EXCEPT ![fdTable[fd]] = IF @ = "up" THEN "dropped" ELSE @]
      BY <3>1, LiveOpen DEF CloseAndErase
    <3>3. ASSUME NEW c \in Conn, peer'[c] = "up" PROVE \E gd \in Fd : fdTable'[gd] = c
      <4>1. peer[c] = "up" /\ c # fdTable[fd]
        BY <1>1, <3>2, <3>3
      <4>2. PICK gd \in Fd : fdTable[gd] = c
        BY <4>1 DEF RefInv, UpMeansOpen
      <4> QED BY <3>2, <4>1, <4>2 DEF IInv, TypeOK
    <3> QED BY <3>3 DEF UpMeansOpen
  <2> QED BY <1>2, <1>7, <2>1, HandlerKinds DEF Quiet
<1>8. CASE Environment
  <2>1. UNCHANGED fdTable
    BY <1>8, EnvironmentKinds DEF Environment, Quiet
  <2>2. \A c \in Conn : peer'[c] = "up" => peer[c] = "up"
    BY <1>1, <1>8, EnvironmentKinds DEF Environment
  <2> QED BY <1>2, <2>1, <2>2
<1> QED BY <1>3, <1>4, <1>5, <1>6, <1>7, <1>8, StepKinds

LEMMA RoomNext ==
  ASSUME IInv, RefInv, [Next]_vars
  PROVE  size' <= capacity'
<1>1. size \in Nat /\ capacity \in Nat /\ size <= capacity
  BY DEF IInv, TypeOK, RefInv, StorageOnlyGrows
<1>2. CASE MainStep
  BY <1>1, <1>2, MainKinds DEF Quiet, CleanedUp, CleanupSockets
<1>3. CASE AcceptLoop \/ AcceptFails
  BY <1>1, <1>3 DEF AcceptLoop, AcceptFails
<1>4. CASE Register
  BY <1>1, <1>4 DEF Register, CapacityForOneMore, Grow
<1>5. ASSUME NEW c \in Conn, Accept(c) PROVE size' <= capacity'
  BY <1>1, <1>5 DEF Accept
<1>6. ASSUME NEW h \in Conn, HandlerStep(h) \/ StringCrash(h) PROVE size' <= capacity'
  BY <1>1, <1>6, HandlerKinds DEF Quiet, Erased, CloseAndErase, EraseAt
<1>7. CASE Environment
  BY <1>1, <1>7, EnvironmentKinds DEF Environment, Quiet
<1> QED BY <1>2, <1>3, <1>4, <1>5, <1>6, <1>7, StepKinds

LEMMA StorageNext ==
  ASSUME IInv, RefInv, [Next]_vars
  PROVE  StorageOnlyGrows'
<1>1. capacity \in Nat /\ client \in [Conn -> [capacity : Nat, index : 0..MaxClients]]
  BY DEF IInv, TypeOK
<1>2. ASSUME \A h \in Conn : Started(h)' => Started(h), UNCHANGED <<client, capacity>>,
             Over => Over'
      PROVE  StorageOnlyGrows'
  BY <1>2, RoomNext DEF RefInv, StorageOnlyGrows
<1>3. CASE MainStep
  <2>1. UNCHANGED <<client, handlerPc>>
    BY <1>3, MainKinds DEF Quiet, CleanedUp
  <2>2. capacity' = capacity \/ Over'
    BY <1>3, MainKinds DEF Quiet, CleanedUp
  <2>3. Over => Over'
    BY <1>3 DEF Over, MainStep, StartStep, CreateListener, CreateListenerFails, Bind,
       BindFails, Listen, ListenFails, Run, InputLoop, StopInput, TakeLine, ListClients,
       SendCommand, Shutdown, JoinAcceptThread, DestroyServer, Exit
  <2> QED BY <2>1, <2>2, <2>3, RoomNext DEF Started, RefInv, StorageOnlyGrows
<1>4. CASE AcceptLoop \/ AcceptFails
  BY <1>2, <1>4, AcceptIdles DEF Quiet, Started, Over
<1>5. CASE Register
  <2>1. ~Over /\ capacity' = CapacityForOneMore
    BY <1>5 DEF Over, Register, Alive, IInv, JoinedIsDone
  <2>2. CapacityForOneMore \in Nat /\ capacity <= CapacityForOneMore
    BY GrowsMore
  <2>3. CapacityForOneMore # 0
    BY <1>1 DEF CapacityForOneMore, Grow, RefInv, StorageOnlyGrows, IInv, TypeOK
  <2> DEFINE c == fdTable[clientSocket]
  <2>4. client'[c] = Back /\ c \in Conn
    BY <1>1, <1>5, RegisteredEntries
  <2>5. Back.capacity = CapacityForOneMore
    BY DEF Back
  <2>6. \A h \in Conn : h # c => client'[h] = client[h] /\ handlerPc'[h] = handlerPc[h]
    BY <1>1, <1>5, RegisteredEntries DEF IInv, TypeOK
  <2>7. \A h \in Conn : client[h].capacity \in Nat
    BY <1>1
  <2> HIDE DEF c
  <2>8. ASSUME NEW h \in Conn, Started(h)'
        PROVE  client'[h].capacity # 0 /\ client'[h].capacity <= capacity'
    <3>1. CASE h = c
      BY <2>1, <2>2, <2>3, <2>4, <2>5, <3>1
    <3>2. CASE h # c
      <4>1. client[h].capacity # 0 /\ client[h].capacity <= capacity
        BY <2>1, <2>6, <2>8, <3>2 DEF Started, RefInv, StorageOnlyGrows
      <4> QED BY <1>1, <2>1, <2>2, <2>6, <2>7, <3>2, <4>1
    <3> QED BY <3>1, <3>2
  <2> QED BY <2>8, RoomNext DEF StorageOnlyGrows
<1>6. ASSUME NEW c \in Conn, Accept(c) PROVE StorageOnlyGrows'
  BY <1>2, <1>6 DEF Accept, Started, Over
<1>7. ASSUME NEW h \in Conn, HandlerStep(h) \/ StringCrash(h) PROVE StorageOnlyGrows'
  <2>1. UNCHANGED <<client, capacity>> /\ mainPc' \in {mainPc, "killed"}
    BY <1>7, HandlerKinds DEF Quiet, Erased
  <2> QED BY <1>2, <1>7, <2>1, SameStarted DEF Over
<1>8. CASE Environment
  <2>1. UNCHANGED <<client, capacity, handlerPc>>
    BY <1>8, EnvironmentKinds DEF Environment, Quiet
  <2>2. Over => Over'
    BY <1>8 DEF Environment, EndOfInput, TypeLine, SignalHandler, PeerConnect, PeerClose,
       PeerSend, Terminated, vars, Over
  <2> QED BY <1>2, <2>1, <2>2 DEF Started
<1> QED BY <1>3, <1>4, <1>5, <1>6, <1>7, <1>8, StepKinds

LEMMA EntriesDownNext ==
  ASSUME IInv, RefInv, [Next]_vars
  PROVE  EntriesMoveDown'
<1>1. ASSUME EntriesKept, \A h \in Conn : Started(h)' => Started(h)
      PROVE  EntriesMoveDown'
  BY <1>1 DEF EntriesKept, RefInv, EntriesMoveDown, Dangling, Live
<1>2. CASE CleanupSockets
  BY <1>2 DEF CleanupSockets, EntriesMoveDown, Live
<1>3. CASE MainStep
  BY <1>1, <1>2, <1>3, MainKinds, QuietKeeps DEF CleanedUp, Started
<1>4. CASE AcceptLoop \/ AcceptFails
  BY <1>1, <1>4, AcceptIdles, QuietKeeps DEF Started
<1>5. CASE Register
  <2> SUFFICES ASSUME NEW h \in Conn, NEW i \in Live', Started(h)', ~Dangling(h)',
                      fdTable'[slots'[i].socket] = h
               PROVE  i <= client'[h].index
    BY DEF EntriesMoveDown
  <2> DEFINE c == fdTable[clientSocket]
  <2>1. \/ i \in Live /\ slots'[i].socket = slots[i].socket
        \/ i = size + 1 /\ slots'[i].socket = clientSocket
    BY <1>5, RegisteredEntries
  <2>2. fdTable' = fdTable /\ c \in Conn /\ size \in Nat
    BY <1>5, RegisteredEntries
  <2>3. CASE i = size + 1 /\ slots'[i].socket = clientSocket
    <3>1. client'[h] = Back
      BY <1>5, <2>2, <2>3, RegisteredEntries DEF IInv, TypeOK
    <3> QED BY <2>2, <2>3, <3>1 DEF Back
  <2>4. CASE i \in Live /\ slots'[i].socket = slots[i].socket
    <3>1. fdTable[slots[i].socket] = h /\ slots[i].socket # clientSocket
      BY <1>5, <2>2, <2>4, RegisterLists DEF Listed
    <3>2. h # c
      BY <1>5, <2>4, <3>1, RegisterLists, LiveOpen DEF IInv, KernelConsistent
    <3>3. client'[h] = client[h] /\ handlerPc'[h] = handlerPc[h]
      BY <1>5, <3>2, RegisteredEntries DEF IInv, TypeOK
    <3>4. ~Over
      BY <1>5 DEF Over, Register, Alive, IInv, JoinedIsDone
    <3>5. Started(h) /\ client[h].capacity <= capacity
      BY <3>3, <3>4 DEF Started, RefInv, StorageOnlyGrows
    <3>6. capacity' = CapacityForOneMore /\ client[h].capacity = capacity'
      BY <1>5, <3>3 DEF Register, Dangling
    <3>7. client[h].capacity = capacity
      BY <3>5, <3>6, GrowsMore
    <3> QED BY <2>4, <3>1, <3>3, <3>5, <3>7 DEF RefInv, EntriesMoveDown, Dangling
  <2> QED BY <2>1, <2>3, <2>4
<1>6. ASSUME NEW c \in Conn, Accept(c) PROVE EntriesMoveDown'
  <2>1. handlerPc' = handlerPc
    BY <1>6 DEF Accept
  <2> QED BY <1>1, <1>6, <2>1, AcceptKeeps DEF Started
<1>7. ASSUME NEW g \in Conn, HandlerStep(g) \/ StringCrash(g) PROVE EntriesMoveDown'
  <2>1. CASE Erased(g)
    <3> SUFFICES ASSUME NEW h \in Conn, NEW j \in Live', Started(h)', ~Dangling(h)',
                        fdTable'[slots'[j].socket] = h
                 PROVE  j <= client'[h].index
      BY DEF EntriesMoveDown
    <3>1. PICK i \in Live : CloseAndErase(i)
      BY <2>1 DEF Erased
    <3>2. PICK k \in Live : /\ k = IF i <= j THEN j + 1 ELSE j
                            /\ fdTable[slots[k].socket] = h
      BY <3>1, ErasedEntries
    <3>3. UNCHANGED <<client, capacity>> /\ Started(h)
      BY <1>7, <2>1, SameStarted DEF Erased
    <3>4. k <= client[h].index
      BY <3>2, <3>3 DEF RefInv, EntriesMoveDown, Dangling
    <3>5. j \in Nat /\ i \in Nat /\ client[h].index \in 0..MaxClients /\ MaxClients \in Nat
      BY ConstantsAssumption DEF Live, IInv, TypeOK
    <3>6. client[h].index \in Nat
      BY <3>5
    <3> QED BY <3>2, <3>3, <3>4, <3>5, <3>6
  <2>2. CASE Quiet
    BY <1>1, <1>7, <2>2, QuietKeeps, SameStarted
  <2> QED BY <1>7, <2>1, <2>2, HandlerKinds
<1>8. CASE Environment
  <2>1. Quiet /\ UNCHANGED handlerPc
    BY <1>8, EnvironmentKinds DEF Environment
  <2> QED BY <1>1, <2>1, QuietKeeps DEF Started
<1> QED BY <1>3, <1>4, <1>5, <1>6, <1>7, <1>8, StepKinds

LEMMA RunningNext ==
  ASSUME IInv, RefInv, [Next]_vars
  PROVE  RunningMeans'
<1> USE DEF RefInv, RunningMeans
<1>1. CASE MainStep
  BY <1>1 DEF MainStep, StartStep, CreateListener, CreateListenerFails, Bind, BindFails,
     Listen, ListenFails, Run, InputLoop, StopInput, TakeLine, ListClients, SendCommand,
     BroadcastKilled, Shutdown, JoinAcceptThread, DestroyServer, Exit, CleanupSockets
<1>2. CASE AcceptLoop \/ AcceptFails
  BY <1>2 DEF AcceptLoop, AcceptFails
<1>3. CASE Register
  BY <1>3 DEF Register
<1>4. ASSUME NEW c \in Conn, Accept(c) PROVE RunningMeans'
  BY <1>4 DEF Accept
<1>5. ASSUME NEW h \in Conn, HandlerStep(h) \/ StringCrash(h) PROVE RunningMeans'
  <2>1. UNCHANGED <<running, acceptPc>> /\ mainPc' \in {mainPc, "killed"}
    BY <1>5, HandlerKinds
  <2>2. size = 0 => size' = 0
    BY <1>5, HandlerKinds DEF Quiet, Erased, Live
  <2> QED BY <2>1, <2>2
<1>6. CASE Environment
  <2>1. UNCHANGED <<acceptPc, size>> /\ mainPc' \in {mainPc, "dispatch"}
    BY <1>6, EnvironmentKinds DEF Environment, Quiet
  <2>2. running' => running
    BY <1>6, EnvironmentKinds DEF Environment
  <2> QED BY <2>1, <2>2
<1> QED BY <1>1, <1>2, <1>3, <1>4, <1>5, <1>6, StepKinds

LEMMA LeftForGood ==
  ASSUME IInv, [Next]_vars, NEW c \in Conn, peer[c] = "left"
  PROVE  peer'[c] = "left"
<1>1. peer \in [Conn -> {"new", "backlog", "up", "left", "dropped"}]
  BY DEF IInv, TypeOK
<1>2. CASE UNCHANGED peer
  BY <1>2
<1>3. ASSUME CleanupSockets PROVE peer'[c] = "left"
  BY <1>1, <1>3 DEF CleanupSockets
<1>4. CASE MainStep
  BY <1>2, <1>3, <1>4, MainKinds DEF CleanedUp
<1>5. CASE AcceptLoop \/ AcceptFails \/ Register
  BY <1>2, <1>5 DEF AcceptLoop, AcceptFails, Register
<1>6. ASSUME NEW d \in Conn, Accept(d) PROVE peer'[c] = "left"
  BY <1>1, <1>6 DEF Accept, CanAccept
<1>7. ASSUME NEW h \in Conn, HandlerStep(h) \/ StringCrash(h) PROVE peer'[c] = "left"
  <2>1. CASE Erased(h)
    BY <1>1, <2>1 DEF Erased, CloseAndErase
  <2> QED BY <1>2, <1>7, <2>1, HandlerKinds
<1>8. CASE Environment
  BY <1>1, <1>2, <1>8, EnvironmentKinds DEF Environment
<1> QED BY <1>4, <1>5, <1>6, <1>7, <1>8, StepKinds

(***************************************************************************)
(* A handler that serves its client reads no other client's end.           *)
(***************************************************************************)
LEMMA OwnEnd ==
  ASSUME IInv, NEW h \in Conn, RecvFails(h), ServesItsClient(h)
  PROVE  peer[h] = "left"
<1> DEFINE fd == slots[client[h].index].socket
<1>1. Deref(h) = {fd} /\ fdTable[fd] = h /\ client[h].index \in Live
  BY DEF ServesItsClient, Deref
<1>2. fd \in OpenFds
  BY <1>1, LiveOpen
<1> QED BY <1>1, <1>2 DEF RecvFails, HungUp

LEMMA EndReadNext ==
  ASSUME IInv, RefInv, [Next]_vars
  PROVE  EndReadByItsHandler'
<1> SUFFICES ASSUME running', NEW h \in Conn, handlerPc'[h] = "remove",
                    ServesItsClient(h)'
             PROVE  peer'[h] = "left"
  BY DEF EndReadByItsHandler
<1>1. handlerPc \in [Conn -> Handlers]
  BY DEF IInv, TypeOK, Handlers
<1>2. running
  BY DEF Next, MainStep, StartStep, CreateListener, CreateListenerFails, Bind,
     BindFails, Listen, ListenFails, Run, InputLoop, StopInput, TakeLine, ListClients,
     SendCommand, Shutdown, JoinAcceptThread, DestroyServer, Exit, AcceptStep,
     AcceptLoop, AcceptFails, Register, Accept, HandlerStep, HandlerLoop, RecvFails,
     RecvWouldBlock, RecvMessage, Rename, Announce, RemoveClient, StringCrash,
     EndOfInput, TypeLine, SignalHandler, PeerConnect, PeerClose, PeerSend,
     Terminated, vars
<1>3. CASE handlerPc[h] = "remove"
  <2>1. ServesItsClient(h)
    BY <1>3, LostForGood DEF Started
  <2> QED BY <1>2, <1>3, <2>1, LeftForGood DEF RefInv, EndReadByItsHandler
<1>4. CASE handlerPc[h] # "remove"
  <2>1. CASE RecvFails(h)
    <3>1. ServesItsClient(h)
      BY <2>1, LostForGood DEF RecvFails, Started
    <3> QED BY <2>1, <3>1, OwnEnd, LeftForGood
  <2>2. CASE UNCHANGED handlerPc
    BY <1>4, <2>2
  <2>3. CASE Register
    BY <1>1, <1>4, <2>3, RegisteredEntries
  <2>4. ASSUME NEW g \in Conn, HandlerStep(g) \/ StringCrash(g) PROVE RecvFails(h)
    BY <1>1, <1>2, <1>4, <2>4
       DEF HandlerStep, HandlerLoop, RecvFails, RecvWouldBlock, RecvMessage, Rename,
           Announce, RemoveClient, StringCrash
  <2>5. CASE MainStep \/ AcceptLoop \/ AcceptFails \/ Environment
    BY <2>2, <2>5, MainKinds, AcceptIdles, EnvironmentKinds DEF Environment
  <2>6. ASSUME NEW c \in Conn, Accept(c) PROVE UNCHANGED handlerPc
    BY <2>6 DEF Accept
  <2> QED BY <2>1, <2>2, <2>3, <2>4, <2>5, <2>6, StepKinds
<1> QED BY <1>3, <1>4

LEMMA RefInit == Init => RefInv
<1> SUFFICES ASSUME Init PROVE RefInv
  OBVIOUS
<1>1. Live = {} /\ size = 0 /\ capacity = 0 /\ acceptPc = "none" /\ mainPc = "start"
  BY DEF Init, Live
<1>2. \A c \in Conn : handlerPc[c] = "none" /\ peer[c] = "new"
  BY DEF Init
<1> QED BY <1>1, <1>2
     DEF RefInv, AcceptedOnce, UpMeansOpen, StorageOnlyGrows, EntriesMoveDown,
         RunningMeans, EndReadByItsHandler, Started

LEMMA RefNext == IInv /\ RefInv /\ [Next]_vars => RefInv'
BY AcceptedOnceNext, UpMeansOpenNext, StorageNext, EntriesDownNext, RunningNext,
   EndReadNext DEF RefInv

(***************************************************************************)
(* IInv and RefInv hold throughout every execution.                        *)
(***************************************************************************)
THEOREM RefInvariance == Spec => [](IInv /\ RefInv)
BY IInvInit, IInvNext, RefInit, RefNext, PTL DEF Spec

-----------------------------------------------------------------------------
(***************************************************************************)
(* The step in which a handler's reference is lost.                        *)
(***************************************************************************)
LEMMA StartsServing ==
  ASSUME IInv, RefInv, [Next]_vars, NEW h \in Conn, ~Started(h), Started(h)'
  PROVE  ServesItsClient(h)'
<1>1. Register
  <2>1. UNCHANGED handlerPc => FALSE
    BY DEF Started
  <2>2. ~\E g \in Conn : HandlerStep(g) \/ StringCrash(g)
    BY SameStarted
  <2>3. ~\E c \in Conn : Accept(c)
    BY <2>1 DEF Accept
  <2> QED BY <2>1, <2>2, <2>3, StepKinds, MainKinds, AcceptIdles, EnvironmentKinds
       DEF Environment
<1> DEFINE c == fdTable[clientSocket]
<1>2. c \in Conn /\ h = c
  BY <1>1, RegisteredEntries DEF Started, IInv, TypeOK
<1>3. client'[h] = Back
  BY <1>1, <1>2, RegisteredEntries DEF IInv, TypeOK
<1>4. size + 1 \in Live' /\ slots'[size + 1].socket = clientSocket /\ fdTable' = fdTable
  <2>1. size' = size + 1 /\ size \in Nat
    BY <1>1, RegisteredEntries
  <2>2. size + 1 \in Live' /\ size + 1 \notin Live
    BY <2>1 DEF Live
  <2> QED BY <1>1, <2>2, RegisteredEntries
<1>5. capacity' = CapacityForOneMore
  BY <1>1 DEF Register
<1> QED BY <1>2, <1>3, <1>4, <1>5 DEF ServesItsClient, Dangling, Back

LEMMA StopsServing ==
  ASSUME IInv, RefInv, [Next]_vars, NEW h \in Conn, ServesItsClient(h),
         ~ServesItsClient(h)', capacity' = capacity
  PROVE  \E i \in 1..client[h].index : fdTable'[slots[i].socket] = NoConn
<1> DEFINE j == client[h].index
<1>1. j \in Live /\ j \in 1..j /\ fdTable[slots[j].socket] = h /\ ~Dangling(h)
  BY DEF ServesItsClient, Live
<1>2. ~EntriesKept
  BY KeptServes
<1>3. CASE CleanupSockets
  <2>1. slots[j].socket \in Listed /\ slots[j].socket \in Fd
    BY <1>1, LiveOpen DEF Listed, OpenFds
  <2> QED BY <1>1, <1>3, <2>1 DEF CleanupSockets
<1>4. CASE Register
  <2>1. j \in Live' /\ slots'[j].socket = slots[j].socket
    <3>1. size' = size + 1 /\ size \in Nat /\ j # size + 1 /\ j \in 1..size
      BY <1>1, <1>4, RegisteredEntries DEF Live
    <3>2. j \in Live'
      BY <3>1 DEF Live
    <3> QED BY <1>4, <3>1, <3>2, RegisteredEntries
  <2>2. fdTable' = fdTable /\ slots[j].socket # clientSocket /\ h # fdTable[clientSocket]
    BY <1>1, <1>4, RegisteredEntries, RegisterLists, LiveOpen
       DEF Listed, IInv, KernelConsistent
  <2>3. client'[h] = client[h]
    BY <1>4, <2>2, RegisteredEntries DEF IInv, TypeOK
  <2> QED BY <1>1, <2>1, <2>2, <2>3 DEF ServesItsClient, Dangling
<1>5. ASSUME NEW g \in Conn, Erased(g)
      PROVE  \E i \in 1..j : fdTable'[slots[i].socket] = NoConn
  <2>1. PICK i \in Live : CloseAndErase(i)
    BY <1>5 DEF Erased
  <2>2. fdTable'[slots[i].socket] = NoConn
    BY <2>1, LiveOpen DEF CloseAndErase, OpenFds, IInv, TypeOK
  <2>3. CASE i <= j
    BY <1>1, <2>2, <2>3 DEF Live
  <2>4. CASE ~(i <= j)
    <3>1. j \in Live' /\ slots'[j] = slots[j]
      BY <1>1, <2>1, <2>4, ConstantsAssumption
         DEF CloseAndErase, EraseAt, Live, IInv, TypeOK
    <3>2. slots[j].socket # slots[i].socket
      BY <1>1, <2>4 DEF IInv, SocketsAccounted, Live
    <3>3. fdTable'[slots[j].socket] = h
      BY <1>1, <2>1, <3>2, LiveOpen DEF CloseAndErase, OpenFds, IInv, TypeOK
    <3> QED BY <1>1, <1>5, <3>1, <3>3 DEF ServesItsClient, Dangling, Erased
  <2> QED BY <2>3, <2>4
<1> QED BY <1>2, <1>3, <1>4, <1>5, StepKinds, MainKinds, AcceptIdles, AcceptKeeps,
     HandlerKinds, EnvironmentKinds, QuietKeeps DEF CleanedUp, Environment

(***************************************************************************)
(* A handler starts on its own client's entry and loses it only when the   *)
(* storage moves or the entry, or one before it, is closed.                *)
(***************************************************************************)
THEOREM ReferencesCorrect == Spec => ReferencesLostOnlyByMoves
<1>1. IInv /\ RefInv /\ [Next]_vars =>
        [\A h \in Conn :
           /\ ~Started(h) /\ Started(h)' => ServesItsClient(h)'
           /\ ServesItsClient(h) /\ ~ServesItsClient(h)' =>
                \/ capacity' # capacity
                \/ \E i \in 1..client[h].index :
                      fdTable'[slots[i].socket] = NoConn]_vars
  BY StartsServing, StopsServing
<1> QED BY <1>1, RefInvariance, PTL DEF Spec, ReferencesLostOnlyByMoves

-----------------------------------------------------------------------------
(***************************************************************************)
(* While the server runs, clean-up closes no client: it runs only where    *)
(* start() failed, and then nothing was ever accepted.                     *)
(***************************************************************************)
LEMMA RunningMainKeeps ==
  ASSUME IInv, RefInv, MainStep, running, NEW c \in Conn, peer[c] = "up"
  PROVE  peer'[c] = "up"
<1>1. CASE CleanupSockets
  <2>1. size = 0
    BY <1>1 DEF MainStep, StartStep, CreateListener, CreateListenerFails, Bind,
       BindFails, Listen, ListenFails, Run, InputLoop, StopInput, TakeLine, ListClients,
       SendCommand, Shutdown, JoinAcceptThread, DestroyServer, Exit, RefInv,
       RunningMeans, CleanupSockets
  <2>2. Listed = {}
    BY <2>1 DEF Listed, Live
  <2> QED BY <1>1, <2>2 DEF CleanupSockets
<1> QED BY <1>1, MainKinds DEF CleanedUp

LEMMA DroppedByLost ==
  ASSUME IInv, RefInv, [Next]_vars, running,
         NEW c \in Conn, peer[c] = "up", peer'[c] = "dropped"
  PROVE  \E h \in Conn : /\ handlerPc[h] = "remove" /\ handlerPc'[h] = "done"
                         /\ ~ServesItsClient(h)
<1>1. peer \in [Conn -> {"new", "backlog", "up", "left", "dropped"}]
  BY DEF IInv, TypeOK
<1>2. peer' # peer
  OBVIOUS
<1>3. ~MainStep
  BY RunningMainKeeps
<1>4. ~Environment
  BY <1>1, EnvironmentKinds DEF Environment
<1>5. ~Register /\ ~\E d \in Conn : Accept(d)
  BY <1>1 DEF Register, Accept
<1>6. PICK h \in Conn : HandlerStep(h) \/ StringCrash(h)
  BY <1>2, <1>3, <1>4, <1>5, StepKinds, AcceptIdles
<1>7. Erased(h)
  BY <1>2, <1>6, HandlerKinds
<1>8. ASSUME ServesItsClient(h) PROVE FALSE
  <2> DEFINE fd == slots[client[h].index].socket
  <2>1. Deref(h) = {fd} /\ fdTable[fd] = h
    BY <1>8 DEF ServesItsClient, Deref
  <2>2. PICK i \in Live : slots[i].socket = fd /\ CloseAndErase(i)
    BY <1>7, <2>1 DEF Erased
  <2>3. peer[h] = "left"
    BY <1>7, <1>8 DEF Erased, RefInv, EndReadByItsHandler
  <2>4. peer' = [peer EXCEPT ![h] = IF @ = "up" THEN "dropped" ELSE @]
    BY <2>1, <2>2 DEF CloseAndErase
  <2> QED BY <1>1, <2>3, <2>4
<1>9. handlerPc[h] = "remove" /\ handlerPc'[h] = "done"
  BY <1>7 DEF Erased, IInv, TypeOK
<1> QED BY <1>8, <1>9

(***************************************************************************)
(* While the server runs, only a handler that lost its client's entry can  *)
(* close the socket of a client that is still there.                       *)
(***************************************************************************)
THEOREM DropsCorrect == Spec => OnlyLostHandlersDropClients
<1>1. IInv /\ RefInv /\ [Next]_vars =>
        [\A c \in Conn :
           running /\ peer[c] = "up" /\ peer'[c] = "dropped" =>
             \E h \in Conn : /\ handlerPc[h] = "remove" /\ handlerPc'[h] = "done"
                            /\ ~ServesItsClient(h)]_vars
  BY DroppedByLost
<1> QED BY <1>1, RefInvariance, PTL DEF Spec, OnlyLostHandlersDropClients

-----------------------------------------------------------------------------
LEMMA CommandReaches ==
  ASSUME IInv, RefInv, [Next]_vars, mainPc = "send", mainPc' = "loop",
         NEW c \in Conn, Started(c), peer[c] = "up"
  PROVE  c \in reached'
<1>1. BroadcastTo(size, NoFd)
  BY DEF Next, MainStep, StartStep, CreateListener, CreateListenerFails, Bind,
     BindFails, Listen, ListenFails, Run, InputLoop, StopInput, TakeLine, ListClients,
     SendCommand, BroadcastKilled, Shutdown, JoinAcceptThread, DestroyServer, Exit,
     AcceptStep, AcceptLoop, AcceptFails, Register, Accept, HandlerStep, HandlerLoop,
     RecvFails, RecvWouldBlock, RecvMessage, Rename, Announce, RemoveClient,
     StringCrash, EndOfInput, TypeLine, SignalHandler, PeerConnect, PeerClose,
     PeerSend, Terminated, vars
<1>2. PICK fd \in OpenFds : fdTable[fd] = c
  BY ConstantsAssumption DEF RefInv, UpMeansOpen, OpenFds
<1>3. fd \notin Held
  BY <1>2 DEF Held, RefInv, AcceptedOnce
<1>4. PICK i \in Live : slots[i].socket = fd
  BY <1>3 DEF IInv, SocketsAccounted, Listed
<1>5. fd # NoFd
  BY ConstantsAssumption DEF OpenFds
<1>6. c \in Recipients(size, NoFd)
  BY <1>2, <1>4, <1>5 DEF Recipients, Live
<1> QED BY <1>1, <1>6 DEF BroadcastTo

(***************************************************************************)
(* A command is sent to every client that has a handler and is still       *)
(* connected, whatever the list went through before.                       *)
(***************************************************************************)
THEOREM CommandsCorrect == Spec => OpenClientsAreSent
<1>1. IInv /\ RefInv /\ [Next]_vars =>
        [mainPc = "send" /\ mainPc' = "loop" =>
           \A c \in Conn : Started(c) /\ peer[c] = "up" => c \in reached']_vars
  BY CommandReaches
<1> QED BY <1>1, RefInvariance, PTL DEF Spec, OpenClientsAreSent
=============================================================================
