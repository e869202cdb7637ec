---------------------- MODULE RemoteServerLedger_proofs ----------------------
(***************************************************************************)
(* RemoteServer implements SocketLedger: every step of a thread, a peer or *)
(* a signal is a step of the ledger or leaves it as it is.                 *)
(***************************************************************************)
EXTENDS RemoteServer_proofs

USE DEF portVars, serverVars, threadVars, netVars

LEMMA LedgerUnchanged ==
  ASSUME UNCHANGED <<fdTable, mainPc>>,
         \A c \in Conn : peer[c] \in {"new", "backlog"} <=> peer'[c] \in {"new", "backlog"}
  PROVE  UNCHANGED <<Status, Over>>
<1>1. Over' = Over
  BY DEF Over
<1>2. \A c \in Conn : StatusOf(c)' = StatusOf(c)
  BY DEF StatusOf
<1> QED BY <1>1, <1>2 DEF Status

(***************************************************************************)
(* Steps of the main thread between two calls on the sockets.              *)
(***************************************************************************)
LEMMA LedgerUnconcerned ==
  ASSUME UNCHANGED <<fdTable, peer>>, mainPc # "killed", mainPc' # "killed",
         Over' = Over
  PROVE  UNCHANGED <<Status, Over>>
<1>1. \A c \in Conn : StatusOf(c)' = StatusOf(c)
  BY DEF StatusOf
<1> QED BY <1>1 DEF Status

LEMMA DestroyedHoldsNothing ==
  ASSUME IInv, mainPc \in {"destroyed", "exited"}
  PROVE  OpenFds = {}
<1>1. acceptPc # "register" /\ size = 0
  BY DEF IInv, JoinedIsDone, ListDestroyed
<1>2. Live = {} /\ Held = {}
  BY <1>1 DEF Live, Held
<1> QED BY <1>2 DEF IInv, SocketsAccounted, Listed

(***************************************************************************)
(* A signal or a crash kills the process: the kernel closes its sockets.   *)
(***************************************************************************)
LEMMA KilledFinishes ==
  ASSUME IInv, Alive, mainPc' = "killed", UNCHANGED <<fdTable, peer>>
  PROVE  Ledger!Finish \/ UNCHANGED <<Status, Over>>
<1>1. \A c \in Conn : StatusOf(c)' =
        IF peer[c] \in {"new", "backlog"} THEN "waiting" ELSE "closed"
  BY DEF StatusOf
<1>2. \A c \in Conn : (\E fd \in Fd : fdTable[fd] = c) =>
                         peer[c] \in {"up", "left"}
  BY ConstantsAssumption DEF IInv, KernelConsistent, OpenFds
<1>3. \A c \in Conn : StatusOf(c)' =
        IF StatusOf(c) = "open" THEN "closed" ELSE StatusOf(c)
  BY <1>1, <1>2 DEF StatusOf
<1>4. CASE Over
  <2>1. \A c \in Conn : StatusOf(c) # "open"
    BY <1>4, DestroyedHoldsNothing, ConstantsAssumption
       DEF Over, Alive, StatusOf, OpenFds
  <2>2. \A c \in Conn : StatusOf(c)' = StatusOf(c)
    BY <1>3, <2>1
  <2> QED BY <1>4, <2>2 DEF Over, Status
<1>5. CASE ~Over
  <2>1. Status' = [c \in Conn |-> IF c \in {} \cup Ledger!Opened THEN "closed" ELSE Status[c]]
    BY <1>3 DEF Status, Ledger!Opened
  <2>2. {} \in SUBSET Ledger!Waiting /\ Over' = TRUE
    BY DEF Over
  <2> QED BY <1>5, <2>1, <2>2 DEF Ledger!Finish, Ledger!Close
<1> QED BY <1>4, <1>5

LEMMA AcceptAdmits ==
  ASSUME IInv, NEW c \in Conn, Accept(c)
  PROVE  Ledger!Admit(c)
<1>1. PICK fd \in Fd \ OpenFds : fdTable' = [fdTable EXCEPT ![fd] = c]
  BY DEF Accept
<1>2. \A gd \in Fd : fdTable'[gd] = IF gd = fd THEN c ELSE fdTable[gd]
  BY <1>1 DEF IInv, TypeOK
<1>3. fdTable[fd] = NoConn /\ c # NoConn
  BY ConstantsAssumption DEF OpenFds
<1>4. \A gd \in Fd : fdTable[gd] # c
  BY <1>3 DEF Accept, CanAccept, IInv, KernelConsistent, OpenFds
<1>5. ~Over /\ Over' = FALSE /\ mainPc # "killed" /\ mainPc' # "killed"
  BY DEF Accept, Alive, Over, IInv, JoinedIsDone
<1>6. StatusOf(c) = "waiting" /\ StatusOf(c)' = "open"
  BY <1>2, <1>4, <1>5 DEF StatusOf, Accept, CanAccept
<1>7. \A d \in Conn \ {c} : StatusOf(d)' = StatusOf(d)
  <2> TAKE d \in Conn \ {c}
  <2>1. peer'[d] = peer[d]
    BY DEF Accept, IInv, TypeOK
  <2>2. (\E gd \in Fd : fdTable'[gd] = d) <=> (\E gd \in Fd : fdTable[gd] = d)
    <3>1. d # NoConn
      BY ConstantsAssumption
    <3> QED BY <1>2, <1>3, <3>1
  <2> QED BY <1>5, <2>1, <2>2 DEF StatusOf
<1>8. Status' = [Status EXCEPT ![c] = "open"]
  BY <1>6, <1>7 DEF Status
<1>9. Status[c] = "waiting"
  BY <1>6 DEF Status
<1>10. ~Over /\ UNCHANGED Over
  BY <1>5 DEF Over, Accept
<1> QED BY <1>8, <1>9, <1>10 DEF Ledger!Admit

LEMMA RemoveDrops ==
  ASSUME IInv, Alive, mainPc' = mainPc, NEW i \in Live, CloseAndErase(i)
  PROVE  \E c \in Conn : Ledger!Drop(c)
<1>0. slots[i].socket \in OpenFds /\ fdTable[slots[i].socket] \in Conn
  BY DEF IInv, SocketsAccounted, Listed, OpenFds, TypeOK
<1>1. PICK fd \in OpenFds, c \in Conn : fd = slots[i].socket /\ c = fdTable[fd]
  BY <1>0
<1>2. \A gd \in Fd : fdTable'[gd] = IF gd = fd THEN NoConn ELSE fdTable[gd]
  BY <1>1 DEF CloseAndErase, IInv, TypeOK
<1>3. ~Over /\ Over' = FALSE /\ mainPc # "killed" /\ mainPc' # "killed"
  BY DEF Over, Alive, IInv, ListDestroyed, Live
<1>4. peer[c] \in {"up", "left"} /\ \A gd \in Fd \ {fd} : fdTable[gd] # c
  BY <1>1, ConstantsAssumption DEF IInv, KernelConsistent, OpenFds
<1>5. peer' = [peer EXCEPT ![c] = IF @ = "up" THEN "dropped" ELSE @]
  BY <1>1 DEF CloseAndErase
<1>6. StatusOf(c) = "open" /\ StatusOf(c)' = "closed"
  <2>1. fd \in Fd /\ fdTable[fd] = c
    BY <1>1 DEF OpenFds
  <2>2. peer'[c] \in {"dropped", "left"}
    BY <1>1, <1>4, <1>5 DEF IInv, TypeOK
  <2>3. \A gd \in Fd : fdTable'[gd] # c
    BY <1>1, <1>2, <1>4, ConstantsAssumption
  <2> QED BY <1>3, <2>1, <2>2, <2>3 DEF StatusOf
<1>7. \A d \in Conn \ {c} : StatusOf(d)' = StatusOf(d)
  <2> TAKE d \in Conn \ {c}
  <2>1. peer'[d] = peer[d]
    BY <1>5 DEF IInv, TypeOK
  <2>2. (\E gd \in Fd : fdTable'[gd] = d) <=> (\E gd \in Fd : fdTable[gd] = d)
    <3>1. d # NoConn
      BY ConstantsAssumption
    <3> QED BY <1>1, <1>2, <3>1
  <2> QED BY <1>3, <2>1, <2>2 DEF StatusOf
<1>8. c \in Ledger!Opened
  BY <1>1, <1>6 DEF Ledger!Opened, Status
<1>9. Status' = [d \in Conn |-> IF d \in {c} THEN "closed" ELSE Status[d]]
  BY <1>6, <1>7 DEF Status
<1>10. ~Over /\ UNCHANGED Over
  BY <1>3 DEF Over
<1> QED BY <1>8, <1>9, <1>10 DEF Ledger!Drop, Ledger!Close

(***************************************************************************)
(* cleanupSockets(): all is closed but the socket acceptClients() holds.   *)
(***************************************************************************)
Refused == {c \in Conn : peer[c] = "backlog"}
Kept    == {fdTable[fd] : fd \in Held}

LEMMA CleanupSweeps ==
  ASSUME IInv, CleanupSockets, mainPc # "killed", mainPc' # "killed"
  PROVE  /\ Refused \in SUBSET Ledger!Waiting
         /\ Kept \in SUBSET Ledger!Opened
         /\ Ledger!Close(Refused \cup (Ledger!Opened \ Kept))
<1>1. Held \subseteq OpenFds /\ OpenFds = Listed \cup Held /\ Listed \cap Held = {}
  BY DEF IInv, SocketsAccounted
<1>2. \A fd \in Fd : fdTable'[fd] = IF fd \in Listed THEN NoConn ELSE fdTable[fd]
  BY DEF CleanupSockets
<1>3. \A c \in Conn : (\E fd \in Fd : fdTable[fd] = c) => peer[c] \in {"up", "left"}
  BY ConstantsAssumption DEF IInv, KernelConsistent, OpenFds
<1>4. Refused \in SUBSET Ledger!Waiting
  BY <1>3 DEF Refused, Ledger!Waiting, Status, StatusOf
<1>5. Kept \in SUBSET Ledger!Opened
  BY <1>1 DEF Kept, Ledger!Opened, Status, StatusOf, OpenFds, IInv, TypeOK
<1>6. ASSUME NEW c \in Conn
      PROVE  StatusOf(c)' = IF c \in Refused \cup (Ledger!Opened \ Kept)
                            THEN "closed" ELSE StatusOf(c)
  <2>0. c # NoConn
    BY ConstantsAssumption
  <2>1. peer'[c] = IF \/ peer[c] = "backlog"
                      \/ peer[c] = "up" /\ \E fd \in Listed : fdTable[fd] = c
                   THEN "dropped" ELSE peer[c]
    BY DEF CleanupSockets
  <2>2. c \in Ledger!Opened <=> \E fd \in Fd : fdTable[fd] = c
    BY DEF Ledger!Opened, Status, StatusOf
  <2>3. CASE \E fd \in Held : fdTable[fd] = c
    <3>1. PICK fd \in Held : fdTable[fd] = c
      BY <2>3
    <3>2. fd \in Fd /\ fdTable'[fd] = c
      BY <1>1, <1>2, <3>1 DEF OpenFds
    <3>3. StatusOf(c) = "open" /\ StatusOf(c)' = "open"
      BY <3>1, <3>2 DEF StatusOf
    <3>4. c \in Kept /\ c \notin Refused
      BY <1>3, <3>1, <3>2 DEF Kept, Refused
    <3> QED BY <3>3, <3>4
  <2>4. CASE \E fd \in Listed : fdTable[fd] = c
    <3>1. PICK fd \in Listed : fdTable[fd] = c
      BY <2>4
    <3>2. fd \in Fd /\ fd \in OpenFds /\ fd \notin Held
      BY <1>1, <3>1 DEF OpenFds
    <3>3. \A gd \in Fd \ {fd} : fdTable[gd] # c
      BY <2>0, <3>1, <3>2 DEF IInv, KernelConsistent, OpenFds
    <3>4. c \in Ledger!Opened \ Kept
      BY <1>1, <2>2, <3>1, <3>2, <3>3 DEF Kept, OpenFds
    <3>5. \A gd \in Fd : fdTable'[gd] # c
      BY <1>2, <2>0, <3>1, <3>3
    <3>6. peer'[c] \in {"dropped", "left"}
      BY <1>3, <2>1, <2>4, <3>1, <3>2
    <3> QED BY <3>4, <3>5, <3>6 DEF StatusOf
  <2>5. CASE \A fd \in Fd : fdTable[fd] # c
    <3>1. c \notin Ledger!Opened /\ \A fd \in Fd : fdTable'[fd] # c
      BY <1>2, <2>0, <2>2, <2>5
    <3>2. Listed \subseteq Fd
      BY <1>1 DEF OpenFds
    <3>3. peer'[c] = IF peer[c] = "backlog" THEN "dropped" ELSE peer[c]
      BY <2>1, <2>5, <3>2
    <3> QED BY <2>5, <3>1, <3>3 DEF StatusOf, Refused
  <2>6. \A fd \in Fd : fdTable[fd] = c => fd \in Listed \cup Held
    BY <1>1, <2>0 DEF OpenFds
  <2> QED BY <2>3, <2>4, <2>5, <2>6
<1>7. Status' = [c \in Conn |-> IF c \in Refused \cup (Ledger!Opened \ Kept)
                                THEN "closed" ELSE Status[c]]
  BY <1>6 DEF Status
<1> QED BY <1>4, <1>5, <1>7 DEF Ledger!Close

-----------------------------------------------------------------------------
LEMMA RefinesInit == Init => Ledger!Init
BY ConstantsAssumption DEF Init, Ledger!Init, Status, StatusOf, Over

LEMMA MainRefines ==
  ASSUME IInv, MainStep
  PROVE  [Ledger!Next]_<<Status, Over>>
<1>0. mainPc # "killed"
  BY DEF MainStep, StartStep, CreateListener, CreateListenerFails, Bind, BindFails,
         Listen, ListenFails, Run, InputLoop, StopInput, TakeLine, ListClients, SendCommand,
         Shutdown, JoinAcceptThread, DestroyServer, Exit
<1>1. CASE BindFails \/ ListenFails \/ Shutdown
  <2>1. CleanupSockets /\ ~Over /\ Over' = FALSE /\ mainPc' # "killed"
    BY <1>1 DEF BindFails, ListenFails, Shutdown, Over
  <2>2. \A c, d \in Kept : c = d
    BY DEF Kept, Held
  <2>3. ~Over /\ UNCHANGED Over
    BY <2>1 DEF Over
  <2>4. Ledger!Sweep
    BY <1>0, <2>1, <2>2, <2>3, CleanupSweeps DEF Ledger!Sweep
  <2> QED BY <2>4 DEF Ledger!Next
<1>2. CASE DestroyServer
  <2>1. CleanupSockets /\ ~Over /\ Over' = TRUE /\ mainPc' # "killed"
    BY <1>2 DEF DestroyServer, Over
  <2>2. Kept = {}
    BY <1>2 DEF DestroyServer, IInv, JoinedIsDone, Kept, Held
  <2>3. Ledger!Close(Refused \cup Ledger!Opened) /\ Refused \in SUBSET Ledger!Waiting
    <3>1. Ledger!Opened \ Kept = Ledger!Opened
      BY <2>2
    <3> QED BY <1>0, <2>1, <3>1, CleanupSweeps
  <2>4. Ledger!Finish
    BY <2>1, <2>3 DEF Ledger!Finish
  <2> QED BY <2>4 DEF Ledger!Next
<1>3. CASE UNCHANGED <<fdTable, peer>> /\ mainPc' = "killed"
  <2>1. Alive
    BY <1>3 DEF MainStep, StartStep, CreateListener, CreateListenerFails, Bind,
         BindFails, Listen, ListenFails, Run, InputLoop, StopInput, TakeLine, ListClients,
         SendCommand, Shutdown, JoinAcceptThread, DestroyServer, Exit, Alive
  <2> QED BY <1>3, <2>1, KilledFinishes DEF Ledger!Next
<1>4. CASE UNCHANGED <<fdTable, peer>> /\ mainPc' # "killed" /\ Over' = Over
  BY <1>0, <1>4, LedgerUnconcerned
<1> QED BY <1>1, <1>2, <1>3, <1>4
     DEF MainStep, StartStep, CreateListener, CreateListenerFails, Bind, Listen, Run,
         InputLoop, StopInput, TakeLine, ListClients, SendCommand, BroadcastKilled,
         JoinAcceptThread, Exit, Over

LEMMA HandlerRefines ==
  ASSUME IInv, NEW h \in Conn, HandlerStep(h) \/ StringCrash(h)
  PROVE  [Ledger!Next]_<<Status, Over>>
<1>1. Alive /\ mainPc' \in {mainPc, "killed"}
  BY DEF HandlerStep, HandlerLoop, RecvFails, RecvWouldBlock, RecvMessage, Rename,
         Announce, BroadcastKilled, RemoveClient, StringCrash
<1>2. CASE UNCHANGED <<fdTable, peer>> /\ mainPc' = mainPc
  BY <1>2, LedgerUnchanged
<1>3. CASE UNCHANGED <<fdTable, peer>> /\ mainPc' = "killed"
  BY <1>1, <1>3, KilledFinishes DEF Ledger!Next
<1>4. ASSUME NEW i \in Live, CloseAndErase(i), mainPc' = mainPc
      PROVE  [Ledger!Next]_<<Status, Over>>
  BY <1>1, <1>4, RemoveDrops DEF Ledger!Next
<1> QED BY <1>1, <1>2, <1>3, <1>4
     DEF HandlerStep, HandlerLoop, RecvFails, RecvWouldBlock, RecvMessage, Rename,
         Announce, RemoveClient, Found, StringCrash

LEMMA NextRefines ==
  ASSUME IInv, [Next]_vars
  PROVE  [Ledger!Next]_<<Status, Over>>
<1>1. CASE MainStep
  BY <1>1, MainRefines
<1>2. CASE AcceptStep
  <2>1. ASSUME NEW c \in Conn, Accept(c) PROVE Ledger!Next
    BY <2>1, AcceptAdmits DEF Ledger!Next
  <2>2. CASE UNCHANGED <<fdTable, peer, mainPc>>
    BY <2>2, LedgerUnchanged
  <2> QED BY <1>2, <2>1, <2>2 DEF AcceptStep, AcceptLoop, AcceptFails, Register
<1>3. ASSUME NEW h \in Conn, HandlerStep(h) \/ StringCrash(h)
      PROVE  [Ledger!Next]_<<Status, Over>>
  BY <1>3, HandlerRefines
<1>4. ASSUME NEW c \in Conn, PeerConnect(c) \/ PeerClose(c)
      PROVE  UNCHANGED <<Status, Over>>
  <2>1. /\ UNCHANGED <<fdTable, mainPc>>
        /\ \A d \in Conn :
             peer[d] \in {"new", "backlog"} <=> peer'[d] \in {"new", "backlog"}
    BY <1>4 DEF PeerConnect, PeerClose, IInv, TypeOK
  <2> QED BY <2>1, LedgerUnchanged
<1>5. CASE \E c \in Conn, msg \in PeerMessages : PeerSend(c, msg)
  BY <1>5, LedgerUnchanged DEF PeerSend
<1>6. CASE EndOfInput \/ \E line \in Lines : TypeLine(line)
  <2>1. UNCHANGED <<fdTable, peer>> /\ mainPc = "getline" /\ mainPc' = "dispatch"
    BY <1>6 DEF EndOfInput, TypeLine
  <2> QED BY <2>1, LedgerUnconcerned DEF Over
<1>7. CASE SignalHandler \/ Terminated \/ UNCHANGED vars
  <2>1. UNCHANGED <<fdTable, peer, mainPc>>
    BY <1>7 DEF SignalHandler, Terminated, vars
  <2> QED BY <2>1, LedgerUnchanged
<1> QED BY <1>1, <1>2, <1>3, <1>4, <1>5, <1>6, <1>7 DEF Next

(***************************************************************************)
(* Whatever the threads, the peers and the signals do, the connections     *)
(* follow the ledger: opened once, closed once, none left in the end.      *)
(***************************************************************************)
THEOREM Refinement == Spec => ImplementsLedger
<1>1. Init => Ledger!Init
  BY RefinesInit
<1>2. IInv /\ [Next]_vars => [Ledger!Next]_<<Status, Over>>
  BY NextRefines
<1> QED BY <1>1, <1>2, Invariance, PTL DEF Spec, ImplementsLedger, Ledger!Spec
=============================================================================
