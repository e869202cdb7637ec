------------------------- MODULE RemoteLink_proofs --------------------------
(***************************************************************************)
(* Safety of the link to the remote server for any number of descriptors.  *)
(***************************************************************************)
EXTENDS RemoteLink, TLAPS

USE DEF flags, kernel, UpSocks

(***************************************************************************)
(* handlePRNT() stores the name before it sends it, and runs once.         *)
(***************************************************************************)
NamedFirst == named <=> namePc \in {"tell", "done"}

(***************************************************************************)
(* A name torn by a race was being stored when the connector read it, so   *)
(* handlePRNT() sent it whole afterwards, on the same link.                *)
(***************************************************************************)
TornIsCorrected ==
  /\ connectorPc = "tellTorn"
  /\ namePc = "done"
  /\ remoteServerSock \in UpSocks
  => remoteServerSock \in told

IInv == /\ TypeOK
        /\ SpawnFindsNoHandle
        /\ ConnectedIsListenedTo
        /\ NamedFirst
        /\ TornIsCorrected
        /\ ServerKnowsName

(***************************************************************************)
(* Kernel calls keep the shape of the kernel's state.                      *)
(***************************************************************************)
LEMMA CloseTyped ==
  ASSUME TypeOK, NEW s, Close(s)
  PROVE  /\ sock' \in [Sock -> {"free", "connecting", "up", "lost"}]
         /\ told' \subseteq Sock
BY DEF TypeOK, Close

LEMMA SendNameTyped ==
  ASSUME TypeOK, SendName
  PROVE  told' \subseteq Sock
BY DEF TypeOK, SendName

(***************************************************************************)
(* The shape of the state, thread by thread.                               *)
(***************************************************************************)
LEMMA ConnectorTyped ==
  ASSUME TypeOK, ConnectorStep
  PROVE  TypeOK'
<1>1. CASE ConnectorLoop \/ TestConnected \/ TestJoinable \/ ReadName
  BY <1>1 DEF ConnectorLoop, TestConnected, TestJoinable, ReadName, TypeOK
<1>2. CASE Socket
  <2>1. sock' \in [Sock -> {"free", "connecting", "up", "lost"}]
    BY <1>2 DEF Socket, TypeOK
  <2>2. remoteServerSock' \in Sock \cup {NoSock}
    BY <1>2 DEF Socket
  <2>3. connectorPc' \in {"loop", "connect"}
    BY <1>2 DEF Socket
  <2> QED BY <1>2, <2>1, <2>2, <2>3 DEF Socket, TypeOK
<1>3. CASE CallConnect
  BY <1>3 DEF CallConnect, TypeOK
<1>4. CASE ConnectSucceeds
  <2>1. sock' \in [Sock -> {"free", "connecting", "up", "lost"}]
    BY <1>4 DEF ConnectSucceeds, TypeOK
  <2> QED BY <1>4, <2>1 DEF ConnectSucceeds, TypeOK
<1>5. CASE ConnectFails
  BY <1>5, CloseTyped DEF ConnectFails, TypeOK
<1>6. CASE SetConnected
  <2>1. connected' \in BOOLEAN /\ connectorPc' = "listening"
    BY <1>6 DEF SetConnected
  <2> QED BY <1>6, <2>1, SMTT(30) DEF SetConnected, TypeOK
<1>10. CASE SetListening
  <2>1. listening' \in BOOLEAN /\ connectorPc' = "joinable"
    BY <1>10 DEF SetListening
  <2> QED BY <1>10, <2>1, SMTT(30) DEF SetListening, TypeOK
<1>7. CASE JoinOldListener
  BY <1>7, ZenonT(60) DEF JoinOldListener, TypeOK
<1>8. CASE SpawnListener
  <2>1. CASE joinable
    BY <1>8, <2>1 DEF SpawnListener, TypeOK
  <2>2. CASE ~joinable
    BY <1>8, <2>2 DEF SpawnListener, TypeOK
  <2> QED BY <2>1, <2>2
<1>9. CASE ConnectorTells
  BY <1>9, SendNameTyped DEF ConnectorTells, TypeOK
<1> QED BY <1>1, <1>2, <1>3, <1>4, <1>5, <1>6, <1>7, <1>8, <1>9, <1>10
        DEF ConnectorStep

LEMMA ListenerTyped ==
  ASSUME TypeOK, ListenerStep
  PROVE  TypeOK'
<1>1. CASE ListenerLoop \/ Poll
  BY <1>1 DEF ListenerLoop, Poll, TypeOK
<1>2. CASE ListenerClearsConnected
  <2>1. connected' \in BOOLEAN /\ listenerPc' = "unlisten"
    BY <1>2 DEF ListenerClearsConnected
  <2> QED BY <1>2, <2>1, SMTT(30) DEF ListenerClearsConnected, TypeOK
<1>5. CASE ListenerClearsListening
  <2>1. listening' \in BOOLEAN /\ listenerPc' = "close"
    BY <1>5 DEF ListenerClearsListening
  <2> QED BY <1>5, <2>1, SMTT(30) DEF ListenerClearsListening, TypeOK
<1>3. CASE ListenerCloses
  BY <1>3, CloseTyped DEF ListenerCloses, TypeOK
<1>4. CASE ListenerForgets
  BY <1>4 DEF ListenerForgets, TypeOK
<1> QED BY <1>1, <1>2, <1>3, <1>4, <1>5 DEF ListenerStep

LEMMA MainTyped ==
  ASSUME TypeOK, MainStep \/ Interrupt \/ InvalidJoin
  PROVE  TypeOK'
<1>1. CASE Interrupt
  <2>1. running' \in BOOLEAN /\ mainPc' = "unlisten"
    BY <1>1 DEF Interrupt
  <2> QED BY <1>1, <2>1, SMTT(30) DEF Interrupt, TypeOK
<1>7. CASE CleanupListening
  <2>1. listening' \in BOOLEAN /\ mainPc' = "unconnect"
    BY <1>7 DEF CleanupListening
  <2> QED BY <1>7, <2>1, SMTT(30) DEF CleanupListening, TypeOK
<1>8. CASE CleanupConnected
  <2>1. connected' \in BOOLEAN /\ mainPc' = "test"
    BY <1>8 DEF CleanupConnected
  <2> QED BY <1>8, <2>1, SMTT(30) DEF CleanupConnected, TypeOK
<1>2. CASE CleanupCloses
  BY <1>2, CloseTyped DEF CleanupCloses, TypeOK
<1>3. CASE CleanupForgets
  BY <1>3 DEF CleanupForgets, TypeOK
<1>4. CASE CleanupTests \/ CleanupJoinable \/ JoinConnector
  BY <1>4 DEF CleanupTests, CleanupJoinable, JoinConnector, TypeOK
<1>5. CASE JoinListener
  BY <1>5, ZenonT(60) DEF JoinListener, TypeOK
<1>6. CASE InvalidJoin
  BY <1>6 DEF InvalidJoin, TypeOK
<1> QED BY <1>1, <1>2, <1>3, <1>4, <1>5, <1>6, <1>7, <1>8 DEF MainStep

LEMMA OthersTyped ==
  ASSUME TypeOK, BeginName \/ StoreName \/ TellName \/ \E s \in Sock : ServerCloses(s)
  PROVE  TypeOK'
<1>1. CASE StoreName
  BY <1>1 DEF StoreName, TypeOK
<1>4. CASE BeginName
  BY <1>4 DEF BeginName, TypeOK
<1>2. CASE TellName
  BY <1>2, SendNameTyped DEF TellName, TypeOK
<1>3. CASE \E s \in Sock : ServerCloses(s)
  BY <1>3 DEF ServerCloses, TypeOK
<1> QED BY <1>1, <1>2, <1>3, <1>4

-----------------------------------------------------------------------------
(***************************************************************************)
(* The listener's handle and the connected flag.                           *)
(***************************************************************************)
LEMMA ListenersKept ==
  ASSUME IInv, Next
  PROVE  SpawnFindsNoHandle' /\ ConnectedIsListenedTo'
<1> USE DEF IInv, SpawnFindsNoHandle, ConnectedIsListenedTo, Opening, ListenerAlive
<1>1. CASE ConnectorStep
  <2>1. CASE SpawnListener
    BY <2>1 DEF SpawnListener
  <2>2. CASE SetConnected \/ SetListening \/ JoinOldListener
    BY <2>2 DEF SetConnected, SetListening, JoinOldListener
  <2>3. CASE ConnectorLoop \/ TestConnected \/ Socket \/ CallConnect
             \/ ConnectSucceeds \/ TestJoinable
    BY <2>3 DEF ConnectorLoop, TestConnected, Socket, CallConnect,
                ConnectSucceeds, TestJoinable
  <2>4. CASE ConnectFails \/ ReadName \/ ConnectorTells
    BY <2>4 DEF ConnectFails, ReadName, ConnectorTells
  <2> QED BY <1>1, <2>1, <2>2, <2>3, <2>4 DEF ConnectorStep
<1>2. CASE ListenerStep
  BY <1>2 DEF ListenerStep, ListenerLoop, Poll, ListenerClearsConnected,
              ListenerClearsListening, ListenerCloses, ListenerForgets
<1>3. CASE Interrupt \/ InvalidJoin \/ JoinListener \/ JoinConnector
  BY <1>3 DEF Interrupt, InvalidJoin, JoinListener, JoinConnector
<1>4. CASE CleanupListening \/ CleanupConnected \/ CleanupTests
           \/ CleanupCloses \/ CleanupForgets \/ CleanupJoinable
  BY <1>4 DEF CleanupListening, CleanupConnected, CleanupTests, CleanupCloses,
              CleanupForgets, CleanupJoinable
<1>5. CASE BeginName \/ StoreName \/ TellName \/ \E s \in Sock : ServerCloses(s)
  BY <1>5 DEF BeginName, StoreName, TellName, ServerCloses
<1>6. CASE Terminated
  BY <1>6 DEF Terminated, vars
<1> QED BY <1>1, <1>2, <1>3, <1>4, <1>5, <1>6 DEF Next, MainStep

(***************************************************************************)
(* The player's name.  The connector comes to rest only by a failure, which*)
(* leaves no socket; by finding no name, so that handlePRNT() has yet to   *)
(* send; or by sending it.                                                 *)
(***************************************************************************)
LEMMA NameKept ==
  ASSUME IInv, Next
  PROVE  NamedFirst' /\ TornIsCorrected' /\ ServerKnowsName'
<1> USE DEF IInv, NamedFirst, TornIsCorrected, ServerKnowsName
<1>1. CASE ConnectorStep
  <2>1. CASE Socket \/ CallConnect \/ ConnectSucceeds \/ ConnectFails
    BY <2>1, SockAssumption DEF Socket, CallConnect, ConnectSucceeds, ConnectFails
  <2>2. CASE ConnectorTells
    <3>1. CASE connectorPc = "tell" /\ SendName
      BY <2>2, <3>1 DEF ConnectorTells, SendName
    <3>2. CASE connectorPc = "tellTorn" /\ UNCHANGED told
      BY <2>2, <3>2 DEF ConnectorTells
    <3> QED BY <2>2, <3>1, <3>2 DEF ConnectorTells
  <2>3. CASE ReadName
    BY <2>3 DEF ReadName
  <2>4. CASE SetConnected \/ SetListening \/ TestJoinable \/ JoinOldListener
             \/ SpawnListener
    BY <2>4 DEF SetConnected, SetListening, TestJoinable, JoinOldListener,
                SpawnListener
  <2>5. CASE ConnectorLoop \/ TestConnected
    BY <2>5 DEF ConnectorLoop, TestConnected
  <2> QED BY <1>1, <2>1, <2>2, <2>3, <2>4, <2>5 DEF ConnectorStep
<1>2. CASE ListenerStep
  <2>1. CASE ListenerCloses
    BY <2>1 DEF ListenerCloses, Close
  <2>2. CASE ListenerForgets
    BY <2>2, SockAssumption DEF ListenerForgets
  <2>3. CASE ListenerLoop \/ Poll \/ ListenerClearsConnected
             \/ ListenerClearsListening
    BY <2>3 DEF ListenerLoop, Poll, ListenerClearsConnected, ListenerClearsListening
  <2> QED BY <1>2, <2>1, <2>2, <2>3 DEF ListenerStep
<1>3. CASE CleanupCloses
  BY <1>3 DEF CleanupCloses, Close
<1>4. CASE CleanupForgets
  BY <1>4, SockAssumption DEF CleanupForgets
<1>5. CASE Interrupt \/ InvalidJoin \/ CleanupListening \/ CleanupConnected
           \/ CleanupTests \/ CleanupJoinable \/ JoinListener \/ JoinConnector
  BY <1>5 DEF Interrupt, InvalidJoin, CleanupListening, CleanupConnected,
              CleanupTests, CleanupJoinable, JoinListener, JoinConnector
<1>6. CASE BeginName \/ StoreName
  BY <1>6 DEF BeginName, StoreName
<1>7. CASE TellName
  BY <1>7 DEF TellName, SendName
<1>8. CASE \E s \in Sock : ServerCloses(s)
  BY <1>8 DEF ServerCloses, TypeOK
<1>9. CASE Terminated
  BY <1>9 DEF Terminated, vars
<1> QED BY <1>1, <1>2, <1>3, <1>4, <1>5, <1>6, <1>7, <1>8, <1>9 DEF Next, MainStep

-----------------------------------------------------------------------------
LEMMA IInvInit == Init => IInv
BY SockAssumption
   DEF Init, IInv, TypeOK, SpawnFindsNoHandle, ConnectedIsListenedTo, NamedFirst,
       TornIsCorrected, ServerKnowsName

LEMMA IInvNext == IInv /\ [Next]_vars => IInv'
<1> SUFFICES ASSUME IInv, [Next]_vars PROVE IInv'
  OBVIOUS
<1>1. CASE Next
  <2>1. TypeOK'
    <3>1. CASE Terminated
      BY <3>1 DEF Terminated, vars, IInv, TypeOK
    <3> QED BY <1>1, <3>1, ConnectorTyped, ListenerTyped, MainTyped, OthersTyped
         DEF Next, IInv
  <2> QED BY <1>1, <2>1, ListenersKept, NameKept DEF IInv
<1>2. CASE UNCHANGED vars
  BY <1>2 DEF vars, IInv, TypeOK, SpawnFindsNoHandle, ConnectedIsListenedTo,
              Opening, ListenerAlive, NamedFirst, TornIsCorrected, ServerKnowsName
<1> QED BY <1>1, <1>2

(***************************************************************************)
(* The inductive invariant holds throughout every execution.               *)
(***************************************************************************)
THEOREM Invariance == Spec => []IInv
BY IInvInit, IInvNext, PTL DEF Spec

(***************************************************************************)
(* The state of the link keeps its shape.                                  *)
(***************************************************************************)
THEOREM TypeCorrect == Spec => []TypeOK
<1>1. IInv => TypeOK
  BY DEF IInv
<1> QED BY <1>1, Invariance, PTL

(***************************************************************************)
(* remoteServerConnected is never left set with no listener to clear it.   *)
(***************************************************************************)
THEOREM NobodyForgotten == Spec => []ConnectedIsListenedTo
<1>1. IInv => ConnectedIsListenedTo
  BY DEF IInv
<1> QED BY <1>1, Invariance, PTL

(***************************************************************************)
(* remoteServerListenerThread is never assigned to while it is joinable.   *)
(***************************************************************************)
THEOREM HandleIsFree == Spec => []SpawnFindsNoHandle
<1>1. IInv => SpawnFindsNoHandle
  BY DEF IInv
<1> QED BY <1>1, Invariance, PTL

(***************************************************************************)
(* Neither sender of the player's name can miss the other: when both are   *)
(* done, the server of the present link was told.                          *)
(***************************************************************************)
THEOREM NameArrives == Spec => []ServerKnowsName
<1>1. IInv => ServerKnowsName
  BY DEF IInv
<1> QED BY <1>1, Invariance, PTL

-----------------------------------------------------------------------------
(***************************************************************************)
(* The handle of the listener's thread.  It is empty only while no thread  *)
(* runs; and a connector that waits to join finds it still in use, unless  *)
(* main() was faster, which is then past its own join.                     *)
(***************************************************************************)
HandleInv ==
  /\ ~joinable => listenerPc \in {"none", "done"}
  /\ connectorPc = "join" /\ mainPc \notin {"joinConnector", "finished", "aborted"}
       => joinable

LEMMA HandleInvNext ==
  ASSUME IInv, HandleInv, [Next]_vars
  PROVE  HandleInv'
<1> USE DEF HandleInv
<1>1. CASE ConnectorStep
  <2>1. CASE SpawnListener
    BY <2>1 DEF SpawnListener
  <2>2. CASE TestJoinable \/ JoinOldListener
    BY <2>2 DEF TestJoinable, JoinOldListener
  <2>3. CASE ConnectorLoop \/ TestConnected \/ Socket \/ CallConnect
             \/ ConnectSucceeds \/ ConnectFails
    BY <2>3 DEF ConnectorLoop, TestConnected, Socket, CallConnect,
                ConnectSucceeds, ConnectFails
  <2>4. CASE SetConnected \/ SetListening \/ ReadName \/ ConnectorTells
    BY <2>4 DEF SetConnected, SetListening, ReadName, ConnectorTells
  <2> QED BY <1>1, <2>1, <2>2, <2>3, <2>4 DEF ConnectorStep
<1>2. CASE ListenerStep
  <2>1. /\ UNCHANGED <<joinable, connectorPc, mainPc>>
        /\ listenerPc \notin {"none", "done"}
    BY <1>2 DEF ListenerStep, ListenerLoop, Poll, ListenerClearsConnected,
       ListenerClearsListening, ListenerCloses, ListenerForgets
  <2> QED BY <2>1
<1>3. CASE JoinListener \/ JoinConnector \/ InvalidJoin
  BY <1>3 DEF JoinListener, JoinConnector, InvalidJoin
<1>4. CASE Interrupt \/ CleanupListening \/ CleanupConnected \/ CleanupTests
           \/ CleanupCloses \/ CleanupForgets \/ CleanupJoinable
  BY <1>4 DEF Interrupt, CleanupListening, CleanupConnected, CleanupTests, CleanupCloses,
              CleanupForgets, CleanupJoinable
<1>5. CASE BeginName \/ StoreName \/ TellName \/ \E s \in Sock : ServerCloses(s)
  BY <1>5 DEF BeginName, StoreName, TellName, ServerCloses
<1>6. CASE UNCHANGED vars
  BY <1>6 DEF vars
<1> QED BY <1>1, <1>2, <1>3, <1>4, <1>5, <1>6 DEF Next, MainStep, Terminated

(***************************************************************************)
(* What each thread's step is to the handle.                               *)
(***************************************************************************)
LEMMA HandleUnconcerned ==
  ASSUME UNCHANGED <<listenerPc, joinable>>, Process' = Process
  PROVE  UNCHANGED <<Thread, joinable, Process>>
BY DEF Thread

LEMMA SpawnStarts ==
  ASSUME IInv, HandleInv, Alive, SpawnListener
  PROVE  Handle!Start
<1>1. ~joinable /\ joinable' = TRUE /\ listenerPc' = "loop" /\ UNCHANGED mainPc
  BY DEF SpawnListener, IInv, SpawnFindsNoHandle
<1>2. Thread \in {"none", "over"} /\ Thread' = "running"
  BY <1>1 DEF HandleInv, Thread
<1>3. Process \in {"running", "stopping"} /\ Process' = Process
  BY <1>1 DEF Process, Alive
<1> QED BY <1>1, <1>2, <1>3 DEF Handle!Start, Handle!Alive

LEMMA ConnectorRefines ==
  ASSUME IInv, HandleInv, ConnectorStep
  PROVE  [Handle!Next]_<<Thread, joinable, Process>>
<1>1. CASE SpawnListener
  BY <1>1, SpawnStarts DEF ConnectorStep, Handle!Next
<1>2. CASE JoinOldListener
  <2>1. /\ listenerPc = "done" /\ joinable /\ joinable' = FALSE
        /\ UNCHANGED <<listenerPc, mainPc>>
    BY <1>2 DEF JoinOldListener
  <2>2. Thread = "over" /\ Thread' = Thread /\ Process' = Process
    BY <2>1 DEF Thread, Process
  <2>3. Process \in {"running", "stopping"}
    BY DEF ConnectorStep, Alive, Process
  <2>4. Handle!Join
    BY <2>1, <2>2, <2>3 DEF Handle!Join, Handle!Alive
  <2> QED BY <2>4 DEF Handle!Next
<1>3. CASE UNCHANGED <<listenerPc, joinable, mainPc>>
  BY <1>3, HandleUnconcerned DEF Process
<1>4. SpawnListener \/ JoinOldListener \/ UNCHANGED <<listenerPc, joinable, mainPc>>
  BY DEF ConnectorStep, SetListening, TestJoinable, ConnectorLoop, TestConnected, Socket, CallConnect,
         ConnectSucceeds, ConnectFails, SetConnected, ReadName, ConnectorTells
<1> QED BY <1>1, <1>2, <1>3, <1>4

LEMMA ListenerRefines ==
  ASSUME IInv, ListenerStep
  PROVE  [Handle!Next]_<<Thread, joinable, Process>>
<1>1. /\ UNCHANGED <<joinable, mainPc>> /\ listenerPc \notin {"none", "done"}
      /\ listenerPc' # "none"
  BY DEF ListenerStep, ListenerLoop, Poll, ListenerClearsConnected,
       ListenerClearsListening, ListenerCloses, ListenerForgets
<1>2. Thread = "running" /\ Thread' \in {"running", "over"} /\ Process' = Process
  BY <1>1 DEF Thread, Process
<1>3. CASE Thread' = "running"
  BY <1>1, <1>2, <1>3
<1>4. CASE Thread' = "over"
  <2>1. Process \in {"running", "stopping"}
    BY DEF ListenerStep, Alive, Process
  <2>2. Handle!End
    BY <1>1, <1>2, <1>4, <2>1 DEF Handle!End, Handle!Alive
  <2> QED BY <2>2 DEF Handle!Next
<1> QED BY <1>2, <1>3, <1>4

LEMMA MainRefines ==
  ASSUME IInv, HandleInv, MainStep \/ Interrupt \/ InvalidJoin
  PROVE  [Handle!Next]_<<Thread, joinable, Process>>
<1>1. CASE Interrupt
  <2>1. /\ Process = "running" /\ Process' = "stopping"
        /\ UNCHANGED <<listenerPc, joinable>>
    BY <1>1 DEF Interrupt, Process
  <2>2. Handle!Stop
    BY <2>1 DEF Handle!Stop, Thread
  <2> QED BY <2>2 DEF Handle!Next
<1>2. CASE JoinListener
  <2>1. /\ listenerPc = "done" /\ joinable /\ joinable' = FALSE /\ UNCHANGED listenerPc
        /\ mainPc = "joinListener" /\ mainPc' = "joinConnector"
    BY <1>2 DEF JoinListener
  <2>2. /\ Thread = "over" /\ Thread' = Thread
        /\ Process = "stopping" /\ Process' = Process
    BY <2>1 DEF Thread, Process
  <2>3. Handle!Join
    BY <2>1, <2>2 DEF Handle!Join, Handle!Alive
  <2> QED BY <2>3 DEF Handle!Next
<1>3. CASE JoinConnector
  <2>1. /\ mainPc = "joinConnector" /\ UNCHANGED <<listenerPc, joinable>>
        /\ mainPc' = IF joinable THEN "aborted" ELSE "finished"
    BY <1>3 DEF JoinConnector
  <2>2. Process = "stopping" /\ Thread' = Thread
        /\ Process' = IF joinable THEN "aborted" ELSE "finished"
    BY <2>1 DEF Thread, Process
  <2>3. CASE joinable
    <3>1. Handle!Abort
      BY <2>1, <2>2, <2>3 DEF Handle!Abort
    <3> QED BY <3>1 DEF Handle!Next
  <2>4. CASE ~joinable
    <3>1. Thread # "running"
      BY <2>4 DEF HandleInv, Thread
    <3>2. Handle!Finish
      BY <2>1, <2>2, <2>4, <3>1 DEF Handle!Finish
    <3> QED BY <3>2 DEF Handle!Next
  <2> QED BY <2>3, <2>4
<1>4. CASE InvalidJoin
  <2>1. /\ mainPc \in {"joinListener", "joinConnector"} /\ mainPc' = "aborted"
        /\ UNCHANGED <<listenerPc, joinable>>
    BY <1>4 DEF InvalidJoin, HandleInv, Alive
  <2>2. Process = "stopping" /\ Process' = "aborted" /\ Thread' = Thread
    BY <2>1 DEF Thread, Process
  <2>3. Handle!Abort
    BY <2>1, <2>2 DEF Handle!Abort
  <2> QED BY <2>3 DEF Handle!Next
<1>5. CASE CleanupListening \/ CleanupConnected \/ CleanupTests
           \/ CleanupCloses \/ CleanupForgets \/ CleanupJoinable
  <2>1. /\ UNCHANGED <<listenerPc, joinable>>
        /\ mainPc \notin {"run", "finished", "aborted"}
        /\ mainPc' \notin {"run", "finished", "aborted"}
    BY <1>5 DEF CleanupListening, CleanupConnected, CleanupTests, CleanupCloses, CleanupForgets,
                CleanupJoinable
  <2>2. Process' = Process
    BY <2>1 DEF Process
  <2> QED BY <2>1, <2>2, HandleUnconcerned
<1> QED BY <1>1, <1>2, <1>3, <1>4, <1>5 DEF MainStep

LEMMA NextRefines ==
  ASSUME IInv, HandleInv, [Next]_vars
  PROVE  [Handle!Next]_<<Thread, joinable, Process>>
<1>1. CASE ConnectorStep
  BY <1>1, ConnectorRefines
<1>2. CASE ListenerStep
  BY <1>2, ListenerRefines
<1>3. CASE MainStep \/ Interrupt \/ InvalidJoin
  BY <1>3, MainRefines
<1>4. CASE UNCHANGED <<listenerPc, joinable, mainPc>>
  BY <1>4, HandleUnconcerned DEF Process
<1>5. \/ ConnectorStep \/ ListenerStep \/ MainStep \/ Interrupt \/ InvalidJoin
      \/ UNCHANGED <<listenerPc, joinable, mainPc>>
  BY DEF Next, Terminated, vars, BeginName, StoreName, TellName, ServerCloses
<1> QED BY <1>1, <1>2, <1>3, <1>4, <1>5

(***************************************************************************)
(* remoteServerListenerThread follows the discipline of ThreadHandle in    *)
(* every execution: one listener at a time, joined when it is over, and    *)
(* no clean end without that.                                              *)
(***************************************************************************)
THEOREM HandleFollowed == Spec => ImplementsHandle
<1>1. Init => HandleInv
  BY DEF Init, HandleInv
<1>2. IInv /\ HandleInv /\ [Next]_vars => HandleInv'
  BY HandleInvNext
<1>3. Init => Handle!Init
  BY DEF Init, Handle!Init, Thread, Process
<1>4. IInv /\ HandleInv /\ [Next]_vars => [Handle!Next]_<<Thread, joinable, Process>>
  BY NextRefines
<1> QED BY <1>1, <1>2, <1>3, <1>4, Invariance, PTL DEF Spec, ImplementsHandle,
Handle!Spec
=============================================================================
