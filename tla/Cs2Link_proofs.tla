-------------------------- MODULE Cs2Link_proofs ----------------------------
(***************************************************************************)
(* Safety of the link to the CS2 console for any number of descriptors.    *)
(* The two safety properties are inductive together: that a handle is free *)
(* when the connector assigns to it is why SpawnListener really starts a   *)
(* listener.                                                               *)
(***************************************************************************)
EXTENDS Cs2Link, TLAPS

USE DEF flags, kernel

IInv == TypeOK /\ SpawnFindsNoHandle /\ ConnectedIsListenedTo

(***************************************************************************)
(* Kernel calls keep the shape of the kernel's state.                      *)
(***************************************************************************)
LEMMA CloseTyped ==
  ASSUME TypeOK, NEW s, Close(s)
  PROVE  /\ sock' \in [Sock -> {"free", "connecting", "up", "lost"}]
         /\ pending' \subseteq Sock
         /\ waiting' \in [{"connector", "listener"} -> Sock \cup {NoSock}]
BY DEF TypeOK, Close

LEMMA CallRecvTyped ==
  ASSUME TypeOK, NEW t, CallRecv(t)
  PROVE  waiting' \in [{"connector", "listener"} -> Sock \cup {NoSock}]
BY DEF TypeOK, CallRecv

(***************************************************************************)
(* The shape of the state, thread by thread.                               *)
(***************************************************************************)
LEMMA ConnectorTyped ==
  ASSUME TypeOK, ConnectorStep
  PROVE  TypeOK'
<1>1. CASE ConnectorLoop \/ TestConnected \/ TestJoinable
  BY <1>1 DEF ConnectorLoop, TestConnected, TestJoinable, TypeOK
<1>2. CASE Socket
  <2>1. sock' \in [Sock -> {"free", "connecting", "up", "lost"}]
    BY <1>2 DEF Socket, TypeOK
  <2>2. clientSocket' \in Sock \cup {NoSock}
    BY <1>2 DEF Socket
  <2>3. connectorPc' \in {"loop", "connect"}
    BY <1>2 DEF Socket
  <2> QED BY <1>2, <2>1, <2>2, <2>3 DEF Socket, TypeOK
<1>3. CASE CallConnect \/ CallIsConnected
  BY <1>3, CallRecvTyped DEF CallConnect, CallIsConnected, TypeOK
<1>4. CASE ConnectSucceeds
  BY <1>4 DEF ConnectSucceeds, TypeOK
<1>5. CASE ConnectFails \/ Disconnect
  BY <1>5, CloseTyped DEF ConnectFails, Disconnect, TypeOK
<1>6. CASE SetConnected \/ SetListening
  BY <1>6, ZenonT(60) DEF SetConnected, SetListening, TypeOK
<1>7. CASE JoinOldListener \/ AskName
  BY <1>7, ZenonT(60) DEF JoinOldListener, AskName, TypeOK
<1>8. CASE ClearConnected \/ ClearListening
  BY <1>8, ZenonT(60) DEF ClearConnected, ClearListening, TypeOK
<1>9. CASE Forget
  BY <1>9 DEF Forget, TypeOK
<1>10. CASE IsConnectedReturns
  BY <1>10 DEF IsConnectedReturns, TypeOK
<1>11. CASE SpawnListener
  <2>1. CASE joinable
    BY <1>11, <2>1 DEF SpawnListener, TypeOK
  <2>2. CASE ~joinable
    BY <1>11, <2>2 DEF SpawnListener, TypeOK
  <2> QED BY <2>1, <2>2
<1> QED BY <1>1, <1>2, <1>3, <1>4, <1>5, <1>6, <1>7, <1>8, <1>9, <1>10, <1>11
     DEF ConnectorStep

LEMMA ListenerTyped ==
  ASSUME TypeOK, ListenerStep
  PROVE  TypeOK'
<1>1. CASE ListenerLoop \/ ReadFails \/ ListenerPeeked
  BY <1>1 DEF ListenerLoop, ReadFails, ListenerPeeked, TypeOK
<1>2. CASE CallReadChunk \/ ListenerIsConnected
  BY <1>2, CallRecvTyped DEF CallReadChunk, ListenerIsConnected, TypeOK
<1>3. CASE ReadChunk
  BY <1>3 DEF ReadChunk, TypeOK
<1>4. CASE ListenerClearsConnected \/ ListenerClearsListening
  BY <1>4, ZenonT(60) DEF ListenerClearsConnected, ListenerClearsListening, TypeOK
<1> QED BY <1>1, <1>2, <1>3, <1>4 DEF ListenerStep

LEMMA MainTyped ==
  ASSUME TypeOK, MainStep \/ Interrupt \/ InvalidJoin
  PROVE  TypeOK'
<1>1. CASE Interrupt \/ CleanupListening \/ CleanupConnected \/ CleanupForget
  BY <1>1, ZenonT(60) DEF Interrupt, CleanupListening, CleanupConnected, CleanupForget, TypeOK
<1>2. CASE CleanupDisconnect
  BY <1>2, CloseTyped DEF CleanupDisconnect, TypeOK
<1>3. CASE CleanupJoinable \/ JoinListener \/ JoinConnector \/ InvalidJoin
  BY <1>3, ZenonT(60) DEF CleanupJoinable, JoinListener, JoinConnector, InvalidJoin, TypeOK
<1> QED BY <1>1, <1>2, <1>3 DEF MainStep

LEMMA ConsoleTyped ==
  ASSUME TypeOK, NEW s \in Sock, ConsoleSends(s) \/ ConsoleCloses(s)
  PROVE  TypeOK'
BY DEF ConsoleSends, ConsoleCloses, TypeOK

-----------------------------------------------------------------------------
(***************************************************************************)
(* The two safety properties, thread by thread.                            *)
(***************************************************************************)
LEMMA ConnectorKeeps ==
  ASSUME IInv, ConnectorStep
  PROVE  SpawnFindsNoHandle' /\ ConnectedIsListenedTo'
<1> USE DEF IInv, SpawnFindsNoHandle, ConnectedIsListenedTo, Opening, ListenerAlive
<1>1. CASE ConnectorLoop \/ TestConnected \/ TestJoinable
  BY <1>1 DEF ConnectorLoop, TestConnected, TestJoinable
<1>2. CASE Socket \/ CallConnect
  BY <1>2 DEF Socket, CallConnect
<1>3. CASE ConnectSucceeds \/ ConnectFails
  BY <1>3 DEF ConnectSucceeds, ConnectFails
<1>4. CASE SetConnected \/ SetListening \/ JoinOldListener
  BY <1>4 DEF SetConnected, SetListening, JoinOldListener
<1>5. CASE SpawnListener
  BY <1>5 DEF SpawnListener
<1>6. CASE AskName \/ CallIsConnected \/ IsConnectedReturns
  BY <1>6 DEF AskName, CallIsConnected, IsConnectedReturns
<1>7. CASE ClearConnected \/ ClearListening \/ Disconnect \/ Forget
  BY <1>7 DEF ClearConnected, ClearListening, Disconnect, Forget
<1> QED BY <1>1, <1>2, <1>3, <1>4, <1>5, <1>6, <1>7 DEF ConnectorStep

LEMMA ListenerKeeps ==
  ASSUME IInv, ListenerStep
  PROVE  SpawnFindsNoHandle' /\ ConnectedIsListenedTo'
<1> USE DEF IInv, SpawnFindsNoHandle, ConnectedIsListenedTo, Opening, ListenerAlive
<1>1. CASE ListenerLoop \/ CallReadChunk \/ ReadChunk \/ ReadFails
  BY <1>1 DEF ListenerLoop, CallReadChunk, ReadChunk, ReadFails
<1>2. CASE ListenerIsConnected \/ ListenerPeeked
  BY <1>2 DEF ListenerIsConnected, ListenerPeeked
<1>3. CASE ListenerClearsConnected \/ ListenerClearsListening
  BY <1>3 DEF ListenerClearsConnected, ListenerClearsListening
<1> QED BY <1>1, <1>2, <1>3 DEF ListenerStep

LEMMA MainKeeps ==
  ASSUME IInv, MainStep \/ Interrupt \/ InvalidJoin
  PROVE  SpawnFindsNoHandle' /\ ConnectedIsListenedTo'
<1> USE DEF IInv, SpawnFindsNoHandle, ConnectedIsListenedTo, Opening, ListenerAlive
<1>1. CASE Interrupt \/ InvalidJoin \/ JoinListener \/ JoinConnector
  BY <1>1 DEF Interrupt, InvalidJoin, JoinListener, JoinConnector
<1>2. CASE CleanupListening \/ CleanupConnected \/ CleanupDisconnect
           \/ CleanupForget \/ CleanupJoinable
  BY <1>2 DEF CleanupListening, CleanupConnected, CleanupDisconnect,
              CleanupForget, CleanupJoinable
<1> QED BY <1>1, <1>2 DEF MainStep

LEMMA IInvInit == Init => IInv
BY DEF Init, IInv, TypeOK, SpawnFindsNoHandle, ConnectedIsListenedTo

LEMMA IInvNext == IInv /\ [Next]_vars => IInv'
<1> SUFFICES ASSUME IInv, [Next]_vars PROVE IInv'
  OBVIOUS
<1>1. CASE ConnectorStep
  BY <1>1, ConnectorTyped, ConnectorKeeps DEF IInv
<1>2. CASE ListenerStep
  BY <1>2, ListenerTyped, ListenerKeeps DEF IInv
<1>3. CASE MainStep \/ Interrupt \/ InvalidJoin
  BY <1>3, MainTyped, MainKeeps DEF IInv
<1>4. ASSUME NEW s \in Sock, ConsoleSends(s) \/ ConsoleCloses(s)
      PROVE  IInv'
  <2>1. TypeOK'
    BY <1>4, ConsoleTyped DEF IInv
  <2> QED BY <1>4, <2>1
       DEF ConsoleSends, ConsoleCloses, IInv, SpawnFindsNoHandle,
           ConnectedIsListenedTo, Opening, ListenerAlive
<1>5. CASE UNCHANGED vars \/ Terminated
  BY <1>5 DEF Terminated, vars, IInv, TypeOK, SpawnFindsNoHandle,
              ConnectedIsListenedTo, Opening, ListenerAlive
<1> QED BY <1>1, <1>2, <1>3, <1>4, <1>5 DEF Next

(***************************************************************************)
(* The inductive invariant holds throughout every execution.               *)
(***************************************************************************)
THEOREM Invariance == Spec => []IInv
BY IInvInit, IInvNext, PTL DEF Spec

(***************************************************************************)
(* The state of the link keeps its shape.                                  *)
(***************************************************************************)
THEOREM TypeCorrect == Spec => []TypeOK
<1>1. IInv => TypeOK
  BY DEF IInv
<1> QED BY <1>1, Invariance, PTL

(***************************************************************************)
(* cs2ConsoleConnected is never left set with no listener to clear it.     *)
(***************************************************************************)
THEOREM NobodyForgotten == Spec => []ConnectedIsListenedTo
<1>1. IInv => ConnectedIsListenedTo
  BY DEF IInv
<1> QED BY <1>1, Invariance, PTL

(***************************************************************************)
(* cs2ListenerThread is never assigned to while it is joinable.            *)
(***************************************************************************)
THEOREM HandleIsFree == Spec => []SpawnFindsNoHandle
<1>1. IInv => SpawnFindsNoHandle
  BY DEF IInv
<1> QED BY <1>1, Invariance, PTL

-----------------------------------------------------------------------------
(***************************************************************************)
(* The handle of the listener's thread.  It is empty only while no thread  *)
(* runs; and a connector that waits to join finds it still in use, unless  *)
(* main() was faster, which is then past its own join.                     *)
(***************************************************************************)
HandleInv ==
  /\ ~joinable => listenerPc \in {"none", "done"}
  /\ connectorPc = "join" /\ mainPc \notin {"joinConnector", "finished", "aborted"}
       => joinable

LEMMA HandleInvNext ==
  ASSUME IInv, HandleInv, [Next]_vars
  PROVE  HandleInv'
<1> USE DEF HandleInv
<1>1. CASE ConnectorStep
  <2>1. CASE SpawnListener
    BY <2>1 DEF SpawnListener
  <2>2. CASE TestJoinable \/ JoinOldListener
    BY <2>2 DEF TestJoinable, JoinOldListener
  <2>3. CASE ConnectorLoop \/ TestConnected \/ Socket \/ CallConnect
             \/ ConnectSucceeds \/ ConnectFails \/ SetConnected \/ SetListening
    BY <2>3 DEF ConnectorLoop, TestConnected, Socket, CallConnect,
                ConnectSucceeds, ConnectFails, SetConnected, SetListening
  <2>4. CASE AskName \/ CallIsConnected \/ IsConnectedReturns \/ ClearConnected
             \/ ClearListening \/ Disconnect \/ Forget
    BY <2>4 DEF AskName, CallIsConnected, IsConnectedReturns, ClearConnected,
                ClearListening, Disconnect, Forget
  <2> QED BY <1>1, <2>1, <2>2, <2>3, <2>4 DEF ConnectorStep
<1>2. CASE ListenerStep
  <2>1. /\ UNCHANGED <<joinable, connectorPc, mainPc>>
        /\ listenerPc \notin {"none", "done"}
    BY <1>2 DEF ListenerStep, ListenerLoop, CallReadChunk, ReadChunk, ReadFails,
       ListenerIsConnected, ListenerPeeked, ListenerClearsConnected,
       ListenerClearsListening
  <2> QED BY <2>1
<1>3. CASE JoinListener \/ JoinConnector \/ InvalidJoin
  BY <1>3 DEF JoinListener, JoinConnector, InvalidJoin
<1>4. CASE Interrupt \/ CleanupListening \/ CleanupConnected
           \/ CleanupDisconnect \/ CleanupForget \/ CleanupJoinable
  BY <1>4 DEF Interrupt, CleanupListening, CleanupConnected, CleanupDisconnect,
              CleanupForget, CleanupJoinable
<1>5. CASE \E s \in Sock : ConsoleSends(s) \/ ConsoleCloses(s)
  BY <1>5 DEF ConsoleSends, ConsoleCloses
<1>6. CASE UNCHANGED vars
  BY <1>6 DEF vars
<1> QED BY <1>1, <1>2, <1>3, <1>4, <1>5, <1>6 DEF Next, MainStep, Terminated

(***************************************************************************)
(* What each thread's step is to the handle.                               *)
(***************************************************************************)
LEMMA HandleUnconcerned ==
  ASSUME UNCHANGED <<listenerPc, joinable>>, Process' = Process
  PROVE  UNCHANGED <<Thread, joinable, Process>>
BY DEF Thread

LEMMA SpawnStarts ==
  ASSUME IInv, HandleInv, Alive, SpawnListener
  PROVE  Handle!Start
<1>1. ~joinable /\ joinable' = TRUE /\ listenerPc' = "loop" /\ UNCHANGED mainPc
  BY DEF SpawnListener, IInv, SpawnFindsNoHandle
<1>2. Thread \in {"none", "over"} /\ Thread' = "running"
  BY <1>1 DEF HandleInv, Thread
<1>3. Process \in {"running", "stopping"} /\ Process' = Process
  BY <1>1 DEF Process, Alive
<1> QED BY <1>1, <1>2, <1>3 DEF Handle!Start, Handle!Alive

LEMMA ConnectorRefines ==
  ASSUME IInv, HandleInv, ConnectorStep
  PROVE  [Handle!Next]_<<Thread, joinable, Process>>
<1>1. CASE SpawnListener
  BY <1>1, SpawnStarts DEF ConnectorStep, Handle!Next
<1>2. CASE JoinOldListener
  <2>1. /\ listenerPc = "done" /\ joinable /\ joinable' = FALSE
        /\ UNCHANGED <<listenerPc, mainPc>>
    BY <1>2 DEF JoinOldListener
  <2>2. Thread = "over" /\ Thread' = Thread /\ Process' = Process
    BY <2>1 DEF Thread, Process
  <2>3. Process \in {"running", "stopping"}
    BY DEF ConnectorStep, Alive, Process
  <2>4. Handle!Join
    BY <2>1, <2>2, <2>3 DEF Handle!Join, Handle!Alive
  <2> QED BY <2>4 DEF Handle!Next
<1>3. CASE UNCHANGED <<listenerPc, joinable, mainPc>>
  BY <1>3, HandleUnconcerned DEF Process
<1>4. SpawnListener \/ JoinOldListener \/ UNCHANGED <<listenerPc, joinable, mainPc>>
  BY DEF ConnectorStep, SetListening, TestJoinable, ConnectorLoop, TestConnected, Socket, CallConnect,
         ConnectSucceeds, ConnectFails, SetConnected, AskName, CallIsConnected,
         IsConnectedReturns, ClearConnected, ClearListening, Disconnect, Forget
<1> QED BY <1>1, <1>2, <1>3, <1>4

LEMMA ListenerRefines ==
  ASSUME IInv, ListenerStep
  PROVE  [Handle!Next]_<<Thread, joinable, Process>>
<1>1. /\ UNCHANGED <<joinable, mainPc>> /\ listenerPc \notin {"none", "done"}
      /\ listenerPc' # "none"
  BY DEF ListenerStep, ListenerLoop, CallReadChunk, ReadChunk, ReadFails,
       ListenerIsConnected, ListenerPeeked, ListenerClearsConnected,
       ListenerClearsListening
<1>2. Thread = "running" /\ Thread' \in {"running", "over"} /\ Process' = Process
  BY <1>1 DEF Thread, Process
<1>3. CASE Thread' = "running"
  BY <1>1, <1>2, <1>3
<1>4. CASE Thread' = "over"
  <2>1. Process \in {"running", "stopping"}
    BY DEF ListenerStep, Alive, Process
  <2>2. Handle!End
    BY <1>1, <1>2, <1>4, <2>1 DEF Handle!End, Handle!Alive
  <2> QED BY <2>2 DEF Handle!Next
<1> QED BY <1>2, <1>3, <1>4

LEMMA MainRefines ==
  ASSUME IInv, HandleInv, MainStep \/ Interrupt \/ InvalidJoin
  PROVE  [Handle!Next]_<<Thread, joinable, Process>>
<1>1. CASE Interrupt
  <2>1. /\ Process = "running" /\ Process' = "stopping"
        /\ UNCHANGED <<listenerPc, joinable>>
    BY <1>1 DEF Interrupt, Process
  <2>2. Handle!Stop
    BY <2>1 DEF Handle!Stop, Thread
  <2> QED BY <2>2 DEF Handle!Next
<1>2. CASE JoinListener
  <2>1. /\ listenerPc = "done" /\ joinable /\ joinable' = FALSE /\ UNCHANGED listenerPc
        /\ mainPc = "joinListener" /\ mainPc' = "joinConnector"
    BY <1>2 DEF JoinListener
  <2>2. /\ Thread = "over" /\ Thread' = Thread
        /\ Process = "stopping" /\ Process' = Process
    BY <2>1 DEF Thread, Process
  <2>3. Handle!Join
    BY <2>1, <2>2 DEF Handle!Join, Handle!Alive
  <2> QED BY <2>3 DEF Handle!Next
<1>3. CASE JoinConnector
  <2>1. /\ mainPc = "joinConnector" /\ UNCHANGED <<listenerPc, joinable>>
        /\ mainPc' = IF joinable THEN "aborted" ELSE "finished"
    BY <1>3 DEF JoinConnector
  <2>2. Process = "stopping" /\ Thread' = Thread
        /\ Process' = IF joinable THEN "aborted" ELSE "finished"
    BY <2>1 DEF Thread, Process
  <2>3. CASE joinable
    <3>1. Handle!Abort
      BY <2>1, <2>2, <2>3 DEF Handle!Abort
    <3> QED BY <3>1 DEF Handle!Next
  <2>4. CASE ~joinable
    <3>1. Thread # "running"
      BY <2>4 DEF HandleInv, Thread
    <3>2. Handle!Finish
      BY <2>1, <2>2, <2>4, <3>1 DEF Handle!Finish
    <3> QED BY <3>2 DEF Handle!Next
  <2> QED BY <2>3, <2>4
<1>4. CASE InvalidJoin
  <2>1. /\ mainPc \in {"joinListener", "joinConnector"} /\ mainPc' = "aborted"
        /\ UNCHANGED <<listenerPc, joinable>>
    BY <1>4 DEF InvalidJoin, HandleInv, Alive
  <2>2. Process = "stopping" /\ Process' = "aborted" /\ Thread' = Thread
    BY <2>1 DEF Thread, Process
  <2>3. Handle!Abort
    BY <2>1, <2>2 DEF Handle!Abort
  <2> QED BY <2>3 DEF Handle!Next
<1>5. CASE CleanupListening \/ CleanupConnected \/ CleanupDisconnect
           \/ CleanupForget \/ CleanupJoinable
  <2>1. /\ UNCHANGED <<listenerPc, joinable>>
        /\ mainPc \notin {"run", "finished", "aborted"}
        /\ mainPc' \notin {"run", "finished", "aborted"}
    BY <1>5 DEF CleanupListening, CleanupConnected, CleanupDisconnect,
                CleanupForget, CleanupJoinable
  <2>2. Process' = Process
    BY <2>1 DEF Process
  <2> QED BY <2>1, <2>2, HandleUnconcerned
<1> QED BY <1>1, <1>2, <1>3, <1>4, <1>5 DEF MainStep

LEMMA NextRefines ==
  ASSUME IInv, HandleInv, [Next]_vars
  PROVE  [Handle!Next]_<<Thread, joinable, Process>>
<1>1. CASE ConnectorStep
  BY <1>1, ConnectorRefines
<1>2. CASE ListenerStep
  BY <1>2, ListenerRefines
<1>3. CASE MainStep \/ Interrupt \/ InvalidJoin
  BY <1>3, MainRefines
<1>4. CASE UNCHANGED <<listenerPc, joinable, mainPc>>
  BY <1>4, HandleUnconcerned DEF Process
<1>5. \/ ConnectorStep \/ ListenerStep \/ MainStep \/ Interrupt \/ InvalidJoin
      \/ UNCHANGED <<listenerPc, joinable, mainPc>>
  BY DEF Next, Terminated, vars, ConsoleSends, ConsoleCloses
<1> QED BY <1>1, <1>2, <1>3, <1>4, <1>5

(***************************************************************************)
(* cs2ListenerThread follows the discipline of ThreadHandle in             *)
(* every execution: one listener at a time, joined when it is over, and    *)
(* no clean end without that.                                              *)
(***************************************************************************)
THEOREM HandleFollowed == Spec => ImplementsHandle
<1>1. Init => HandleInv
  BY DEF Init, HandleInv
<1>2. IInv /\ HandleInv /\ [Next]_vars => HandleInv'
  BY HandleInvNext
<1>3. Init => Handle!Init
  BY DEF Init, Handle!Init, Thread, Process
<1>4. IInv /\ HandleInv /\ [Next]_vars => [Handle!Next]_<<Thread, joinable, Process>>
  BY NextRefines
<1> QED BY <1>1, <1>2, <1>3, <1>4, Invariance, PTL DEF Spec, ImplementsHandle,
Handle!Spec
=============================================================================
