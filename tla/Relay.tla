------------------------------- MODULE Relay --------------------------------
(***************************************************************************)
(* What passes through the client between the control server and the CS2   *)
(* console: the operator's lines and the server's announcements, which     *)
(* listenForRemoteServerData() hands to the console as commands, and the   *)
(* player's name, which the console prints and handlePRNT() sends to the   *)
(* server.  VConsole is the link to the console, of which there is one; it *)
(* may be set up late and lost early, and a command given meanwhile is     *)
(* dropped.                                                                *)
(*                                                                         *)
(* Neither direction has a delimiter.  Down the link a byte is again its   *)
(* offset, and lineEnds says where the server's send() calls ended; up the *)
(* link the text matters, as the server looks for a colon in it.           *)
(***************************************************************************)
EXTENDS VConsole

CONSTANTS
  NameChunks,  (* PRNT chunks that match "name = (.+)".                    *)
  Characters,
  PlayerName,  (* The name they print, a sequence of characters.           *)
  GarbageNames, (* Names that garbage which reads as PRNT may seem to print. *)
  LineKinds,   (* What the server sends: commands, announcements or both.  *)
  LineSizes,   (* Lengths of what it sends in one call.                    *)
  MaxLines,    (* Bound on these calls on one link.                        *)
  MaxLinks,    (* Bound on the links to the server.                        *)
  BufferSize   (* sizeof(buffer) - 1: the most one recv() returns.         *)

ASSUME RelayAssumption ==
  /\ NameChunks \subseteq Chunk
  /\ PlayerName \in Seq(Characters) \ {<<>>}
  /\ GarbageNames \subseteq Seq(Characters) \ {<<>>}
  /\ LineKinds \subseteq {"command", "joined"}
  /\ LineSizes \subseteq Nat \ {0}
  /\ MaxLines \in Nat /\ MaxLinks \in Nat
  /\ BufferSize \in Nat \ {0}
  /\ BufferSize < MaxField - CmdHeader

VARIABLES
  connected,  (* cs2ConsoleConnected                                       *)
  linked,     (* remoteServerSock is connected and listened to.            *)
  links,      (* Links opened so far.                                      *)
  greeting,   (* The connector has opened a link and not yet sent the name. *)
  lines,      (* What the server sent on this link: kind and last byte.    *)
  relayed,    (* What recv() returned on this link: first and last byte    *)
              (* and whether it went to the console.                       *)
  name,       (* globalClientInfo.name                                     *)
  told,       (* History: the name was sent on this link.                  *)
  up,         (* Sent to the server on this link and not yet received.     *)
  serverName  (* client.name at the server.                                *)

linkVars  == <<linked, links, greeting, lines, relayed, name, told, up, serverName>>
relayVars == <<connected, linkVars>>
vars == <<consoleVars, relayVars>>

\* A read that overruns its buffer may end the client.
Alive == readPc # "crashed"

LastOf(s)      == IF s = <<>> THEN 0 ELSE s[Len(s)].last
Unread         == LastOf(lines) - LastOf(relayed)
NameMessage(n) == <<"PLAYER", "NAME", ":">> \o n

-----------------------------------------------------------------------------
(***************************************************************************)
(* The link to the console: its threads, flags and races are Cs2Link's.    *)
(***************************************************************************)
ConsoleConnects ==
  /\ Alive
  /\ ~connected /\ sent = 0
  /\ connected' = TRUE
  /\ UNCHANGED <<consoleVars, linkVars>>

\* The flag is cleared; what has arrived may still be read.
ConsoleLost ==
  /\ connected
  /\ connected' = FALSE
  /\ UNCHANGED <<consoleVars, linkVars>>

-----------------------------------------------------------------------------
(***************************************************************************)
(* The link.  Its threads, flags and races are RemoteLink's.               *)
(***************************************************************************)
LinkOpens ==
  /\ Alive
  /\ ~linked /\ ~greeting
  /\ links < MaxLinks
  /\ linked' = TRUE
  /\ greeting' = TRUE
  /\ links' = links + 1
  /\ UNCHANGED <<consoleVars, connected, lines, relayed, name, told, up, serverName>>

\* sendMessageToRemoteServer() with the player's name.
TellName(n) == IF linked THEN up' = up \o NameMessage(n) /\ told' = TRUE
                         ELSE UNCHANGED <<up, told>>

\* Fault: the name is left to handlePRNT().
GreetLater ==
  /\ Alive
  /\ greeting
  /\ greeting' = FALSE
  /\ UNCHANGED <<consoleVars, connected, linked, links, lines, relayed, name, told, up,
                 serverName>>

\* The connector, once the listener is started, sends the name if there is one.
Greet ==
  /\ Alive
  /\ greeting
  /\ greeting' = FALSE
  /\ IF name # <<>> THEN TellName(name) ELSE UNCHANGED <<up, told>>
  /\ UNCHANGED <<consoleVars, connected, linked, links, lines, relayed, name, serverName>>

\* What was under way is lost, and the server forgets the client.
LinkCloses ==
  /\ linked
  /\ linked' = FALSE
  /\ lines' = <<>>
  /\ relayed' = <<>>
  /\ told' = FALSE
  /\ up' = <<>>
  /\ serverName' = <<>>
  /\ UNCHANGED <<consoleVars, connected, links, greeting, name>>

\* broadcastToClients(): a line of the operator or an announcement.
ServerSends ==
  /\ linked
  /\ Len(lines) < MaxLines
  /\ \E kind \in LineKinds, n \in LineSizes :
        lines' = Append(lines, [kind |-> kind, last |-> LastOf(lines) + n])
  /\ UNCHANGED <<consoleVars, connected, linked, links, greeting, relayed, name, told, up,
                 serverName>>

-----------------------------------------------------------------------------
(***************************************************************************)
(* listenForRemoteServerData(): whatever one recv() returns is a command,  *)
(* and sendPayloadToCS2Console() drops it when the console is not          *)
(* connected.                                                              *)
(***************************************************************************)
\* Fault: what a longer line left in the buffer goes to the console as well.
FitsWithLeftovers(n) == n <= BufferSize /\ Unread > 0

Fits(n) == n <= BufferSize /\ n <= Unread

\* Fault: commands are dropped until the player is known.
PassedOnceNamed == connected /\ name # <<>>

Passed == connected

RelayCommand ==
  /\ Alive
  /\ linked
  /\ \E n \in 1..BufferSize :
        /\ Fits(n)
        /\ relayed' = Append(relayed, [first |-> LastOf(relayed) + 1,
                                       last  |-> LastOf(relayed) + n,
                                       run   |-> Passed])
        /\ IF Passed THEN SendCmd(n) ELSE UNCHANGED frames
  /\ UNCHANGED <<sent, readVars, connected, linked, links, greeting, lines, name, told, up,
                 serverName>>

(***************************************************************************)
(* The listener of the console.  onPRNTReceived runs handlePRNT() until    *)
(* there is a name, and garbage that reads as PRNT may give one too.       *)
(***************************************************************************)
Names == {PlayerName} \cup GarbageNames

\* What a chunk prints after "name = ", <<>> when that is not in it.
NamesIn(chunk) ==
  IF chunk \in NameChunks THEN {PlayerName}
  ELSE IF chunk = 0 THEN GarbageNames \cup {<<>>} ELSE {<<>>}

HandlePRNT ==
  IF processed' # processed /\ name = <<>>
  THEN \E n \in NamesIn(processed'[Len(processed')]) :
          /\ name' = n
          /\ IF n # <<>> THEN TellName(n) ELSE UNCHANGED <<up, told>>
  ELSE UNCHANGED <<name, told, up>>

ReadConsole ==
  /\ ReadStep
  /\ HandlePRNT
  /\ UNCHANGED <<connected, linked, links, greeting, lines, relayed, serverName>>

-----------------------------------------------------------------------------
(***************************************************************************)
(* handleClient() and handleClientMessage() of the server, on whatever one *)
(* recv() returns.                                                         *)
(***************************************************************************)
HasColonAt(s, k) == s[k] = ":" /\ \A j \in 1..(k - 1) : s[j] # ":"

\* Fault: content keeps the colon.
ContentWithColon(s, k) == SubSeq(s, k, Len(s))

Content(s, k) == SubSeq(s, k + 1, Len(s))

ServerReads ==
  /\ linked
  /\ \E n \in 1..Len(up) :
        LET message == SubSeq(up, 1, n)
        IN  /\ up' = SubSeq(up, n + 1, Len(up))
            /\ IF \E k \in 1..n :
                    /\ HasColonAt(message, k)
                    /\ SubSeq(message, 1, k - 1) = <<"PLAYER", "NAME">>
               THEN \E k \in 1..n : /\ HasColonAt(message, k)
                                    /\ serverName' = Content(message, k)
               ELSE UNCHANGED serverName
  /\ UNCHANGED <<consoleVars, connected, linked, links, greeting, lines, relayed, name, told>>

-----------------------------------------------------------------------------
RelayInit ==
  /\ Init
  /\ connected = FALSE
  /\ linked = FALSE
  /\ links = 0
  /\ greeting = FALSE
  /\ lines = <<>>
  /\ relayed = <<>>
  /\ name = <<>>
  /\ told = FALSE
  /\ up = <<>>
  /\ serverName = <<>>

RelayNext ==
  \/ ConsoleConnects \/ ConsoleLost
  \/ connected /\ ConsoleSends /\ UNCHANGED relayVars
  \/ Alive /\ connected /\ TypeCommand /\ UNCHANGED relayVars
  \/ ReadConsole
  \/ LinkOpens \/ Greet \/ LinkCloses
  \/ ServerSends \/ RelayCommand \/ ServerReads

(***************************************************************************)
(* The client's threads and the server's handler are scheduled.  Once the  *)
(* flag is cleared the listener of the console may be about to end.        *)
(***************************************************************************)
RelayFairness ==
  /\ WF_vars(connected /\ ReadConsole)
  /\ WF_vars(Greet)
  /\ WF_vars(RelayCommand)
  /\ WF_vars(ServerReads)

RelaySpec     == RelayInit /\ [][RelayNext]_vars
FairRelaySpec == RelaySpec /\ RelayFairness

-----------------------------------------------------------------------------
(***************************************************************************)
(* The shape of the state.                                                 *)
(***************************************************************************)
TypeOK ==
  /\ ConsoleTypeOK
  /\ connected \in BOOLEAN /\ linked \in BOOLEAN /\ greeting \in BOOLEAN
  /\ name \in Names \cup {<<>>}
  /\ told \in BOOLEAN
  /\ links \in 0..MaxLinks
  /\ lines \in Seq([kind : {"command", "joined"}, last : Nat \ {0}])
  /\ relayed \in Seq([first : Nat, last : Nat, run : BOOLEAN])
  /\ Unread >= 0

(***************************************************************************)
(* The server may know the client's name cut short, or with a second       *)
(* PLAYERNAME message run into it, but it is always that client's name as  *)
(* far as both go; and that is the player's, unless a short read made the  *)
(* client take garbage for it.                                             *)
(***************************************************************************)
Agree(s, t) == \A k \in 1..Len(s) : k <= Len(t) => s[k] = t[k]

NameIsThePlayers ==
  /\ Agree(serverName, name)
  /\ name = <<>> => serverName = <<>>
  /\ ~shortRead => name \in {<<>>, PlayerName}

(***************************************************************************)
(* Once the client has a name, the server of the present link is told it   *)
(* and reads the message, whichever of handlePRNT() and the connector it   *)
(* falls to, or the link is lost.                                          *)
(***************************************************************************)
NameIsDelivered ==
  (name # <<>> /\ linked) ~> (~linked \/ ~Alive \/ (told /\ up = <<>>))

(***************************************************************************)
(* A byte the server sends while the console is connected is in the end    *)
(* handed to sendCmd(), unless one of the links is lost before.  What is   *)
(* read while the console is not connected is dropped and meets no promise. *)
(***************************************************************************)
LastByte == MaxLines * (CHOOSE m \in LineSizes : \A n \in LineSizes : n <= m)

Awaits(b) == LastOf(relayed) < b /\ b <= LastOf(lines)

HandedOver(b) ==
  \E k \in 1..Len(relayed) :
    relayed[k].run /\ relayed[k].first <= b /\ b <= relayed[k].last

LinesAreRelayed ==
  \A b \in 1..LastByte :
    (linked /\ connected /\ Awaits(b))
      ~> (~linked \/ ~connected \/ ~Alive \/ HandedOver(b))

(***************************************************************************)
(* The listener catches up with the console again and again: every chunk   *)
(* sent has been processed, unless the link is lost or a short read threw  *)
(* the reader out of step.  A chunk with no body waits for the next one.   *)
(***************************************************************************)
AwaitsNext(i) == Body(i) = 0 /\ Available = 0

CaughtUp ==
  \A i \in 1..sent : AwaitsNext(i) \/ \E k \in 1..Len(processed) : processed[k] = i

ChunksAreProcessed == []<>(~connected \/ shortRead \/ CaughtUp)

(***************************************************************************)
(* README.md, Features: "Connect and receive commands from a remote        *)
(* control server".  What the console is given to run comes from one       *)
(* command the operator typed: not from two, and not from an announcement. *)
(***************************************************************************)
FirstOf(k) == IF k = 1 THEN 1 ELSE lines[k - 1].last + 1

FromOneCommand(r) ==
  \E k \in 1..Len(lines) :
    lines[k].kind = "command" /\ FirstOf(k) <= r.first /\ r.last <= lines[k].last

OnlyCommandsRun ==
  \A k \in 1..Len(relayed) : relayed[k].run => FromOneCommand(relayed[k])
=============================================================================
