---------------------------- MODULE SocketLedger ----------------------------
(***************************************************************************)
(* What the control server promises of its clients' connections, without   *)
(* threads, descriptors or lists: a connection waits, is open once and is  *)
(* closed once; shutting down closes every open one but the one that is    *)
(* just being accepted; and when the server is over none is open and none  *)
(* will be.  RemoteServer implements it.                                   *)
(***************************************************************************)
CONSTANT Conn

VARIABLES
  status,  (* Each connection: "waiting", "open" or "closed". *)
  over     (* The server is gone.                             *)

Opened  == {c \in Conn : status[c] = "open"}
Waiting == {c \in Conn : status[c] = "waiting"}

Close(closed) ==
  status' = [c \in Conn |-> IF c \in closed THEN "closed" ELSE status[c]]

Admit(c) ==
  /\ ~over
  /\ status[c] = "waiting"
  /\ status' = [status EXCEPT ![c] = "open"]
  /\ UNCHANGED over

Drop(c) ==
  /\ ~over
  /\ c \in Opened
  /\ Close({c})
  /\ UNCHANGED over

\* Nobody waits for a listener that is closed.
Sweep ==
  /\ ~over
  /\ \E refused \in SUBSET Waiting, kept \in SUBSET Opened :
        /\ \A c, d \in kept : c = d
        /\ Close(refused \cup (Opened \ kept))
  /\ UNCHANGED over

Finish ==
  /\ ~over
  /\ \E refused \in SUBSET Waiting : Close(refused \cup Opened)
  /\ over' = TRUE

Init ==
  /\ status = [c \in Conn |-> "waiting"]
  /\ over = FALSE

Next == (\E c \in Conn : Admit(c) \/ Drop(c)) \/ Sweep \/ Finish

Spec == Init /\ [][Next]_<<status, over>>
=============================================================================
