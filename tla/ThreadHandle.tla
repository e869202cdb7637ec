---------------------------- MODULE ThreadHandle ----------------------------
(***************************************************************************)
(* What the client promises of a listener's thread and its std::thread     *)
(* handle, without sockets, flags or a second thread: there is one thread  *)
(* at a time and the handle is its; it is joined only when it is over; the *)
(* process ends cleanly only with the handle empty; and nothing aborts it  *)
(* but a shutdown: one that finds the handle in use at its end, or whose   *)
(* join() meets another one.  Cs2Link and RemoteLink implement it.         *)
(***************************************************************************)
VARIABLES
  thread,   (* "none", "running" or "over"                    *)
  handle,   (* The handle is joinable.                        *)
  process   (* "running", "stopping", "finished" or "aborted" *)

Alive == process \in {"running", "stopping"}

Start ==
  /\ Alive
  /\ thread # "running" /\ ~handle
  /\ thread' = "running" /\ handle' = TRUE
  /\ UNCHANGED process

End ==
  /\ Alive
  /\ thread = "running"
  /\ thread' = "over"
  /\ UNCHANGED <<handle, process>>

Join ==
  /\ Alive
  /\ thread = "over" /\ handle
  /\ handle' = FALSE
  /\ UNCHANGED <<thread, process>>

Stop ==
  /\ process = "running"
  /\ process' = "stopping"
  /\ UNCHANGED <<thread, handle>>

Finish ==
  /\ process = "stopping"
  /\ thread # "running" /\ ~handle
  /\ process' = "finished"
  /\ UNCHANGED <<thread, handle>>

Abort ==
  /\ process = "stopping"
  /\ process' = "aborted"
  /\ UNCHANGED <<thread, handle>>

Init == thread = "none" /\ handle = FALSE /\ process = "running"

Next == Start \/ End \/ Join \/ Stop \/ Finish \/ Abort

Spec == Init /\ [][Next]_<<thread, handle, process>>
=============================================================================
