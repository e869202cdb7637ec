--------------------------- MODULE MCRemoteServer ---------------------------
(***************************************************************************)
(* RemoteServer on small instances.                                        *)
(***************************************************************************)
EXTENDS RemoteServer, TLC

CONSTANTS c1, c2, f1, f2

TwoConns == {c1, c2}
TwoFds   == {f1, f2}

\* Connections and descriptors are interchangeable in safety runs.
ConnFdSymmetry == Permutations(Conn) \cup Permutations(Fd)
=============================================================================
