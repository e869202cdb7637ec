---------------------------- MODULE MCRemoteLink ----------------------------
(***************************************************************************)
(* RemoteLink on small instances.                                          *)
(***************************************************************************)
EXTENDS RemoteLink

CONSTANTS s1, s2

TwoSocks == {s1, s2}
=============================================================================
