----------------------------- MODULE MCCs2Link ------------------------------
(***************************************************************************)
(* Cs2Link on small instances.                                             *)
(***************************************************************************)
EXTENDS Cs2Link

CONSTANTS s1, s2

TwoSocks == {s1, s2}
=============================================================================
