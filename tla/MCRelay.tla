------------------------------- MODULE MCRelay ------------------------------
(***************************************************************************)
(* Relay on a small instance: a chunk with no body, one with two channel   *)
(* records and one that prints the player's name.                          *)
(***************************************************************************)
EXTENDS Relay

ThreeChunks  == <<0, 2, 6, 9>>
TwoRecords   == <<0, 2, 0>>
ShortName    == <<"a", "b">>
Misread      == {<<"b">>}
=============================================================================
