------------------------------- MODULE MCTui --------------------------------
(***************************************************************************)
(* Tui on small instances.                                                 *)
(***************************************************************************)
EXTENDS Tui

CONSTANTS main, listener, logger, red, blue

OneLogger  == {logger}
TwoColours == {red, blue}
OneColour  == {red}
AnyPlace   == Places \ {"done"}
=============================================================================
