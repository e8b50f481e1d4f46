-------------------------------- MODULE MCGui --------------------------------
(* A small instance of Gui for TLC.                                           *)
EXTENDS Gui
=============================================================================
