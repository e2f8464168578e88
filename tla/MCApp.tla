-------------------------------- MODULE MCApp -------------------------------
(* App with three files and two event indexes. *)
EXTENDS App
=============================================================================
