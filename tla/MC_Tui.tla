------------------------------- MODULE MC_Tui -------------------------------
(* A small instance of Tui. *)
EXTENDS Tui
=============================================================================
