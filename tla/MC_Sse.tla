------------------------------- MODULE MC_Sse -------------------------------
(***************************************************************************)
(* Every stream of up to seven bytes, cut into chunks of one to three,     *)
(* under a cap of three bytes an event.                                    *)
(***************************************************************************)
EXTENDS Sse
=============================================================================
