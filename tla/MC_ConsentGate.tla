-------------------------- MODULE MC_ConsentGate --------------------------
(* Small instances of ConsentGate. *)
EXTENDS ConsentGate

Four == {"read", "write", "edit", "bash"}
Effects == {"write", "edit", "bash"}
Two == {"write", "bash"}
=============================================================================
