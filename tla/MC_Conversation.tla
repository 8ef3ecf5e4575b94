-------------------------- MODULE MC_Conversation --------------------------
(* Small instances of Conversation. *)
EXTENDS Conversation

Calls == 1 .. 14
Tools == {"tool"}

Small == [input |-> 1, read |-> None, write |-> None]
Large == [input |-> 1, read |-> 2, write |-> 1]

BothUsages == {Small, Large}
CompactionPolicies == {[budget |-> 2, keep |-> k] : k \in {1, 3, 6}}
AnyPolicy == CompactionPolicies \cup {None}
=============================================================================
