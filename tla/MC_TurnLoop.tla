---------------------------- MODULE MC_TurnLoop ----------------------------
(* Small instances of TurnLoop. *)
EXTENDS TurnLoop, TLC

CONSTANTS c1, c2, c3, h1, h2

FreshCalls == {c1, c2, c3}
TwoCalls == {c1, c2, h1, h2}

TwoCallSymmetry == Permutations({c1, c2})

Ask == User(<<TextBlock>>)
Say == Assistant(<<TextBlock>>)
Use(id) == Assistant(<<UseBlock(id, "read")>>)
Answer(id) == User(<<ResultBlock(id, FALSE)>>)
AnswerAndAsk(id) == User(<<ResultBlock(id, FALSE), TextBlock>>)

\* A first prompt; two exchanges; a settled tool exchange in between; and a turn
\* out of rounds resumed by a prompt merged into the results it left.
Short == <<Ask>>
Plain == <<Ask, Say, Ask, Say, Ask>>
Tooled == <<Ask, Use(h1), Answer(h1), Say, Ask>>
Resumed == <<Ask, Use(h1), AnswerAndAsk(h1), Use(h2), AnswerAndAsk(h2)>>

Small == [input |-> 1, read |-> None, write |-> None]
Large == [input |-> 1, read |-> 2, write |-> 1]

CompactedHistories == {Tooled, Resumed}
ShortHistories == {Short}
OneTool == {"read"}
TwoNames == {"read", "bogus"}
NoTools == {}
BothUsages == {Small, Large}
OneUsage == {Small}
FewFloors == {0, 2, 3}
NoFloor == {0}

KeepOne == [budget |-> 2, keep |-> 1]
KeepFour == [budget |-> 2, keep |-> 4]

CompactionPolicies == {KeepOne, KeepFour}
NoPolicy == {None}
OnePolicy == {KeepOne}
OneReason == {"end_turn"}
=============================================================================
