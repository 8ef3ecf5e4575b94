-------------------------- MODULE MC_SessionStore --------------------------
(* Small instances of SessionStore. *)
EXTENDS SessionStore

CONSTANTS p1, p2

One == {p1}
Two == {p1, p2}

Ids == {1}
Tools == {"tool"}

Ask == User(<<TextBlock>>)
Reply == Assistant(<<TextBlock>>)
Call == Assistant(<<UseBlock(1, "tool")>>)
Result == User(<<ResultBlock(1, FALSE)>>)

\* What agent-run and tui append, and what append refuses or takes from others.
RunBatches == {<<Ask, Reply>>, <<Ask, Call, Result>>, <<Ask>>}
AllBatches == RunBatches \cup {<<>>, <<Reply>>, <<Call, Result, Result, Reply>>}

Counts == {"u"}
Cuts == {"cut"}
AllTears == {"clean", "cut", "split", "whole"}
=============================================================================
