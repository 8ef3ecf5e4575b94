----------------------------- MODULE TurnPromise -----------------------------
(***************************************************************************)
(* What a turn promises its caller, whatever it streamed, cut, asked or    *)
(* ran on the way: the transcript it hands back grew by whole rounds only, *)
(* each a message that asks and a message that answers all of it, and it   *)
(* ended the way its TurnStop says.                                        *)
(***************************************************************************)
EXTENDS Messages, SequencesExt

CONSTANT MaxRounds    \* how often the model may be asked

VARIABLES
  kept,      \* the messages the caller would be handed, were the turn to end now
  fate       \* "running", a TurnStop, or "failed"

promiseVars == <<kept, fate>>

Reasonless(message) == HasContent(message) /\ AllBlocks(message, NotThinking)

Asks(message) ==
  message.role = "assistant" /\ Reasonless(message) /\ CallsOf(message) # {}

Replies(message) ==
  message.role = "assistant" /\ Reasonless(message) /\ CallsOf(message) = {}

Answers(message, asked) ==
  message.role = "user" /\ AnswersOnly(message) /\ AnswersIn(message) = CallsOf(asked)

Grows(by) == IsPrefix(kept, kept') /\ Len(kept') = Len(kept) + by

Init == kept = <<>> /\ fate = "running"

\* The gate may end the turn at the end of a round it answered.
WholeRound ==
  /\ fate = "running" /\ Len(kept) < 2 * MaxRounds
  /\ Grows(2)
  /\ Asks(kept'[Len(kept) + 1])
  /\ Answers(kept'[Len(kept) + 2], kept'[Len(kept) + 1])
  /\ fate' \in {"running", "gate_aborted"}

Reply ==
  /\ fate = "running" /\ Len(kept) < 2 * MaxRounds
  /\ Grows(1)
  /\ Replies(kept'[Len(kept) + 1])
  /\ fate' = "answered"

\* A first round of nothing but reasoning is an answer that leaves no message.
SilentReply ==
  /\ fate = "running" /\ kept = <<>>
  /\ fate' = "answered" /\ UNCHANGED kept

OutOfRounds ==
  /\ fate = "running" /\ Len(kept) = 2 * MaxRounds
  /\ fate' = "round_limit" /\ UNCHANGED kept

BreaksOff ==
  /\ fate = "running"
  /\ fate' \in {"interrupted", "failed"} /\ UNCHANGED kept

Next == WholeRound \/ Reply \/ SilentReply \/ OutOfRounds \/ BreaksOff

Spec == Init /\ [][Next]_promiseVars
=============================================================================
