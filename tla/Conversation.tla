---------------------------- MODULE Conversation ----------------------------
(***************************************************************************)
(* sandbx-cli's agent-run and tui over a stored session: a run resumes the *)
(* transcript, merges it under its prompt, drives one turn, may ask once   *)
(* more after the last round (the wrap-up), and appends what it kept.      *)
(*                                                                         *)
(* The turn is taken at the granularity TurnPromise grants (TurnLoop shows *)
(* that the loop keeps it): whole rounds, and for each the request that    *)
(* opened it.  The compaction bookkeeping is the loop's own, since its     *)
(* figures are what is stored.  The figures cross from run to run through  *)
(* the transcript; SessionStore shows that a resumed session reads what a  *)
(* continued one holds.                                                    *)
(***************************************************************************)
EXTENDS Bridge

CONSTANTS
  Usages,       \* token counts a provider may report
  Policies,     \* compaction policies, None for off (as both commands leave it)
  WrapUps,      \* whether the flag --no-wrap-up was absent
  MaxRounds,    \* --max-rounds
  MaxStored     \* bound: no run begins on a longer transcript

\* round_cap refuses a cap of nothing; a policy is two counts.
ASSUME FlagsAssumption ==
  /\ MaxRounds \in Nat \ {0}
  /\ Policies \subseteq [budget : Nat, keep : Nat] \cup {None}

\* An absent stop is none of the stops a turn is stored with.
ASSUME StopAssumption ==
  None \notin {"answered", "summarised", "round_limit", "gate_aborted", "interrupted", "hung_up"}

VARIABLES
  policy, wrapUp,       \* the flags of every run
  stored, figures,      \* the transcript's messages and its folded accounting
  pc,                   \* "idle", "plan", "sent", "answering", "save"
  merged,               \* the merged history of this run, and the way back
  turn,                 \* the turn running: its history, its rounds left, its loop variables
  first,                \* the turn that ran out of rounds, while its wrap-up runs
  outcome,              \* the turn to store, and how it is stored
  exit                  \* the code of the last run

vars == <<policy, wrapUp, stored, figures, pc, merged, turn, first, outcome, exit>>
flags == <<policy, wrapUp>>

Ask == User(<<TextBlock>>)
Say == Assistant(<<TextBlock>>)

NoFigures == [observed |-> None, withheld |-> 0, stop |-> None]

Or(option, otherwise) == IF option # None THEN option ELSE otherwise

\* run_turn_until's variables as a turn starts.
NewTurn(history, observed, withheld, rounds) ==
  [history |-> history, rounds |-> rounds, produced |-> <<>>,
   observed |-> observed, usage |-> None, measured |-> TRUE,
   cut |-> 0, floor |-> withheld, streamedCut |-> withheld]

Request == Window(turn.history, turn.cut) \o turn.produced

Wrapping == first # None

Init ==
  /\ policy \in Policies /\ wrapUp \in WrapUps
  /\ stored = <<>> /\ figures = NoFigures
  /\ pc = "idle" /\ merged = None /\ turn = None /\ first = None /\ outcome = None
  /\ exit = None

\* A prompt on the resumed session, its stored run of user messages merged.
BeginRun ==
  /\ pc = "idle" /\ Len(stored) <= MaxStored
  /\ merged' = MergeUserRuns(Append(stored, Ask), figures.withheld)
  /\ turn' = NewTurn(merged'.history, figures.observed, merged'.withheld, MaxRounds)
  /\ first' = None /\ outcome' = None /\ exit' = None
  /\ pc' = "plan"
  /\ UNCHANGED <<flags, stored, figures>>

PlannedCut ==
  LET keepRecent == IF OverBudget(turn.observed, policy.budget) THEN policy.keep ELSE None
      planned    == PlanCut(turn.history, Len(turn.produced), keepRecent, turn.floor)
  IN  IF planned = None THEN turn.cut ELSE planned

SendRequest ==
  /\ pc = "plan" /\ turn.rounds > 0
  /\ turn' = IF turn.measured /\ policy # None
               THEN [turn EXCEPT !.cut = PlannedCut, !.floor = PlannedCut, !.measured = FALSE]
               ELSE turn
  /\ pc' = "sent"
  /\ UNCHANGED <<flags, stored, figures, merged, first, outcome, exit>>

\* A stream that came to its stop, with the usage it reported or none.
Streamed(reported) ==
  [turn EXCEPT !.streamedCut = turn.cut,
               !.usage = Or(reported, @), !.observed = Or(reported, @),
               !.measured = @ \/ reported # None]

Returned(ended, withheld) ==
  [messages |-> ended.produced, usage |-> ended.usage, withheld |-> withheld]

\* The turn to store, what its end is stored as, and the exit code, which an answer
\* that was lost on its way out decides.
Finish(kept, stop, code, lost) ==
  /\ outcome' = [messages |-> StoredMessages(kept.messages), observed |-> kept.usage,
                 withheld |-> Unmerged(merged, kept.withheld), stop |-> stop, lost |-> lost]
  /\ exit' = IF lost THEN 1 ELSE code
  /\ pc' = "save"
  /\ UNCHANGED <<flags, stored, figures, merged, turn, first>>

\* agent-run's stdout may have refused any part of the answer, which Render says only
\* once the turn is over (write, finish); tui prints after its save, and a stdout that
\* fails then costs it nothing.
FinishWritten(kept, stop, code) == \E lost \in BOOLEAN : Finish(kept, stop, code, lost)

\* The process ends, and with it everything but the transcript.
Exits == pc' = "idle" /\ merged' = None /\ turn' = None /\ first' = None /\ outcome' = None

\* Mutant: stored as the summary that never came.
FirstStandsSummarised == FinishWritten(first, "summarised", 2)

\* A wrap-up that did not answer leaves the turn before it as the cap left it.
FirstStands == FinishWritten(first, "round_limit", 2)

\* wrapup::merge
Joined(second) ==
  [messages |-> first.messages \o second.messages,
   usage |-> Or(second.usage, first.usage), withheld |-> second.withheld]

\* A round of prose, whole or cut at --max-tokens.
Reply ==
  /\ pc = "sent"
  /\ \E reported \in Usages \cup {None} : \E truncated \in BOOLEAN :
       LET ended == Returned([Streamed(reported) EXCEPT !.produced = Append(@, Say)], turn.cut)
       IN  IF Wrapping THEN FinishWritten(Joined(ended), "summarised", 2)
                       ELSE FinishWritten(ended, "answered", IF truncated THEN 2 ELSE 0)

\* A first round of nothing but reasoning: an answer with no messages, and nothing for
\* stdout to refuse.
SilentReply ==
  /\ pc = "sent" /\ turn.produced = <<>>
  /\ \E reported \in Usages \cup {None} : \E truncated \in BOOLEAN :
       IF Wrapping THEN FirstStands
                   ELSE Finish(Returned(Streamed(reported), turn.cut), "answered",
                               IF truncated THEN 2 ELSE 0, FALSE)

\* Every TurnError: the turn's own messages are gone and nothing is stored, but
\* a failed wrap-up costs only itself.
Fail ==
  /\ pc \in {"sent", "answering"}
  /\ \/ Wrapping /\ FirstStands
     \/ /\ ~Wrapping
        /\ exit' = 1 /\ Exits
        /\ UNCHANGED <<flags, stored, figures>>

AsksForTool ==
  /\ pc = "sent"
  /\ \E reported \in Usages \cup {None} : turn' = Streamed(reported)
  /\ pc' = "answering"
  /\ UNCHANGED <<flags, stored, figures, merged, first, outcome, exit>>

UsedCalls(messages) == UNION {CallsOf(messages[i]) : i \in DOMAIN messages}

\* The ids the provider may still give to a call; CallIds bounds them.
Unused == {c \in CallIds : c \notin UsedCalls(turn.history \o turn.produced)}

\* The round pushed: a call no one has used, and its answer.
Round(name) ==
  LET id == CHOOSE c \in Unused : TRUE
  IN  <<Assistant(<<UseBlock(id, name)>>), User(<<ResultBlock(id, FALSE)>>)>>

RoundAnswered ==
  /\ pc = "answering" /\ Unused # {}
  /\ \E name \in ToolNames :
       turn' = [turn EXCEPT !.produced = @ \o Round(name), !.rounds = @ - 1]
  /\ pc' = "plan"
  /\ UNCHANGED <<flags, stored, figures, merged, first, outcome, exit>>

\* The wrap-up's gate refuses everything and cannot abort.
GateAborts ==
  /\ pc = "answering" /\ ~Wrapping /\ Unused # {}
  /\ \E name \in ToolNames :
       FinishWritten(Returned([turn EXCEPT !.produced = @ \o Round(name)], turn.cut),
                     "gate_aborted", 3)

\* tui's stop: a key pressed, or the terminal gone.
Interrupt ==
  /\ pc \in {"sent", "answering"}
  /\ \E pressed \in BOOLEAN :
       LET code == IF pressed THEN 2 ELSE 3
       IN  IF Wrapping
             THEN Finish(first, "round_limit", code, FALSE)
             ELSE Finish(Returned(turn, turn.streamedCut),
                         IF pressed THEN "interrupted" ELSE "hung_up", code, FALSE)

\* Mutant: the wrap-up forgets what the turn before it withheld.
WrapUpTurnUncut ==
  NewTurn(merged.history \o turn.produced, Or(turn.usage, figures.observed), 0, 1)

\* The wrap-up is a turn of one round over the conversation the first one left.
WrapUpTurn ==
  NewTurn(merged.history \o turn.produced, Or(turn.usage, figures.observed), turn.cut, 1)

OutOfRounds ==
  /\ pc = "plan" /\ turn.rounds = 0
  /\ \/ Wrapping /\ FirstStands
     \/ ~Wrapping /\ ~wrapUp /\ FinishWritten(Returned(turn, turn.cut), "round_limit", 2)
     \/ /\ ~Wrapping /\ wrapUp
        /\ first' = Returned(turn, turn.cut)
        /\ turn' = WrapUpTurn
        /\ UNCHANGED <<flags, stored, figures, pc, merged, outcome, exit>>

\* The prompt and what the turn kept, if the store takes it.
Batch == Append(<<>>, Ask) \o outcome.messages

\* Mutant: a turn cut before it kept anything is handed over too.
TakesAnything == TRUE

\* Mutant: an answer that could not be written ends the run before its save.
TakesWritten == ~outcome.lost /\ Resumable(Batch)

\* A turn cut before it kept anything ends on its prompt, and is not handed over.
Takes == Resumable(Batch)

Ordered == Alternating(Batch) /\ Follows(stored, Batch)

Save ==
  /\ pc = "save"
  /\ Exits
  /\ IF Takes /\ Ordered
       THEN /\ stored' = stored \o Batch
            /\ figures' = [observed |-> Or(outcome.observed, figures.observed),
                           withheld |-> outcome.withheld, stop |-> outcome.stop]
       ELSE UNCHANGED <<stored, figures>>
  /\ exit' = IF Takes /\ ~Ordered THEN 1 ELSE exit
  /\ UNCHANGED flags

\* The operator need not come back.
Rest == pc = "idle" /\ UNCHANGED vars

Next ==
  \/ BeginRun \/ SendRequest \/ Reply \/ SilentReply \/ Fail
  \/ AsksForTool \/ RoundAnswered \/ GateAborts \/ Interrupt \/ OutOfRounds \/ Save \/ Rest

Spec == Init /\ [][Next]_vars

-----------------------------------------------------------------------------
(* Properties. *)

\* Every request of every run over a resumed, merged and compacted conversation,
\* the wrap-up's included, is one the API takes.
RequestAccepted == pc = "sent" => AcceptedByApi(Request)

\* What the store takes can be taken up again, and it never refuses the order of
\* a turn these commands hand it: the transcript is resumable, and every call in
\* it is answered by the next message.
TranscriptResumes ==
  /\ stored # <<>> =>
       /\ Resumable(stored) /\ Alternating(stored) /\ Opens(stored)
       /\ \A i \in DOMAIN stored : CallsOf(stored[i]) # {} =>
            i < Len(stored) /\ AnswersIn(stored[i + 1]) = CallsOf(stored[i])
  /\ pc = "save" => Ordered

Whole == Append(stored, Ask)

\* A cut means the same messages in both index spaces: what a request leaves out
\* of the merged history is what the stored count leaves out of the transcript
\* (Merged::unmerged).
CutNamesTheSame ==
  pc = "sent" =>
    Window(merged.history, turn.cut)
      = MergeUserRuns(SubSeq(Whole, Unmerged(merged, turn.cut) + 1, Len(Whole)), 0).history

\* Context once withheld stays withheld, across rounds, wrap-ups, interrupts and
\* runs, though the figure is translated twice a run.
StaysWithheld ==
  policy # None /\ pc = "sent" => Unmerged(merged, turn.cut) >= figures.withheld

\* What the transcript says of its end is true: it breaks off on unanswered calls
\* exactly when the stop recorded says the turn was cut (resume_note).
StopTellsTheEnd ==
  stored # <<>> =>
    /\ Settled(stored) <=> figures.stop \in {"answered", "summarised"}
    /\ figures.stop # None

Saving == pc = "save" /\ pc' = "idle"

\* What the code of a turn that is stored says of its stop.
CodeTells(code, stop) ==
  /\ code = 0 => stop = "answered"
  /\ stop \in {"gate_aborted", "hung_up"} => code = 3
  /\ stop \in {"summarised", "round_limit"} => code \in {2, 3}
  /\ stop \in {"answered", "interrupted"} => code \in {0, 2}

\* What a step may do to the transcript and to the exit code together.
Agrees ==
  /\ stored' # stored => Saving /\ IsPrefix(stored, stored')
  /\ Saving =>
       /\ stored' # stored <=> outcome.messages # <<>>
       /\ stored' # stored => figures'.stop = outcome.stop
       /\ IF outcome.lost THEN exit' = 1 ELSE CodeTells(exit', outcome.stop)

\* The exit code and the transcript agree on how a run ended.  A turn that kept anything
\* is stored, with its stop, whatever became of stdout: an answer that could not be
\* written takes the code alone (agent_run.rs:448-460), a gate's abort included, and is
\* the only way to a 1 over a stored turn.  Else 0 is a stored answer, or one of no
\* messages, and 3 an operator lost.  Here the file takes what it is handed; SessionStore
\* has the writes that fail.
ExitAgrees == [][Agrees]_vars
=============================================================================
