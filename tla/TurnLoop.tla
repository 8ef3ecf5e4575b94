------------------------------ MODULE TurnLoop ------------------------------
(***************************************************************************)
(* sandbx-turn: one call of run_turn_until.                                *)
(*                                                                         *)
(* The loop asks the provider for a round, drains the stream into content  *)
(* blocks, puts every tool call to the gate, runs the approved ones one at *)
(* a time on a blocking thread, and asks again until a round carries no    *)
(* call, the cap is reached, the gate aborts, or the caller's stop         *)
(* resolves.                                                               *)
(*                                                                         *)
(* Four actors interleave: the turn's task, the provider's stream, the     *)
(* caller's stop, and the blocking thread, which nothing can cancel.  The  *)
(* stop is only looked at when the task is polled, before anything else    *)
(* (`unless`).  What happens inside one poll without waiting commutes with *)
(* the stop resolving, so those steps are atomic with the poll; the gate   *)
(* is the exception, because approve() blocks the poll for as long as a    *)
(* person thinks: the steps of that poll go on after a stop, up to the     *)
(* next tool that is not done by the time it is first waited for.          *)
(***************************************************************************)
EXTENDS Compaction, SequencesExt

CONSTANTS
  Histories,    \* the conversations a turn may be handed, its prompt last
  Floors,       \* the withheld counts it may be handed
  Usages,       \* the token counts a provider may report
  Policies,     \* the compaction policies, None for off
  Offered,      \* the built-ins offered in this turn
  Reasons,      \* why a provider may say a round ended
  MaxRounds,    \* TurnLimits::max_rounds
  MaxBlocks     \* bound: content blocks in one streamed round

ASSUME HistoriesAssumption ==
  /\ Histories \subseteq Seq(Messages)
  /\ Floors \subseteq Nat

\* "A history built the documented way" (Turn::history): a request the API takes as
\* it stands, with no reasoning in it; and only the model calls tools.  The commands
\* hand over no other (Conversation_proofs, TurnsTakeConversations).
ASSUME ConversationsAssumption ==
  \A history \in Histories :
    /\ AcceptedByApi(history)
    /\ \A i \in DOMAIN history :
         /\ AllBlocks(history[i], NotThinking)
         /\ history[i].role = "user" => CallsOf(history[i]) = {}

ASSUME UsagesAssumption ==
  /\ Usages \subseteq [input : Nat \cup {None}, read : Nat \cup {None}, write : Nat \cup {None}]
  /\ None \notin Usages /\ None \notin Reasons /\ None \notin CallIds

ASSUME PoliciesAssumption == Policies \subseteq [budget : Nat, keep : Nat] \cup {None}

ASSUME ToolsAssumption == Offered \subseteq ToolNames

ASSUME BoundsAssumption == MaxRounds \in Nat /\ MaxBlocks \in Nat

Stops == {"answered", "round_limit", "gate_aborted", "interrupted"}
Errors == {"provider", "ended_without_stop", "timed_out", "ended_mid_tool_use", "tool_panicked"}

VARIABLES
  turn,         \* what the caller handed over: history, withheld, observed, policy
  pc,           \* where the task is: the await it is parked at, or the step it is in
  round,        \* rounds pushed so far
  produced,     \* the messages of this turn
  observed, usage, measured,                \* the freshest measurement; this turn's own; unused
  cut, floor, sentCut, streamedCut,         \* the compaction bookkeeping of the loop
  lastStop,     \* why the last finished round ended
  blocks, roundUsage,                       \* the round being accumulated
  finished,     \* ghost: cut and usage of every request whose stream came to its stop
  results, aborted, settled,                \* answer_calls: answers, latch, calls reported settled
  thread,       \* the last tool started on a blocking thread
  applied,      \* ghost: the calls whose tool has run, whatever became of the turn
  stopped,      \* the caller's stop has resolved
  result        \* what the call returned

compactionVars == <<observed, usage, measured, cut, floor, sentCut, streamedCut>>
streamVars == <<blocks, roundUsage, lastStop, finished>>
gateVars == <<results, aborted, settled>>
toolVars == <<thread, applied>>
vars == <<turn, pc, round, produced, compactionVars, streamVars, gateVars, toolVars,
          stopped, result>>

-----------------------------------------------------------------------------
(* What the loop computes. *)

\* The request a round sends.
Prompt == Window(turn.history, cut) \o produced

Calls == Picked(blocks, {i \in DOMAIN blocks : IsUse(blocks[i])})

\* Every call gets exactly one result, in order, so the next call to decide is
\* the first one without a result.
Undecided == Len(results) < Len(Calls)
Call == Calls[Len(results) + 1]

EndsOnUser(messages) == messages # <<>> /\ messages[Len(messages)].role = "user"

\* run_turn_until returns: `outcome` on the way out, or an error that takes the
\* turn's messages with it.
\* Mutant: the turn comes back with its reasoning.
OutcomeWithThinking(messages, used, withheld, stop, why) ==
  [stop |-> stop, messages |-> messages, usage |-> used, withheld |-> withheld, lastStop |-> why]

Outcome(messages, used, withheld, stop, why) ==
  [stop |-> stop, messages |-> DropThinking(messages), usage |-> used,
   withheld |-> withheld, lastStop |-> why]

Return(messages, used, withheld, stop, why) ==
  /\ pc' = "done"
  /\ result' = Outcome(messages, used, withheld, stop, why)

Fail(error) ==
  /\ pc' = "done"
  /\ result' = [stop |-> "failed", error |-> error]

-----------------------------------------------------------------------------
NoThread == [id |-> None, state |-> "idle"]

Init ==
  /\ turn \in [history : Histories, withheld : Floors, observed : Usages \cup {None},
               policy : Policies]
  /\ pc = "plan" /\ round = 0 /\ produced = <<>>
  /\ observed = turn.observed /\ usage = None /\ measured = TRUE
  /\ cut = 0 /\ floor = turn.withheld /\ sentCut = None /\ streamedCut = turn.withheld
  /\ blocks = <<>> /\ roundUsage = None /\ lastStop = None /\ finished = <<>>
  /\ results = <<>> /\ aborted = FALSE /\ settled = <<>>
  /\ thread = NoThread /\ applied = {}
  /\ stopped = FALSE /\ result = None

(* The top of the loop: plan the cut, drop reasoning a deeper cut spoiled. *)

\* Mutant: a measurement is never used up.
PlanningUnmeasured == turn.policy # None
Planning == measured /\ turn.policy # None

PlannedCut ==
  LET keepRecent == IF OverBudget(observed, turn.policy.budget) THEN turn.policy.keep ELSE None
      planned    == PlanCut(turn.history, Len(produced), keepRecent, floor)
  IN  IF planned = None THEN cut ELSE planned

RoundsLeft == round < MaxRounds

\* The rounds of this turn the next request replays.
\* Mutant: a deepened cut leaves the reasoning in place.
CarriedWhole(newCut) == produced
Carried(newCut) ==
  IF sentCut # None /\ sentCut # newCut THEN DropThinking(produced) ELSE produced

PlanRound ==
  /\ pc = "plan" /\ RoundsLeft
  /\ cut' = IF Planning THEN PlannedCut ELSE cut
  /\ floor' = IF Planning THEN cut' ELSE floor
  /\ measured' = (measured /\ ~Planning)
  /\ sentCut' = cut'
  /\ produced' = Carried(cut')
  /\ blocks' = <<>> /\ roundUsage' = None
  /\ pc' = "request"
  /\ UNCHANGED <<turn, round, observed, usage, streamedCut, lastStop, finished, gateVars,
                 toolVars, stopped, result>>

OutOfRounds ==
  /\ pc = "plan" /\ ~RoundsLeft
  /\ Return(produced, usage, cut, "round_limit", lastStop)
  /\ UNCHANGED <<turn, round, produced, compactionVars, streamVars, gateVars, toolVars, stopped>>

(* The stream. *)

OpenStream ==
  /\ pc = "request" /\ ~stopped
  /\ pc' = "streaming"
  /\ UNCHANGED <<turn, round, produced, compactionVars, streamVars, gateVars, toolVars,
                 stopped, result>>

StreamFails(error) ==
  /\ \/ pc = "request" /\ error = "provider"
     \/ pc = "streaming" /\ error \in {"provider", "ended_without_stop", "timed_out"}
  /\ ~stopped
  /\ Fail(error)
  /\ UNCHANGED <<turn, round, produced, compactionVars, streamVars, gateVars, toolVars, stopped>>

\* Text accumulates in one pending block until another kind of block flushes it, so
\* no two text blocks are neighbours.
StreamText ==
  /\ pc = "streaming" /\ ~stopped
  /\ Len(blocks) < MaxBlocks
  /\ blocks # <<>> => blocks[Len(blocks)] # TextBlock
  /\ blocks' = Append(blocks, TextBlock)
  /\ UNCHANGED <<turn, pc, round, produced, compactionVars, roundUsage, lastStop, finished,
                 gateVars, toolVars, stopped, result>>

\* The ids a provider has handed out in this conversation.
UsedIds ==
  (UNION {CallsOf(turn.history[i]) : i \in DOMAIN turn.history})
    \cup (UNION {CallsOf(produced[i]) : i \in DOMAIN produced})
    \cup CallsOf(Assistant(blocks))

StreamBlock ==
  /\ pc = "streaming" /\ ~stopped
  /\ Len(blocks) < MaxBlocks
  /\ \/ blocks' = Append(blocks, ThinkingBlock(cut))
     \/ \E name \in ToolNames : \E id \in CallIds \ UsedIds :
          blocks' = Append(blocks, UseBlock(id, name))
  /\ UNCHANGED <<turn, pc, round, produced, compactionVars, roundUsage, lastStop, finished,
                 gateVars, toolVars, stopped, result>>

\* Restated cumulatively, so the last one counts.
StreamUsage ==
  /\ pc = "streaming" /\ ~stopped
  /\ roundUsage' \in Usages
  /\ UNCHANGED <<turn, pc, round, produced, compactionVars, blocks, lastStop, finished,
                 gateVars, toolVars, stopped, result>>

OnlyThinking == ~SomeBlock(Assistant(blocks), NotThinking)

\* A round that reports no counts leaves the ones at hand.
\* Mutant: a round without counts erases the last ones.
FresherAlways(atHand) == roundUsage
Fresher(atHand) == IF roundUsage = None THEN atHand ELSE roundUsage

\* The round's stream has come to its stop: the counts are taken before any
\* exit, and a round of nothing but reasoning ends the turn.
StreamStop ==
  /\ pc = "streaming" /\ ~stopped
  /\ streamedCut' = cut
  /\ usage' = Fresher(usage)
  /\ observed' = Fresher(observed)
  /\ measured' = (measured \/ roundUsage # None)
  /\ lastStop' \in Reasons
  /\ finished' = Append(finished, [cut |-> cut, usage |-> roundUsage])
  /\ \/ OnlyThinking /\ EndsOnUser(produced) /\ Fail("ended_mid_tool_use")
     \/ OnlyThinking /\ ~EndsOnUser(produced) /\ Return(produced, usage', cut, "answered", lastStop')
     \/ ~OnlyThinking /\ pc' = "answering" /\ UNCHANGED result
  /\ UNCHANGED <<turn, round, produced, cut, floor, sentCut, blocks, roundUsage, gateVars,
                 toolVars, stopped>>

(* answer_calls. *)

BeginAnswers ==
  /\ pc = "answering" /\ ~stopped
  /\ results' = <<>> /\ aborted' = FALSE
  /\ pc' = "gate"
  /\ UNCHANGED <<turn, round, produced, compactionVars, streamVars, settled, toolVars, stopped,
                 result>>

\* Mutant: a refusal not marked as an error.
RefuseAsSuccess ==
  /\ results' = Append(results, ResultBlock(Call.id, FALSE))
  /\ settled' = Append(settled, Call.id)
  /\ UNCHANGED <<turn, pc, round, produced, compactionVars, streamVars, toolVars, stopped, result>>

Refuse ==
  /\ results' = Append(results, ResultBlock(Call.id, TRUE))
  /\ settled' = Append(settled, Call.id)
  /\ UNCHANGED <<turn, pc, round, produced, compactionVars, streamVars, toolVars, stopped, result>>

IsOffered(call) == call.name \in Offered

\* No built-in's name, or one not offered: refused above the gate, which is not asked.
RefuseUnoffered ==
  /\ pc = "gate" /\ Undecided
  /\ ~IsOffered(Call)
  /\ Refuse /\ UNCHANGED aborted

\* The gate says no, or the latch says it for the gate.
Deny ==
  /\ pc = "gate" /\ Undecided
  /\ IsOffered(Call)
  /\ Refuse /\ UNCHANGED aborted

Abort ==
  /\ pc = "gate" /\ Undecided
  /\ IsOffered(Call) /\ ~aborted
  /\ Refuse /\ aborted' = TRUE

Allow ==
  /\ pc = "gate" /\ Undecided
  /\ IsOffered(Call) /\ ~aborted
  /\ thread' = [id |-> Call.id, state |-> "running"]
  /\ pc' = "spawned"
  /\ UNCHANGED <<turn, round, produced, compactionVars, streamVars, gateVars, applied, stopped,
                 result>>

\* The blocking thread runs to its end whether or not the turn still waits.
ToolEnds ==
  /\ thread.state = "running"
  /\ \E end \in {"ran", "errored", "panicked"} : thread' = [thread EXCEPT !.state = end]
  /\ applied' = applied \cup {thread.id}
  /\ UNCHANGED <<turn, pc, round, produced, compactionVars, streamVars, gateVars, stopped, result>>

\* The first poll of the blocking task finds it running, and the turn's own poll ends.
Park ==
  /\ pc = "spawned" /\ thread.state = "running"
  /\ pc' = "tool"
  /\ UNCHANGED <<turn, round, produced, compactionVars, streamVars, gateVars, toolVars, stopped,
                 result>>

\* Mutant: the stop is not looked at once the task was parked.
WaitingAnyway == pc \in {"spawned", "tool"}

\* The blocking task is looked at: in the poll that spawned it, or in one of its own,
\* the stop first.
Waiting == pc = "spawned" \/ (pc = "tool" /\ ~stopped)

\* Mutant: an error reported after the task was parked is never collected.
CollectSuccesses ==
  /\ Waiting
  /\ thread.state = "ran" \/ (thread.state = "errored" /\ pc = "spawned")
  /\ results' = Append(results, ResultBlock(thread.id, thread.state = "errored"))
  /\ settled' = Append(settled, thread.id)
  /\ pc' = "gate"
  /\ UNCHANGED <<turn, round, produced, compactionVars, streamVars, aborted, toolVars, stopped,
                 result>>

Collect ==
  /\ Waiting
  /\ thread.state \in {"ran", "errored"}
  /\ results' = Append(results, ResultBlock(thread.id, thread.state = "errored"))
  /\ settled' = Append(settled, thread.id)
  /\ pc' = "gate"
  /\ UNCHANGED <<turn, round, produced, compactionVars, streamVars, aborted, toolVars, stopped,
                 result>>

ToolPanicked ==
  /\ Waiting
  /\ thread.state = "panicked"
  /\ Fail("tool_panicked")
  /\ UNCHANGED <<turn, round, produced, compactionVars, streamVars, gateVars, toolVars, stopped>>

\* Every call answered: the round is pushed whole.  (Mutant of Whole: without its
\* results.)
PushedUnanswered == Append(produced, Assistant(blocks))
Whole == IF results = <<>> THEN PushedUnanswered ELSE Append(PushedUnanswered, User(results))

\* Mutant: the latch does not end the turn.
TurnGoesOnAnyway == results # <<>>
TurnGoesOn == results # <<>> /\ ~aborted

RoundAnswered ==
  /\ pc = "gate" /\ ~Undecided
  /\ produced' = Whole /\ round' = round + 1
  /\ \/ TurnGoesOn /\ pc' = "plan" /\ UNCHANGED result
     \/ ~TurnGoesOn /\ Return(Whole, usage, cut, IF aborted THEN "gate_aborted" ELSE "answered",
                              lastStop)
  /\ UNCHANGED <<turn, compactionVars, streamVars, gateVars, toolVars, stopped>>

(* The caller's stop, and what a task polled after it does. *)

StopResolves ==
  /\ pc # "done" /\ ~stopped
  /\ stopped' = TRUE
  /\ UNCHANGED <<turn, pc, round, produced, compactionVars, streamVars, gateVars, toolVars, result>>

\* Mutant: the stop waits for the tool.
InterruptAfterTool ==
  /\ stopped /\ pc \in {"request", "streaming", "answering", "tool"}
  /\ pc = "tool" => thread.state # "running"
  /\ Return(produced, usage, streamedCut, "interrupted", lastStop)
  /\ UNCHANGED <<turn, round, produced, compactionVars, streamVars, gateVars, toolVars, stopped>>

Interrupt ==
  /\ stopped /\ pc \in {"request", "streaming", "answering", "tool"}
  /\ Return(produced, usage, streamedCut, "interrupted", lastStop)
  /\ UNCHANGED <<turn, round, produced, compactionVars, streamVars, gateVars, toolVars, stopped>>

\* The call has returned and no thread of it is left.
Over ==
  /\ pc = "done" /\ thread.state # "running"
  /\ UNCHANGED vars

-----------------------------------------------------------------------------
Task ==
  \/ PlanRound \/ OutOfRounds
  \/ BeginAnswers \/ RefuseUnoffered \/ Deny \/ Abort \/ Allow
  \/ Park \/ Collect \/ ToolPanicked \/ RoundAnswered
  \/ Interrupt

Stream ==
  \/ OpenStream \/ StreamText \/ StreamBlock \/ StreamUsage \/ StreamStop
  \/ \E error \in Errors : StreamFails(error)

Next == Task \/ Stream \/ ToolEnds \/ StopResolves \/ Over

Spec == Init /\ [][Next]_vars

(***************************************************************************)
(* The runtime polls a task that can move and a gate answers; a provider   *)
(* answers or fails a request, its connect and read timeouts seeing to it; *)
(* a stream ends by itself or at stream_timeout.  Nothing bounds a tool:   *)
(* that it returns is the tools' own promise, not this crate's.            *)
(***************************************************************************)
Fairness ==
  /\ WF_vars(Task)
  /\ WF_vars(OpenStream \/ StreamFails("provider"))
  /\ WF_vars(StreamStop \/ StreamFails("timed_out"))

ToolsReturn == WF_vars(ToolEnds)

FairSpec == Spec /\ Fairness

-----------------------------------------------------------------------------
(* Properties. *)

ThreadStates == {"idle", "running", "ran", "errored", "panicked"}

Outcomes == [stop : Stops, messages : Seq(Messages), usage : Usages \cup {None},
             withheld : Nat, lastStop : Reasons \cup {None}]

Failures == [stop : {"failed"}, error : Errors]

ASSUME ResultsAssumption == None \notin Outcomes \cup Failures

Results == {None} \cup Outcomes \cup Failures

Steps == {"plan", "request", "streaming", "answering", "gate", "spawned", "tool", "done"}

TurnTyped ==
  /\ turn \in [history : Histories, withheld : Floors, observed : Usages \cup {None},
               policy : Policies]
  /\ pc \in Steps /\ round \in 0 .. MaxRounds
  /\ produced \in Seq(Messages)

FlagsTyped == measured \in BOOLEAN /\ aborted \in BOOLEAN /\ stopped \in BOOLEAN

CompactionTyped ==
  /\ observed \in Usages \cup {None} /\ usage \in Usages \cup {None}
  /\ cut \in Nat /\ floor \in Nat /\ sentCut \in Nat \cup {None} /\ streamedCut \in Nat

StreamTyped ==
  /\ blocks \in Seq(Blocks) /\ roundUsage \in Usages \cup {None}
  /\ lastStop \in Reasons \cup {None}
  /\ finished \in Seq([cut : Nat, usage : Usages \cup {None}])

GateTyped == results \in Seq(Blocks) /\ settled \in Seq(CallIds)

ToolTyped ==
  /\ thread \in [id : CallIds \cup {None}, state : ThreadStates]
  /\ applied \subseteq CallIds

\* Every variable keeps the type the loop gives it (TurnOutcome, Round, Answers).
TypeOK ==
  /\ TurnTyped /\ FlagsTyped /\ CompactionTyped /\ StreamTyped /\ GateTyped /\ ToolTyped
  /\ result \in Results

Returned == result # None /\ result.stop # "failed"

\* Whatever the compaction cuts and however many rounds it replays, the loop
\* never sends a request the API refuses: window() over the cut, followed by the
\* rounds of this turn, opens on a user turn with content, alternates, and
\* answers every call it replays.
RequestAccepted == pc \in {"request", "streaming"} => AcceptedByApi(Prompt)

\* Every reasoning block a request replays was produced against the very history
\* that request carries (drop_thinking, on a deepened cut).
ReasoningFresh ==
  pc \in {"request", "streaming"} =>
    \A i \in DOMAIN Prompt : \A j \in DOMAIN Prompt[i].content :
      IsThinking(Prompt[i].content[j]) => Prompt[i].content[j].against = cut

\* "The cut deepens at most once per measured round and never reverses"
\* (TurnLimits::compaction), and only onto a legal cut.
CutOnlyDeepens ==
  [][cut' # cut => /\ cut' > cut /\ OpensARequest(turn.history, cut')
                   /\ measured /\ ~measured']_vars

\* With compaction on, a floor that names a legal cut is held by every request
\* of the turn (Turn::withheld: "this turn may withhold more, never less").
FloorHeld ==
  turn.policy # None /\ OpensARequest(turn.history, turn.withheld)
    /\ pc \in {"request", "streaming"} => cut >= turn.withheld

Answered(messages) == UNION {AnswersIn(messages[i]) : i \in DOMAIN messages}

Succeeded(messages) ==
  UNION {{messages[i].content[j].id :
            j \in {k \in DOMAIN messages[i].content :
                     IsResult(messages[i].content[k]) /\ ~messages[i].content[k].error}} :
         i \in DOMAIN messages}

\* What a tool did to the file system and what the conversation says it did: only
\* calls of the round in flight may have run without an answer in the transcript, no
\* answer tells of success for a call that never ran, and none at all of one that is
\* still running (run_turn_until: "a call already running goes on unseen").
EffectsRecorded ==
  /\ applied \ Answered(produced) \subseteq CallsOf(Assistant(blocks))
  /\ Succeeded(produced) \subseteq applied
  /\ Returned /\ thread.state = "running" => thread.id \notin Answered(result.messages)
  /\ Returned /\ result.stop # "interrupted" =>
       /\ applied \subseteq Answered(result.messages)
       /\ Succeeded(result.messages) \subseteq applied
       /\ thread.state # "running"

Deciding == {"gate", "spawned"}

\* What a resolved stop leaves possible: no further request; no tool but those the
\* poll under way starts, never one once the task has been polled again; and a turn
\* that was waiting for a tool comes back as interrupted (run_turn_until: "a stop that
\* has already resolved opens no further request").
AfterStop ==
  [][stopped =>
       /\ ~(pc # "streaming" /\ pc' = "streaming")
       /\ pc \notin Deciding => pc' \notin Deciding /\ thread'.id = thread.id
       /\ pc = "tool" /\ pc' # "tool" => result'.stop = "interrupted"]_vars

\* Losing the gate is final: the round is answered to the last call and the turn
\* ends as GateAborted, a stop resolving meanwhile notwithstanding.
AbortIsFinal ==
  aborted => /\ pc \in {"gate", "done"}
             /\ pc = "done" => /\ result.stop = "gate_aborted"
                               /\ CallsOf(Assistant(blocks)) \subseteq Answered(result.messages)

\* What a turn hands back can be appended to the conversation it was handed and
\* read back: it joins it, alternates, answers every call, holds no reasoning,
\* and ends on the reply exactly when the turn was answered.
OutcomeAppends ==
  Returned =>
    LET messages == result.messages
    IN  /\ Alternating(turn.history \o messages) /\ Follows(turn.history, messages)
        /\ messages # <<>> => Resumable(messages)
        /\ \A i \in DOMAIN messages : /\ AllBlocks(messages[i], NotThinking)
                                      /\ HasContent(messages[i])
        /\ \A i \in DOMAIN messages : CallsOf(messages[i]) # {} =>
             i < Len(messages) /\ AnswersIn(messages[i + 1]) = CallsOf(messages[i])
        /\ messages # <<>> => (result.stop = "answered" <=> Settled(messages))
        /\ result.stop # "interrupted" => (Answered(messages) = ToSet(settled))

LastFinished == finished[Len(finished)]

\* The figures a turn hands back describe requests it really finished: the cut is
\* the last finished request's, or the carried floor, and the usage is that of the
\* last one that reported any; when it is the same one, they describe it together.
FiguresMatch ==
  Returned =>
    /\ finished # <<>> => result.withheld = LastFinished.cut
    /\ finished = <<>> /\ result.stop = "interrupted" => result.withheld = turn.withheld
    /\ LET reporting == {i \in DOMAIN finished : finished[i].usage # None}
       IN  IF reporting = {} THEN result.usage = None
           ELSE \E i \in reporting : result.usage = finished[i].usage
                                       /\ \A j \in reporting : j <= i

\* A turn whose tools return comes back.
TurnReturns == ToolsReturn => <>(pc = "done")

\* A stopped turn comes back even if its tool never does.
StopReturns == stopped ~> pc = "done"

-----------------------------------------------------------------------------
(* The loop keeps the promise a turn makes to its caller. *)

Promise ==
  INSTANCE TurnPromise WITH
    kept <- IF Returned THEN result.messages ELSE DropThinking(produced),
    fate <- IF result = None THEN "running" ELSE result.stop

\* Every step of the loop is one of the promise's or leaves it as it is: no
\* partial round, no unanswered call and no reasoning ever reaches the caller.
KeepsPromise == Promise!Spec
=============================================================================
