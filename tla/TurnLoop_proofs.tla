--------------------------- MODULE TurnLoop_proofs ---------------------------
(***************************************************************************)
(* Theorems about one call of run_turn_until, for conversations, floors,   *)
(* policies, token counts, tool names and round caps of any size.          *)
(***************************************************************************)
EXTENDS TurnLoop, Compaction_proofs

-----------------------------------------------------------------------------
(* The inductive invariant. *)

\* A round in progress is one the cap allows.
RoundInv == pc \notin {"plan", "done"} => round < MaxRounds

\* A thread that has started runs a call of the conversation.
ThreadInv == thread.state # "idle" => thread.id \in CallIds

\* Before the first request nothing is withheld yet and the floor is the carried
\* one; from then on the cut is what the last request withheld, the floor the
\* next plan starts from is that cut, and it has not fallen below a legal
\* carried floor.
CutInv ==
  /\ cut = 0 \/ OpensARequest(turn.history, cut)
  /\ turn.policy = None => cut = 0
  /\ sentCut = None => /\ measured /\ cut = 0 /\ floor = turn.withheld
                       /\ pc \in {"plan", "done"}
  /\ sentCut # None => /\ sentCut = cut
                       /\ turn.policy # None =>
                            /\ floor = cut
                            /\ OpensARequest(turn.history, turn.withheld) =>
                                 cut >= turn.withheld

LoopInv == TypeOK /\ RoundInv /\ ThreadInv /\ CutInv

-----------------------------------------------------------------------------
(* What the loop computes is typed. *)

\* The calls of a round are tool calls of the vocabulary.
LEMMA CallsType ==
  ASSUME blocks \in Seq(Blocks)
  PROVE  Calls \in Seq({block \in Blocks : IsUse(block)})
<1> DEFINE uses == {i \in DOMAIN blocks : IsUse(blocks[i])}
           Used == {block \in Blocks : IsUse(block)}
<1>1. \A i \in DOMAIN blocks : i \in uses => blocks[i] \in Used
  OBVIOUS
<1>2. Picked(blocks, uses) \in Seq(Used)
  <2> HIDE DEF uses, Used
  <2> QED
    BY <1>1, PickedType
<1> QED
  BY <1>2 DEF Calls

\* The call being decided has an id of the vocabulary.
LEMMA CallType ==
  ASSUME blocks \in Seq(Blocks), results \in Seq(Blocks), Undecided
  PROVE  Call.id \in CallIds
<1>1. Calls \in Seq({block \in Blocks : IsUse(block)})
  BY CallsType
<1>2. Len(results) + 1 \in 1 .. Len(Calls)
  <2>1. Len(Calls) \in Nat /\ Len(results) \in Nat
    BY <1>1
  <2> QED
    BY <2>1 DEF Undecided
<1>3. Call \in {block \in Blocks : IsUse(block)}
  BY <1>1, <1>2 DEF Call
<1> QED
  BY <1>3 DEF Blocks, IsUse, TextBlock

\* What a plan comes to is typed, and keeps to the rules of a cut.
LEMMA PlannedCutProperties ==
  ASSUME TypeOK, CutInv, Planning
  PROVE  /\ PlannedCut \in Nat
         /\ PlannedCut = cut \/ OpensARequest(turn.history, PlannedCut)
         /\ PlannedCut >= cut
         /\ OpensARequest(turn.history, turn.withheld) => PlannedCut >= turn.withheld
<1> DEFINE keepRecent == IF OverBudget(observed, turn.policy.budget) THEN turn.policy.keep ELSE None
           planned == PlanCut(turn.history, Len(produced), keepRecent, floor)
<1>1. /\ turn.history \in Seq(Messages) /\ turn.withheld \in Nat
      /\ turn.policy \in [budget : Nat, keep : Nat]
  BY HistoriesAssumption, PoliciesAssumption DEF TypeOK, TurnTyped, Planning
<1>2. keepRecent \in Nat \cup {None}
  BY <1>1
<1>3. Len(produced) \in Nat /\ floor \in Nat /\ cut \in Nat
  BY DEF TypeOK, TurnTyped, CompactionTyped
<1>4. planned # None => planned \in Nat /\ OpensARequest(turn.history, planned)
  <2> HIDE DEF keepRecent
  <2> QED
    BY <1>1, <1>2, <1>3, PlanCutLegal
<1>5. OpensARequest(turn.history, floor) => planned \in Nat /\ planned >= floor
  <2> HIDE DEF keepRecent
  <2> QED
    BY <1>1, <1>2, <1>3, PlanCutHoldsFloor
<1>6. PlannedCut = IF planned = None THEN cut ELSE planned
  BY DEF PlannedCut
<1> HIDE DEF planned
<1>7. PlannedCut \in Nat /\ (PlannedCut = cut \/ OpensARequest(turn.history, PlannedCut))
  BY <1>3, <1>4, <1>6
<1>8. turn.policy # None
  BY DEF Planning
<1>9. CASE sentCut = None
  <2>1. cut = 0 /\ floor = turn.withheld
    BY <1>9 DEF CutInv
  <2>2. PlannedCut >= cut
    BY <2>1, <1>7
  <2>3. OpensARequest(turn.history, turn.withheld) => PlannedCut >= turn.withheld
    BY <2>1, <1>5, <1>6, NoneAssumption
  <2> QED
    BY <1>7, <2>2, <2>3
<1>10. CASE sentCut # None
  <2>1. /\ floor = cut
        /\ cut = 0 \/ OpensARequest(turn.history, cut)
        /\ OpensARequest(turn.history, turn.withheld) => cut >= turn.withheld
    BY <1>8, <1>10 DEF CutInv
  <2>2. floor = cut
    BY <1>8, <1>10 DEF CutInv
  <2>3. PlannedCut >= cut
    BY <2>1, <2>2, <1>3, <1>5, <1>6, <1>7, NoneAssumption
  <2>4. OpensARequest(turn.history, turn.withheld) => PlannedCut >= turn.withheld
    BY <2>1, <2>3, <1>1, <1>3, <1>7
  <2> QED
    BY <1>7, <2>3, <2>4
<1> QED
  BY <1>9, <1>10

-----------------------------------------------------------------------------
(* Type correctness. *)

\* What a call hands back is one of them, and is something.
LEMMA OutcomeType ==
  ASSUME NEW messages \in Seq(Messages), NEW used \in Usages \cup {None}, NEW withheld \in Nat,
         NEW stop \in Stops, NEW why \in Reasons \cup {None}
  PROVE  /\ Outcome(messages, used, withheld, stop, why) \in Results
         /\ Outcome(messages, used, withheld, stop, why) # None
<1>1. DropThinking(messages) \in Seq(Messages)
  BY DropThinkingType
<1>2. Outcome(messages, used, withheld, stop, why) \in Outcomes
  BY <1>1 DEF Outcome, Outcomes
<1> QED
  BY <1>2, ResultsAssumption DEF Results

\* So is an error.
LEMMA FailureType ==
  ASSUME NEW error \in Errors
  PROVE  /\ [stop |-> "failed", error |-> error] \in Results
         /\ [stop |-> "failed", error |-> error] # None
<1>1. [stop |-> "failed", error |-> error] \in Failures
  BY DEF Failures
<1> QED
  BY <1>1, ResultsAssumption DEF Results

\* The initial states are typed.
LEMMA InitInv == Init => LoopInv
<1> SUFFICES ASSUME Init PROVE LoopInv
  OBVIOUS
<1>1. turn.withheld \in Nat /\ turn.observed \in Usages \cup {None}
  BY HistoriesAssumption DEF Init
<1>2. TurnTyped
  BY BoundsAssumption DEF Init, TurnTyped, Steps
<1>3. CompactionTyped
  BY <1>1 DEF Init, CompactionTyped
<1>4. StreamTyped /\ GateTyped
  BY DEF Init, StreamTyped, GateTyped
<1>5. ToolTyped
  <2>1. NoThread \in [id : CallIds \cup {None}, state : ThreadStates]
    BY DEF NoThread, ThreadStates
  <2>2. thread = NoThread /\ applied = {}
    BY DEF Init
  <2> QED
    BY <2>1, <2>2 DEF ToolTyped
<1>6. result \in Results
  BY DEF Init, Results, Outcomes
<1>7. RoundInv /\ ThreadInv /\ CutInv
  BY DEF Init, RoundInv, ThreadInv, CutInv, NoThread
<1>8. FlagsTyped
  BY DEF Init, FlagsTyped
<1> QED
  BY <1>2, <1>3, <1>4, <1>5, <1>6, <1>7, <1>8 DEF LoopInv, TypeOK

\* Every step keeps the types.
LEMMA TypeStep == LoopInv /\ [Next]_vars => TypeOK'
<1> SUFFICES ASSUME LoopInv, [Next]_vars PROVE TypeOK'
  OBVIOUS
<1>0. /\ TurnTyped /\ FlagsTyped /\ CompactionTyped /\ StreamTyped /\ GateTyped /\ ToolTyped
      /\ result \in Results
  BY DEF LoopInv, TypeOK
<1>1. CASE PlanRound
  <2>1. TurnTyped'
    <3>1. DropThinking(produced) \in Seq(Messages)
      BY <1>0, DropThinkingType DEF TurnTyped
    <3> QED
      BY <1>0, <1>1, <3>1 DEF PlanRound, Carried, TurnTyped, Steps
  <2>2. CompactionTyped'
    <3>1. Planning => PlannedCut \in Nat
      BY PlannedCutProperties DEF LoopInv
    <3> QED
      BY <1>0, <1>1, <3>1 DEF PlanRound, CompactionTyped
  <2>3. FlagsTyped'
    BY <1>0, <1>1 DEF PlanRound, FlagsTyped, gateVars
  <2>4. StreamTyped'
    BY <1>0, <1>1 DEF PlanRound, StreamTyped
  <2>5. GateTyped' /\ ToolTyped' /\ (result \in Results)'
    BY <1>0, <1>1 DEF PlanRound, GateTyped, gateVars, ToolTyped, toolVars
  <2> QED
    BY <2>1, <2>2, <2>3, <2>4, <2>5 DEF TypeOK
<1>2. CASE OutOfRounds
  <2>1. TurnTyped' /\ FlagsTyped'
    BY <1>0, <1>2 DEF OutOfRounds, Return, TurnTyped, Steps, FlagsTyped, compactionVars, gateVars
  <2>2. CompactionTyped' /\ StreamTyped' /\ GateTyped' /\ ToolTyped'
    BY <1>0, <1>2 DEF OutOfRounds, CompactionTyped, compactionVars, StreamTyped, streamVars,
                      GateTyped, gateVars, ToolTyped, toolVars
  <2>3. (result \in Results)'
    <3>1. Outcome(produced, usage, cut, "round_limit", lastStop) \in Results
      BY <1>0, OutcomeType DEF TurnTyped, CompactionTyped, StreamTyped, Stops
    <3> QED
      BY <1>2, <3>1 DEF OutOfRounds, Return
  <2> QED
    BY <2>1, <2>2, <2>3 DEF TypeOK
<1>3. CASE BeginAnswers
  <2>1. TurnTyped' /\ GateTyped'
    BY <1>0, <1>3 DEF BeginAnswers, TurnTyped, Steps, GateTyped
  <2>2. FlagsTyped'
    BY <1>0, <1>3 DEF BeginAnswers, FlagsTyped, compactionVars
  <2>3. CompactionTyped' /\ StreamTyped' /\ ToolTyped' /\ (result \in Results)'
    BY <1>0, <1>3 DEF BeginAnswers, CompactionTyped, compactionVars, StreamTyped, streamVars,
                      ToolTyped, toolVars
  <2> QED
    BY <2>1, <2>2, <2>3 DEF TypeOK
<1>4. CASE RefuseUnoffered \/ Deny \/ Abort
  <2>1. Refuse /\ Undecided /\ aborted' \in BOOLEAN
    BY <1>0, <1>4 DEF RefuseUnoffered, Deny, Abort, FlagsTyped
  <2>2. TurnTyped' /\ FlagsTyped'
    BY <1>0, <2>1 DEF Refuse, TurnTyped, Steps, FlagsTyped, compactionVars
  <2>3. CompactionTyped' /\ StreamTyped' /\ ToolTyped' /\ (result \in Results)'
    BY <1>0, <2>1 DEF Refuse, CompactionTyped, compactionVars, StreamTyped, streamVars,
                      ToolTyped, toolVars
  <2>4. GateTyped'
    <3>1. Call.id \in CallIds
      BY <1>0, <2>1, CallType DEF StreamTyped, GateTyped
    <3> DEFINE answer == ResultBlock(Call.id, TRUE)
    <3>2. answer \in Blocks
      BY <3>1 DEF ResultBlock, Blocks
    <3>3. results' = Append(results, answer) /\ settled' = Append(settled, Call.id)
      BY <2>1 DEF Refuse
    <3> HIDE DEF answer
    <3> QED
      BY <1>0, <3>1, <3>2, <3>3 DEF GateTyped
  <2> QED
    BY <2>2, <2>3, <2>4 DEF TypeOK
<1>5. CASE Allow
  <2>1. TurnTyped' /\ FlagsTyped'
    BY <1>0, <1>5 DEF Allow, TurnTyped, Steps, FlagsTyped, compactionVars, gateVars
  <2>2. CompactionTyped' /\ StreamTyped' /\ GateTyped' /\ (result \in Results)'
    BY <1>0, <1>5 DEF Allow, CompactionTyped, compactionVars, StreamTyped, streamVars,
                      GateTyped, gateVars
  <2>3. ToolTyped'
    <3>1. Call.id \in CallIds
      BY <1>0, <1>5, CallType DEF Allow, StreamTyped, GateTyped
    <3>2. [id |-> Call.id, state |-> "running"]
            \in [id : CallIds \cup {None}, state : ThreadStates]
      BY <1>0, <3>1 DEF FlagsTyped, ThreadStates
    <3> QED
      BY <1>0, <1>5, <3>2 DEF Allow, ToolTyped
  <2> QED
    BY <2>1, <2>2, <2>3 DEF TypeOK
<1>6. CASE ToolEnds
  <2>1. TurnTyped' /\ FlagsTyped'
    BY <1>0, <1>6 DEF ToolEnds, TurnTyped, FlagsTyped, compactionVars, gateVars
  <2>2. CompactionTyped' /\ StreamTyped' /\ GateTyped' /\ (result \in Results)'
    BY <1>0, <1>6 DEF ToolEnds, CompactionTyped, compactionVars, StreamTyped, streamVars,
                      GateTyped, gateVars
  <2>3. ToolTyped'
    <3>1. thread.id \in CallIds
      BY <1>6 DEF ToolEnds, LoopInv, ThreadInv
    <3>2. PICK end \in {"ran", "errored", "panicked"} : thread' = [thread EXCEPT !.state = end]
      BY <1>6 DEF ToolEnds
    <3>3. thread' \in [id : CallIds \cup {None}, state : ThreadStates]
      BY <1>0, <3>2 DEF ToolTyped, ThreadStates
    <3> QED
      BY <1>0, <1>6, <3>1, <3>3 DEF ToolEnds, ToolTyped
  <2> QED
    BY <2>1, <2>2, <2>3 DEF TypeOK
<1>7. CASE Collect
  <2>1. TurnTyped' /\ FlagsTyped'
    BY <1>0, <1>7 DEF Collect, TurnTyped, Steps, FlagsTyped, compactionVars
  <2>2. CompactionTyped' /\ StreamTyped' /\ ToolTyped' /\ (result \in Results)'
    BY <1>0, <1>7 DEF Collect, CompactionTyped, compactionVars, StreamTyped, streamVars,
                      ToolTyped, toolVars
  <2>3. GateTyped'
    <3>1. thread.id \in CallIds
      BY <1>7 DEF Collect, LoopInv, ThreadInv
    <3>2. ResultBlock(thread.id, thread.state = "errored") \in Blocks
      BY <3>1 DEF ResultBlock, Blocks
    <3> QED
      BY <1>0, <1>7, <3>1, <3>2 DEF Collect, GateTyped
  <2> QED
    BY <2>1, <2>2, <2>3 DEF TypeOK
<1>8. CASE ToolPanicked \/ \E error \in Errors : StreamFails(error)
  <2>1. PICK error \in Errors : Fail(error)
    BY <1>8 DEF ToolPanicked, Waiting, StreamFails, Errors
  <2>2. UNCHANGED <<turn, round, produced, compactionVars, streamVars, gateVars, toolVars, stopped>>
    BY <1>8 DEF ToolPanicked, Waiting, StreamFails
  <2>3. TurnTyped' /\ FlagsTyped'
    BY <1>0, <2>1, <2>2 DEF Fail, TurnTyped, Steps, FlagsTyped, compactionVars, gateVars
  <2>4. CompactionTyped' /\ StreamTyped' /\ GateTyped' /\ ToolTyped'
    BY <1>0, <2>2 DEF CompactionTyped, compactionVars, StreamTyped, streamVars,
                      GateTyped, gateVars, ToolTyped, toolVars
  <2>5. (result \in Results)'
    BY <2>1 DEF Fail, Results, Failures
  <2> QED
    BY <2>3, <2>4, <2>5 DEF TypeOK
<1>9. CASE RoundAnswered
  <2>1. Whole \in Seq(Messages)
    <3>1. Assistant(blocks) \in Messages /\ User(results) \in Messages
      BY <1>0 DEF StreamTyped, GateTyped, Messages, Roles, Assistant, User
    <3>2. PushedUnanswered \in Seq(Messages)
      BY <1>0, <3>1 DEF PushedUnanswered, TurnTyped
    <3> QED
      BY <3>1, <3>2 DEF Whole
  <2>2. produced' = Whole /\ pc' \in {"plan", "done"}
    BY <1>9 DEF RoundAnswered, Return
  <2>3. round' = round + 1 /\ round < MaxRounds
    BY <1>9 DEF RoundAnswered, LoopInv, RoundInv
  <2>4. TurnTyped'
    <3>1. turn' = turn
      BY <1>9 DEF RoundAnswered
    <3> QED
      BY <1>0, <2>1, <2>2, <2>3, <3>1, BoundsAssumption DEF TurnTyped, Steps
  <2>5. FlagsTyped'
    BY <1>0, <1>9 DEF RoundAnswered, FlagsTyped, compactionVars, gateVars
  <2>6. CompactionTyped' /\ StreamTyped' /\ GateTyped' /\ ToolTyped'
    BY <1>0, <1>9 DEF RoundAnswered, CompactionTyped, compactionVars, StreamTyped, streamVars,
                      GateTyped, gateVars, ToolTyped, toolVars
  <2>7. (result \in Results)'
    <3>1. \A stop \in Stops : Outcome(Whole, usage, cut, stop, lastStop) \in Results
      BY <1>0, <2>1, OutcomeType DEF CompactionTyped, StreamTyped
    <3>2. \/ result' = result
          \/ \E stop \in Stops : result' = Outcome(Whole, usage, cut, stop, lastStop)
      BY <1>9 DEF RoundAnswered, Return, Stops
    <3> QED
      BY <1>0, <3>1, <3>2
  <2> QED
    BY <2>4, <2>5, <2>6, <2>7 DEF TypeOK
<1>10. CASE Interrupt
  <2>1. TurnTyped' /\ FlagsTyped'
    BY <1>0, <1>10 DEF Interrupt, Return, TurnTyped, Steps, FlagsTyped, compactionVars, gateVars
  <2>2. CompactionTyped' /\ StreamTyped' /\ GateTyped' /\ ToolTyped'
    BY <1>0, <1>10 DEF Interrupt, CompactionTyped, compactionVars, StreamTyped, streamVars,
                       GateTyped, gateVars, ToolTyped, toolVars
  <2>3. (result \in Results)'
    <3>1. Outcome(produced, usage, streamedCut, "interrupted", lastStop) \in Results
      BY <1>0, OutcomeType DEF TurnTyped, CompactionTyped, StreamTyped, Stops
    <3> QED
      BY <1>10, <3>1 DEF Interrupt, Return
  <2> QED
    BY <2>1, <2>2, <2>3 DEF TypeOK
<1>11. CASE OpenStream \/ StopResolves \/ Park
  <2>1. TurnTyped'
    BY <1>0, <1>11 DEF OpenStream, StopResolves, Park, TurnTyped, Steps
  <2>2. FlagsTyped'
    BY <1>0, <1>11 DEF OpenStream, StopResolves, Park, FlagsTyped, compactionVars, gateVars
  <2>3. /\ CompactionTyped' /\ StreamTyped' /\ GateTyped' /\ ToolTyped'
        /\ (result \in Results)'
    BY <1>0, <1>11 DEF OpenStream, StopResolves, Park, CompactionTyped, compactionVars, StreamTyped,
                       streamVars, GateTyped, gateVars, ToolTyped, toolVars
  <2> QED
    BY <2>1, <2>2, <2>3 DEF TypeOK
<1>12. CASE StreamText \/ StreamBlock \/ StreamUsage
  <2>1. TurnTyped'
    BY <1>0, <1>12 DEF StreamText, StreamBlock, StreamUsage, TurnTyped
  <2>2. FlagsTyped'
    BY <1>0, <1>12 DEF StreamText, StreamBlock, StreamUsage, FlagsTyped, compactionVars, gateVars
  <2>3. CompactionTyped' /\ GateTyped' /\ ToolTyped' /\ (result \in Results)'
    BY <1>0, <1>12 DEF StreamText, StreamBlock, StreamUsage, CompactionTyped, compactionVars,
                       GateTyped, gateVars, ToolTyped, toolVars
  <2>4. StreamTyped'
    <3>1. TextBlock \in Blocks /\ \A against \in Nat : ThinkingBlock(against) \in Blocks
      BY DEF Blocks, TextBlock, ThinkingBlock
    <3>2. \A id \in CallIds, name \in ToolNames : UseBlock(id, name) \in Blocks
      BY DEF Blocks, UseBlock
    <3>3. blocks' \in Seq(Blocks)
      <4>1. \/ blocks' = blocks
            \/ \E block \in Blocks : blocks' = Append(blocks, block)
        BY <1>0, <1>12, <3>1, <3>2 DEF StreamText, StreamBlock, StreamUsage, CompactionTyped
      <4> QED
        BY <1>0, <4>1 DEF StreamTyped
    <3>4. roundUsage' \in Usages \cup {None} /\ lastStop' = lastStop /\ finished' = finished
      BY <1>0, <1>12 DEF StreamText, StreamBlock, StreamUsage, StreamTyped
    <3> QED
      BY <1>0, <3>3, <3>4 DEF StreamTyped
  <2> QED
    BY <2>1, <2>2, <2>3, <2>4 DEF TypeOK
<1>13. CASE StreamStop
  <2>1. TurnTyped'
    BY <1>0, <1>13 DEF StreamStop, Fresher, Fail, Return, TurnTyped, Steps
  <2>2. FlagsTyped'
    BY <1>0, <1>13 DEF StreamStop, Fresher, FlagsTyped, gateVars
  <2>3. CompactionTyped'
    BY <1>0, <1>13 DEF StreamStop, Fresher, CompactionTyped, StreamTyped
  <2>4. StreamTyped'
    BY <1>0, <1>13 DEF StreamStop, Fresher, StreamTyped, CompactionTyped
  <2>5. GateTyped' /\ ToolTyped'
    BY <1>0, <1>13 DEF StreamStop, Fresher, GateTyped, gateVars, ToolTyped, toolVars
  <2>6. (result \in Results)'
    <3>1. usage' \in Usages \cup {None} /\ lastStop' \in Reasons \cup {None}
      BY <2>3, <2>4 DEF CompactionTyped, StreamTyped
    <3>2. Outcome(produced, usage', cut, "answered", lastStop') \in Results
      BY <1>0, <3>1, OutcomeType DEF TurnTyped, CompactionTyped, Stops
    <3>3. [stop |-> "failed", error |-> "ended_mid_tool_use"] \in Results
      BY DEF Results, Failures, Errors
    <3> QED
      BY <1>0, <1>13, <3>2, <3>3 DEF StreamStop, Fresher, Fail, Return
  <2> QED
    BY <2>1, <2>2, <2>3, <2>4, <2>5, <2>6 DEF TypeOK
<1>14. CASE UNCHANGED vars
  BY <1>0, <1>14 DEF vars, TypeOK, TurnTyped, FlagsTyped, CompactionTyped, compactionVars,
                     StreamTyped,
                     streamVars, GateTyped, gateVars, ToolTyped, toolVars
<1> QED
  BY <1>1, <1>2, <1>3, <1>4, <1>5, <1>6, <1>7, <1>8, <1>9, <1>10, <1>11, <1>12, <1>13, <1>14
     DEF Next, Task, Stream, Over

-----------------------------------------------------------------------------
(* The invariant. *)

\* Every step keeps the round within the cap.
LEMMA RoundStep == LoopInv /\ [Next]_vars => RoundInv'
<1> SUFFICES ASSUME LoopInv, [Next]_vars PROVE RoundInv'
  OBVIOUS
<1>0. RoundInv
  BY DEF LoopInv
<1>1. CASE PlanRound
  BY <1>1 DEF PlanRound, RoundsLeft, RoundInv
<1>2. CASE OutOfRounds \/ RoundAnswered \/ Interrupt
  BY <1>2 DEF OutOfRounds, RoundAnswered, Interrupt, Return, RoundInv
<1>3. CASE ToolPanicked \/ \E error \in Errors : StreamFails(error)
  BY <1>3 DEF ToolPanicked, Waiting, StreamFails, Fail, RoundInv
<1>4. CASE BeginAnswers \/ RefuseUnoffered \/ Deny \/ Abort \/ Allow \/ Collect
  BY <1>0, <1>4 DEF BeginAnswers, RefuseUnoffered, Deny, Abort, Refuse, Allow, Collect, Waiting,
                    RoundInv
<1>5. CASE Park \/ OpenStream \/ StreamText \/ StreamBlock \/ StreamUsage
  BY <1>0, <1>5 DEF Park, OpenStream, StreamText, StreamBlock, StreamUsage, RoundInv
<1>6. CASE StreamStop
  BY <1>0, <1>6 DEF StreamStop, Fresher, Return, Fail, RoundInv
<1>7. CASE ToolEnds \/ StopResolves \/ UNCHANGED vars
  BY <1>0, <1>7 DEF ToolEnds, StopResolves, vars, RoundInv
<1> QED
  BY <1>1, <1>2, <1>3, <1>4, <1>5, <1>6, <1>7 DEF Next, Task, Stream, Over

\* Every step keeps a started thread on a call.
LEMMA ThreadStep == LoopInv /\ [Next]_vars => ThreadInv'
<1> SUFFICES ASSUME LoopInv, [Next]_vars PROVE ThreadInv'
  OBVIOUS
<1>0. ThreadInv /\ ToolTyped
  BY DEF LoopInv, TypeOK
<1>1. CASE Allow
  <2>1. Call.id \in CallIds
    BY <1>1, CallType DEF Allow, LoopInv, TypeOK, StreamTyped, GateTyped
  <2>2. /\ thread' = [id |-> Call.id, state |-> "running"]
        /\ pc' = "spawned" /\ stopped' = stopped
    BY <1>1 DEF Allow
  <2>3. thread'.id = Call.id
    BY <2>2
  <2> QED
    BY <2>1, <2>2, <2>3 DEF ThreadInv
<1>2. CASE ToolEnds
  <2>1. PICK end \in ThreadStates : thread' = [thread EXCEPT !.state = end]
    BY <1>2 DEF ToolEnds, ThreadStates
  <2>2. thread'.id = thread.id /\ thread.id \in CallIds
    BY <1>0, <1>2, <2>1 DEF ToolEnds, ToolTyped, ThreadInv
  <2>3. pc' = pc /\ stopped' = stopped
    BY <1>2 DEF ToolEnds
  <2> QED
    BY <1>0, <2>2, <2>3 DEF ThreadInv
<1>3. CASE PlanRound \/ OutOfRounds \/ RoundAnswered \/ Interrupt
  BY <1>0, <1>3 DEF PlanRound, OutOfRounds, RoundAnswered, Interrupt, Return, toolVars,
                    ThreadInv
<1>4. CASE ToolPanicked \/ \E error \in Errors : StreamFails(error)
  BY <1>0, <1>4 DEF ToolPanicked, Waiting, StreamFails, Fail, toolVars, ThreadInv
<1>5. CASE BeginAnswers \/ RefuseUnoffered \/ Deny \/ Abort \/ Collect
  BY <1>0, <1>5 DEF BeginAnswers, RefuseUnoffered, Deny, Abort, Refuse, Collect, toolVars,
                    ThreadInv
<1>6. CASE Park \/ OpenStream \/ StreamText \/ StreamBlock \/ StreamUsage \/ StreamStop
  BY <1>0, <1>6 DEF Park, OpenStream, StreamText, StreamBlock, StreamUsage, StreamStop, toolVars,
                    ThreadInv
<1>7. CASE StopResolves \/ UNCHANGED vars
  BY <1>0, <1>7 DEF StopResolves, vars, toolVars, ThreadInv
<1> QED
  BY <1>1, <1>2, <1>3, <1>4, <1>5, <1>6, <1>7 DEF Next, Task, Stream, Over

\* What CutInv speaks of.
CutState == <<turn, cut, floor, sentCut>>

\* Only planning a round moves it (the top of run_turn_until's loop).
LEMMA OnlyPlanningCuts ==
  ASSUME LoopInv, [Next]_vars, ~PlanRound
  PROVE  /\ UNCHANGED CutState
         /\ pc # "streaming" => measured' = measured
         /\ pc \in {"plan", "done"} => pc' \in {"plan", "done"}
<1> USE DEF CutState, compactionVars
<1>1. CASE OutOfRounds \/ RoundAnswered \/ Interrupt
  BY <1>1 DEF OutOfRounds, RoundAnswered, Interrupt, Return
<1>2. CASE ToolPanicked \/ \E error \in Errors : StreamFails(error)
  BY <1>2 DEF ToolPanicked, Waiting, StreamFails, Fail
<1>3. CASE BeginAnswers \/ RefuseUnoffered \/ Deny \/ Abort \/ Allow \/ Collect
  BY <1>3 DEF BeginAnswers, RefuseUnoffered, Deny, Abort, Refuse, Allow, Collect, Waiting
<1>4. CASE Park \/ OpenStream \/ StreamText \/ StreamBlock \/ StreamUsage
  BY <1>4 DEF Park, OpenStream, StreamText, StreamBlock, StreamUsage
<1>5. CASE StreamStop
  BY <1>5 DEF StreamStop
<1>6. CASE ToolEnds \/ StopResolves \/ UNCHANGED vars
  BY <1>6 DEF ToolEnds, StopResolves, vars
<1> QED
  BY <1>1, <1>2, <1>3, <1>4, <1>5, <1>6 DEF Next, Task, Stream, Over

\* Every step keeps the cut, the floor and the last request's cut in step.
LEMMA CutStep == LoopInv /\ [Next]_vars => CutInv'
<1> SUFFICES ASSUME LoopInv, [Next]_vars PROVE CutInv'
  OBVIOUS
<1>0. CutInv /\ TypeOK /\ CompactionTyped
  BY DEF LoopInv, TypeOK
<1>1. CASE PlanRound
  <2>1. turn' = turn /\ sentCut' = cut'
    BY <1>1 DEF PlanRound
  <2>2. CASE Planning
    <3>1. cut' = PlannedCut /\ floor' = cut'
      BY <1>1, <2>2 DEF PlanRound
    <3>2. /\ cut' = cut \/ OpensARequest(turn.history, cut')
          /\ OpensARequest(turn.history, turn.withheld) => cut' >= turn.withheld
      BY <1>0, <2>2, <3>1, PlannedCutProperties
    <3>3. cut' \in Nat
      BY <1>0, <2>2, <3>1, PlannedCutProperties
    <3>4. turn.policy # None
      BY <2>2 DEF Planning
    <3> QED
      BY <1>0, <2>1, <3>1, <3>2, <3>3, <3>4, NoneAssumption DEF CutInv
  <2>3. CASE ~Planning
    <3>1. cut' = cut /\ floor' = floor
      BY <1>1, <2>3 DEF PlanRound
    <3>2. cut \in Nat
      BY <1>0 DEF CompactionTyped
    <3>3. turn.policy # None => sentCut # None
      BY <1>0, <2>3 DEF Planning, CutInv
    <3> QED
      BY <1>0, <2>1, <3>1, <3>2, <3>3, NoneAssumption DEF CutInv
  <2> QED
    BY <2>2, <2>3
<1>2. CASE ~PlanRound
  <2>1. /\ UNCHANGED CutState
        /\ pc # "streaming" => measured' = measured
        /\ pc \in {"plan", "done"} => pc' \in {"plan", "done"}
    BY <1>2, OnlyPlanningCuts
  <2>2. sentCut = None => pc' \in {"plan", "done"} /\ pc # "streaming" /\ measured
    BY <1>0, <2>1 DEF CutInv
  <2>3. sentCut = None => measured'
    BY <2>1, <2>2
  <2> QED
    BY <1>0, <2>1, <2>2, <2>3 DEF CutInv, CutState
<1> QED
  BY <1>1, <1>2

\* The invariant holds of every state the loop reaches.
THEOREM LoopInvariant == Spec => []LoopInv
<1>1. Init => LoopInv
  BY InitInv
<1>2. LoopInv /\ [Next]_vars => LoopInv'
  BY TypeStep, RoundStep, ThreadStep, CutStep DEF LoopInv
<1> QED
  BY <1>1, <1>2, PTL DEF Spec

-----------------------------------------------------------------------------
(* What it buys. *)

\* Type correctness of the loop.
THEOREM TypeCorrect == Spec => []TypeOK
<1>1. LoopInv => TypeOK
  BY DEF LoopInv
<1> QED
  BY <1>1, LoopInvariant, PTL

\* A legal carried floor is held by every request (Turn::withheld).
THEOREM FloorIsHeld == Spec => []FloorHeld
<1>1. LoopInv => FloorHeld
  BY DEF LoopInv, CutInv, FloorHeld
<1> QED
  BY <1>1, LoopInvariant, PTL

\* The cut never reverses, moves only onto a legal cut, and spends the
\* measurement it moves on (TurnLimits::compaction).
THEOREM CutDeepensOnly == Spec => CutOnlyDeepens
<1> DEFINE Deepens == cut' # cut => /\ cut' > cut /\ OpensARequest(turn.history, cut')
                                    /\ measured /\ ~measured'
<1>1. LoopInv /\ [Next]_vars => Deepens
  <2> SUFFICES ASSUME LoopInv, [Next]_vars, cut' # cut
               PROVE  /\ cut' > cut /\ OpensARequest(turn.history, cut')
                      /\ measured /\ ~measured'
    OBVIOUS
  <2>1. PlanRound
    BY OnlyPlanningCuts DEF CutState
  <2>2. Planning
    BY <2>1 DEF PlanRound
  <2>3. cut' = PlannedCut /\ ~measured' /\ measured
    BY <2>1, <2>2 DEF PlanRound, Planning
  <2>4. PlannedCut \in Nat /\ PlannedCut >= cut /\ OpensARequest(turn.history, PlannedCut)
    BY <2>2, <2>3, PlannedCutProperties DEF LoopInv
  <2>5. cut \in Nat
    BY DEF LoopInv, TypeOK, CompactionTyped
  <2> QED
    BY <2>3, <2>4, <2>5
<1>2. LoopInv /\ [Next]_vars => [Deepens]_vars
  BY <1>1
<1> QED
  BY <1>2, LoopInvariant, PTL DEF Spec, CutOnlyDeepens

\* A stop that has resolved opens no further request, starts no tool but in the poll
\* under way, and ends a wait for a tool as interrupted (run_turn_until's `unless`).
THEOREM NothingAfterStop == Spec => AfterStop
<1> DEFINE Kept == /\ ~(pc # "streaming" /\ pc' = "streaming")
                   /\ pc \notin Deciding => pc' \notin Deciding /\ thread'.id = thread.id
                   /\ pc = "tool" /\ pc' # "tool" => result'.stop = "interrupted"
<1>1. LoopInv /\ [Next]_vars => (stopped => Kept)
  <2> SUFFICES ASSUME LoopInv, [Next]_vars, stopped PROVE Kept
    OBVIOUS
  <2>1. CASE Allow
    BY <2>1 DEF Allow, Deciding
  <2>2. CASE ToolEnds
    BY <2>2 DEF ToolEnds, LoopInv, TypeOK, ToolTyped
  <2>3. CASE PlanRound \/ OutOfRounds \/ RoundAnswered
    BY <2>3 DEF PlanRound, OutOfRounds, RoundAnswered, Return, toolVars, Deciding
  <2>4. CASE Interrupt
    BY <2>4 DEF Interrupt, Return, Outcome, toolVars, Deciding
  <2>5. CASE ToolPanicked \/ \E error \in Errors : StreamFails(error)
    BY <2>5 DEF ToolPanicked, Waiting, StreamFails, Fail, toolVars, Deciding
  <2>6. CASE BeginAnswers \/ RefuseUnoffered \/ Deny \/ Abort \/ Park \/ Collect
    BY <2>6 DEF BeginAnswers, RefuseUnoffered, Deny, Abort, Refuse, Park, Collect, Waiting,
                toolVars, Deciding
  <2>7. CASE OpenStream \/ StreamText \/ StreamBlock \/ StreamUsage \/ StreamStop
    BY <2>7 DEF OpenStream, StreamText, StreamBlock, StreamUsage, StreamStop
  <2>8. CASE StopResolves \/ UNCHANGED vars
    BY <2>8 DEF StopResolves, vars, toolVars, Deciding
  <2> QED
    BY <2>1, <2>2, <2>3, <2>4, <2>5, <2>6, <2>7, <2>8 DEF Next, Task, Stream, Over
<1>2. LoopInv /\ [Next]_vars => [stopped => Kept]_vars
  BY <1>1
<1> QED
  BY <1>2, LoopInvariant, PTL DEF Spec, AfterStop

-----------------------------------------------------------------------------
(* The figures a turn hands back. *)

\* Whether a usage is that of the last finished request that reported one.
LastReported(used) ==
  LET reporting == {i \in DOMAIN finished : finished[i].usage # None}
  IN  IF reporting = {} THEN used = None
      ELSE \E i \in reporting : used = finished[i].usage /\ \A j \in reporting : j <= i

\* The running figures describe the last finished request, which is the round's own from
\* its stop on to the next plan.
FigureInv ==
  /\ result # None <=> pc = "done"
  /\ streamedCut = IF finished = <<>> THEN turn.withheld ELSE LastFinished.cut
  /\ LastReported(usage)
  /\ pc \in {"answering", "gate", "spawned", "tool"} => finished # <<>>
  /\ pc \notin {"request", "streaming", "done"} /\ finished # <<>> => cut = streamedCut
  /\ FiguresMatch

FigureState == <<turn, pc, cut, streamedCut, usage, finished, result>>

\* A turn that ends hands back what is at hand.
LEMMA ReturnFigures ==
  ASSUME LoopInv, FigureInv, [Next]_vars, NEW withheld \in Nat, NEW why \in Reasons \cup {None},
         NEW stop \in Stops,
         finished # <<>> => withheld = LastFinished.cut,
         finished = <<>> /\ stop = "interrupted" => withheld = turn.withheld,
         Return(produced', usage, withheld, stop, why),
         UNCHANGED <<turn, streamedCut, usage, finished>>
  PROVE  FigureInv'
<1>1. /\ pc' = "done" /\ result'.usage = usage /\ result'.withheld = withheld
      /\ result'.stop = stop
  BY DEF Return, Outcome
<1>2. result' # None
  <2>1. produced' \in Seq(Messages) /\ usage \in Usages \cup {None}
    BY TypeStep DEF LoopInv, TypeOK, TurnTyped, CompactionTyped
  <2> QED
    BY <2>1, OutcomeType DEF Return
<1>3. FiguresMatch'
  BY <1>1 DEF FigureInv, FiguresMatch, LastReported, LastFinished
<1> QED
  BY <1>1, <1>2, <1>3 DEF FigureInv, LastReported, LastFinished

\* A turn that fails hands back nothing.
LEMMA FailFigures ==
  ASSUME FigureInv, NEW error \in Errors, Fail(error),
         UNCHANGED <<turn, streamedCut, usage, finished>>
  PROVE  FigureInv'
<1>1. pc' = "done" /\ result' # None /\ ~Returned'
  BY FailureType DEF Fail, Returned
<1> QED
  BY <1>1 DEF FigureInv, FiguresMatch, LastReported, LastFinished

\* The stop of a stream brings the figures up to date.
LEMMA StopFigures ==
  ASSUME LoopInv, FigureInv, StreamStop
  PROVE  /\ finished' # <<>> /\ LastFinished'.cut = cut /\ LastReported(usage)'
         /\ streamedCut' = cut /\ cut' = cut /\ turn' = turn
<1> DEFINE one == [cut |-> cut, usage |-> roundUsage]
           T == [cut : Nat, usage : Usages \cup {None}]
<1>1. finished \in Seq(T) /\ one \in T
  BY DEF LoopInv, TypeOK, StreamTyped, CompactionTyped
<1>2. finished' = Append(finished, one) /\ streamedCut' = cut /\ cut' = cut /\ turn' = turn
      /\ usage' = IF roundUsage = None THEN usage ELSE roundUsage
  BY DEF StreamStop, Fresher
<1>3. /\ DOMAIN finished' = 1 .. Len(finished) + 1 /\ Len(finished') = Len(finished) + 1
      /\ DOMAIN finished = 1 .. Len(finished) /\ Len(finished) \in Nat
      /\ \A i \in DOMAIN finished : finished'[i] = finished[i]
      /\ finished'[Len(finished) + 1] = one
  <2> HIDE DEF one, T
  <2> QED
    BY <1>1, <1>2
<1>4. finished' # <<>>
  <2>1. Len(finished') # 0
    BY <1>3
  <2> QED
    BY <2>1
<1>5. LastReported(usage)'
  <2>1. CASE roundUsage = None
    BY <1>2, <1>3, <2>1 DEF FigureInv, LastReported
  <2>2. CASE roundUsage # None
    BY <1>2, <1>3, <2>2 DEF LastReported
  <2> QED
    BY <2>1, <2>2
<1> QED
  BY <1>2, <1>3, <1>4, <1>5 DEF LastFinished

\* Every step keeps the figures right.
LEMMA FigureStep == LoopInv /\ FigureInv /\ [Next]_vars => FigureInv'
<1> SUFFICES ASSUME LoopInv, FigureInv, [Next]_vars PROVE FigureInv'
  OBVIOUS
<1>0. /\ cut \in Nat /\ streamedCut \in Nat /\ lastStop \in Reasons \cup {None}
  BY DEF LoopInv, TypeOK, CompactionTyped, StreamTyped
<1>1. CASE OutOfRounds
  <2>1. finished # <<>> => cut = LastFinished.cut
    BY <1>1 DEF OutOfRounds, FigureInv
  <2>2. /\ produced' = produced /\ Return(produced, usage, cut, "round_limit", lastStop)
        /\ UNCHANGED <<turn, streamedCut, usage, finished>>
    BY <1>1 DEF OutOfRounds, compactionVars, streamVars
  <2>3. Return(produced', usage, cut, "round_limit", lastStop)
    BY <2>2
  <2> QED
    BY <1>0, <2>1, <2>2, <2>3, ReturnFigures DEF Stops
<1>2. CASE Interrupt
  <2>1. /\ produced' = produced /\ Return(produced, usage, streamedCut, "interrupted", lastStop)
        /\ UNCHANGED <<turn, streamedCut, usage, finished>>
    BY <1>2 DEF Interrupt, compactionVars, streamVars
  <2>2. Return(produced', usage, streamedCut, "interrupted", lastStop)
    BY <2>1
  <2>3. IF finished = <<>> THEN streamedCut = turn.withheld ELSE streamedCut = LastFinished.cut
    BY DEF FigureInv
  <2> QED
    BY <1>0, <2>1, <2>2, <2>3, ReturnFigures DEF Stops
<1>3. CASE RoundAnswered
  <2>1. /\ UNCHANGED <<turn, cut, streamedCut, usage, finished>> /\ pc = "gate"
        /\ produced' = Whole
    BY <1>3 DEF RoundAnswered, compactionVars, streamVars
  <2>2. finished # <<>> /\ cut = LastFinished.cut
    BY <2>1 DEF FigureInv
  <2>3. CASE pc' = "plan" /\ UNCHANGED result
    BY <2>1, <2>2, <2>3 DEF FigureInv, FiguresMatch, LastReported, LastFinished, Returned
  <2>4. CASE \E stop \in {"gate_aborted", "answered"} : Return(Whole, usage, cut, stop, lastStop)
    <3>1. PICK stop \in {"gate_aborted", "answered"} : Return(produced', usage, cut, stop, lastStop)
      BY <2>1, <2>4
    <3>2. stop \in Stops
      BY DEF Stops
    <3> QED
      BY <1>0, <2>1, <2>2, <3>1, <3>2, ReturnFigures
  <2> QED
    BY <1>3, <2>3, <2>4 DEF RoundAnswered
<1>4. CASE ToolPanicked \/ \E error \in Errors : StreamFails(error)
  <2>1. PICK error \in Errors : Fail(error)
    BY <1>4 DEF ToolPanicked, StreamFails, Errors
  <2>2. UNCHANGED <<turn, streamedCut, usage, finished>>
    BY <1>4 DEF ToolPanicked, StreamFails, compactionVars, streamVars
  <2> QED
    BY <2>1, <2>2, FailFigures
<1>5. CASE StreamStop
  <2>1. /\ finished' # <<>> /\ LastFinished'.cut = cut /\ LastReported(usage)'
        /\ streamedCut' = cut /\ cut' = cut /\ turn' = turn
    BY <1>5, StopFigures
  <2>2. CASE Return(produced, usage', cut, "answered", lastStop')
    <3>1. /\ pc' = "done" /\ result'.usage = usage' /\ result'.withheld = cut
          /\ result'.stop = "answered"
      BY <2>2 DEF Return, Outcome
    <3>2. result' # None
      <4>1. /\ produced \in Seq(Messages) /\ usage' \in Usages \cup {None}
            /\ lastStop' \in Reasons \cup {None}
        BY TypeStep DEF LoopInv, TypeOK, TurnTyped, CompactionTyped, StreamTyped
      <4> QED
        BY <1>0, <2>2, <4>1, OutcomeType DEF Return, Stops
    <3> QED
      BY <2>1, <3>1, <3>2 DEF FigureInv, FiguresMatch, LastReported, LastFinished
  <2>3. CASE Fail("ended_mid_tool_use")
    <3>1. pc' = "done" /\ result' # None /\ ~Returned'
      BY <2>3, FailureType DEF Fail, Returned, Errors
    <3> QED
      BY <2>1, <3>1 DEF FigureInv, FiguresMatch
  <2>4. CASE pc' = "answering" /\ UNCHANGED result
    <3>1. result' = None
      BY <1>5, <2>4 DEF StreamStop, FigureInv
    <3> QED
      BY <2>1, <2>4, <3>1 DEF FigureInv, FiguresMatch, Returned
  <2> QED
    BY <1>5, <2>2, <2>3, <2>4 DEF StreamStop
<1>6. CASE PlanRound \/ BeginAnswers \/ RefuseUnoffered \/ Deny \/ Abort \/ Allow \/ Park \/ Collect
             \/ OpenStream \/ StreamText \/ StreamBlock \/ StreamUsage
  <2>1. /\ UNCHANGED <<turn, streamedCut, usage, finished, result>> /\ pc # "done" /\ pc' # "done"
        /\ \/ pc' \in {"request", "streaming"}
           \/ cut' = cut /\ pc \in {"answering", "gate", "spawned", "tool"}
    BY <1>6 DEF PlanRound, BeginAnswers, RefuseUnoffered, Deny, Abort, Refuse, Allow, Park, Collect,
                Waiting, OpenStream, StreamText, StreamBlock, StreamUsage, compactionVars,
                streamVars
  <2> QED
    BY <2>1 DEF FigureInv, FiguresMatch, LastReported, LastFinished, Returned
<1>7. CASE ToolEnds \/ StopResolves \/ UNCHANGED vars
  <2>1. UNCHANGED FigureState
    BY <1>7 DEF ToolEnds, StopResolves, vars, compactionVars, streamVars, FigureState
  <2> QED
    BY <2>1 DEF FigureState, FigureInv, FiguresMatch, LastReported, LastFinished, Returned
<1> QED
  BY <1>1, <1>2, <1>3, <1>4, <1>5, <1>6, <1>7 DEF Next, Task, Stream, Over

\* The figures a turn hands back describe requests it really finished.
THEOREM FiguresDescribeRequests == Spec => []FiguresMatch
<1>1. Init => FigureInv
  BY DEF Init, FigureInv, FiguresMatch, LastReported, LastFinished, Returned
<1>2. FigureInv => FiguresMatch
  BY DEF FigureInv
<1> QED
  BY <1>1, <1>2, FigureStep, LoopInvariant, PTL DEF Spec

-----------------------------------------------------------------------------
(* The rounds of a turn. *)

Called(messages) == UNION {CallsOf(messages[i]) : i \in DOMAIN messages}

\* A transcript of whole rounds: a message that asks, and a message that answers all it
\* asked and nothing else; each with something in it besides reasoning.
Rounds(messages) ==
  /\ messages # <<>> => messages[1].role = "assistant" /\ EndsOnUser(messages)
  /\ \A i \in DOMAIN messages :
       /\ SomeBlock(messages[i], NotThinking)
       /\ messages[i].role = "assistant" =>
            /\ AllBlocks(messages[i], NotResult) /\ CallsOf(messages[i]) # {}
            /\ i + 1 \in DOMAIN messages /\ messages[i + 1].role = "user"
            /\ AnswersIn(messages[i + 1]) = CallsOf(messages[i])
       /\ messages[i].role = "user" =>
            /\ AnswersOnly(messages[i])
            /\ i + 1 \in DOMAIN messages => messages[i + 1].role = "assistant"

\* A turn still under way has produced whole rounds only, as many as it counted; the
\* round in flight holds no answers and, once streamed, more than reasoning.
ProducedInv ==
  /\ pc # "done" => Rounds(produced) /\ Len(produced) = 2 * round
  /\ AllBlocks(Assistant(blocks), NotResult)
  /\ pc \in {"answering", "gate", "spawned", "tool"} => ~OnlyThinking

\* The answers so far are those of the first calls, in their order; the thread at work is
\* the next one's; and none tells of a success that did not happen.
AnswerInv ==
  /\ pc \in {"gate", "spawned", "tool"} =>
       /\ Len(results) <= Len(Calls)
       /\ \A i \in DOMAIN results : /\ IsResult(results[i]) /\ results[i].id = Calls[i].id
                                    /\ ~results[i].error => results[i].id \in applied
  /\ pc \in {"spawned", "tool"} => /\ Undecided /\ thread.id = Call.id /\ thread.state # "idle"
  /\ pc \notin {"spawned", "tool", "done"} => thread.state # "running"
  /\ thread.state = "running" => thread.id \in CallsOf(Assistant(blocks))
  /\ thread.state \in {"ran", "errored", "panicked"} => thread.id \in applied
  /\ aborted => pc \in {"gate", "done"} /\ (pc = "gate" => results # <<>>)

\* What ran is answered, up to the round in flight; what is answered was called; and no call
\* of the round in flight was called before.
EffectInv ==
  /\ pc \in {"plan", "request", "streaming", "answering"} => applied \subseteq Answered(produced)
  /\ Answered(produced) \subseteq Called(produced)
  /\ pc \notin {"plan", "done"} => CallsOf(Assistant(blocks)) \cap Called(produced) = {}
  /\ EffectsRecorded /\ AbortIsFinal

WorkInv == ProducedInv /\ AnswerInv /\ EffectInv

\* The calls a message tells the success of.
SucceededIn(message) == {block.id : block \in {b \in Of(message, IsResult) : ~b.error}}

\* What a transcript called, answered and reported, by its messages.
LEMMA IdsOfMessages ==
  ASSUME NEW messages
  PROVE  /\ Called(messages) = UNION {CallsOf(message) : message \in Elements(messages)}
         /\ Answered(messages) = UNION {AnswersIn(message) : message \in Elements(messages)}
         /\ Succeeded(messages) = UNION {SucceededIn(message) : message \in Elements(messages)}
<1>1. \A i \in DOMAIN messages :
        SucceededIn(messages[i])
          = {messages[i].content[j].id :
               j \in {k \in DOMAIN messages[i].content :
                        IsResult(messages[i].content[k]) /\ ~messages[i].content[k].error}}
  BY DEF SucceededIn, Of, Elements
<1>2. Succeeded(messages) = UNION {SucceededIn(messages[i]) : i \in DOMAIN messages}
  BY <1>1 DEF Succeeded
<1> QED
  BY <1>2 DEF Called, Answered, Elements

\* None of it is lost with the reasoning.
LEMMA IdsKept ==
  ASSUME NEW messages \in Seq(Messages)
  PROVE  /\ Called(DropThinking(messages)) = Called(messages)
         /\ Answered(DropThinking(messages)) = Answered(messages)
         /\ Succeeded(DropThinking(messages)) = Succeeded(messages)
<1> DEFINE less(message) == Retain(message, NotThinking)
           some == {m \in Elements(messages) : SomeBlock(m, NotThinking)}
<1>1. ASSUME NEW m \in Elements(messages)
      PROVE  /\ CallsOf(less(m)) = CallsOf(m) /\ AnswersIn(less(m)) = AnswersIn(m)
             /\ SucceededIn(less(m)) = SucceededIn(m)
             /\ m \notin some => CallsOf(m) = {} /\ AnswersIn(m) = {} /\ SucceededIn(m) = {}
  <2>1. m \in Messages
    BY DEF Elements
  <2>2. ASSUME m \notin some PROVE CallsOf(m) = {} /\ AnswersIn(m) = {} /\ SucceededIn(m) = {}
    <3>1. \A i \in DOMAIN m.content : ~IsUse(m.content[i]) /\ ~IsResult(m.content[i])
      BY <2>2 DEF SomeBlock, NotThinking, IsThinking, IsUse, IsResult
    <3> QED
      BY <3>1 DEF CallsOf, AnswersIn, SucceededIn, Of, Elements
  <2>3. /\ CallsOf(less(m)) = CallsOf(m) /\ AnswersIn(less(m)) = AnswersIn(m)
        /\ Of(less(m), IsResult) = Of(m, IsResult)
    BY <2>1, RetainKeepsIds
  <2> QED
    BY <2>2, <2>3 DEF SucceededIn
<1>2. Elements(DropThinking(messages)) = {less(m) : m \in some}
  BY DropThinkingElements
<1> HIDE DEF less
<1>3. Called(DropThinking(messages)) = UNION {CallsOf(less(m)) : m \in some}
  BY <1>2, IdsOfMessages
<1>4. Answered(DropThinking(messages)) = UNION {AnswersIn(less(m)) : m \in some}
  BY <1>2, IdsOfMessages
<1>5. Succeeded(DropThinking(messages)) = UNION {SucceededIn(less(m)) : m \in some}
  BY <1>2, IdsOfMessages
<1>6. Called(messages) = UNION {CallsOf(less(m)) : m \in some}
  BY <1>1, IdsOfMessages
<1>7. Answered(messages) = UNION {AnswersIn(less(m)) : m \in some}
  BY <1>1, IdsOfMessages
<1>8. Succeeded(messages) = UNION {SucceededIn(less(m)) : m \in some}
  BY <1>1, IdsOfMessages
<1> QED
  BY <1>3, <1>4, <1>5, <1>6, <1>7, <1>8

\* One more message brings its own.
LEMMA IdsAppended ==
  ASSUME NEW messages \in Seq(Messages), NEW message \in Messages
  PROVE  /\ Called(Append(messages, message)) = Called(messages) \cup CallsOf(message)
         /\ Answered(Append(messages, message)) = Answered(messages) \cup AnswersIn(message)
         /\ Succeeded(Append(messages, message)) = Succeeded(messages) \cup SucceededIn(message)
<1>1. Elements(Append(messages, message)) = Elements(messages) \cup {message}
  BY AppendElements
<1> QED
  BY <1>1, IdsOfMessages

\* The calls of a round, by the sequence they are decided in.
LEMMA CallsElements ==
  ASSUME blocks \in Seq(Blocks)
  PROVE  /\ {Calls[i].id : i \in DOMAIN Calls} = CallsOf(Assistant(blocks))
         /\ Calls \in Seq(Blocks)
<1> DEFINE uses == {i \in DOMAIN blocks : IsUse(blocks[i])}
<1>1. /\ Calls \in Seq(Blocks)
      /\ Elements(Calls) = {blocks[i] : i \in DOMAIN blocks \cap uses}
  <2>1. Calls = Picked(blocks, uses)
    BY DEF Calls
  <2> HIDE DEF uses
  <2> QED
    BY <2>1, PickedElements
<1>2. {blocks[i] : i \in DOMAIN blocks \cap uses} = Of(Assistant(blocks), IsUse)
  BY DEF Of, Assistant, Elements
<1>3. {block.id : block \in Elements(Calls)} = {Calls[i].id : i \in DOMAIN Calls}
  BY DEF Elements
<1> QED
  BY <1>1, <1>2, <1>3, IdsOfElements

\* A message of answers holds something besides reasoning, and is none the shorter without it.
LEMMA AnswersKept ==
  ASSUME NEW message \in Messages, AnswersOnly(message)
  PROVE  /\ Retain(message, NotThinking) = message /\ SomeBlock(message, NotThinking)
         /\ CallsOf(message) = {} /\ AllBlocks(message, NotThinking)
<1>1. AllBlocks(message, NotThinking) /\ CallsOf(message) = {}
  BY DEF AnswersOnly, AllBlocks, NotThinking, IsThinking, IsResult, CallsOf, IsUse
<1>2. SomeBlock(message, NotThinking)
  <2>1. message.content \in Seq(Blocks) /\ message.content # <<>>
    BY DEF AnswersOnly, HasContent, Messages
  <2>2. 1 \in DOMAIN message.content
    BY <2>1
  <2> QED
    BY <1>1, <2>2 DEF SomeBlock, AllBlocks
<1> QED
  BY <1>1, <1>2, RetainElements

\* Whole rounds stay whole without their reasoning, each message in its place.
LEMMA RoundsKept ==
  ASSUME NEW messages \in Seq(Messages), Rounds(messages)
  PROVE  /\ Rounds(DropThinking(messages)) /\ Len(DropThinking(messages)) = Len(messages)
         /\ DropThinking(messages) = [i \in DOMAIN messages |-> Retain(messages[i], NotThinking)]
<1> DEFINE less == DropThinking(messages)
<1>1. less = [i \in DOMAIN messages |-> Retain(messages[i], NotThinking)]
  BY DropThinkingElements DEF Rounds
<1>2. less \in Seq(Messages)
  BY DropThinkingType
<1> HIDE DEF less
<1>3. ASSUME NEW i \in DOMAIN messages
      PROVE  /\ messages[i] \in Messages /\ less[i].role = messages[i].role
             /\ AllBlocks(less[i], NotThinking) /\ HasContent(less[i])
             /\ CallsOf(less[i]) = CallsOf(messages[i])
             /\ AnswersIn(less[i]) = AnswersIn(messages[i])
             /\ AnswersOnly(messages[i]) => less[i] = messages[i]
             /\ AllBlocks(messages[i], NotResult) => AllBlocks(less[i], NotResult)
             /\ SomeBlock(less[i], NotThinking)
  <2>1. messages[i] \in Messages /\ less[i] = Retain(messages[i], NotThinking)
    BY <1>1
  <2>2. /\ less[i] \in Messages /\ less[i].role = messages[i].role
        /\ AllBlocks(less[i], NotThinking)
    BY <2>1, RetainReasonless
  <2>3. /\ CallsOf(less[i]) = CallsOf(messages[i]) /\ AnswersIn(less[i]) = AnswersIn(messages[i])
        /\ Of(less[i], IsResult) = Of(messages[i], IsResult) /\ HasContent(less[i])
    BY <2>1, RetainKeepsIds DEF Rounds
  <2>4. AllBlocks(messages[i], NotResult) => AllBlocks(less[i], NotResult)
    BY <2>3 DEF AllBlocks, NotResult, Of, Elements
  <2>5. SomeBlock(less[i], NotThinking)
    <3>1. less[i].content \in Seq(Blocks) /\ less[i].content # <<>>
      BY <2>2, <2>3 DEF HasContent, Messages
    <3>2. 1 \in DOMAIN less[i].content
      BY <3>1
    <3> QED
      BY <2>2, <3>2 DEF AllBlocks, SomeBlock
  <2> QED
    BY <2>1, <2>2, <2>3, <2>4, <2>5, AnswersKept
<1>4. DOMAIN less = DOMAIN messages /\ Len(less) = Len(messages) /\ Len(messages) \in Nat
  BY <1>1, <1>2
<1>5. messages # <<>> <=> less # <<>>
  BY <1>2, <1>4
<1>6. messages # <<>> => 1 \in DOMAIN messages /\ Len(messages) \in DOMAIN messages
  OBVIOUS
<1>7. Rounds(less)
  BY <1>3, <1>4, <1>5, <1>6 DEF Rounds, EndsOnUser
<1> QED
  BY <1>1, <1>4, <1>7 DEF less

\* A round pushed whole behind whole rounds.
LEMMA RoundsAppended ==
  ASSUME NEW messages \in Seq(Messages), Rounds(messages),
         NEW asked \in Messages, NEW answer \in Messages,
         asked.role = "assistant", SomeBlock(asked, NotThinking), AllBlocks(asked, NotResult),
         CallsOf(asked) # {},
         answer.role = "user", AnswersOnly(answer), AnswersIn(answer) = CallsOf(asked)
  PROVE  /\ Rounds(Append(Append(messages, asked), answer))
         /\ Len(Append(Append(messages, asked), answer)) = Len(messages) + 2
<1> DEFINE longer == Append(Append(messages, asked), answer)
<1>1. /\ longer \in Seq(Messages) /\ Len(longer) = Len(messages) + 2 /\ Len(messages) \in Nat
      /\ DOMAIN longer = DOMAIN messages \cup {Len(messages) + 1, Len(messages) + 2}
      /\ DOMAIN messages = 1 .. Len(messages)
      /\ \A i \in DOMAIN messages : longer[i] = messages[i]
      /\ longer[Len(messages) + 1] = asked /\ longer[Len(messages) + 2] = answer
  OBVIOUS
<1> HIDE DEF longer
<1>2. longer[1].role = "assistant" /\ EndsOnUser(longer)
  <2>1. CASE messages = <<>>
    BY <1>1, <2>1 DEF EndsOnUser
  <2>2. CASE messages # <<>>
    <3>1. 1 \in DOMAIN messages
      BY <2>2
    <3> QED
      BY <1>1, <2>2, <3>1 DEF Rounds, EndsOnUser
  <2> QED
    BY <2>1, <2>2
<1>3. SomeBlock(answer, NotThinking)
  BY AnswersKept
<1>4. ASSUME NEW i \in DOMAIN longer
      PROVE  /\ SomeBlock(longer[i], NotThinking)
             /\ longer[i].role = "assistant" =>
                  /\ AllBlocks(longer[i], NotResult) /\ CallsOf(longer[i]) # {}
                  /\ i + 1 \in DOMAIN longer /\ longer[i + 1].role = "user"
                  /\ AnswersIn(longer[i + 1]) = CallsOf(longer[i])
             /\ longer[i].role = "user" =>
                  /\ AnswersOnly(longer[i])
                  /\ i + 1 \in DOMAIN longer => longer[i + 1].role = "assistant"
  <2>1. CASE i \in DOMAIN messages
    <3>1. longer[i] = messages[i] /\ i \in 1 .. Len(messages)
      BY <1>1, <2>1
    <3>2. i + 1 \in DOMAIN messages => longer[i + 1] = messages[i + 1]
      BY <1>1
    <3>3. i + 1 \notin DOMAIN messages => i = Len(messages) /\ longer[i + 1] = asked
      BY <1>1, <3>1
    <3>4. i + 1 \notin DOMAIN messages => messages[i].role = "user"
      BY <3>3, <2>1 DEF Rounds, EndsOnUser
    <3> QED
      BY <1>1, <2>1, <3>1, <3>2, <3>3, <3>4 DEF Rounds
  <2>2. CASE i = Len(messages) + 1
    <3>1. i + 1 = Len(messages) + 2
      BY <1>1, <2>2
    <3> QED
      BY <1>1, <2>2, <3>1
  <2>3. CASE i = Len(messages) + 2
    <3>1. i + 1 \notin DOMAIN longer
      BY <1>1, <2>3
    <3> QED
      BY <1>1, <1>3, <2>3, <3>1
  <2> QED
    BY <1>1, <2>1, <2>2, <2>3
<1>5. Rounds(longer)
  BY <1>2, <1>4 DEF Rounds
<1> QED
  BY <1>1, <1>5 DEF longer

\* What the last call's answer completes: a round answered to the last call.
LEMMA WholeFacts ==
  ASSUME LoopInv, WorkInv, pc = "gate", ~Undecided
  PROVE  /\ Len(results) = Len(Calls)
         /\ {results[i].id : i \in DOMAIN results} = CallsOf(Assistant(blocks))
         /\ AnswersIn(User(results)) = CallsOf(Assistant(blocks))
         /\ Assistant(blocks) \in Messages /\ User(results) \in Messages
         /\ SomeBlock(Assistant(blocks), NotThinking)
         /\ results # <<>> => AnswersOnly(User(results)) /\ CallsOf(Assistant(blocks)) # {}
         /\ results = <<>> => CallsOf(Assistant(blocks)) = {}
<1> DEFINE asked == Assistant(blocks)
           answer == User(results)
<1>1. blocks \in Seq(Blocks) /\ results \in Seq(Blocks) /\ applied \subseteq CallIds
  BY DEF LoopInv, TypeOK, StreamTyped, GateTyped, ToolTyped
<1>2. asked \in Messages /\ answer \in Messages
  BY <1>1 DEF Assistant, User, Messages, Roles
<1>3. {Calls[i].id : i \in DOMAIN Calls} = CallsOf(asked) /\ Calls \in Seq(Blocks)
  BY <1>1, CallsElements
<1>4. /\ Len(results) <= Len(Calls)
      /\ \A i \in DOMAIN results : IsResult(results[i]) /\ results[i].id = Calls[i].id
  BY DEF WorkInv, AnswerInv
<1>5. Len(results) \in Nat /\ Len(Calls) \in Nat
  BY <1>1, <1>3
<1>6. Len(results) = Len(Calls)
  BY <1>4, <1>5 DEF Undecided
<1>7. DOMAIN results = 1 .. Len(results) /\ DOMAIN Calls = 1 .. Len(Calls)
  BY <1>1, <1>3
<1>8. {results[i].id : i \in DOMAIN results} = CallsOf(asked)
  <2>1. DOMAIN results = DOMAIN Calls
    BY <1>6, <1>7
  <2> QED
    BY <1>3, <1>4, <2>1
<1>9. AnswersIn(answer) = CallsOf(asked)
  <2>1. AnswersIn(answer) = {results[i].id : i \in DOMAIN results}
    BY <1>4 DEF AnswersIn, User
  <2> QED
    BY <1>8, <2>1
<1>10. SomeBlock(asked, NotThinking)
  BY DEF WorkInv, ProducedInv, OnlyThinking
<1>11. results # <<>> => AnswersOnly(answer) /\ CallsOf(asked) # {}
  <2> SUFFICES ASSUME results # <<>> PROVE AnswersOnly(answer) /\ CallsOf(asked) # {}
    OBVIOUS
  <2>1. 1 \in DOMAIN results
    BY <1>1
  <2>2. AnswersOnly(answer)
    BY <1>4 DEF AnswersOnly, HasContent, AllBlocks, User
  <2> QED
    BY <1>8, <2>1, <2>2
<1>12. results = <<>> => CallsOf(asked) = {}
  <2>1. results = <<>> => DOMAIN results = {}
    OBVIOUS
  <2> QED
    BY <1>8, <2>1
<1> QED
  BY <1>2, <1>6, <1>8, <1>9, <1>10, <1>11, <1>12

\* What the transcript holds once such a round is pushed whole.
LEMMA WholeIds ==
  ASSUME LoopInv, WorkInv, pc = "gate", ~Undecided
  PROVE  /\ Whole \in Seq(Messages)
         /\ Answered(Whole) = Answered(produced) \cup CallsOf(Assistant(blocks))
         /\ Called(Whole) = Called(produced) \cup CallsOf(Assistant(blocks))
         /\ Succeeded(Whole) \subseteq Succeeded(produced) \cup applied
         /\ results # <<>> => Rounds(Whole) /\ Len(Whole) = Len(produced) + 2
<1> DEFINE asked == Assistant(blocks)
           answer == User(results)
<1>1. /\ produced \in Seq(Messages) /\ asked \in Messages /\ answer \in Messages
      /\ Rounds(produced)
  BY WholeFacts DEF LoopInv, TypeOK, TurnTyped, WorkInv, ProducedInv
<1>2. /\ AnswersIn(asked) = {} /\ SucceededIn(asked) = {}
      /\ AllBlocks(asked, NotResult)
  BY DEF WorkInv, ProducedInv, AllBlocks, NotResult, AnswersIn, SucceededIn, Of, Elements
<1>3. SucceededIn(answer) \subseteq applied
  BY DEF SucceededIn, Of, Elements, User, WorkInv, AnswerInv
<1>4. /\ asked.role = "assistant" /\ answer.role = "user"
  BY DEF Assistant, User
<1>5. /\ AnswersIn(answer) = CallsOf(asked) /\ SomeBlock(asked, NotThinking)
      /\ results # <<>> => AnswersOnly(answer) /\ CallsOf(asked) # {} /\ CallsOf(answer) = {}
      /\ results = <<>> => CallsOf(asked) = {}
  BY <1>1, WholeFacts, AnswersKept
<1>6. Whole = IF results = <<>> THEN Append(produced, asked)
              ELSE Append(Append(produced, asked), answer)
  BY DEF Whole, PushedUnanswered
<1> HIDE DEF asked, answer
<1> DEFINE pushed == Append(produced, asked)
<1>7. /\ pushed \in Seq(Messages)
      /\ Called(pushed) = Called(produced) \cup CallsOf(asked)
      /\ Answered(pushed) = Answered(produced)
      /\ Succeeded(pushed) = Succeeded(produced)
  <2>1. /\ Called(pushed) = Called(produced) \cup CallsOf(asked)
        /\ Answered(pushed) = Answered(produced) \cup AnswersIn(asked)
        /\ Succeeded(pushed) = Succeeded(produced) \cup SucceededIn(asked)
    BY <1>1, IdsAppended
  <2>2. pushed \in Seq(Messages)
    BY <1>1
  <2> QED
    BY <1>2, <2>1, <2>2
<1> HIDE DEF pushed
<1>8. CASE results = <<>>
  <2>1. Whole = pushed
    BY <1>6, <1>8 DEF pushed
  <2> QED
    BY <1>5, <1>7, <1>8, <2>1 DEF asked
<1>9. CASE results # <<>>
  <2>1. Whole = Append(pushed, answer)
    BY <1>6, <1>9 DEF pushed
  <2>2. /\ Whole \in Seq(Messages)
        /\ Called(Whole) = Called(pushed) \cup CallsOf(answer)
        /\ Answered(Whole) = Answered(pushed) \cup AnswersIn(answer)
        /\ Succeeded(Whole) = Succeeded(pushed) \cup SucceededIn(answer)
    BY <1>1, <1>7, <2>1, IdsAppended
  <2>3. Rounds(Whole) /\ Len(Whole) = Len(produced) + 2
    BY <1>1, <1>2, <1>4, <1>5, <1>9, <2>1, RoundsAppended DEF pushed
  <2> QED
    BY <1>3, <1>5, <1>7, <1>9, <2>2, <2>3 DEF asked
<1> QED
  BY <1>8, <1>9

\* Planning a round keeps every id and every round in its place.
LEMMA CarriedFacts ==
  ASSUME LoopInv, Rounds(produced), NEW newCut
  PROVE  /\ Rounds(Carried(newCut)) /\ Len(Carried(newCut)) = Len(produced)
         /\ Called(Carried(newCut)) = Called(produced)
         /\ Answered(Carried(newCut)) = Answered(produced)
         /\ Succeeded(Carried(newCut)) = Succeeded(produced)
<1>1. produced \in Seq(Messages)
  BY DEF LoopInv, TypeOK, TurnTyped
<1> QED
  BY <1>1, RoundsKept, IdsKept DEF Carried

\* Every step keeps the produced rounds whole.
LEMMA ProducedStep == LoopInv /\ WorkInv /\ [Next]_vars => ProducedInv'
<1> SUFFICES ASSUME LoopInv, WorkInv, [Next]_vars PROVE ProducedInv'
  OBVIOUS
<1>0. /\ ProducedInv /\ produced \in Seq(Messages) /\ blocks \in Seq(Blocks) /\ round \in Nat
  BY BoundsAssumption DEF WorkInv, LoopInv, TypeOK, TurnTyped, StreamTyped
<1>1. CASE PlanRound
  <2>1. /\ produced' = Carried(cut') /\ blocks' = <<>> /\ pc' = "request" /\ round' = round
        /\ pc = "plan"
    BY <1>1 DEF PlanRound
  <2>2. Rounds(produced) /\ Len(produced) = 2 * round
    BY <1>0, <2>1 DEF ProducedInv
  <2>3. Rounds(produced') /\ Len(produced') = Len(produced)
    BY <2>1, <2>2, CarriedFacts
  <2>4. AllBlocks(Assistant(blocks'), NotResult)
    BY <2>1 DEF AllBlocks, Assistant
  <2> QED
    BY <2>1, <2>2, <2>3, <2>4 DEF ProducedInv
<1>2. CASE RoundAnswered
  <2>1. /\ pc = "gate" /\ ~Undecided /\ produced' = Whole /\ round' = round + 1 /\ blocks' = blocks
        /\ pc' = "done" \/ (pc' = "plan" /\ results # <<>>)
    BY <1>2 DEF RoundAnswered, Return, TurnGoesOn, streamVars
  <2>2. results # <<>> => Rounds(Whole) /\ Len(Whole) = Len(produced) + 2
    BY <2>1, WholeIds
  <2> QED
    BY <1>0, <2>1, <2>2 DEF ProducedInv
<1>3. CASE StreamText \/ StreamBlock
  <2>1. PICK block \in Blocks : blocks' = Append(blocks, block) /\ NotResult(block)
    <3>1. TextBlock \in Blocks /\ \A against \in Nat : ThinkingBlock(against) \in Blocks
      BY DEF Blocks, TextBlock, ThinkingBlock
    <3>2. \A id \in CallIds, name \in ToolNames : UseBlock(id, name) \in Blocks
      BY DEF Blocks, UseBlock
    <3> QED
      BY <1>3, <3>1, <3>2 DEF StreamText, StreamBlock, NotResult, IsResult, TextBlock,
                              ThinkingBlock,
                              UseBlock, LoopInv, TypeOK, CompactionTyped
  <2>2. /\ DOMAIN blocks' = DOMAIN blocks \cup {Len(blocks) + 1}
        /\ \A i \in DOMAIN blocks : blocks'[i] = blocks[i]
        /\ blocks'[Len(blocks) + 1] = block
    BY <1>0, <2>1
  <2>3. AllBlocks(Assistant(blocks'), NotResult)
    BY <1>0, <2>1, <2>2 DEF ProducedInv, AllBlocks, Assistant
  <2>4. UNCHANGED <<pc, produced, round>> /\ pc = "streaming"
    BY <1>3 DEF StreamText, StreamBlock
  <2> QED
    BY <1>0, <2>3, <2>4 DEF ProducedInv
<1>4. CASE StreamStop
  <2>1. /\ UNCHANGED <<produced, round, blocks>> /\ pc = "streaming"
        /\ pc' = "done" \/ (pc' = "answering" /\ ~OnlyThinking)
    BY <1>4 DEF StreamStop, Fail, Return
  <2> QED
    BY <1>0, <2>1 DEF ProducedInv, OnlyThinking
<1>5. CASE OutOfRounds \/ Interrupt \/ ToolPanicked \/ \E error \in Errors : StreamFails(error)
  <2>1. pc' = "done" /\ blocks' = blocks
    BY <1>5 DEF OutOfRounds, Interrupt, ToolPanicked, StreamFails, Return, Fail, streamVars
  <2> QED
    BY <1>0, <2>1 DEF ProducedInv
<1>6. CASE BeginAnswers \/ RefuseUnoffered \/ Deny \/ Abort \/ Allow \/ Park \/ Collect
             \/ OpenStream \/ StreamUsage \/ ToolEnds \/ StopResolves \/ UNCHANGED vars
  <2>1. /\ UNCHANGED <<produced, round, blocks>>
        /\ pc' = "done" => pc = "done"
        /\ pc = "done" => pc' = "done"
        /\ pc' \in {"answering", "gate", "spawned", "tool"}
             => pc \in {"answering", "gate", "spawned", "tool"}
    BY <1>6 DEF BeginAnswers, RefuseUnoffered, Deny, Abort, Refuse, Allow, Park, Collect, Waiting,
                OpenStream, StreamUsage, ToolEnds, StopResolves, vars, streamVars
  <2> QED
    BY <1>0, <2>1 DEF ProducedInv, OnlyThinking
<1> QED
  BY <1>1, <1>2, <1>3, <1>4, <1>5, <1>6 DEF Next, Task, Stream, Over

\* The call being decided is one of the round's.
LEMMA CallInRound ==
  ASSUME LoopInv, Undecided
  PROVE  /\ Call.id \in CallsOf(Assistant(blocks)) /\ Call.id \in CallIds
         /\ Len(results) + 1 \in DOMAIN Calls
<1>1. blocks \in Seq(Blocks) /\ results \in Seq(Blocks)
  BY DEF LoopInv, TypeOK, StreamTyped, GateTyped
<1>2. Calls \in Seq(Blocks)
  BY <1>1, CallsElements
<1>3. Len(results) + 1 \in DOMAIN Calls
  <2>1. Len(results) \in Nat /\ Len(Calls) \in Nat /\ DOMAIN Calls = 1 .. Len(Calls)
    BY <1>1, <1>2
  <2> QED
    BY <2>1 DEF Undecided
<1> QED
  BY <1>1, <1>3, CallsElements, CallType DEF Call

\* One more answer, that of the call being decided.
LEMMA AnswerAppended ==
  ASSUME LoopInv, WorkInv, pc \in {"gate", "spawned", "tool"}, Undecided,
         NEW error \in BOOLEAN, ~error => Call.id \in applied,
         results' = Append(results, ResultBlock(Call.id, error)),
         UNCHANGED <<blocks, applied>>
  PROVE  /\ Len(results') <= Len(Calls') /\ results' # <<>>
         /\ \A i \in DOMAIN results' :
              /\ IsResult(results'[i]) /\ results'[i].id = Calls'[i].id
              /\ ~results'[i].error => results'[i].id \in applied'
<1> DEFINE answer == ResultBlock(Call.id, error)
<1>1. answer.id = Call.id /\ IsResult(answer) /\ answer.error = error /\ answer \in Blocks
  BY CallInRound DEF ResultBlock, IsResult, Blocks
<1>2. results \in Seq(Blocks) /\ Calls' = Calls /\ Call = Calls[Len(results) + 1]
  BY DEF LoopInv, TypeOK, GateTyped, Calls, Call
<1> HIDE DEF answer
<1>3. /\ DOMAIN results' = DOMAIN results \cup {Len(results) + 1}
      /\ \A i \in DOMAIN results : results'[i] = results[i]
      /\ results'[Len(results) + 1] = answer /\ Len(results') = Len(results) + 1
      /\ results' # <<>>
  BY <1>1, <1>2 DEF answer
<1>4. Len(results') <= Len(Calls)
  <2>1. Len(Calls) \in Nat /\ Len(results) \in Nat
    <3>1. Calls \in Seq(Blocks)
      BY CallsElements DEF LoopInv, TypeOK, StreamTyped
    <3> QED
      BY <1>2, <3>1
  <2> QED
    BY <1>3, <2>1 DEF Undecided
<1>5. ASSUME NEW i \in DOMAIN results'
      PROVE  /\ IsResult(results'[i]) /\ results'[i].id = Calls'[i].id
             /\ ~results'[i].error => results'[i].id \in applied'
  <2>1. CASE i \in DOMAIN results
    BY <1>2, <1>3, <2>1 DEF WorkInv, AnswerInv
  <2>2. CASE i = Len(results) + 1
    BY <1>1, <1>2, <1>3, <2>2
  <2> QED
    BY <1>3, <2>1, <2>2
<1> QED
  BY <1>2, <1>3, <1>4, <1>5

\* Every step keeps the answers in step with the calls and the thread.
LEMMA AnswerStep == LoopInv /\ WorkInv /\ [Next]_vars => AnswerInv'
<1> SUFFICES ASSUME LoopInv, WorkInv, [Next]_vars PROVE AnswerInv'
  OBVIOUS
<1>0. AnswerInv /\ thread \in [id : CallIds \cup {None}, state : ThreadStates]
  BY DEF WorkInv, LoopInv, TypeOK, ToolTyped
<1>1. CASE PlanRound \/ OutOfRounds \/ Interrupt \/ ToolPanicked \/ StreamStop
             \/ (\E error \in Errors : StreamFails(error))
  <2>1. /\ UNCHANGED <<gateVars, toolVars>> /\ pc # "gate"
        /\ \/ pc' \in {"request", "answering"} /\ pc \in {"plan", "streaming"}
           \/ pc' = "done" /\ blocks' = blocks
    BY <1>1 DEF PlanRound, OutOfRounds, Interrupt, ToolPanicked, Waiting, StreamStop, StreamFails,
                Return, Fail, streamVars
  <2> QED
    BY <1>0, <2>1 DEF AnswerInv, gateVars, toolVars
<1>2. CASE OpenStream \/ StreamText \/ StreamBlock \/ StreamUsage
  <2>1. UNCHANGED <<gateVars, toolVars>> /\ pc \in {"request", "streaming"} /\ pc' = "streaming"
    BY <1>2 DEF OpenStream, StreamText, StreamBlock, StreamUsage
  <2> QED
    BY <1>0, <2>1 DEF AnswerInv, gateVars, toolVars
<1>3. CASE BeginAnswers
  <2>1. /\ results' = <<>> /\ aborted' = FALSE /\ pc' = "gate" /\ pc = "answering"
        /\ UNCHANGED <<blocks, toolVars>>
    BY <1>3 DEF BeginAnswers, streamVars
  <2>2. 0 <= Len(Calls)
    <3>1. Calls \in Seq(Blocks)
      BY CallsElements DEF LoopInv, TypeOK, StreamTyped
    <3> QED
      BY <3>1
  <2>3. Calls' = Calls /\ Len(results') = 0 /\ DOMAIN results' = {}
    BY <2>1 DEF Calls
  <2> QED
    BY <1>0, <2>1, <2>2, <2>3 DEF AnswerInv, toolVars
<1>4. CASE RefuseUnoffered \/ Deny \/ Abort
  <2>1. /\ results' = Append(results, ResultBlock(Call.id, TRUE)) /\ Undecided
        /\ UNCHANGED <<pc, blocks, toolVars>> /\ pc = "gate"
    BY <1>4 DEF RefuseUnoffered, Deny, Abort, Refuse, streamVars
  <2>2. /\ Len(results') <= Len(Calls') /\ results' # <<>>
        /\ \A i \in DOMAIN results' :
             /\ IsResult(results'[i]) /\ results'[i].id = Calls'[i].id
             /\ ~results'[i].error => results'[i].id \in applied'
    BY <2>1, AnswerAppended DEF toolVars
  <2> QED
    BY <1>0, <2>1, <2>2 DEF AnswerInv, toolVars
<1>5. CASE Allow
  <2>1. /\ UNCHANGED <<blocks, gateVars, applied>> /\ pc = "gate" /\ Undecided /\ ~aborted
        /\ thread' = [id |-> Call.id, state |-> "running"] /\ pc' = "spawned"
    BY <1>5 DEF Allow, streamVars
  <2>2. UNCHANGED <<Calls, Call, Undecided>>
    BY <2>1 DEF gateVars, Calls, Call, Undecided
  <2>3. Call.id \in CallsOf(Assistant(blocks))
    BY <2>1, CallInRound
  <2> QED
    BY <1>0, <2>1, <2>2, <2>3 DEF AnswerInv, gateVars
<1>6. CASE ToolEnds
  <2>1. PICK end \in {"ran", "errored", "panicked"} : thread' = [thread EXCEPT !.state = end]
    BY <1>6 DEF ToolEnds
  <2>2. /\ thread'.id = thread.id /\ thread'.state = end
        /\ applied' = applied \cup {thread.id}
        /\ UNCHANGED <<pc, blocks, gateVars>>
    BY <1>0, <1>6, <2>1 DEF ToolEnds, streamVars
  <2>3. UNCHANGED <<Calls, Call, Undecided>>
    BY <2>2 DEF gateVars, Calls, Call, Undecided
  <2> QED
    BY <1>0, <2>2, <2>3 DEF AnswerInv, gateVars
<1>7. CASE Park
  <2>1. UNCHANGED <<blocks, gateVars, toolVars>> /\ pc = "spawned" /\ pc' = "tool"
    BY <1>7 DEF Park, streamVars
  <2>2. UNCHANGED <<Calls, Call, Undecided>>
    BY <2>1 DEF gateVars, Calls, Call, Undecided
  <2> QED
    BY <1>0, <2>1, <2>2 DEF AnswerInv, gateVars, toolVars
<1>8. CASE Collect
  <2>1. /\ results' = Append(results, ResultBlock(thread.id, thread.state = "errored"))
        /\ UNCHANGED <<blocks, aborted, toolVars>> /\ pc \in {"spawned", "tool"} /\ pc' = "gate"
        /\ thread.state \in {"ran", "errored"}
    BY <1>8 DEF Collect, Waiting, streamVars
  <2>2. Undecided /\ thread.id = Call.id /\ thread.id \in applied
    BY <1>0, <2>1 DEF AnswerInv
  <2>3. /\ Len(results') <= Len(Calls') /\ results' # <<>>
        /\ \A i \in DOMAIN results' :
             /\ IsResult(results'[i]) /\ results'[i].id = Calls'[i].id
             /\ ~results'[i].error => results'[i].id \in applied'
    BY <2>1, <2>2, AnswerAppended DEF toolVars
  <2> QED
    BY <1>0, <2>1, <2>3 DEF AnswerInv, toolVars
<1>9. CASE RoundAnswered
  <2>1. /\ UNCHANGED <<blocks, gateVars, toolVars>> /\ pc = "gate"
        /\ pc' = "done" \/ (pc' = "plan" /\ ~aborted)
    BY <1>9 DEF RoundAnswered, Return, TurnGoesOn, streamVars
  <2> QED
    BY <1>0, <2>1 DEF AnswerInv, gateVars, toolVars
<1>10. CASE StopResolves \/ UNCHANGED vars
  <2>1. UNCHANGED <<pc, blocks, gateVars, toolVars>>
    BY <1>10 DEF StopResolves, vars, streamVars
  <2>2. UNCHANGED <<Calls, Call, Undecided>>
    BY <2>1 DEF gateVars, Calls, Call, Undecided
  <2> QED
    BY <1>0, <2>1, <2>2 DEF AnswerInv, gateVars, toolVars
<1> QED
  BY <1>1, <1>2, <1>3, <1>4, <1>5, <1>6, <1>7, <1>8, <1>9, <1>10 DEF Next, Task, Stream, Over

\* What a turn that comes back says of its calls is what the rounds it hands back say.
LEMMA ReturnedIds ==
  ASSUME NEW messages \in Seq(Messages), NEW used, NEW withheld, NEW stop \in Stops, NEW why,
         Return(messages, used, withheld, stop, why)
  PROVE  /\ pc' = "done" /\ result'.stop = stop
         /\ Answered(result'.messages) = Answered(messages)
         /\ Succeeded(result'.messages) = Succeeded(messages)
BY IdsKept DEF Return, Outcome

\* Every step keeps the record of what ran.
LEMMA EffectStep == LoopInv /\ FigureInv /\ WorkInv /\ [Next]_vars => EffectInv'
<1> SUFFICES ASSUME LoopInv, FigureInv, WorkInv, [Next]_vars PROVE EffectInv'
  OBVIOUS
<1>0. /\ EffectInv /\ AnswerInv /\ produced \in Seq(Messages) /\ blocks \in Seq(Blocks)
      /\ pc # "done" => Rounds(produced) /\ ~Returned
      /\ EffectsRecorded /\ AbortIsFinal
  BY DEF WorkInv, EffectInv, LoopInv, TypeOK, TurnTyped, StreamTyped, ProducedInv, FigureInv,
         Returned
<1>1. CASE PlanRound
  <2>1. /\ produced' = Carried(cut') /\ blocks' = <<>> /\ pc = "plan" /\ pc' = "request"
        /\ UNCHANGED <<gateVars, toolVars, result>>
    BY <1>1 DEF PlanRound
  <2>2. /\ Called(produced') = Called(produced) /\ Answered(produced') = Answered(produced)
        /\ Succeeded(produced') = Succeeded(produced)
    BY <1>0, <2>1, CarriedFacts
  <2>3. CallsOf(Assistant(blocks')) = {}
    BY <2>1 DEF CallsOf, Assistant
  <2>4. ~aborted' /\ ~Returned'
    BY <1>0, <2>1 DEF AnswerInv, gateVars, Returned
  <2> QED
    BY <1>0, <2>1, <2>2, <2>3, <2>4 DEF EffectInv, EffectsRecorded, AbortIsFinal, toolVars
<1>2. CASE OutOfRounds
  <2>1. /\ Return(produced, usage, cut, "round_limit", lastStop) /\ pc = "plan"
        /\ UNCHANGED <<produced, blocks, gateVars, toolVars>>
    BY <1>2 DEF OutOfRounds, streamVars
  <2>2. /\ pc' = "done" /\ result'.stop = "round_limit"
        /\ Answered(result'.messages) = Answered(produced)
        /\ Succeeded(result'.messages) = Succeeded(produced)
    BY <1>0, <2>1, ReturnedIds DEF Stops
  <2>3. ~aborted /\ thread.state # "running"
    BY <1>0, <2>1 DEF AnswerInv
  <2> QED
    BY <1>0, <2>1, <2>2, <2>3 DEF EffectInv, EffectsRecorded, AbortIsFinal, gateVars, toolVars
<1>3. CASE Interrupt
  <2>1. /\ Return(produced, usage, streamedCut, "interrupted", lastStop)
        /\ pc \notin {"plan", "gate", "done"}
        /\ UNCHANGED <<produced, blocks, gateVars, toolVars>>
    BY <1>3 DEF Interrupt, streamVars
  <2>2. /\ pc' = "done" /\ result'.stop = "interrupted"
        /\ Answered(result'.messages) = Answered(produced)
    BY <1>0, <2>1, ReturnedIds DEF Stops
  <2>3. ~aborted
    BY <1>0, <2>1 DEF AnswerInv
  <2>4. thread.state = "running" => thread.id \notin Answered(produced)
    BY <1>0, <2>1 DEF AnswerInv, EffectInv
  <2> QED
    BY <1>0, <2>1, <2>2, <2>3, <2>4 DEF EffectInv, EffectsRecorded, AbortIsFinal, gateVars, toolVars
<1>4. CASE ToolPanicked \/ \E error \in Errors : StreamFails(error)
  <2>1. /\ pc' = "done" /\ result'.stop = "failed" /\ pc \notin {"plan", "gate", "done"}
        /\ UNCHANGED <<produced, blocks, gateVars, toolVars>>
    BY <1>4 DEF ToolPanicked, StreamFails, Waiting, Fail, streamVars
  <2>2. ~aborted
    BY <1>0, <2>1 DEF AnswerInv
  <2> QED
    BY <1>0, <2>1, <2>2 DEF EffectInv, EffectsRecorded, AbortIsFinal, gateVars, toolVars, Returned
<1>5. CASE StreamStop
  <2>1. UNCHANGED <<produced, blocks, gateVars, toolVars>> /\ pc = "streaming"
    BY <1>5 DEF StreamStop
  <2>2. ~aborted /\ thread.state # "running"
    BY <1>0, <2>1 DEF AnswerInv
  <2>3. CASE Return(produced, usage', cut, "answered", lastStop')
    <3>1. /\ pc' = "done" /\ result'.stop = "answered"
          /\ Answered(result'.messages) = Answered(produced)
          /\ Succeeded(result'.messages) = Succeeded(produced)
      BY <1>0, <2>3, ReturnedIds DEF Stops
    <3> QED
      BY <1>0, <2>1, <2>2, <3>1 DEF EffectInv, EffectsRecorded, AbortIsFinal, gateVars, toolVars
  <2>4. CASE \/ Fail("ended_mid_tool_use")
             \/ pc' = "answering" /\ UNCHANGED result
    <3>1. ~Returned' /\ pc' \in {"answering", "done"}
      BY <1>0, <2>1, <2>4 DEF Fail, Returned
    <3> QED
      BY <1>0, <2>1, <2>2, <3>1 DEF EffectInv, EffectsRecorded, AbortIsFinal, gateVars, toolVars
  <2> QED
    BY <1>5, <2>3, <2>4 DEF StreamStop
<1>6. CASE RoundAnswered
  <2>1. /\ pc = "gate" /\ ~Undecided /\ produced' = Whole
        /\ UNCHANGED <<blocks, gateVars, toolVars>>
    BY <1>6 DEF RoundAnswered, streamVars
  <2>2. /\ Answered(produced') = Answered(produced) \cup CallsOf(Assistant(blocks))
        /\ Called(produced') = Called(produced) \cup CallsOf(Assistant(blocks))
        /\ Succeeded(produced') \subseteq Succeeded(produced) \cup applied
        /\ produced' \in Seq(Messages)
    BY <2>1, WholeIds
  <2>3. thread.state # "running"
    BY <1>0, <2>1 DEF AnswerInv
  <2>4. /\ applied \subseteq Answered(produced') /\ Succeeded(produced') \subseteq applied
        /\ Answered(produced') \subseteq Called(produced')
    BY <1>0, <2>2 DEF EffectInv, EffectsRecorded
  <2>5. CASE pc' = "plan" /\ UNCHANGED result /\ ~aborted
    <3>1. ~Returned'
      BY <1>0, <2>1, <2>5 DEF Returned
    <3> QED
      BY <2>1, <2>3, <2>4, <2>5, <3>1 DEF EffectInv, EffectsRecorded, AbortIsFinal, gateVars,
                                          toolVars
  <2>6. CASE Return(Whole, usage, cut, IF aborted THEN "gate_aborted" ELSE "answered", lastStop)
    <3>1. (IF aborted THEN "gate_aborted" ELSE "answered") \in Stops
      BY DEF Stops
    <3>2. /\ pc' = "done" /\ result'.stop = IF aborted THEN "gate_aborted" ELSE "answered"
          /\ Answered(result'.messages) = Answered(produced')
          /\ Succeeded(result'.messages) = Succeeded(produced')
      BY <2>1, <2>2, <2>6, <3>1, ReturnedIds
    <3>3. aborted => result'.stop = "gate_aborted"
      BY <3>2
    <3> QED
      BY <2>1, <2>2, <2>3, <2>4, <3>2, <3>3 DEF EffectInv, EffectsRecorded, AbortIsFinal, gateVars,
                                                toolVars
  <2> QED
    BY <1>6, <2>5, <2>6 DEF RoundAnswered, TurnGoesOn
<1>7. CASE ToolEnds
  <2>1. /\ applied' = applied \cup {thread.id} /\ thread.state = "running"
        /\ UNCHANGED <<pc, produced, blocks, gateVars, result>>
        /\ thread'.state # "running"
    BY <1>7 DEF ToolEnds, LoopInv, TypeOK, ToolTyped, streamVars
  <2>2. thread.id \in CallsOf(Assistant(blocks)) /\ pc \in {"spawned", "tool", "done"}
    BY <1>0, <2>1 DEF AnswerInv
  <2>3. Returned' => result'.stop = "interrupted"
    BY <1>0, <2>1 DEF EffectsRecorded, Returned
  <2> QED
    BY <1>0, <2>1, <2>2, <2>3 DEF EffectInv, EffectsRecorded, AbortIsFinal, gateVars, Returned
<1>8. CASE StreamText \/ StreamBlock
  <2>1. /\ UNCHANGED <<pc, produced, gateVars, toolVars, result>> /\ pc = "streaming"
    BY <1>8 DEF StreamText, StreamBlock
  <2>2. CallsOf(Assistant(blocks')) \cap Called(produced) = {}
    <3>1. \E block : /\ blocks' = Append(blocks, block)
                     /\ IsUse(block) => block.id \notin Called(produced)
      <4>1. Called(produced) \subseteq UsedIds
        <5>1. ASSUME NEW id \in Called(produced) PROVE id \in UsedIds
          <6>1. PICK i \in DOMAIN produced : id \in CallsOf(produced[i])
            BY DEF Called
          <6>2. id \in UNION {CallsOf(produced[j]) : j \in DOMAIN produced}
            BY <6>1
          <6> QED
            BY <6>2 DEF UsedIds
        <5> QED
          BY <5>1
      <4>2. CASE StreamText
        BY <4>2 DEF StreamText, TextBlock, IsUse
      <4>3. CASE blocks' = Append(blocks, ThinkingBlock(cut))
        BY <4>3 DEF ThinkingBlock, IsUse
      <4>4. CASE \E name \in ToolNames : \E id \in CallIds \ UsedIds :
                   blocks' = Append(blocks, UseBlock(id, name))
        BY <4>1, <4>4 DEF UseBlock
      <4> QED
        BY <1>8, <4>2, <4>3, <4>4 DEF StreamBlock
    <3>2. PICK block : /\ blocks' = Append(blocks, block)
                       /\ IsUse(block) => block.id \notin Called(produced)
      BY <3>1
    <3>3. /\ DOMAIN blocks' = DOMAIN blocks \cup {Len(blocks) + 1}
          /\ \A i \in DOMAIN blocks : blocks'[i] = blocks[i]
          /\ blocks'[Len(blocks) + 1] = block
      BY <1>0, <3>2
    <3>4. CallsOf(Assistant(blocks)) \cap Called(produced) = {}
      BY <1>0, <2>1 DEF EffectInv
    <3> QED
      BY <3>2, <3>3, <3>4 DEF CallsOf, Assistant
  <2>3. ~aborted /\ ~Returned' /\ thread.state # "running"
    BY <1>0, <2>1 DEF AnswerInv, Returned
  <2> QED
    BY <1>0, <2>1, <2>2, <2>3 DEF EffectInv, EffectsRecorded, AbortIsFinal, gateVars, toolVars
<1>9. CASE BeginAnswers \/ RefuseUnoffered \/ Deny \/ Abort \/ Allow \/ Park \/ Collect
             \/ OpenStream \/ StreamUsage
  <2>1. /\ UNCHANGED <<produced, blocks, applied, result>> /\ pc # "done" /\ pc' # "done"
        /\ aborted' => pc' = "gate"
        /\ pc' \notin {"plan", "done"} /\ pc # "plan"
        /\ pc' \in {"plan", "request", "streaming", "answering"}
             => pc \in {"plan", "request", "streaming", "answering"}
    <3>1. /\ UNCHANGED <<produced, blocks, applied, result>>
          /\ \/ pc \in {"request", "streaming"} /\ pc' = "streaming" /\ aborted' = aborted
             \/ pc = "answering" /\ pc' = "gate"
             \/ pc = "gate" /\ pc' = "gate"
             \/ /\ pc \in {"gate", "spawned", "tool"} /\ pc' \in {"gate", "spawned", "tool"}
                /\ aborted' = aborted /\ (pc = "gate" => ~aborted)
      <4>1. CASE BeginAnswers \/ OpenStream \/ StreamUsage
        BY <4>1 DEF BeginAnswers, OpenStream, StreamUsage, streamVars, toolVars, gateVars
      <4>2. CASE RefuseUnoffered \/ Deny \/ Abort
        BY <4>2 DEF RefuseUnoffered, Deny, Abort, Refuse, streamVars, toolVars
      <4>3. CASE Allow \/ Park \/ Collect
        BY <4>3 DEF Allow, Park, Collect, Waiting, streamVars, toolVars, gateVars
      <4> QED
        BY <1>9, <4>1, <4>2, <4>3
    <3>2. aborted => pc \in {"gate", "done"}
      BY <1>0 DEF AnswerInv
    <3> QED
      BY <3>1, <3>2
  <2>2. ~Returned'
    BY <1>0, <2>1 DEF Returned
  <2> QED
    BY <1>0, <2>1, <2>2 DEF EffectInv, EffectsRecorded, AbortIsFinal
<1>10. CASE StopResolves \/ UNCHANGED vars
  <2>1. UNCHANGED <<pc, produced, blocks, gateVars, toolVars, result>>
    BY <1>10 DEF StopResolves, vars, streamVars
  <2> QED
    BY <1>0, <2>1 DEF EffectInv, EffectsRecorded, AbortIsFinal, Returned, gateVars, toolVars
<1> QED
  BY <1>1, <1>2, <1>3, <1>4, <1>5, <1>6, <1>7, <1>8, <1>9, <1>10 DEF Next, Task, Stream, Over

\* The turn's invariant: what was produced, answered and run.
THEOREM WorkInvariant == Spec => [](LoopInv /\ FigureInv /\ WorkInv)
<1>1. Init => LoopInv /\ FigureInv /\ WorkInv
  <2> SUFFICES ASSUME Init PROVE LoopInv /\ FigureInv /\ WorkInv
    OBVIOUS
  <2>1. LoopInv /\ FigureInv
    BY InitInv DEF Init, FigureInv, FiguresMatch, LastReported, LastFinished, Returned
  <2>2. ProducedInv
    BY DEF Init, ProducedInv, Rounds, AllBlocks, Assistant
  <2>3. AnswerInv
    BY DEF Init, AnswerInv, NoThread
  <2>4. EffectInv
    BY DEF Init, EffectInv, EffectsRecorded, AbortIsFinal, NoThread, Returned, Succeeded, Answered
  <2> QED
    BY <2>1, <2>2, <2>3, <2>4 DEF WorkInv
<1>2. LoopInv /\ FigureInv /\ WorkInv /\ [Next]_vars => (LoopInv /\ FigureInv /\ WorkInv)'
  BY TypeStep, RoundStep, ThreadStep, CutStep, FigureStep, ProducedStep, AnswerStep, EffectStep
     DEF LoopInv, WorkInv
<1> QED
  BY <1>1, <1>2, PTL DEF Spec

\* What ran is on record, up to the round in flight (run_turn_until: "a call already
\* running goes on unseen").
THEOREM EffectsAreRecorded == Spec => []EffectsRecorded
<1>1. WorkInv => EffectsRecorded
  BY DEF WorkInv, EffectInv
<1> QED
  BY <1>1, WorkInvariant, PTL

\* Losing the gate is final, and leaves no call of the round unanswered (answer_calls).
THEOREM AbortEndsTheTurn == Spec => []AbortIsFinal
<1>1. WorkInv => AbortIsFinal
  BY DEF WorkInv, EffectInv
<1> QED
  BY <1>1, WorkInvariant, PTL

-----------------------------------------------------------------------------
(* What a turn hands back. *)

\* Whole rounds, and behind them perhaps a reply.
Transcript(messages) ==
  /\ messages # <<>> => messages[1].role = "assistant"
  /\ \A i \in DOMAIN messages :
       /\ SomeBlock(messages[i], NotThinking)
       /\ CallsOf(messages[i]) # {} =>
            i + 1 \in DOMAIN messages /\ AnswersIn(messages[i + 1]) = CallsOf(messages[i])
       /\ messages[i].role = "user" => AnswersOnly(messages[i])
       /\ i + 1 \in DOMAIN messages => messages[i].role # messages[i + 1].role

\* Whole rounds are such a transcript.
LEMMA RoundsTranscript ==
  ASSUME NEW messages \in Seq(Messages), Rounds(messages)
  PROVE  Transcript(messages)
<1>1. ASSUME NEW i \in DOMAIN messages
      PROVE  /\ messages[i].role \in Roles
             /\ messages[i].role = "user" => CallsOf(messages[i]) = {}
  <2>1. messages[i] \in Messages
    OBVIOUS
  <2> QED
    BY <2>1, AnswersKept DEF Rounds, Messages
<1> QED
  BY <1>1 DEF Rounds, Transcript, Roles

\* And so are whole rounds with a reply.
LEMMA ReplyTranscript ==
  ASSUME NEW messages \in Seq(Messages), Rounds(messages), NEW reply \in Messages,
         reply.role = "assistant", SomeBlock(reply, NotThinking), CallsOf(reply) = {}
  PROVE  Transcript(Append(messages, reply)) /\ Settled(Append(messages, reply))
<1> DEFINE longer == Append(messages, reply)
<1>1. /\ longer \in Seq(Messages) /\ Len(longer) = Len(messages) + 1 /\ Len(messages) \in Nat
      /\ DOMAIN longer = DOMAIN messages \cup {Len(messages) + 1}
      /\ DOMAIN messages = 1 .. Len(messages) /\ longer # <<>>
      /\ \A i \in DOMAIN messages : longer[i] = messages[i]
      /\ longer[Len(messages) + 1] = reply
  OBVIOUS
<1> HIDE DEF longer
<1>2. Transcript(messages)
  BY RoundsTranscript
<1>3. messages # <<>> => messages[Len(messages)].role = "user"
  BY DEF Rounds, EndsOnUser
<1>4. longer[1].role = "assistant"
  <2>1. CASE messages = <<>>
    BY <1>1, <2>1
  <2>2. CASE messages # <<>>
    <3>1. 1 \in DOMAIN messages
      BY <2>2
    <3> QED
      BY <1>1, <1>2, <2>2, <3>1 DEF Transcript
  <2> QED
    BY <2>1, <2>2
<1>5. ASSUME NEW i \in DOMAIN longer
      PROVE  /\ SomeBlock(longer[i], NotThinking)
             /\ CallsOf(longer[i]) # {} =>
                  i + 1 \in DOMAIN longer /\ AnswersIn(longer[i + 1]) = CallsOf(longer[i])
             /\ longer[i].role = "user" => AnswersOnly(longer[i])
             /\ i + 1 \in DOMAIN longer => longer[i].role # longer[i + 1].role
  <2>1. CASE i \in DOMAIN messages
    <3>1. longer[i] = messages[i] /\ i \in 1 .. Len(messages)
      BY <1>1, <2>1
    <3>2. i + 1 \in DOMAIN messages => longer[i + 1] = messages[i + 1]
      BY <1>1
    <3>3. i + 1 \notin DOMAIN messages => i = Len(messages) /\ longer[i + 1] = reply
      BY <1>1, <3>1
    <3>4. messages # <<>>
      BY <2>1
    <3> QED
      BY <1>1, <1>2, <1>3, <2>1, <3>1, <3>2, <3>3, <3>4 DEF Transcript
  <2>2. CASE i = Len(messages) + 1
    <3>1. i + 1 \notin DOMAIN longer
      BY <1>1, <2>2
    <3> QED
      BY <1>1, <2>2, <3>1
  <2> QED
    BY <1>1, <2>1, <2>2
<1> QED
  BY <1>1, <1>4, <1>5 DEF Transcript, Settled, longer

\* What is left of a transcript without its reasoning can be appended to any conversation a
\* turn may be handed, and read back.
LEMMA TranscriptAppends ==
  ASSUME NEW history \in Histories, NEW messages \in Seq(Messages), Transcript(messages)
  PROVE  LET less == DropThinking(messages)
         IN  /\ Alternating(history \o less) /\ Follows(history, less)
             /\ less # <<>> => Resumable(less)
             /\ \A i \in DOMAIN less : AllBlocks(less[i], NotThinking) /\ HasContent(less[i])
             /\ \A i \in DOMAIN less : CallsOf(less[i]) # {} =>
                  i < Len(less) /\ AnswersIn(less[i + 1]) = CallsOf(less[i])
             /\ less # <<>> <=> messages # <<>>
             /\ Settled(less) <=> Settled(messages)
<1> DEFINE less == DropThinking(messages)
<1>1. less = [i \in DOMAIN messages |-> Retain(messages[i], NotThinking)]
  BY DropThinkingElements DEF Transcript
<1>2. less \in Seq(Messages)
  BY DropThinkingType
<1> HIDE DEF less
<1>3. ASSUME NEW i \in DOMAIN messages
      PROVE  /\ messages[i] \in Messages /\ less[i].role = messages[i].role
             /\ AllBlocks(less[i], NotThinking) /\ HasContent(less[i])
             /\ CallsOf(less[i]) = CallsOf(messages[i])
             /\ AnswersIn(less[i]) = AnswersIn(messages[i])
             /\ AnswersOnly(messages[i]) => less[i] = messages[i]
  <2>1. messages[i] \in Messages /\ less[i] = Retain(messages[i], NotThinking)
    BY <1>1
  <2>2. less[i].role = messages[i].role /\ AllBlocks(less[i], NotThinking)
    BY <2>1, RetainReasonless
  <2>3. /\ CallsOf(less[i]) = CallsOf(messages[i]) /\ AnswersIn(less[i]) = AnswersIn(messages[i])
        /\ HasContent(less[i])
    BY <2>1, RetainKeepsIds DEF Transcript
  <2> QED
    BY <2>1, <2>2, <2>3, AnswersKept
<1>4. /\ DOMAIN less = DOMAIN messages /\ Len(less) = Len(messages) /\ Len(messages) \in Nat
      /\ DOMAIN less = 1 .. Len(less)
  BY <1>1, <1>2
<1>5. less # <<>> <=> messages # <<>>
  BY <1>2, <1>4
<1>6. messages # <<>> => 1 \in DOMAIN messages /\ Len(messages) \in DOMAIN messages
  OBVIOUS
<1>7. less # <<>> => less[1].role = "assistant"
  BY <1>3, <1>4, <1>5, <1>6 DEF Transcript
<1>8. \A i \in DOMAIN less : i + 1 \in DOMAIN less => less[i].role # less[i + 1].role
  BY <1>3, <1>4 DEF Transcript
<1>9. /\ history \in Seq(Messages) /\ history # <<>> /\ history[Len(history)].role = "user"
      /\ \A i \in 1 .. Len(history) - 1 : history[i].role # history[i + 1].role
  BY HistoriesAssumption, ConversationsAssumption DEF AcceptedByApi
<1>10. Follows(history, less)
  BY <1>7, <1>9 DEF Follows, Joins
<1>11. Alternating(history \o less)
  <2> DEFINE joined == history \o less
  <2>1. /\ Len(joined) = Len(history) + Len(less) /\ Len(history) \in Nat /\ Len(less) \in Nat
        /\ \A i \in 1 .. Len(history) : joined[i] = history[i]
        /\ \A i \in 1 .. Len(less) : joined[Len(history) + i] = less[i]
    BY <1>2, <1>9
  <2> HIDE DEF joined
  <2>2. ASSUME NEW i \in 1 .. Len(joined) - 1 PROVE joined[i].role # joined[i + 1].role
    <3>1. CASE i < Len(history)
      BY <1>9, <2>1, <3>1, SMTT(30)
    <3>2. CASE i = Len(history)
      <4>1. 1 \in 1 .. Len(less) /\ less # <<>>
        BY <1>2, <2>1, <3>2
      <4> QED
        BY <1>7, <1>9, <2>1, <3>2, <4>1
    <3>3. CASE i > Len(history)
      <4> DEFINE k == i - Len(history)
      <4>1. k \in 1 .. Len(less) /\ k + 1 \in 1 .. Len(less) /\ i = Len(history) + k
            /\ i + 1 = Len(history) + (k + 1)
        BY <2>1, <3>3
      <4> HIDE DEF k
      <4>2. joined[i] = less[k] /\ joined[i + 1] = less[k + 1]
        BY <2>1, <4>1
      <4> QED
        BY <1>4, <1>8, <4>1, <4>2
    <3> QED
      BY <2>1, <3>1, <3>2, <3>3
  <2> QED
    BY <2>2 DEF Alternating, Joins, joined
<1>12. Settled(less) <=> Settled(messages)
  BY <1>3, <1>4, <1>5, <1>6 DEF Settled
<1>13. less # <<>> => Resumable(less)
  <2> SUFFICES ASSUME less # <<>> PROVE Resumable(less)
    OBVIOUS
  <2>1. Len(messages) \in DOMAIN messages /\ messages # <<>>
    BY <1>5, <1>6
  <2>2. messages[Len(messages)].role \in Roles
    BY <1>3, <2>1 DEF Messages
  <2>3. messages[Len(messages)].role = "user" => AnswersOnly(less[Len(less)])
    BY <1>3, <1>4, <2>1 DEF Transcript
  <2> QED
    BY <1>3, <1>4, <2>1, <2>2, <2>3 DEF Resumable, Settled, Roles
<1>14. ASSUME NEW i \in DOMAIN less, CallsOf(less[i]) # {}
       PROVE  i < Len(less) /\ AnswersIn(less[i + 1]) = CallsOf(less[i])
  <2>1. i + 1 \in DOMAIN messages /\ AnswersIn(messages[i + 1]) = CallsOf(messages[i])
    BY <1>3, <1>4, <1>14 DEF Transcript
  <2> QED
    BY <1>3, <1>4, <2>1
<1> QED
  BY <1>3, <1>4, <1>5, <1>10, <1>11, <1>12, <1>13, <1>14 DEF less

\* The calls reported settled are the ones answered, those of the round in flight too.
SettledInv ==
  /\ pc \in {"plan", "request", "streaming", "answering"} => ToSet(settled) = Answered(produced)
  /\ pc \in {"gate", "spawned", "tool"} =>
       ToSet(settled) = Answered(produced) \cup {results[i].id : i \in DOMAIN results}
  /\ OutcomeAppends

\* A turn that ends hands back a transcript its caller can append.
LEMMA ReturnAppends ==
  ASSUME LoopInv, NEW messages \in Seq(Messages), NEW used, NEW withheld, NEW stop \in Stops,
         NEW why, Return(messages, used, withheld, stop, why), turn' = turn,
         Transcript(messages),
         messages # <<>> => (stop = "answered" <=> Settled(messages)),
         stop # "interrupted" => Answered(messages) = ToSet(settled')
  PROVE  SettledInv'
<1> DEFINE less == DropThinking(messages)
<1>1. /\ pc' = "done" /\ result'.messages = less /\ result'.stop = stop
  BY DEF Return, Outcome
<1>2. turn.history \in Histories
  BY DEF LoopInv, TypeOK, TurnTyped
<1>3. /\ Alternating(turn.history \o less) /\ Follows(turn.history, less)
      /\ less # <<>> => Resumable(less)
      /\ \A i \in DOMAIN less : AllBlocks(less[i], NotThinking) /\ HasContent(less[i])
      /\ \A i \in DOMAIN less : CallsOf(less[i]) # {} =>
           i < Len(less) /\ AnswersIn(less[i + 1]) = CallsOf(less[i])
      /\ less # <<>> <=> messages # <<>>
      /\ Settled(less) <=> Settled(messages)
  BY <1>2, TranscriptAppends
<1>4. Answered(less) = Answered(messages)
  BY IdsKept
<1> HIDE DEF less
<1>5. less # <<>> => (result'.stop = "answered" <=> Settled(less))
  BY <1>1, <1>3
<1>6. OutcomeAppends'
  BY <1>1, <1>3, <1>4, <1>5 DEF OutcomeAppends
<1> QED
  BY <1>1, <1>6 DEF SettledInv

\* Every step keeps what was settled in step with what was answered.
LEMMA SettledStep == LoopInv /\ FigureInv /\ WorkInv /\ SettledInv /\ [Next]_vars => SettledInv'
<1> SUFFICES ASSUME LoopInv, FigureInv, WorkInv, SettledInv, [Next]_vars PROVE SettledInv'
  OBVIOUS
<1>0. /\ produced \in Seq(Messages) /\ results \in Seq(Blocks) /\ settled \in Seq(CallIds)
      /\ pc # "done" => Rounds(produced) /\ ~Returned
      /\ pc # "done" /\ produced # <<>> => ~Settled(produced)
  BY DEF LoopInv, TypeOK, TurnTyped, GateTyped, WorkInv, ProducedInv, FigureInv, Returned, Rounds,
         EndsOnUser, Settled
<1>1. CASE PlanRound
  <2>1. /\ produced' = Carried(cut') /\ pc = "plan" /\ pc' = "request"
        /\ UNCHANGED <<gateVars, result>>
    BY <1>1 DEF PlanRound
  <2>2. Answered(produced') = Answered(produced)
    BY <1>0, <2>1, CarriedFacts
  <2> QED
    BY <1>0, <2>1, <2>2 DEF SettledInv, OutcomeAppends, Returned, gateVars
<1>2. CASE OutOfRounds \/ Interrupt
  <2>1. PICK stop \in {"round_limit", "interrupted"} : \E withheld :
          /\ Return(produced, usage, withheld, stop, lastStop)
          /\ stop # "interrupted" => pc = "plan"
    BY <1>2 DEF OutOfRounds, Interrupt
  <2>2. UNCHANGED <<turn, gateVars>> /\ pc # "done"
    BY <1>2 DEF OutOfRounds, Interrupt
  <2>3. stop # "interrupted" => Answered(produced) = ToSet(settled')
    BY <2>1, <2>2 DEF SettledInv, gateVars
  <2>4. Transcript(produced) /\ stop \in Stops /\ stop # "answered"
    BY <1>0, <2>2, RoundsTranscript DEF Stops
  <2> QED
    BY <1>0, <2>1, <2>2, <2>3, <2>4, ReturnAppends
<1>3. CASE ToolPanicked \/ \E error \in Errors : StreamFails(error)
  <2>1. pc' = "done" /\ ~Returned'
    BY <1>3 DEF ToolPanicked, StreamFails, Fail, Returned
  <2> QED
    BY <2>1 DEF SettledInv, OutcomeAppends
<1>4. CASE StreamStop
  <2>1. UNCHANGED <<turn, produced, gateVars>> /\ pc = "streaming"
    BY <1>4 DEF StreamStop
  <2>2. CASE ~EndsOnUser(produced) /\ Return(produced, usage', cut, "answered", lastStop')
    <3>1. produced = <<>>
      BY <1>0, <2>1, <2>2 DEF Rounds
    <3>2. Answered(produced) = ToSet(settled')
      BY <2>1 DEF SettledInv, gateVars
    <3> QED
      BY <1>0, <2>1, <2>2, <3>1, <3>2, RoundsTranscript, ReturnAppends DEF Stops
  <2>3. CASE \/ Fail("ended_mid_tool_use")
             \/ pc' = "answering" /\ UNCHANGED result
    <3>1. ~Returned' /\ pc' \in {"answering", "done"}
      BY <1>0, <2>1, <2>3 DEF Fail, Returned
    <3> QED
      BY <2>1, <3>1 DEF SettledInv, OutcomeAppends, gateVars
  <2> QED
    BY <1>4, <2>2, <2>3 DEF StreamStop
<1>5. CASE BeginAnswers
  <2>1. /\ results' = <<>> /\ pc' = "gate" /\ pc = "answering"
        /\ UNCHANGED <<produced, settled, result>>
    BY <1>5 DEF BeginAnswers
  <2> QED
    BY <1>0, <2>1 DEF SettledInv, OutcomeAppends, Returned
<1>6. CASE RefuseUnoffered \/ Deny \/ Abort \/ Collect
  <2>1. \E error \in BOOLEAN :
          /\ results' = Append(results, ResultBlock(Call.id, error))
          /\ settled' = Append(settled, Call.id) /\ Call.id \in CallIds
          /\ pc \in {"gate", "spawned", "tool"} /\ pc' = "gate" /\ UNCHANGED <<produced, result>>
    <3>1. CASE RefuseUnoffered \/ Deny \/ Abort
      BY <3>1, CallInRound DEF RefuseUnoffered, Deny, Abort, Refuse
    <3>2. CASE Collect
      <4>1. pc \in {"spawned", "tool"} /\ thread.id = Call.id /\ Undecided
        BY <3>2 DEF Collect, Waiting, WorkInv, AnswerInv
      <4> QED
        BY <3>2, <4>1, CallInRound DEF Collect
    <3> QED
      BY <1>6, <3>1, <3>2
  <2>2. PICK error \in BOOLEAN :
          /\ results' = Append(results, ResultBlock(Call.id, error))
          /\ settled' = Append(settled, Call.id) /\ Call.id \in CallIds
          /\ pc \in {"gate", "spawned", "tool"} /\ pc' = "gate" /\ UNCHANGED <<produced, result>>
    BY <2>1
  <2>3. ToSet(settled') = ToSet(settled) \cup {Call.id}
    <3>1. Elements(settled') = Elements(settled) \cup {Call.id}
      BY <1>0, <2>2, AppendElements
    <3> QED
      BY <3>1 DEF ToSet, Elements
  <2>4. {results'[i].id : i \in DOMAIN results'}
          = {results[i].id : i \in DOMAIN results} \cup {Call.id}
    <3> DEFINE answer == ResultBlock(Call.id, error)
    <3>1. answer \in Blocks /\ answer.id = Call.id
      BY <2>2 DEF ResultBlock, Blocks
    <3> HIDE DEF answer
    <3>2. Elements(results') = Elements(results) \cup {answer}
      BY <1>0, <2>2, <3>1, AppendElements DEF answer
    <3>3. /\ {results'[i].id : i \in DOMAIN results'} = {block.id : block \in Elements(results')}
          /\ {results[i].id : i \in DOMAIN results} = {block.id : block \in Elements(results)}
      BY DEF Elements
    <3> QED
      BY <3>1, <3>2, <3>3
  <2>5. ~Returned'
    BY <1>0, <2>2 DEF Returned
  <2> QED
    BY <2>2, <2>3, <2>4, <2>5 DEF SettledInv, OutcomeAppends
<1>7. CASE RoundAnswered
  <2>1. /\ pc = "gate" /\ ~Undecided /\ produced' = Whole
        /\ UNCHANGED <<turn, blocks, gateVars>>
    BY <1>7 DEF RoundAnswered, streamVars
  <2>2. /\ Answered(Whole) = Answered(produced) \cup CallsOf(Assistant(blocks))
        /\ Whole \in Seq(Messages)
        /\ results # <<>> => Rounds(Whole)
    BY <2>1, WholeIds
  <2>3. /\ {results[i].id : i \in DOMAIN results} = CallsOf(Assistant(blocks))
        /\ Assistant(blocks) \in Messages /\ SomeBlock(Assistant(blocks), NotThinking)
        /\ results = <<>> => CallsOf(Assistant(blocks)) = {}
    BY <2>1, WholeFacts
  <2>4. Answered(Whole) = ToSet(settled')
    BY <2>1, <2>2, <2>3 DEF SettledInv, gateVars
  <2>5. CASE pc' = "plan" /\ UNCHANGED result
    BY <1>0, <2>1, <2>4, <2>5 DEF SettledInv, OutcomeAppends, Returned
  <2>6. CASE /\ ~TurnGoesOn
             /\ Return(Whole, usage, cut, IF aborted THEN "gate_aborted" ELSE "answered", lastStop)
    <3> DEFINE stop == IF aborted THEN "gate_aborted" ELSE "answered"
    <3>1. stop \in Stops
      BY DEF Stops
    <3>2. Transcript(Whole) /\ (stop = "answered" <=> Settled(Whole))
      <4>1. CASE results = <<>>
        <5>1. Whole = Append(produced, Assistant(blocks)) /\ Assistant(blocks).role = "assistant"
          BY <4>1 DEF Whole, PushedUnanswered, Assistant
        <5>2. ~aborted
          BY <2>1, <4>1 DEF WorkInv, AnswerInv
        <5> QED
          BY <1>0, <2>1, <2>3, <4>1, <5>1, <5>2, ReplyTranscript
      <4>2. CASE results # <<>>
        <5>1. Rounds(Whole) /\ Whole # <<>> /\ aborted
          BY <2>2, <2>6, <4>2 DEF TurnGoesOn, Whole
        <5>2. ~Settled(Whole)
          BY <5>1 DEF Rounds, EndsOnUser, Settled
        <5> QED
          BY <2>2, <5>1, <5>2, RoundsTranscript
      <4> QED
        BY <4>1, <4>2
    <3>3. Return(Whole, usage, cut, stop, lastStop)
      BY <2>6
    <3> HIDE DEF stop
    <3> QED
      BY <2>1, <2>2, <2>4, <3>1, <3>2, <3>3, ReturnAppends
  <2> QED
    BY <1>7, <2>5, <2>6 DEF RoundAnswered
<1>8. CASE Allow \/ Park \/ OpenStream \/ StreamText \/ StreamBlock \/ StreamUsage
  <2>1. /\ UNCHANGED <<produced, gateVars, result>> /\ pc # "done" /\ pc' # "done"
        /\ pc' \in {"plan", "request", "streaming", "answering"}
             => pc \in {"plan", "request", "streaming", "answering"}
        /\ pc' \in {"gate", "spawned", "tool"} => pc \in {"gate", "spawned", "tool"}
    BY <1>8 DEF Allow, Park, OpenStream, StreamText, StreamBlock, StreamUsage
  <2> QED
    BY <1>0, <2>1 DEF SettledInv, OutcomeAppends, Returned, gateVars
<1>9. CASE ToolEnds \/ StopResolves \/ UNCHANGED vars
  <2>1. UNCHANGED <<turn, pc, produced, gateVars, result>>
    BY <1>9 DEF ToolEnds, StopResolves, vars
  <2> QED
    BY <2>1 DEF SettledInv, OutcomeAppends, Returned, gateVars
<1> QED
  BY <1>1, <1>2, <1>3, <1>4, <1>5, <1>6, <1>7, <1>8, <1>9 DEF Next, Task, Stream, Over

\* What a turn hands back can be appended to the conversation it was handed and read back
\* (TurnOutcome::messages).
THEOREM OutcomesAppend == Spec => []OutcomeAppends
<1>1. Init => SettledInv
  <2> SUFFICES ASSUME Init PROVE SettledInv
    OBVIOUS
  <2>1. ToSet(settled) = {} /\ Answered(produced) = {} /\ ~Returned
    BY DEF Init, ToSet, Answered, Returned
  <2> QED
    BY <2>1 DEF Init, SettledInv, OutcomeAppends
<1>2. SettledInv => OutcomeAppends
  BY DEF SettledInv
<1> QED
  BY <1>1, <1>2, SettledStep, WorkInvariant, PTL DEF Spec

-----------------------------------------------------------------------------
(* What a turn sends. *)

\* A message that loses its answers keeps everything else (window's first message).
LEMMA RetainAnswerless ==
  ASSUME NEW message \in Messages
  PROVE  LET less == Retain(message, NotResult)
         IN  /\ less \in Messages /\ less.role = message.role
             /\ AllBlocks(less, NotResult) /\ AnswersIn(less) = {}
             /\ CallsOf(less) = CallsOf(message)
             /\ SomeBlock(message, NotResult) => HasContent(less)
             /\ AllBlocks(message, NotThinking) => AllBlocks(less, NotThinking)
<1> DEFINE content == message.content
           kept == {i \in DOMAIN content : NotResult(content[i])}
           picked == Picked(content, kept)
           less == [message EXCEPT !.content = picked]
<1>1. content \in Seq(Blocks) /\ message.role \in Roles /\ DOMAIN message = {"role", "content"}
  BY DEF Messages
<1>2. picked \in Seq(Blocks) /\ Elements(picked) = {content[i] : i \in DOMAIN content \cap kept}
  <2> HIDE DEF content, kept
  <2> QED
    BY <1>1, PickedElements
<1>3. Elements(picked) = {block \in Elements(content) : NotResult(block)}
  <2> HIDE DEF content
  <2> QED
    BY <1>2 DEF Elements
<1> HIDE DEF picked
<1>4. Retain(message, NotResult) = less /\ less.content = picked /\ less.role = message.role
      /\ less \in Messages
  BY <1>1, <1>2 DEF Retain, picked, Messages
<1> HIDE DEF less
<1>5. AllBlocks(less, NotResult) /\ AnswersIn(less) = {}
  BY <1>3, <1>4 DEF AllBlocks, AnswersIn, Elements, NotResult
<1>6. CallsOf(less) = CallsOf(message)
  <2>1. Of(less, IsUse) = Of(message, IsUse)
    BY <1>3, <1>4 DEF Of, NotResult, IsResult, IsUse
  <2> QED
    BY <2>1, IdsOfElements
<1>7. SomeBlock(message, NotResult) => HasContent(less)
  BY <1>2, <1>3, <1>4 DEF SomeBlock, HasContent, Elements
<1>8. AllBlocks(message, NotThinking) => AllBlocks(less, NotThinking)
  <2> SUFFICES ASSUME AllBlocks(message, NotThinking), NEW i \in DOMAIN picked
               PROVE  NotThinking(picked[i])
    BY <1>4 DEF AllBlocks
  <2>1. picked[i] \in Elements(content)
    BY <1>3 DEF Elements
  <2>2. PICK j \in DOMAIN content : picked[i] = content[j]
    BY <2>1 DEF Elements
  <2> QED
    BY <2>2 DEF AllBlocks
<1> QED
  BY <1>4, <1>5, <1>6, <1>7, <1>8

\* A message with no answers has them first.
LEMMA AnswerlessFirst ==
  ASSUME NEW message, AllBlocks(message, NotResult)
  PROVE  ResultsFirst(message) /\ AnswersIn(message) = {}
BY DEF AllBlocks, NotResult, ResultsFirst, AnswersIn

\* A conversation cut where it may be cut is one a request may open with.
LEMMA WindowAccepted ==
  ASSUME NEW history \in Histories, NEW at \in Nat, at = 0 \/ OpensARequest(history, at)
  PROVE  LET window == Window(history, at)
         IN  /\ window \in Seq(Messages) /\ AcceptedByApi(window)
             /\ \A i \in DOMAIN window :
                  /\ AllBlocks(window[i], NotThinking)
                  /\ window[i].role = "user" => CallsOf(window[i]) = {}
<1> DEFINE whole(messages) ==
             /\ messages \in Seq(Messages) /\ AcceptedByApi(messages)
             /\ \A i \in DOMAIN messages :
                  /\ AllBlocks(messages[i], NotThinking)
                  /\ messages[i].role = "user" => CallsOf(messages[i]) = {}
<1>0. whole(history)
  BY HistoriesAssumption, ConversationsAssumption
<1>1. CASE at = 0
  <2>1. SubSeq(history, 0 + 1, Len(history)) = history
    BY <1>0
  <2>2. Window(history, at) = history
    BY <1>1, <2>1 DEF Window
  <2> QED
    BY <1>0, <2>2
<1>2. CASE OpensARequest(history, at)
  <2> DEFINE kept == SubSeq(history, at + 1, Len(history))
             first == Retain(history[at + 1], NotResult)
             window == [kept EXCEPT ![1] = first]
  <2>1. /\ 0 < at /\ at < Len(history) /\ Len(history) \in Nat /\ at + 1 \in DOMAIN history
        /\ history[at + 1] \in Messages /\ history[at + 1].role = "user"
        /\ SomeBlock(history[at + 1], NotResult)
    BY <1>0, <1>2 DEF OpensARequest
  <2>2. /\ kept \in Seq(Messages) /\ Len(kept) = Len(history) - at /\ kept # <<>>
        /\ \A i \in 1 .. Len(history) - at : kept[i] = history[at + i]
        /\ 1 \in DOMAIN kept /\ kept[1] = history[at + 1]
    <3>1. history \in Seq(Messages)
      BY <1>0
    <3>2. kept \in Seq(Messages) /\ Len(kept) = Len(history) - at
      BY <2>1, <3>1
    <3>3. \A i \in 1 .. Len(history) - at : kept[i] = history[at + i]
      <4>1. ASSUME NEW i \in 1 .. Len(history) - at PROVE kept[i] = history[at + i]
        <5>1. kept[i] = history[(at + 1) + i - 1]
          BY <2>1, <3>1
        <5>2. (at + 1) + i - 1 = at + i
          BY <2>1
        <5> QED
          BY <5>1, <5>2
      <4> QED
        BY <4>1
    <3> HIDE DEF kept
    <3>4. DOMAIN kept = 1 .. Len(history) - at
      BY <3>2
    <3>5. 1 \in DOMAIN kept
      BY <2>1, <3>4
    <3>6. kept # <<>>
      BY <3>5
    <3> QED
      BY <3>2, <3>3, <3>4, <3>5, <3>6
  <2>3. Window(history, at) = window
    BY <2>1, <2>2 DEF Window
  <2>4. /\ first \in Messages /\ first.role = "user" /\ AllBlocks(first, NotResult)
        /\ AnswersIn(first) = {} /\ CallsOf(first) = CallsOf(history[at + 1])
        /\ HasContent(first) /\ AllBlocks(first, NotThinking)
    BY <1>0, <2>1, RetainAnswerless
  <2> HIDE DEF kept, first
  <2>5. /\ window \in Seq(Messages) /\ Len(window) = Len(history) - at
        /\ DOMAIN window = 1 .. Len(history) - at
        /\ window[1] = first /\ \A i \in 2 .. Len(history) - at : window[i] = history[at + i]
    BY <2>1, <2>2, <2>4
  <2> HIDE DEF window
  <2>6. ASSUME NEW i \in 1 .. Len(history) - at
        PROVE  /\ at + i \in DOMAIN history
               /\ window[i].role = history[at + i].role
               /\ CallsOf(window[i]) = CallsOf(history[at + i])
               /\ HasContent(window[i]) /\ ResultsFirst(window[i])
               /\ AllBlocks(window[i], NotThinking)
               /\ window[i].role = "user" => CallsOf(window[i]) = {}
               /\ i # 1 => AnswersIn(window[i]) = AnswersIn(history[at + i])
    <3>1. at + i \in DOMAIN history
      BY <1>0, <2>1
    <3>2. CASE i = 1
      BY <1>0, <2>1, <2>4, <2>5, <3>1, <3>2, AnswerlessFirst
    <3>3. CASE i # 1
      <4>1. window[i] = history[at + i]
        BY <2>1, <2>5, <3>3
      <4> QED
        BY <1>0, <3>1, <3>3, <4>1 DEF AcceptedByApi
    <3> QED
      BY <3>2, <3>3
  <2>7. \A i \in 1 .. Len(window) - 1 : /\ window[i].role # window[i + 1].role
                                        /\ AnswersIn(window[i + 1]) = CallsOf(window[i])
    <3> SUFFICES ASSUME NEW i \in 1 .. Len(window) - 1
                 PROVE  /\ window[i].role # window[i + 1].role
                        /\ AnswersIn(window[i + 1]) = CallsOf(window[i])
      OBVIOUS
    <3>1. /\ i \in 1 .. Len(history) - at /\ i + 1 \in 1 .. Len(history) - at /\ i + 1 # 1
          /\ at + i \in 1 .. Len(history) - 1 /\ at + (i + 1) = (at + i) + 1
      BY <2>1, <2>5
    <3>2. /\ history[at + i].role # history[(at + i) + 1].role
          /\ AnswersIn(history[(at + i) + 1]) = CallsOf(history[at + i])
      BY <1>0, <3>1 DEF AcceptedByApi
    <3> QED
      BY <2>6, <3>1, <3>2
  <2>8. window # <<>> /\ window[1].role = "user" /\ AnswersIn(window[1]) = {}
    BY <2>1, <2>4, <2>5
  <2>9. window[Len(window)].role = "user"
    <3>1. Len(window) \in 1 .. Len(history) - at /\ at + Len(window) = Len(history)
      BY <2>1, <2>5
    <3> QED
      BY <1>0, <2>6, <3>1 DEF AcceptedByApi
  <2>10. AcceptedByApi(window)
    BY <2>5, <2>6, <2>7, <2>8, <2>9 DEF AcceptedByApi
  <2> QED
    BY <2>3, <2>5, <2>6, <2>10
<1> QED
  BY <1>1, <1>2

\* And whole rounds may follow it.
LEMMA RoundsFollow ==
  ASSUME NEW window \in Seq(Messages), AcceptedByApi(window),
         \A i \in DOMAIN window : window[i].role = "user" => CallsOf(window[i]) = {},
         NEW messages \in Seq(Messages), Rounds(messages)
  PROVE  AcceptedByApi(window \o messages)
<1> DEFINE joined == window \o messages
<1>1. /\ joined \in Seq(Messages) /\ Len(joined) = Len(window) + Len(messages)
      /\ Len(window) \in Nat /\ Len(messages) \in Nat /\ Len(window) > 0
      /\ DOMAIN joined = 1 .. Len(joined) /\ DOMAIN window = 1 .. Len(window)
      /\ DOMAIN messages = 1 .. Len(messages)
      /\ \A i \in 1 .. Len(window) : joined[i] = window[i]
      /\ \A i \in 1 .. Len(messages) : joined[Len(window) + i] = messages[i]
  BY DEF AcceptedByApi
<1> HIDE DEF joined
<1>2. ASSUME NEW k \in DOMAIN messages
      PROVE  /\ HasContent(messages[k]) /\ ResultsFirst(messages[k])
             /\ messages[k].role \in Roles
             /\ messages[k].role = "user" => CallsOf(messages[k]) = {}
             /\ messages[k].role = "assistant" => AnswersIn(messages[k]) = {}
  <2>1. messages[k] \in Messages
    OBVIOUS
  <2>2. HasContent(messages[k])
    BY DEF Rounds, SomeBlock, HasContent
  <2>3. messages[k].role = "user" => CallsOf(messages[k]) = {} /\ ResultsFirst(messages[k])
    BY <2>1, AnswersKept DEF Rounds, AnswersOnly, AllBlocks, ResultsFirst
  <2>4. messages[k].role = "assistant" => AnswersIn(messages[k]) = {} /\ ResultsFirst(messages[k])
    BY AnswerlessFirst DEF Rounds
  <2> QED
    BY <2>1, <2>2, <2>3, <2>4 DEF Messages, Roles
<1>3. ASSUME NEW i \in DOMAIN joined PROVE HasContent(joined[i]) /\ ResultsFirst(joined[i])
  <2>1. CASE i <= Len(window)
    BY <1>1, <2>1 DEF AcceptedByApi
  <2>2. CASE i > Len(window)
    <3>1. i - Len(window) \in DOMAIN messages /\ joined[i] = messages[i - Len(window)]
      BY <1>1, <2>2
    <3> QED
      BY <1>2, <3>1
  <2> QED
    BY <1>1, <2>1, <2>2
<1>4. ASSUME NEW i \in 1 .. Len(joined) - 1
      PROVE  joined[i].role # joined[i + 1].role /\ AnswersIn(joined[i + 1]) = CallsOf(joined[i])
  <2>1. CASE i < Len(window)
    BY <1>1, <2>1 DEF AcceptedByApi
  <2>2. CASE i = Len(window)
    <3>1. /\ joined[i] = window[Len(window)] /\ joined[i + 1] = messages[1] /\ 1 \in DOMAIN messages
          /\ messages # <<>> /\ Len(window) \in DOMAIN window
      BY <1>1, <2>2
    <3>2. window[Len(window)].role = "user" /\ messages[1].role = "assistant"
      BY <3>1 DEF AcceptedByApi, Rounds
    <3> QED
      BY <1>2, <3>1, <3>2
  <2>3. CASE i > Len(window)
    <3> DEFINE k == i - Len(window)
    <3>1. /\ k \in DOMAIN messages /\ k + 1 \in DOMAIN messages /\ joined[i] = messages[k]
          /\ i + 1 = Len(window) + (k + 1)
      <4>1. k \in 1 .. Len(messages) /\ k + 1 \in 1 .. Len(messages) /\ i = Len(window) + k
        BY <1>1, <2>3
      <4> HIDE DEF k
      <4>2. joined[Len(window) + k] = messages[k]
        BY <1>1, <4>1
      <4> QED
        BY <1>1, <4>1, <4>2
    <3> HIDE DEF k
    <3>2. joined[i + 1] = messages[k + 1]
      BY <1>1, <3>1
    <3>3. CASE messages[k].role = "assistant"
      BY <3>1, <3>2, <3>3 DEF Rounds
    <3>4. CASE messages[k].role = "user"
      <4>1. messages[k + 1].role = "assistant"
        BY <3>1, <3>4 DEF Rounds
      <4>2. CallsOf(messages[k]) = {} /\ AnswersIn(messages[k + 1]) = {}
        BY <1>2, <3>1, <3>4, <4>1
      <4> QED
        BY <3>1, <3>2, <3>4, <4>1, <4>2
    <3> QED
      BY <1>2, <3>1, <3>3, <3>4 DEF Roles
  <2>4. i \in Nat /\ Len(window) \in Nat
    BY <1>1
  <2>5. i < Len(window) \/ i = Len(window) \/ i > Len(window)
    BY <2>4
  <2> QED
    BY <2>1, <2>2, <2>3, <2>5
<1>5. joined # <<>> /\ joined[1].role = "user" /\ AnswersIn(joined[1]) = {}
  <2>1. joined[1] = window[1]
    BY <1>1
  <2> QED
    BY <1>1, <2>1 DEF AcceptedByApi
<1>6. joined[Len(joined)].role = "user"
  <2>1. CASE messages = <<>>
    <3>1. joined[Len(joined)] = window[Len(window)]
      BY <1>1, <2>1
    <3> QED
      BY <3>1 DEF AcceptedByApi
  <2>2. CASE messages # <<>>
    <3>1. joined[Len(joined)] = messages[Len(messages)]
      BY <1>1, <2>2
    <3> QED
      BY <2>2, <3>1 DEF Rounds, EndsOnUser
  <2> QED
    BY <2>1, <2>2
<1> QED
  BY <1>3, <1>4, <1>5, <1>6 DEF AcceptedByApi, joined

\* No request the API refuses (window, run_turn_until).
THEOREM RequestsAreAccepted == Spec => []RequestAccepted
<1>1. LoopInv /\ WorkInv => RequestAccepted
  <2> SUFFICES ASSUME LoopInv, WorkInv, pc \in {"request", "streaming"} PROVE AcceptedByApi(Prompt)
    BY DEF RequestAccepted
  <2>1. /\ turn.history \in Histories /\ cut \in Nat /\ produced \in Seq(Messages)
        /\ cut = 0 \/ OpensARequest(turn.history, cut)
        /\ Rounds(produced)
    BY DEF LoopInv, TypeOK, TurnTyped, CompactionTyped, CutInv, WorkInv, ProducedInv
  <2> QED
    BY <2>1, WindowAccepted, RoundsFollow DEF Prompt
<1> QED
  BY <1>1, WorkInvariant, PTL

Against(message, at) ==
  \A j \in DOMAIN message.content :
    IsThinking(message.content[j]) => message.content[j].against = at

\* The reasoning at hand was produced against what the last request withheld, which a
\* request in flight still withholds.
FreshInv ==
  /\ sentCut = None => produced = <<>>
  /\ \A i \in DOMAIN produced : Against(produced[i], sentCut)
  /\ pc \notin {"plan", "done"} => Against(Assistant(blocks), cut)

\* Every step keeps the reasoning fresh.
LEMMA FreshStep == LoopInv /\ WorkInv /\ FreshInv /\ [Next]_vars => FreshInv'
<1> SUFFICES ASSUME LoopInv, WorkInv, FreshInv, [Next]_vars PROVE FreshInv'
  OBVIOUS
<1>0. /\ produced \in Seq(Messages) /\ blocks \in Seq(Blocks)
      /\ pc \notin {"plan", "done"} => sentCut # None /\ sentCut = cut
  BY DEF LoopInv, TypeOK, TurnTyped, StreamTyped, CutInv
<1>1. CASE PlanRound
  <2>1. /\ produced' = Carried(cut') /\ sentCut' = cut' /\ blocks' = <<>>
    BY <1>1 DEF PlanRound
  <2>2. Against(Assistant(blocks'), cut')
    BY <2>1 DEF Against, Assistant
  <2>3. \A i \in DOMAIN produced' : Against(produced'[i], sentCut')
    <3>1. CASE sentCut # None /\ sentCut # cut'
      <4>1. produced' \in Seq(Reasonless)
        BY <1>0, <2>1, <3>1, DropThinkingReasonless DEF Carried
      <4>2. \A i \in DOMAIN produced' : AllBlocks(produced'[i], NotThinking)
        BY <4>1 DEF Reasonless
      <4> QED
        BY <4>2 DEF Against, AllBlocks, NotThinking
    <3>2. CASE ~(sentCut # None /\ sentCut # cut')
      <4>1. produced' = produced
        BY <2>1, <3>2 DEF Carried
      <4> QED
        BY <2>1, <3>2, <4>1 DEF FreshInv
    <3> QED
      BY <3>1, <3>2
  <2>4. sentCut' # None
    <3>1. cut' \in Nat
      BY TypeStep DEF TypeOK, CompactionTyped
    <3> QED
      BY <2>1, <3>1, NoneAssumption
  <2> QED
    BY <2>2, <2>3, <2>4 DEF FreshInv
<1>2. CASE RoundAnswered
  <2>1. /\ pc = "gate" /\ produced' = Whole /\ sentCut' = sentCut /\ pc' \in {"plan", "done"}
    BY <1>2 DEF RoundAnswered, Return, compactionVars
  <2>2. Against(Assistant(blocks), sentCut) /\ sentCut # None
    BY <1>0, <2>1 DEF FreshInv
  <2>3. Against(User(results), sentCut)
    BY <2>1 DEF WorkInv, AnswerInv, Against, User, IsResult, IsThinking
  <2>4. Assistant(blocks) \in Messages /\ User(results) \in Messages
    BY <1>0 DEF LoopInv, TypeOK, GateTyped, Assistant, User, Messages, Roles
  <2>5. \A message \in Elements(Whole) : Against(message, sentCut)
    <3>1. /\ PushedUnanswered \in Seq(Messages)
          /\ Elements(PushedUnanswered) = Elements(produced) \cup {Assistant(blocks)}
      BY <1>0, <2>4, AppendElements DEF PushedUnanswered
    <3>2. Elements(Whole) \subseteq Elements(PushedUnanswered) \cup {User(results)}
      BY <2>4, <3>1, AppendElements DEF Whole
    <3>3. \A message \in Elements(produced) : Against(message, sentCut)
      BY DEF FreshInv, Elements
    <3> QED
      BY <2>2, <2>3, <3>1, <3>2, <3>3
  <2>6. \A i \in DOMAIN produced' : Against(produced'[i], sentCut')
    BY <2>1, <2>5 DEF Elements
  <2> QED
    BY <2>1, <2>2, <2>6 DEF FreshInv
<1>3. CASE StreamText \/ StreamBlock
  <2>1. /\ UNCHANGED <<pc, produced, sentCut, cut>> /\ pc = "streaming"
    BY <1>3 DEF StreamText, StreamBlock, compactionVars
  <2>2. PICK block : /\ blocks' = Append(blocks, block)
                     /\ IsThinking(block) => block.against = cut
    <3>1. CASE StreamText
      BY <3>1 DEF StreamText, TextBlock, IsThinking
    <3>2. CASE blocks' = Append(blocks, ThinkingBlock(cut))
      BY <3>2 DEF ThinkingBlock
    <3>3. CASE \E name \in ToolNames : \E id \in CallIds \ UsedIds :
                 blocks' = Append(blocks, UseBlock(id, name))
      BY <3>3 DEF UseBlock, IsThinking
    <3> QED
      BY <1>3, <3>1, <3>2, <3>3 DEF StreamBlock
  <2>3. /\ DOMAIN blocks' = DOMAIN blocks \cup {Len(blocks) + 1}
        /\ \A i \in DOMAIN blocks : blocks'[i] = blocks[i]
        /\ blocks'[Len(blocks) + 1] = block
    BY <1>0, <2>2
  <2>4. Against(Assistant(blocks'), cut)
    BY <2>1, <2>2, <2>3 DEF FreshInv, Against, Assistant
  <2> QED
    BY <2>1, <2>4 DEF FreshInv
<1>4. CASE OutOfRounds \/ Interrupt \/ ToolPanicked \/ \E error \in Errors : StreamFails(error)
  <2>1. /\ pc' = "done" /\ UNCHANGED <<produced, sentCut>>
    BY <1>4 DEF OutOfRounds, Interrupt, ToolPanicked, StreamFails, Return, Fail, compactionVars
  <2> QED
    BY <2>1 DEF FreshInv
<1>5. CASE StreamStop \/ BeginAnswers \/ RefuseUnoffered \/ Deny \/ Abort \/ Allow \/ Park
             \/ Collect
             \/ OpenStream \/ StreamUsage \/ ToolEnds \/ StopResolves \/ UNCHANGED vars
  <2>1. /\ UNCHANGED <<produced, sentCut, cut, blocks>>
        /\ pc \in {"plan", "done"} => pc' \in {"plan", "done"}
    BY <1>5 DEF StreamStop, BeginAnswers, RefuseUnoffered, Deny, Abort, Refuse, Allow, Park,
                Collect,
                Waiting, OpenStream, StreamUsage, ToolEnds, StopResolves, vars, streamVars,
                compactionVars
  <2> QED
    BY <2>1 DEF FreshInv
<1> QED
  BY <1>1, <1>2, <1>3, <1>4, <1>5 DEF Next, Task, Stream, Over

\* Every reasoning block a request replays was produced against the very history that
\* request carries (drop_thinking, on a deepened cut).
THEOREM ReasoningIsFresh == Spec => []ReasoningFresh
<1>1. Init => FreshInv
  BY DEF Init, FreshInv
<1>2. LoopInv /\ FreshInv => ReasoningFresh
  <2> SUFFICES ASSUME LoopInv, FreshInv, pc \in {"request", "streaming"},
                      NEW i \in DOMAIN Prompt
               PROVE  Against(Prompt[i], cut)
    BY DEF ReasoningFresh, Against
  <2> DEFINE window == Window(turn.history, cut)
  <2>1. /\ window \in Seq(Messages)
        /\ \A k \in DOMAIN window : AllBlocks(window[k], NotThinking)
    <3>1. /\ turn.history \in Histories /\ cut \in Nat
          /\ cut = 0 \/ OpensARequest(turn.history, cut)
      BY DEF LoopInv, TypeOK, TurnTyped, CompactionTyped, CutInv
    <3> QED
      BY <3>1, WindowAccepted
  <2>2. produced \in Seq(Messages) /\ \A k \in DOMAIN produced : Against(produced[k], cut)
    BY DEF LoopInv, TypeOK, TurnTyped, CutInv, FreshInv
  <2>3. Prompt = window \o produced
    BY DEF Prompt
  <2> HIDE DEF window
  <2>4. \/ \E k \in DOMAIN window : Prompt[i] = window[k]
        \/ \E k \in DOMAIN produced : Prompt[i] = produced[k]
    <3>1. /\ DOMAIN Prompt = 1 .. Len(window) + Len(produced)
          /\ Len(window) \in Nat /\ Len(produced) \in Nat
          /\ DOMAIN window = 1 .. Len(window) /\ DOMAIN produced = 1 .. Len(produced)
          /\ i <= Len(window) => Prompt[i] = window[i]
          /\ i > Len(window) => Prompt[i] = produced[i - Len(window)]
      BY <2>1, <2>2, <2>3
    <3>2. CASE i <= Len(window)
      BY <3>1, <3>2
    <3>3. CASE i > Len(window)
      <4>1. i - Len(window) \in DOMAIN produced
        BY <3>1, <3>3
      <4> QED
        BY <3>1, <3>3, <4>1
    <3>4. i \in Nat /\ Len(window) \in Nat
      BY <3>1
    <3> QED
      BY <3>2, <3>3, <3>4
  <2> QED
    BY <2>1, <2>2, <2>4 DEF Against, AllBlocks, NotThinking
<1> QED
  BY <1>1, <1>2, FreshStep, WorkInvariant, PTL DEF Spec

-----------------------------------------------------------------------------
(* The promise a turn keeps. *)

\* What the caller would be handed, were the turn to end now, and how it stands.
Handed == IF Returned THEN result.messages ELSE DropThinking(produced)

Fate == IF result = None THEN "running" ELSE result.stop

\* The promise speaks of messages as the loop does.
LEMMA SameVocabulary ==
  ASSUME NEW message
  PROVE  /\ Promise!Reasonless(message) <=> HasContent(message) /\ AllBlocks(message, NotThinking)
         /\ Promise!CallsOf(message) = CallsOf(message)
         /\ Promise!AnswersIn(message) = AnswersIn(message)
         /\ Promise!AnswersOnly(message) <=> AnswersOnly(message)
<1>1. Promise!CallsOf(message) = CallsOf(message)
  BY DEF CallsOf, Promise!CallsOf, IsUse, Promise!IsUse
<1>2. Promise!AnswersIn(message) = AnswersIn(message)
  BY DEF AnswersIn, Promise!AnswersIn, IsResult, Promise!IsResult
<1>3. Promise!AnswersOnly(message) <=> AnswersOnly(message)
  BY DEF AnswersOnly, Promise!AnswersOnly, HasContent, Promise!HasContent, AllBlocks,
         Promise!AllBlocks, IsResult, Promise!IsResult
<1>4. Promise!Reasonless(message) <=> HasContent(message) /\ AllBlocks(message, NotThinking)
  BY DEF Promise!Reasonless, HasContent, Promise!HasContent, AllBlocks, Promise!AllBlocks,
         NotThinking, Promise!NotThinking, IsThinking, Promise!IsThinking
<1> QED
  BY <1>1, <1>2, <1>3, <1>4

\* A sequence is a prefix of one that holds its elements at their places.
LEMMA PrefixOf ==
  ASSUME NEW T, NEW shorter \in Seq(T), NEW longer \in Seq(T),
         Len(shorter) <= Len(longer), \A i \in DOMAIN shorter : longer[i] = shorter[i]
  PROVE  Promise!IsPrefix(shorter, longer)
<1>1. Len(shorter) \in Nat /\ Len(longer) \in Nat /\ DOMAIN shorter = 1 .. Len(shorter)
  OBVIOUS
<1>2. SubSeq(shorter, 1, Len(shorter)) = shorter
  BY SubSeqFull
<1> DEFINE start == SubSeq(longer, 1, Len(shorter))
<1>3. /\ start \in Seq(T) /\ Len(start) = Len(shorter)
      /\ \A i \in 1 .. Len(shorter) : start[i] = longer[i]
  <2>1. \A i \in 1 .. Len(shorter) : longer[i] \in T
    BY <1>1
  <2> QED
    BY <1>1, <2>1
<1>4. start = shorter
  <2> HIDE DEF start
  <2> QED
    BY <1>1, <1>3, SeqEqual
<1> QED
  BY <1>2, <1>4 DEF Promise!IsPrefix

\* What is left of a transcript of whole rounds and one more message.
LEMMA DroppedAppend ==
  ASSUME NEW messages \in Seq(Messages), NEW message \in Messages,
         \A i \in DOMAIN messages : SomeBlock(messages[i], NotThinking),
         SomeBlock(message, NotThinking)
  PROVE  DropThinking(Append(messages, message))
           = Append(DropThinking(messages), Retain(message, NotThinking))
<1> DEFINE longer == Append(messages, message)
           less == DropThinking(messages)
           last == Retain(message, NotThinking)
<1>1. /\ longer \in Seq(Messages) /\ Len(longer) = Len(messages) + 1 /\ Len(messages) \in Nat
      /\ DOMAIN longer = 1 .. Len(messages) + 1 /\ DOMAIN messages = 1 .. Len(messages)
      /\ \A i \in DOMAIN messages : longer[i] = messages[i]
      /\ longer[Len(messages) + 1] = message
  OBVIOUS
<1> HIDE DEF longer
<1>2. less = [i \in DOMAIN messages |-> Retain(messages[i], NotThinking)] /\ less \in Seq(Messages)
  BY DropThinkingElements, DropThinkingType
<1>3. DropThinking(longer) = [i \in DOMAIN longer |-> Retain(longer[i], NotThinking)]
  <2>1. \A i \in DOMAIN longer : SomeBlock(longer[i], NotThinking)
    BY <1>1
  <2> QED
    BY <1>1, <2>1, DropThinkingElements
<1>4. last \in Messages
  BY RetainReasonless
<1> HIDE DEF less, last
<1>5. Len(less) = Len(messages)
  BY <1>1, <1>2
<1>6. Append(less, last) = [i \in 1 .. Len(messages) + 1 |->
                              IF i = Len(messages) + 1 THEN last ELSE less[i]]
  BY <1>1, <1>2, <1>4, <1>5
<1>7. \A i \in 1 .. Len(messages) + 1 :
        Retain(longer[i], NotThinking) = IF i = Len(messages) + 1 THEN last ELSE less[i]
  BY <1>1, <1>2 DEF last
<1> QED
  BY <1>1, <1>3, <1>6, <1>7 DEF longer, less, last

\* What the loop hands over of a transcript it has not finished.
LEMMA KeptSoFar ==
  ASSUME LoopInv, WorkInv, pc # "done"
  PROVE  /\ DropThinking(produced) \in Seq(Messages)
         /\ Len(DropThinking(produced)) = 2 * round
         /\ \A i \in DOMAIN produced : SomeBlock(produced[i], NotThinking)
<1>1. produced \in Seq(Messages) /\ Rounds(produced) /\ Len(produced) = 2 * round
  BY DEF LoopInv, TypeOK, TurnTyped, WorkInv, ProducedInv
<1> QED
  BY <1>1, RoundsKept, DropThinkingType DEF Rounds

\* A sequence of messages and one more.
LEMMA OneMore ==
  ASSUME NEW messages \in Seq(Messages), NEW message \in Messages
  PROVE  LET longer == Append(messages, message)
         IN  /\ longer \in Seq(Messages) /\ Len(longer) = Len(messages) + 1
             /\ Promise!IsPrefix(messages, longer)
             /\ longer[Len(messages) + 1] = message
<1> DEFINE longer == Append(messages, message)
<1>1. /\ longer \in Seq(Messages) /\ Len(longer) = Len(messages) + 1 /\ Len(messages) \in Nat
      /\ \A i \in DOMAIN messages : longer[i] = messages[i]
      /\ longer[Len(messages) + 1] = message
  OBVIOUS
<1>2. Promise!IsPrefix(messages, longer)
  <2> HIDE DEF longer
  <2> QED
    BY <1>1, PrefixOf
<1> QED
  BY <1>1, <1>2

\* A sequence of messages and two more.
LEMMA TwoMore ==
  ASSUME NEW messages \in Seq(Messages), NEW asked \in Messages, NEW answer \in Messages
  PROVE  LET longer == Append(Append(messages, asked), answer)
         IN  /\ longer \in Seq(Messages) /\ Len(longer) = Len(messages) + 2
             /\ Promise!IsPrefix(messages, longer)
             /\ longer[Len(messages) + 1] = asked
             /\ longer[Len(messages) + 2] = answer
<1> DEFINE longer == Append(Append(messages, asked), answer)
<1>1. /\ longer \in Seq(Messages) /\ Len(longer) = Len(messages) + 2 /\ Len(messages) \in Nat
      /\ \A i \in DOMAIN messages : longer[i] = messages[i]
      /\ longer[Len(messages) + 1] = asked
      /\ longer[Len(messages) + 2] = answer
  OBVIOUS
<1>2. Promise!IsPrefix(messages, longer)
  <2> HIDE DEF longer
  <2> QED
    BY <1>1, PrefixOf
<1> QED
  BY <1>1, <1>2

\* The message that asks, as the caller is handed it.
LEMMA AskedKept ==
  ASSUME LoopInv, WorkInv, pc = "gate", ~Undecided
  PROVE  LET kept == Retain(Assistant(blocks), NotThinking)
         IN  /\ kept \in Messages /\ kept.role = "assistant" /\ Promise!Reasonless(kept)
             /\ CallsOf(kept) = CallsOf(Assistant(blocks))
<1> DEFINE asked == Assistant(blocks)
           kept == Retain(asked, NotThinking)
<1>1. asked \in Messages /\ SomeBlock(asked, NotThinking) /\ asked.role = "assistant"
  BY WholeFacts DEF Assistant
<1> HIDE DEF asked
<1>2. kept \in Messages /\ kept.role = "assistant" /\ AllBlocks(kept, NotThinking)
  BY <1>1, RetainReasonless
<1>3. CallsOf(kept) = CallsOf(asked) /\ HasContent(kept)
  BY <1>1, RetainKeepsIds
<1>4. Promise!Reasonless(kept)
  BY <1>2, <1>3, SameVocabulary
<1> QED
  BY <1>2, <1>3, <1>4 DEF asked

\* A round answered to the last call adds the message that asked and the answer to all of
\* it, or, where it asked nothing, the reply alone.
LEMMA WholeKept ==
  ASSUME LoopInv, WorkInv, pc = "gate", ~Undecided,
         NEW before, before = DropThinking(produced),
         NEW after, after = DropThinking(Whole)
  PROVE  /\ Promise!IsPrefix(before, after)
         /\ results # <<>> =>
              /\ Len(after) = Len(before) + 2
              /\ Promise!Asks(after[Len(before) + 1])
              /\ Promise!Answers(after[Len(before) + 2], after[Len(before) + 1])
         /\ results = <<>> =>
              /\ Len(after) = Len(before) + 1
              /\ Promise!Replies(after[Len(before) + 1])
<1> DEFINE asked == Assistant(blocks)
           keptAsked == Retain(asked, NotThinking)
           answer == User(results)
<1>1. /\ produced \in Seq(Messages) /\ asked \in Messages /\ answer \in Messages
      /\ SomeBlock(asked, NotThinking)
      /\ AnswersIn(answer) = CallsOf(asked)
      /\ results # <<>> => AnswersOnly(answer) /\ CallsOf(asked) # {}
      /\ results = <<>> => CallsOf(asked) = {}
      /\ answer.role = "user"
  BY WholeFacts DEF LoopInv, TypeOK, TurnTyped, User
<1>2. Whole = IF results = <<>> THEN Append(produced, asked)
              ELSE Append(Append(produced, asked), answer)
  BY DEF Whole, PushedUnanswered
<1>3. /\ keptAsked \in Messages /\ keptAsked.role = "assistant" /\ Promise!Reasonless(keptAsked)
      /\ CallsOf(keptAsked) = CallsOf(asked)
  BY AskedKept
<1>4. before \in Seq(Messages) /\ \A i \in DOMAIN produced : SomeBlock(produced[i], NotThinking)
  BY KeptSoFar
<1> HIDE DEF asked, answer
<1>5. DropThinking(Append(produced, asked)) = Append(before, keptAsked)
  BY <1>1, <1>4, DroppedAppend
<1> HIDE DEF keptAsked
<1>6. CASE results = <<>>
  <2>1. after = Append(before, keptAsked)
    BY <1>2, <1>5, <1>6
  <2>2. /\ Len(after) = Len(before) + 1 /\ Promise!IsPrefix(before, after)
        /\ after[Len(before) + 1] = keptAsked
    BY <1>3, <1>4, <2>1, OneMore
  <2>3. Promise!CallsOf(keptAsked) = {}
    BY <1>1, <1>3, <1>6, SameVocabulary
  <2> QED
    BY <1>3, <1>6, <2>2, <2>3 DEF Promise!Replies
<1>7. CASE results # <<>>
  <2>1. DropThinking(Whole) = Append(Append(before, keptAsked), answer)
    <3> DEFINE pushed == Append(produced, asked)
    <3>1. pushed \in Seq(Messages) /\ \A i \in DOMAIN pushed : SomeBlock(pushed[i], NotThinking)
      BY <1>1, <1>4
    <3>2. Retain(answer, NotThinking) = answer /\ SomeBlock(answer, NotThinking)
      BY <1>1, <1>7, AnswersKept
    <3>3. Whole = Append(pushed, answer)
      BY <1>2, <1>7
    <3> HIDE DEF pushed
    <3>4. DropThinking(Whole) = Append(DropThinking(pushed), answer)
      BY <1>1, <3>1, <3>2, <3>3, DroppedAppend
    <3> QED
      BY <1>5, <3>4 DEF pushed
  <2>2. /\ Len(after) = Len(before) + 2 /\ Promise!IsPrefix(before, after)
        /\ after[Len(before) + 1] = keptAsked /\ after[Len(before) + 2] = answer
    BY <1>1, <1>3, <1>4, <2>1, TwoMore
  <2>3. Promise!CallsOf(keptAsked) = CallsOf(asked) /\ Promise!AnswersIn(answer) = CallsOf(asked)
    BY <1>1, <1>3, SameVocabulary
  <2>4. Promise!AnswersOnly(answer)
    BY <1>1, <1>7, SameVocabulary
  <2>5. Promise!Asks(keptAsked)
    BY <1>1, <1>3, <1>7, <2>3 DEF Promise!Asks
  <2>6. Promise!Answers(answer, keptAsked)
    BY <1>1, <2>3, <2>4 DEF Promise!Answers
  <2> QED
    BY <1>7, <2>2, <2>5, <2>6
<1> QED
  BY <1>6, <1>7

\* The promise's steps, in the loop's terms.
LEMMA PromiseSteps ==
  /\ Promise!Init <=> Handed = <<>> /\ Fate = "running"
  /\ UNCHANGED Promise!promiseVars <=> UNCHANGED <<Handed, Fate>>
  /\ Promise!WholeRound <=>
       /\ Fate = "running" /\ Len(Handed) < 2 * MaxRounds
       /\ Promise!IsPrefix(Handed, Handed') /\ Len(Handed') = Len(Handed) + 2
       /\ Promise!Asks(Handed'[Len(Handed) + 1])
       /\ Promise!Answers(Handed'[Len(Handed) + 2], Handed'[Len(Handed) + 1])
       /\ Fate' \in {"running", "gate_aborted"}
  /\ Promise!Reply <=>
       /\ Fate = "running" /\ Len(Handed) < 2 * MaxRounds
       /\ Promise!IsPrefix(Handed, Handed') /\ Len(Handed') = Len(Handed) + 1
       /\ Promise!Replies(Handed'[Len(Handed) + 1])
       /\ Fate' = "answered"
  /\ Promise!SilentReply <=>
       Fate = "running" /\ Handed = <<>> /\ Fate' = "answered" /\ Handed' = Handed
  /\ Promise!OutOfRounds <=>
       Fate = "running" /\ Len(Handed) = 2 * MaxRounds /\ Fate' = "round_limit" /\ Handed' = Handed
  /\ Promise!BreaksOff <=>
       Fate = "running" /\ Fate' \in {"interrupted", "failed"} /\ Handed' = Handed
BY DEF Promise!Init, Promise!promiseVars, Promise!WholeRound, Promise!Grows, Promise!Reply,
       Promise!SilentReply, Promise!OutOfRounds, Promise!BreaksOff, Handed, Fate

\* While a turn runs the caller would be handed the rounds so far; one that returns hands
\* over what it returns with; one that fails, nothing more.
LEMMA HandedOver ==
  ASSUME LoopInv, FigureInv, FigureInv', pc # "done"
  PROVE  /\ Fate = "running" /\ Handed = DropThinking(produced)
         /\ pc' # "done" => Fate' = "running" /\ Handed' = DropThinking(produced')
         /\ \A messages, used, withheld, why : \A stop \in Stops :
              Return(messages, used, withheld, stop, why) =>
                Fate' = stop /\ Handed' = DropThinking(messages)
         /\ \A error \in Errors :
              Fail(error) => Fate' = "failed" /\ Handed' = DropThinking(produced')
<1>1. result = None /\ (result' = None <=> pc' # "done")
  BY DEF FigureInv
<1>2. Fate = "running" /\ Handed = DropThinking(produced)
  BY <1>1 DEF Fate, Handed, Returned
<1>3. pc' # "done" => Fate' = "running" /\ Handed' = DropThinking(produced')
  BY <1>1 DEF Fate, Handed, Returned
<1>4. ASSUME NEW messages, NEW used, NEW withheld, NEW why, NEW stop \in Stops,
             Return(messages, used, withheld, stop, why)
      PROVE  Fate' = stop /\ Handed' = DropThinking(messages)
  <2>1. pc' = "done" /\ result'.stop = stop /\ result'.messages = DropThinking(messages)
    BY <1>4 DEF Return, Outcome
  <2> QED
    BY <1>1, <2>1 DEF Fate, Handed, Returned, Stops
<1>5. ASSUME NEW error \in Errors, Fail(error)
      PROVE  Fate' = "failed" /\ Handed' = DropThinking(produced')
  <2>1. pc' = "done" /\ result'.stop = "failed"
    BY <1>5 DEF Fail
  <2> QED
    BY <1>1, <2>1 DEF Fate, Handed, Returned
<1> QED
  BY <1>2, <1>3, <1>4, <1>5

\* Every step of the loop is a step of the promise, or leaves it as it is.
LEMMA PromiseStep ==
  LoopInv /\ FigureInv /\ WorkInv /\ [Next]_vars => [Promise!Next]_(Promise!promiseVars)
<1> SUFFICES ASSUME LoopInv, FigureInv, WorkInv, [Next]_vars
             PROVE  Promise!Next \/ UNCHANGED <<Handed, Fate>>
  BY PromiseSteps
<1> USE DEF Promise!Next
<1>0. /\ produced \in Seq(Messages) /\ round \in Nat /\ round <= MaxRounds /\ MaxRounds \in Nat
      /\ FigureInv'
  BY BoundsAssumption, FigureStep DEF LoopInv, TypeOK, TurnTyped
<1>1. CASE PlanRound
  <2>1. produced' = Carried(cut') /\ pc = "plan" /\ pc' = "request"
    BY <1>1 DEF PlanRound
  <2>2. DropThinking(Carried(cut')) = DropThinking(produced)
    BY <1>0, DropThinkingAgain DEF Carried
  <2> QED
    BY <1>0, <2>1, <2>2, HandedOver
<1>2. CASE OutOfRounds
  <2>1. pc = "plan" /\ ~RoundsLeft /\ Return(produced, usage, cut, "round_limit", lastStop)
    BY <1>2 DEF OutOfRounds
  <2>2. Len(DropThinking(produced)) = 2 * MaxRounds
    BY <1>0, <2>1, KeptSoFar DEF RoundsLeft
  <2>3. Promise!OutOfRounds
    BY <1>0, <2>1, <2>2, HandedOver, PromiseSteps DEF Stops
  <2> QED
    BY <2>3
<1>3. CASE Interrupt
  <2>1. pc # "done" /\ Return(produced, usage, streamedCut, "interrupted", lastStop)
    BY <1>3 DEF Interrupt
  <2>2. Promise!BreaksOff
    BY <1>0, <2>1, HandedOver, PromiseSteps DEF Stops
  <2> QED
    BY <2>2
<1>4. CASE ToolPanicked \/ \E error \in Errors : StreamFails(error)
  <2>1. PICK error \in Errors : Fail(error)
    BY <1>4 DEF ToolPanicked, StreamFails, Errors
  <2>2. pc # "done" /\ produced' = produced
    BY <1>4 DEF ToolPanicked, Waiting, StreamFails
  <2>3. Promise!BreaksOff
    BY <1>0, <2>1, <2>2, HandedOver, PromiseSteps
  <2> QED
    BY <2>3
<1>5. CASE StreamStop
  <2>1. pc = "streaming" /\ produced' = produced
    BY <1>5 DEF StreamStop
  <2>2. CASE Fail("ended_mid_tool_use")
    <3>1. Promise!BreaksOff
      BY <1>0, <2>1, <2>2, HandedOver, PromiseSteps DEF Errors
    <3> QED
      BY <3>1
  <2>3. CASE ~EndsOnUser(produced) /\ Return(produced, usage', cut, "answered", lastStop')
    <3>1. produced = <<>>
      BY <2>1, <2>3 DEF WorkInv, ProducedInv, Rounds
    <3>2. DropThinking(produced) = <<>>
      <4>1. Len(DropThinking(produced)) = 2 * round /\ DropThinking(produced) \in Seq(Messages)
        BY <2>1, KeptSoFar
      <4>2. round = 0
        <5>1. Len(produced) = 2 * round
          BY <2>1 DEF WorkInv, ProducedInv
        <5>2. Len(produced) = 0
          BY <3>1
        <5> QED
          BY <1>0, <5>1, <5>2
      <4> QED
        BY <4>1, <4>2
    <3>3. Promise!SilentReply
      BY <1>0, <2>1, <2>3, <3>2, HandedOver, PromiseSteps DEF Stops
    <3> QED
      BY <3>3
  <2>4. CASE pc' = "answering"
    BY <1>0, <2>1, <2>4, HandedOver
  <2> QED
    BY <1>5, <2>2, <2>3, <2>4 DEF StreamStop
<1>6. CASE RoundAnswered
  <2>1. pc = "gate" /\ ~Undecided /\ produced' = Whole
    BY <1>6 DEF RoundAnswered
  <2>2. round < MaxRounds
    BY <2>1 DEF LoopInv, RoundInv
  <2>3. Len(DropThinking(produced)) < 2 * MaxRounds
    BY <1>0, <2>1, <2>2, KeptSoFar
  <2> DEFINE before == DropThinking(produced)
             after == DropThinking(Whole)
  <2>4. /\ Promise!IsPrefix(before, after)
        /\ results # <<>> =>
             /\ Len(after) = Len(before) + 2
             /\ Promise!Asks(after[Len(before) + 1])
             /\ Promise!Answers(after[Len(before) + 2], after[Len(before) + 1])
        /\ results = <<>> =>
             /\ Len(after) = Len(before) + 1
             /\ Promise!Replies(after[Len(before) + 1])
    BY <2>1, WholeKept
  <2>5. /\ Fate = "running" /\ Handed = before /\ Handed' = after
        /\ results # <<>> => Fate' \in {"running", "gate_aborted"}
        /\ results = <<>> => Fate' = "answered"
    <3>1. CASE TurnGoesOn /\ pc' = "plan"
      BY <1>0, <2>1, <3>1, HandedOver DEF TurnGoesOn
    <3>2. CASE /\ ~TurnGoesOn
               /\ Return(Whole, usage, cut,
                         IF aborted THEN "gate_aborted" ELSE "answered", lastStop)
      <4> DEFINE stop == IF aborted THEN "gate_aborted" ELSE "answered"
      <4>1. aborted => results # <<>>
        BY <2>1 DEF WorkInv, AnswerInv
      <4>2. stop \in Stops /\ (results # <<>> => stop = "gate_aborted")
            /\ (results = <<>> => stop = "answered")
        BY <3>2, <4>1 DEF Stops, TurnGoesOn
      <4>3. Return(Whole, usage, cut, stop, lastStop)
        BY <3>2
      <4> HIDE DEF stop
      <4>4. Fate' = stop /\ Handed' = after /\ Fate = "running" /\ Handed = before
        BY <1>0, <2>1, <4>2, <4>3, HandedOver
      <4> QED
        BY <4>2, <4>4
    <3> QED
      BY <1>6, <3>1, <3>2 DEF RoundAnswered
  <2>6. CASE results # <<>>
    <3>1. Promise!WholeRound
      BY <2>3, <2>4, <2>5, <2>6, PromiseSteps
    <3> QED
      BY <3>1
  <2>7. CASE results = <<>>
    <3>1. Promise!Reply
      BY <2>3, <2>4, <2>5, <2>7, PromiseSteps
    <3> QED
      BY <3>1
  <2> QED
    BY <2>6, <2>7
<1>7. CASE BeginAnswers \/ RefuseUnoffered \/ Deny \/ Abort \/ Allow \/ Park \/ Collect
             \/ OpenStream \/ StreamText \/ StreamBlock \/ StreamUsage
             \/ ToolEnds \/ StopResolves \/ UNCHANGED vars
  <2>1. produced' = produced /\ result' = result
    BY <1>7 DEF BeginAnswers, RefuseUnoffered, Deny, Abort, Refuse, Allow, Park, Collect, Waiting,
                OpenStream, StreamText, StreamBlock, StreamUsage, ToolEnds, StopResolves, vars
  <2> QED
    BY <2>1 DEF Handed, Fate, Returned
<1> QED
  BY <1>1, <1>2, <1>3, <1>4, <1>5, <1>6, <1>7 DEF Next, Task, Stream, Over

\* The loop keeps the promise a turn makes to its caller (run_turn_until).
THEOREM LoopKeepsPromise == Spec => KeepsPromise
<1>1. Init => Promise!Init
  <2> SUFFICES ASSUME Init PROVE Handed = <<>> /\ Fate = "running"
    BY PromiseSteps
  <2>1. produced = <<>> /\ result = None
    BY DEF Init
  <2>2. DropThinking(<<>>) = <<>>
    <3> DEFINE empty == <<>>
               less == DropThinking(empty)
    <3>1. empty \in Seq(Messages) /\ DOMAIN empty = {}
      OBVIOUS
    <3> HIDE DEF empty
    <3>2. less \in Seq(Messages)
      BY <3>1, DropThinkingType
    <3>3. less = [i \in DOMAIN empty |-> Retain(empty[i], NotThinking)]
      BY <3>1, DropThinkingElements
    <3>4. DOMAIN less = {}
      BY <3>1, <3>3
    <3> HIDE DEF less
    <3>5. less = <<>>
      BY <3>1, <3>2, <3>4
    <3> QED
      BY <3>5 DEF less, empty
  <2> QED
    BY <2>1, <2>2 DEF Handed, Fate, Returned
<1>2. LoopInv /\ FigureInv /\ WorkInv /\ [Next]_vars => [Promise!Next]_(Promise!promiseVars)
  BY PromiseStep
<1> QED
  BY <1>1, <1>2, WorkInvariant, PTL DEF Spec, KeepsPromise, Promise!Spec
=============================================================================
