--------------------------------- MODULE Tui ---------------------------------
(***************************************************************************)
(* sandbx-cli's tui: one turn drawn on a screen a key can stop, from the   *)
(* hold on the audit trail to the account on a terminal given back.        *)
(*                                                                         *)
(* Keys and AuditHold are the threads and the trail it works with; the     *)
(* turn itself is TurnLoop's, here a run of calls that ends in one of its  *)
(* ways, with a tool on a thread nothing cancels.  Its gate never aborts:  *)
(* it has no terminal to ask.  A signal is not a step: what it would lose  *)
(* is what is in memory alone.                                             *)
(***************************************************************************)
EXTENDS Keys, AuditHold

VARIABLES
  pc,           \* where drive is
  errOn,        \* what stderr is: the terminal drawn on, another, or a file
  screen,       \* the alternate screen is up
  drawFailed,   \* a draw failed; none is tried again
  tool,         \* the thread of the call under way, None without one
  running,      \* the pane's: a call was allowed and has not settled
  driven,       \* what the turn's futures came to
  code,         \* the exit code, 1 for an error main prints, None so far
  stored,       \* the stop the session was given, None if nothing is kept
  said,         \* the account: what was noted for the operator
  printed,      \* what of the account stdout took, None before the reprint
  told          \* what of it stderr took

\* An option that is none is no value there is.
ASSUME NoneAssumption ==
  None \notin {"running", "ended", "pressed", "gone", "summarised", "discarded", "cut_short",
               "answered", "hung_up"}

drawn == <<screen, drawFailed>>
calls == <<tool, running>>
outcome == <<driven, code, stored>>
account == <<said, printed, told>>
runVars == <<holdVars, pc, errOn, drawn, calls, outcome, account>>
vars == <<keysVars, runVars>>

Driving == {"turn", "wrap"}

Redirected == errOn = "file"

\* stderr takes writes, and nothing covers it.
StderrLives == errOn # "screen" \/ "out" \notin hung
Reaches == StderrLives /\ (errOn = "screen" => ~screen)

Init ==
  /\ KeysInit /\ HoldInit
  /\ pc = "hold" /\ errOn \in {"screen", "other", "file"}
  /\ screen = FALSE /\ drawFailed = FALSE
  /\ tool = None /\ running = FALSE
  /\ driven = None /\ code = None /\ stored = None
  /\ said = (IF Redirected THEN {} ELSE {"approved"}) /\ printed = None /\ told = {}

-----------------------------------------------------------------------------
(* Taking the terminal. *)

\* held: any terminal's trail, not only that of the one drawn on.
TakesHold ==
  /\ pc = "hold" /\ pc' = "enter"
  /\ IF Redirected THEN UNCHANGED holdVars ELSE Hold
  /\ UNCHANGED <<keysVars, errOn, drawn, calls, outcome, account>>

\* Screen::enter, then the keys: without raw mode ctrl-c would be a signal.
Enters ==
  /\ pc = "enter"
  /\ \/ /\ "out" \notin hung
        /\ screen' = TRUE /\ Listen /\ pc' = "turn"
        /\ UNCHANGED code
     \/ code' = 1 /\ pc' = "take" /\ UNCHANGED <<keysVars, screen>>
  /\ UNCHANGED <<holdVars, errOn, drawFailed, calls, driven, stored, account>>

-----------------------------------------------------------------------------
(* The turn. *)

\* Screen::draw: a failure is latched.
Paint == drawFailed' = (drawFailed \/ "out" \in hung)

\* Pane::note, onto the screen and into the account.
Note(line) == said' = said \cup {line}

\* An event of the turn or its wrap-up, drawn.
Paints ==
  /\ pc \in Driving /\ Paint
  /\ UNCHANGED <<keysVars, holdVars, pc, errOn, screen, calls, outcome, account>>

\* Gate::approve, and the thread the loop then starts.
Allows ==
  /\ pc = "turn" /\ tool = None
  /\ tool' = "running" /\ running' = TRUE
  /\ UNCHANGED <<keysVars, holdVars, pc, errOn, drawn, outcome, account>>

ToolEmits ==
  /\ tool = "running" /\ Emit(Reaches)
  /\ UNCHANGED <<keysVars, pc, errOn, drawn, calls, outcome, account>>

ToolEnds ==
  /\ tool = "running" /\ tool' = "ended"
  /\ UNCHANGED <<keysVars, holdVars, pc, errOn, drawn, running, outcome, account>>

\* Mutant: a settled call stays the one that is running.
RunningAsBefore == running
RunningSettled == FALSE

\* Gate::settled.
Settles ==
  /\ pc = "turn" /\ tool = "ended"
  /\ tool' = None /\ running' = RunningSettled
  /\ Paint /\ Note("settled")
  /\ UNCHANGED <<keysVars, holdVars, pc, errOn, screen, outcome, printed, told>>

Finished(unfinished, truncated) ==
  [how |-> "finished", by |-> None, unfinished |-> unfinished, truncated |-> truncated]
CutOff(how, truncated) ==
  [how |-> how, by |-> StopSeen, unfinished |-> None, truncated |-> truncated]
Failed == [how |-> "failed", by |-> None, unfinished |-> None, truncated |-> FALSE]

\* The turn ends on its own: an answer, an error, or out of rounds, with or without
\* asking once more.
TurnEnds ==
  /\ pc = "turn" /\ tool = None
  /\ \/ /\ driven' \in {Failed} \cup [how : {"finished"}, by : {None},
                                    unfinished : {None, "cut_short"}, truncated : BOOLEAN]
        /\ pc' = "account" /\ Unheard /\ UNCHANGED account
     \/ /\ pc' = "wrap" /\ Note("asking")
        /\ UNCHANGED <<driven, keysVars, printed, told>>
  /\ UNCHANGED <<holdVars, errOn, drawn, calls, code, stored>>

TurnStops ==
  /\ pc = "turn" /\ StopSeen # None
  /\ driven' = CutOff("stopped", FALSE) /\ pc' = "account"
  /\ Unheard
  /\ UNCHANGED <<holdVars, errOn, drawn, calls, code, stored, account>>

\* wrapup::run and the keys in an unbiased select: whichever is ready may win.
WrapEnds ==
  /\ pc = "wrap" /\ pc' = "account" /\ Unheard
  /\ \/ driven' \in {Finished("summarised", cut) : cut \in BOOLEAN} /\ UNCHANGED said
     \/ /\ driven' \in {Finished(how, cut) : how \in {"discarded", "cut_short"}, cut \in BOOLEAN}
        /\ Note("unanswered")
  /\ UNCHANGED <<holdVars, errOn, drawn, calls, code, stored, printed, told>>

WrapStops ==
  /\ pc = "wrap" /\ StopSeen # None
  /\ driven' \in {CutOff("stopped_wrapping", cut) : cut \in BOOLEAN} /\ pc' = "account"
  /\ Unheard
  /\ UNCHANGED <<holdVars, errOn, drawn, calls, code, stored, account>>

-----------------------------------------------------------------------------
(* The account. *)

StopCode(by) == IF by = "pressed" THEN 2 ELSE 3

\* ending: a bound that cut the turn, and one that cut its answer.
EndingCode(unfinished, truncated) == IF unfinished # None \/ truncated THEN 2 ELSE 0
EndingSaid(unfinished, truncated) ==
  (IF unfinished # None THEN {unfinished} ELSE {})
    \cup (IF truncated THEN {"truncated"} ELSE {})

\* Mutant: stopped as it wraps up, the turn takes the code of its cap.
CodeOfCap ==
  CASE driven.how = "stopped" -> StopCode(driven.by)
    [] driven.how = "stopped_wrapping" -> EndingCode("cut_short", FALSE)
    [] driven.how = "finished" -> EndingCode(driven.unfinished, driven.truncated)
    [] driven.how = "failed" -> 1

CodeOf ==
  CASE driven.how \in {"stopped", "stopped_wrapping"} -> StopCode(driven.by)
    [] driven.how = "finished" -> EndingCode(driven.unfinished, driven.truncated)
    [] driven.how = "failed" -> 1

\* A failed turn's error is main's to print, but for a redirected stderr it is in the
\* reprint as well.
SaidOf ==
  CASE driven.how = "stopped" -> {driven.by} \cup (IF running THEN {"still_running"} ELSE {})
    [] driven.how = "stopped_wrapping" -> {driven.by} \cup EndingSaid("cut_short", driven.truncated)
    [] driven.how = "finished" -> EndingSaid(driven.unfinished, driven.truncated)
    [] driven.how = "failed" -> {}

StoredOf ==
  CASE driven.how = "stopped" -> IF driven.by = "pressed" THEN "interrupted" ELSE "hung_up"
    [] driven.how = "stopped_wrapping" -> "round_limit"
    [] driven.how = "finished" ->
         CASE driven.unfinished = None -> "answered"
           [] driven.unfinished = "summarised" -> "summarised"
           [] OTHER -> "round_limit"
    [] driven.how = "failed" -> None

\* accounted, and the save, whose failure costs the code alone.
Accounts ==
  /\ pc = "account" /\ pc' = "leave"
  /\ running' = FALSE
  /\ said' = said \cup SaidOf
  /\ \/ code' = CodeOf /\ stored' \in {StoredOf, None}
     \/ StoredOf # None /\ code' = 1 /\ stored' = None
  /\ UNCHANGED <<keysVars, holdVars, errOn, drawn, tool, driven, printed, told>>

LeavesScreen ==
  /\ pc = "leave" /\ pc' = "take"
  /\ screen' = FALSE
  /\ UNCHANGED <<keysVars, holdVars, errOn, drawFailed, calls, outcome, account>>

TakesTrail ==
  /\ pc = "take" /\ pc' = "release" /\ Take
  /\ UNCHANGED <<keysVars, errOn, drawn, calls, outcome, account>>

\* A turn that was never drawn, or that panicked, is not reprinted.
WritesTrail ==
  /\ pc = "release" /\ WriteTaken(Reaches)
  /\ pc' = IF driven = None THEN "returned" ELSE "reprint"
  /\ UNCHANGED <<keysVars, errOn, drawn, calls, outcome, account>>

\* Mutant: the thread of a call still under way is waited for first.
ReprintsAfterTool ==
  /\ pc = "reprint" /\ tool # "running" /\ pc' = "tell"
  /\ printed' = IF "out" \in hung THEN {} ELSE {"transcript"} \cup said
  /\ UNCHANGED <<keysVars, holdVars, errOn, drawn, calls, outcome, said, told>>

\* given_back: the transcript, which has every line of the account in it.
Reprints ==
  /\ pc = "reprint" /\ pc' = "tell"
  /\ printed' = IF "out" \in hung THEN {} ELSE {"transcript"} \cup said
  /\ UNCHANGED <<keysVars, holdVars, errOn, drawn, calls, outcome, said, told>>

\* Mutant: the account is only for a stderr that went elsewhere.
TellsRedirected == Redirected
TellsStderr == Redirected \/ printed = {}

Tells ==
  /\ pc = "tell" /\ pc' = "returned"
  /\ told' = IF ~StderrLives THEN {}
             ELSE (IF TellsStderr THEN said ELSE {})
                  \cup (IF code # 1 /\ drawFailed THEN {"undrawn"} ELSE {})
  /\ UNCHANGED <<keysVars, holdVars, errOn, drawn, calls, outcome, said, printed>>

\* main prints the error, and the runtime's drop waits for the tool's thread.
Exits ==
  /\ pc = "returned" /\ tool # "running"
  /\ pc' = "exited"
  /\ told' = told \cup (IF code = 1 /\ StderrLives THEN {"error"} ELSE {})
  /\ UNCHANGED <<keysVars, holdVars, errOn, drawn, calls, outcome, said, printed>>

\* A panic of drive's unwinds past the screen and the hold, in that order.
Panics ==
  /\ pc \in Driving
  /\ pc' = "take" /\ screen' = FALSE /\ driven' = None /\ code' = 101
  /\ Unheard
  /\ UNCHANGED <<holdVars, errOn, drawFailed, calls, stored, account>>

Task ==
  \/ TakesHold \/ Enters \/ Paints \/ Allows \/ Settles \/ TurnEnds \/ TurnStops
  \/ WrapEnds \/ WrapStops \/ Accounts \/ LeavesScreen \/ TakesTrail \/ WritesTrail
  \/ Reprints \/ Tells \/ Exits \/ Panics

Listening == pc \in Driving

Next ==
  /\ pc # "exited"
  /\ \/ Task \/ ToolEmits \/ ToolEnds
     \/ Listening /\ KeysNext /\ UNCHANGED runVars
     \/ HangUp /\ UNCHANGED runVars

Spec == Init /\ [][Next]_vars

\* The runtime polls a task that was woken, and the kernel runs the two threads; no
\* turn, tool or wrap-up owes anyone an end.
FairSpec ==
  /\ Spec
  /\ WF_vars(TurnStops) /\ WF_vars(WrapStops)
  /\ WF_vars(Accounts \/ LeavesScreen \/ TakesTrail \/ WritesTrail \/ Reprints \/ Tells)
  /\ WF_vars(Listening /\ ReaderSteps /\ UNCHANGED runVars)
  /\ WF_vars(Listening /\ WatcherWakes /\ UNCHANGED runVars)

-----------------------------------------------------------------------------
(* Properties. *)

Ended == pc \in {"returned", "exited"}

\* A stop typed while the turn or its wrap-up is under way ends it and brings drive
\* back, its account written, whatever was typed before it and however long the tool
\* takes, unless the terminal or the reader fails while the turn still waits for it.
PressEndsRun ==
  (pc \in Driving /\ "stop" \in ToSet(tty \o parsed))
    ~> (Ended \/ (pc \in Driving /\ (HungUp \/ reader \in {None, "failed"})))

\* A hangup brings drive back too, even with the reader lost inside crossterm for good,
\* unless the watcher fails while the turn waits.
HangupEndsRun ==
  (pc \in Driving /\ HungUp) ~> (Ended \/ (pc \in Driving /\ watcher \in {None, "failed"}))

\* No record of the trail is written under the screen, or twice, or out of its order
\* but for those held, which a thread still running may overtake; from the reprint on
\* no signal can lose one; and a run that returned left every record on stderr.
TrailDelivered ==
  /\ StderrLives => swallowed = {}
  /\ IsInjective(stderr) /\ OnlyHeldOvertaken
  /\ Redirected \/ pc \in {"reprint", "tell", "returned", "exited"} => InMemory = {}

\* The lines that account for an exit code.
Causes == {"pressed", "gone", "still_running", "summarised", "discarded", "cut_short", "truncated"}

\* What the run says of its end is true, and is said where someone can read it: a
\* hangup's 3 and line need a hangup, and no stop seen before it; nobody is told they
\* interrupted who did not; a call that goes on unseen is named, and no other; what was
\* stored agrees; and unless both streams are dead the whole account is on one of them,
\* on the screen's own terminal only once.
AccountTold ==
  pc \in {"reprint", "tell", "returned", "exited"} /\ driven # None =>
    /\ "gone" \in said => HungUp /\ ~seen.stop /\ code \in {3, 1}
    /\ code = 3 => "gone" \in said
    /\ "pressed" \in said => seen.stop /\ code \in {2, 1}
    /\ tool # None <=> "still_running" \in said
    /\ code = 0 => said \cap Causes = {}
    /\ stored = "hung_up" => code = 3
    /\ stored = "answered" => code = 0 \/ said \cap Causes = {"truncated"}
    /\ pc \in {"returned", "exited"} =>
         /\ said \subseteq printed \/ said \subseteq told \/ ~StderrLives
         /\ errOn = "screen" => printed \cap told = {}
=============================================================================
