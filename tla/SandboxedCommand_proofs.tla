----------------------- MODULE SandboxedCommand_proofs -----------------------
(***************************************************************************)
(* What a command is started under, who watches it, and what the call says *)
(* of it on the trail and in its result: for any number of deaths of a     *)
(* stage, replacements of the program, sets of degraded steps and ways a   *)
(* command may end.                                                        *)
(***************************************************************************)
EXTENDS SandboxedCommand, Compaction_proofs

\* Where stage 2 is once it left a step behind.
Started == {"drop", "reap"}
Ruled == Started \cup {"open", "verify", "start"}
Filtered == Ruled \cup {"ruleset"}
Watched == Filtered \cup {"filter"}
Bound == Watched \cup {"confirm"}
Claimed == Bound \cup {"bind"}
Places == Claimed \cup {Nothing, "claim", "refuse", "quit", "dead", "find_self", "prepare", "report",
                        "spawn", "wait"}

\* The stages and tasks are where the code puts them; stage 2 is stage 1's child.
ShapeInv ==
  /\ call \in [timed : BOOLEAN, pin : {Nothing, "binary", "script"}]
  /\ at \in [Stages -> Places]
  /\ task \in [Tasks -> {Nothing, "in_group", "left_group", "dead"}]
  /\ at["s2"] # Nothing => at["s1"] \notin {Nothing, "find_self", "prepare", "report", "spawn"}

\* Each restriction is in force once its step was left behind.
ConfinedInv ==
  /\ confined \subseteq Restrictions
  /\ at["s1"] \in {"report", "spawn", "wait"} \/ at["s2"] # Nothing =>
       {"namespaces", "capabilities", "no_new_privs"} \subseteq confined
  /\ at["s2"] \in Filtered => "seccomp" \in confined
  /\ at["s2"] \in Ruled => "landlock" \in confined

\* Both stages hold the channel, stage 2 until the command started; no task ever does.
ChannelInv ==
  /\ at["s2"] \in Claimed => stdin = "null"
  /\ writers \subseteq {"parent", "s1", "s2"}
  /\ Alive("s1") => "s1" \in writers
  /\ Alive("s2") /\ at["s2"] # "reap" => "s2" \in writers

\* What is about to be exec'd under a pin was hashed, and is no script.
PinInv == at["s2"] = "start" /\ call.pin # Nothing => image = "binary" /\ call.pin = "binary"

\* Past the check of its parent, stage 2 either has a supervisor or is being killed;
\* tasks run under a stage 2 that is past it; and a kill is pending for the living only.
WatchInv ==
  /\ at["s2"] \in Bound => armed
  /\ at["s2"] \in Watched /\ at["s1"] = "dead" => "s2" \in doomed
  /\ \A t \in Tasks : TaskAlive(t) => at["s2"] \in Started
  /\ \A s \in Stages : s \in doomed => Alive(s)

\* Nothing runs before the call starts the helper, nor goes on unwatched after the
\* channel was read to its end.
CallInv ==
  /\ parent \in {"call", "start"} => at["s1"] = Nothing
  /\ parent \in {"close", "returned"} => /\ ~Alive("s1")
                                         /\ Alive("s2") => "s2" \in doomed

Inv ==
  /\ ShapeInv /\ ConfinedInv /\ ChannelInv /\ PinInv /\ WatchInv /\ CallInv
  /\ RanAsPromised

USE DEF Stages, Tasks, Nothing, Alive, TaskAlive, Places, Claimed, Bound, Watched, Filtered, Ruled,
        Started, Restrictions

-----------------------------------------------------------------------------
(***************************************************************************)
(* The steps that set what the invariant is about                          *)
(***************************************************************************)

\* The prologue and the steps of stage 2 that restrict it add to what is in force,
\* and once a command ran nothing is left to add.
LEMMA RestrictingKeeps ==
  ASSUME Inv, UNCHANGED <<call, parentVars>>, PrepareSupervisor \/ InstallFilter \/ RestrictSelf
  PROVE  Inv'
<1>1. ShapeInv'
  <2>1. CASE PrepareSupervisor
    BY <2>1 DEF PrepareSupervisor, Goes, Refuses, Inv, ShapeInv
  <2>2. CASE InstallFilter
    BY <2>2 DEF InstallFilter, Goes, Refuses, Inv, ShapeInv
  <2>3. CASE RestrictSelf
    BY <2>3 DEF RestrictSelf, Goes, Refuses, Inv, ShapeInv
  <2> QED
    BY <2>1, <2>2, <2>3
<1>2. ConfinedInv'
  BY DEF PrepareSupervisor, InstallFilter, RestrictSelf, Goes, Refuses, Inv, ShapeInv, ConfinedInv
<1>3. ChannelInv'
  BY DEF PrepareSupervisor, InstallFilter, RestrictSelf, Goes, Refuses, Inv, ShapeInv, ChannelInv
<1>4. PinInv'
  BY DEF PrepareSupervisor, InstallFilter, RestrictSelf, Goes, Refuses, Inv, ShapeInv, PinInv
<1>5. WatchInv'
  BY DEF PrepareSupervisor, InstallFilter, RestrictSelf, Goes, Refuses, Inv, ShapeInv, WatchInv
<1>6. CallInv'
  BY DEF PrepareSupervisor, InstallFilter, RestrictSelf, Goes, Refuses, Inv, ShapeInv, CallInv,
         parentVars
<1>7. RanAsPromised'
  <2>1. confined = Restrictions => confined' = Restrictions
    BY DEF PrepareSupervisor, InstallFilter, RestrictSelf
  <2> QED
    BY <2>1 DEF PrepareSupervisor, InstallFilter, RestrictSelf, Inv, RanAsPromised
<1> QED
  BY <1>1, <1>2, <1>3, <1>4, <1>5, <1>6, <1>7 DEF Inv

\* The command is born into what the steps before it left in force.
LEMMA StartKeeps ==
  ASSUME Inv, UNCHANGED <<call, parentVars>>, StartCommand
  PROVE  Inv'
<1>1. ShapeInv'
  BY DEF StartCommand, Goes, Refuses, Inv, ShapeInv
<1>2. ConfinedInv'
  BY DEF StartCommand, Goes, Refuses, Inv, ShapeInv, ConfinedInv
<1>3. ChannelInv'
  BY DEF StartCommand, Goes, Refuses, Inv, ShapeInv, ChannelInv
<1>4. PinInv'
  BY DEF StartCommand, Goes, Refuses, Inv, ShapeInv, PinInv
<1>5. WatchInv'
  BY DEF StartCommand, Goes, Refuses, Inv, ShapeInv, WatchInv
<1>6. CallInv'
  BY DEF StartCommand, Goes, Refuses, Inv, ShapeInv, CallInv, parentVars
<1>7. RanAsPromised'
  <2>1. CASE UNCHANGED <<task, confined, writers, ran>>
    BY <2>1 DEF StartCommand, Inv, RanAsPromised
  <2>2. CASE /\ confined' = confined \cup {"init_not_dumpable"}
             /\ ran' = Executed
    <3>1. confined' = Restrictions
      BY <2>2 DEF StartCommand, Inv, ConfinedInv
    <3>2. armed' /\ "command" \notin writers'
      BY DEF StartCommand, Inv, WatchInv, ChannelInv
    <3>3. call.pin # Nothing => ran' = "binary" /\ call.pin = "binary"
      BY <2>2 DEF StartCommand, Executed, Inv, PinInv
    <3> QED
      BY <3>1, <3>2, <3>3 DEF RanAsPromised
  <2> QED
    BY <2>1, <2>2 DEF StartCommand
<1> QED
  BY <1>1, <1>2, <1>3, <1>4, <1>5, <1>6, <1>7 DEF Inv

-----------------------------------------------------------------------------
(***************************************************************************)
(* Every other step                                                        *)
(***************************************************************************)

\* Stage 1, whether or not its wait is refused.  Its death is what may leave stage 2 unwatched.
LEMMA Stage1Keeps ==
  ASSUME Inv, UNCHANGED <<call, parentVars>>, Stage1 \/ WaitFails
  PROVE  Inv'
<1> USE DEF Inv, ShapeInv, ConfinedInv, ChannelInv, PinInv, WatchInv, CallInv, RanAsPromised, parentVars
<1>1. CASE FindSelf
  BY <1>1 DEF FindSelf, Goes, GivesUp
<1>2. CASE PrepareSupervisor
  BY <1>2, RestrictingKeeps
<1>3. CASE ReportDegraded
  BY <1>3 DEF ReportDegraded, Goes
<1>4. CASE SpawnInner
  BY <1>4, ZenonT(60) DEF SpawnInner, Refuses
<1>5. CASE WaitInner
  BY <1>5 DEF WaitInner, Dies
<1>6. CASE ReportRefusal("s1")
  BY <1>6 DEF ReportRefusal, Goes
<1>7. CASE Quit("s1")
  BY <1>7 DEF Quit, Dies
<1>8. CASE WaitFails
  BY <1>8 DEF WaitFails, Goes, GivesUp
<1> QED
  BY <1>1, <1>2, <1>3, <1>4, <1>5, <1>6, <1>7, <1>8 DEF Stage1

\* Stage 2, whether or not its wait is refused.  Its death takes the tasks with it.
LEMMA Stage2Keeps ==
  ASSUME Inv, UNCHANGED <<call, parentVars>>, Stage2 \/ ReapFails
  PROVE  Inv'
<1> USE DEF Inv, ShapeInv, ConfinedInv, ChannelInv, PinInv, WatchInv, CallInv, RanAsPromised, parentVars
<1>1. CASE ClaimAuditChannel
  BY <1>1 DEF ClaimAuditChannel, Goes, GivesUp
<1>2. CASE BindLifetimeToSupervisor
  BY <1>2 DEF BindLifetimeToSupervisor, Goes, Refuses
<1>3. CASE ConfirmSupervisor
  BY <1>3 DEF ConfirmSupervisor, Goes, Refuses, ParentIsSupervisor
<1>4. CASE InstallFilter
  BY <1>4, RestrictingKeeps
<1>5. CASE RestrictSelf
  BY <1>5, RestrictingKeeps
<1>6. CASE OpenPinned
  BY <1>6 DEF OpenPinned, Goes, Refuses
<1>7. CASE Verify
  BY <1>7 DEF Verify, Goes, Refuses
<1>8. CASE StartCommand
  BY <1>8, StartKeeps
<1>9. CASE DropChannel
  BY <1>9 DEF DropChannel, Goes
<1>10. CASE ReapUntil
  BY <1>10 DEF ReapUntil, Dies
<1>11. CASE ReportRefusal("s2")
  BY <1>11 DEF ReportRefusal, Goes
<1>12. CASE Quit("s2")
  BY <1>12 DEF Quit, Dies
<1>13. CASE ReapFails
  BY <1>13 DEF ReapFails, Dies
<1> QED
  BY <1>1, <1>2, <1>3, <1>4, <1>5, <1>6, <1>7, <1>8, <1>9, <1>10, <1>11, <1>12, <1>13 DEF
     Stage2

\* A pending kill arrives; a stage is struck; the program's path names another file; the
\* command and its straggler go their ways.
LEMMA SurroundingsKeep ==
  ASSUME Inv, UNCHANGED <<call, parentVars>>, Kernel \/ Surroundings
  PROVE  Inv'
<1> USE DEF Inv, ShapeInv, ConfinedInv, ChannelInv, PinInv, WatchInv, CallInv, RanAsPromised, parentVars
<1>1. ASSUME NEW s \in Stages, Deliver(s)
      PROVE  Inv'
  <2>1. s \in doomed /\ UNCHANGED <<armed, stdin, confined, image, ran>>
    BY <1>1 DEF Deliver
  <2>2. CASE s = "s1"
    <3>1. Dies("s1", Signal(SIGKILL))
      BY <1>1, <2>2 DEF Deliver
    <3> QED
      BY <2>1, <2>2, <3>1 DEF Dies
  <2>3. CASE s = "s2"
    <3>1. Dies("s2", Signal(SIGKILL))
      BY <1>1, <2>3 DEF Deliver
    <3> QED
      BY <2>1, <2>3, <3>1 DEF Dies
  <2> QED
    BY <2>2, <2>3
<1>2. ASSUME NEW t \in Tasks, Deliver(t)
      PROVE  Inv'
  <2>1. t \notin Stages
    OBVIOUS
  <2>2. TaskDies(t, Signal(SIGKILL))
    BY <1>2, <2>1 DEF Deliver
  <2> QED
    BY <1>2, <2>2 DEF Deliver, TaskDies
<1>3. ASSUME NEW s \in Stages, Strike(s)
      PROVE  Inv'
  BY <1>3 DEF Strike, Dies
<1>4. CASE Swap
  BY <1>4 DEF Swap
<1>5. CASE CommandForks
  BY <1>5 DEF CommandForks
<1>6. ASSUME NEW t \in Tasks, LeavesGroup(t)
      PROVE  Inv'
  BY <1>6 DEF LeavesGroup
<1>7. CASE CommandEnds
  BY <1>7 DEF CommandEnds, TaskDies
<1>8. CASE StragglerEnds
  BY <1>8 DEF StragglerEnds, TaskDies
<1> QED
  BY <1>1, <1>2, <1>3, <1>4, <1>5, <1>6, <1>7, <1>8 DEF Kernel, Surroundings

\* The call itself.  That nothing below goes on unwatched is decided where the channel
\* was read to its end.
LEMMA CallKeeps ==
  ASSUME Inv, Output \/ OutputFails \/ Expire
  PROVE  Inv'
<1> USE DEF Inv, ShapeInv, ConfinedInv, ChannelInv, PinInv, WatchInv, CallInv, RanAsPromised, stageVars
<1>1. CASE RefuseCall
  BY <1>1 DEF RefuseCall
<1>2. CASE EmitSpawned
  BY <1>2 DEF EmitSpawned
<1>3. CASE StartHelper
  BY <1>3 DEF StartHelper
<1>4. CASE RunToCompletion
  BY <1>4 DEF RunToCompletion
<1>5. CASE Poll
  BY <1>5 DEF Poll
<1>6. CASE PollFails
  BY <1>6 DEF PollFails
<1>7. CASE KillGroup
  BY <1>7 DEF KillGroup, Group
<1>8. CASE ReapHelper
  BY <1>8 DEF ReapHelper
<1>9. CASE RecordReports
  BY <1>9 DEF RecordReports
<1>10. CASE RecordsUnread
  BY <1>10 DEF RecordsUnread
<1>11. CASE Close
  BY <1>11 DEF Close
<1>12. CASE Expire
  BY <1>12 DEF Expire
<1> QED
  BY <1>1, <1>2, <1>3, <1>4, <1>5, <1>6, <1>7, <1>8, <1>9, <1>10, <1>11, <1>12 DEF Output,
     OutputFails

-----------------------------------------------------------------------------

\* Every state of a call satisfies the invariant.
THEOREM SpawnInvariant == Spec => []Inv
<1>1. Init => Inv
  BY DEF Init, StagesInit, Inv, ShapeInv, ConfinedInv, ChannelInv, PinInv, WatchInv, CallInv,
         RanAsPromised
<1>2. Inv /\ [Next]_vars => Inv'
  <2> SUFFICES ASSUME Inv, [Next]_vars
               PROVE  Inv'
    OBVIOUS
  <2>1. CASE Output \/ OutputFails \/ Expire
    BY <2>1, CallKeeps
  <2>2. CASE Below
    <3>1. CASE Stage1 \/ WaitFails
      BY <2>2, <3>1, Stage1Keeps DEF Below
    <3>2. CASE Stage2 \/ ReapFails
      BY <2>2, <3>2, Stage2Keeps DEF Below
    <3>3. CASE Kernel \/ Surroundings
      BY <2>2, <3>3, SurroundingsKeep DEF Below
    <3> QED
      BY <2>2, <3>1, <3>2, <3>3 DEF Below, WaitRefused
  <2>3. CASE UNCHANGED vars
    BY <2>3 DEF vars, stageVars, Inv, ShapeInv, ConfinedInv, ChannelInv, PinInv, WatchInv, CallInv,
                RanAsPromised
  <2> QED
    BY <2>1, <2>2, <2>3 DEF Next
<1> QED
  BY <1>1, <1>2, PTL DEF Spec

\* A command is only ever started with every restriction in force, without the audit
\* channel, below an init that dies with its supervisor, and under a pin as the bytes that
\* were hashed.
THEOREM CommandRunsAsPromised == Spec => []RanAsPromised
<1>1. Inv => RanAsPromised
  BY DEF Inv
<1> QED
  BY <1>1, SpawnInvariant, PTL

\* No command goes on without a supervisor unless a kill is on its way, and none at all
\* once the call returned.
THEOREM CommandIsWatched == Spec => []NothingUnwatched
<1>1. Inv => NothingUnwatched
  BY DEF Inv, ShapeInv, WatchInv, CallInv, NothingUnwatched
<1> QED
  BY <1>1, SpawnInvariant, PTL

-----------------------------------------------------------------------------
(***************************************************************************)
(* What the channel holds                                                  *)
(***************************************************************************)

Weakenings == {"unresolved_dns_name", "userns_identity_map", "capability_bounding_set"}

\* Whether the channel holds a refusal.
Refused == \E i \in DOMAIN pipe : IsRefusal(pipe[i])

\* Where stage 1 is before it wrote anything.
Early == {Nothing, "find_self", "prepare", "report"}

PipeType ==
  /\ pipe \in Seq(Weakenings \cup Refusals)
  /\ degraded \in Seq(Weakenings) /\ Len(degraded) <= 3

\* Whoever reports a refusal has started no command, lets no other stage start one, and
\* there is no other stage left to refuse.
RefusedInv ==
  /\ reason \in [Stages -> Refusals \cup {Nothing}]
  /\ \A s \in Stages : at[s] = "refuse" => reason[s] # Nothing
  /\ at["s1"] \in Early \cup {"spawn", "wait", "refuse", "quit", "dead"}
  /\ at["s1"] = "refuse" => at["s2"] = Nothing
  /\ at["s1"] = "wait" => at["s2"] # Nothing
  /\ program \in Contents
  /\ ran # Nothing => at["s2"] \in Started \cup {"dead"}
  /\ at["s2"] \in Started => ran # Nothing
  /\ at["s1"] \in Early => ~Refused
  /\ Refused => /\ ran = Nothing
                /\ at["s1"] \in {"wait", "quit", "dead"} /\ at["s2"] \in {Nothing, "quit", "dead"}

\* So it is the last thing the channel ever holds, after at most every degradation.
PipeInv ==
  /\ PipeType /\ RefusedInv
  /\ at["s1"] \in Early => pipe = <<>>
  /\ \A i \in DOMAIN pipe : IsRefusal(pipe[i]) => i = Len(pipe)
  /\ Len(pipe) <= 4 /\ (~Refused => Len(pipe) <= 3)

USE DEF Early

\* Stage 1 or stage 2 goes on, gives up, or is ended: the channel is left alone.
LEMMA PipeStands ==
  ASSUME PipeInv, pipe' = pipe, UNCHANGED degraded, RefusedInv',
         at'["s1"] \in Early => at["s1"] \in Early
  PROVE  PipeInv'
<1>1. Refused' = Refused
  BY DEF Refused
<1> QED
  BY <1>1 DEF PipeInv, PipeType

\* What a step changes of the places decides the rest, while the channel stands.
LEMMA Stage1Refused ==
  ASSUME Inv, RefusedInv, pipe' = pipe,
         \/ FindSelf \/ PrepareSupervisor \/ ReportDegraded \/ SpawnInner \/ WaitInner
         \/ Quit("s1") \/ WaitFails
  PROVE  RefusedInv'
<1>0. Refused' = Refused
  BY DEF Refused
<1> USE DEF RefusedInv, Inv, ShapeInv
<1>1. CASE FindSelf
  BY <1>0, <1>1 DEF FindSelf, Goes, GivesUp
<1>2. CASE PrepareSupervisor
  BY <1>0, <1>2 DEF PrepareSupervisor, Goes, Refuses, Refusals
<1>3. CASE ReportDegraded
  BY <1>0, <1>3 DEF ReportDegraded, Goes
<1>4. CASE SpawnInner
  BY <1>0, <1>4 DEF SpawnInner, Refuses, Refusals
<1>5. CASE WaitInner
  BY <1>0, <1>5 DEF WaitInner, Dies
<1>6. CASE Quit("s1")
  BY <1>0, <1>6 DEF Quit, Dies
<1>7. CASE WaitFails
  BY <1>0, <1>7 DEF WaitFails, Goes, GivesUp
<1> QED
  BY <1>1, <1>2, <1>3, <1>4, <1>5, <1>6, <1>7

LEMMA Stage2Refused ==
  ASSUME Inv, RefusedInv, pipe' = pipe, UNCHANGED call,
         \/ ClaimAuditChannel \/ BindLifetimeToSupervisor \/ ConfirmSupervisor
         \/ InstallFilter \/ RestrictSelf \/ OpenPinned \/ Verify
         \/ StartCommand \/ DropChannel \/ ReapUntil \/ Quit("s2") \/ ReapFails
  PROVE  RefusedInv'
<1>0. Refused' = Refused
  BY DEF Refused
<1> USE DEF RefusedInv, Inv, ShapeInv
<1>1. CASE ClaimAuditChannel
  BY <1>0, <1>1 DEF ClaimAuditChannel, Goes, GivesUp
<1>2. CASE BindLifetimeToSupervisor
  BY <1>0, <1>2 DEF BindLifetimeToSupervisor, Goes, Refuses, Refusals
<1>3. CASE ConfirmSupervisor
  BY <1>0, <1>3 DEF ConfirmSupervisor, Goes, Refuses, Refusals
<1>4. CASE InstallFilter
  BY <1>0, <1>4 DEF InstallFilter, Goes, Refuses, Refusals
<1>5. CASE RestrictSelf
  BY <1>0, <1>5 DEF RestrictSelf, Goes, Refuses, Refusals
<1>6. CASE OpenPinned
  BY <1>0, <1>6 DEF OpenPinned, Goes, Refuses, Refusals
<1>7. CASE Verify
  BY <1>0, <1>7 DEF Verify, Goes, Refuses, Refusals
<1>8. CASE StartCommand
  <2>1. Executed # Nothing
    BY <1>8 DEF Executed, PinInv, StartCommand, Contents
  <2> QED
    BY <1>0, <1>8, <2>1 DEF StartCommand, Goes, Refuses, Refusals
<1>9. CASE DropChannel
  BY <1>0, <1>9 DEF DropChannel, Goes
<1>10. CASE ReapUntil
  BY <1>0, <1>10 DEF ReapUntil, Dies
<1>11. CASE Quit("s2")
  BY <1>0, <1>11 DEF Quit, Dies
<1>12. CASE ReapFails
  BY <1>0, <1>12 DEF ReapFails, Dies
<1> QED
  BY <1>1, <1>2, <1>3, <1>4, <1>5, <1>6, <1>7, <1>8, <1>9, <1>10, <1>11, <1>12

LEMMA SurroundingsRefused ==
  ASSUME Inv, RefusedInv, Kernel \/ Surroundings
  PROVE  RefusedInv' /\ UNCHANGED <<pipe, degraded>> /\ (at'["s1"] \in Early => at["s1"] \in Early)
<1>0. UNCHANGED <<pipe, degraded, reason, ran>>
  BY DEF Kernel, Surroundings, Deliver, Strike, Swap, CommandForks, LeavesGroup, CommandEnds,
         StragglerEnds
<1>1. Refused' = Refused
  BY <1>0 DEF Refused
<1>2. program' \in Contents
  BY DEF Kernel, Surroundings, Deliver, Strike, Swap, CommandForks, LeavesGroup, CommandEnds,
         StragglerEnds, RefusedInv
<1>3. at' = at \/ \E s \in Stages : Alive(s) /\ at' = [at EXCEPT ![s] = "dead"]
  <2>1. ASSUME NEW p \in Stages \cup Tasks, Deliver(p)
        PROVE  at' = at \/ (p \in Stages /\ at' = [at EXCEPT ![p] = "dead"])
    BY <2>1 DEF Deliver, Dies, TaskDies
  <2>2. \A s \in Stages : s \in doomed => Alive(s)
    BY DEF Inv, WatchInv
  <2>3. CASE Kernel
    BY <2>1, <2>2, <2>3 DEF Kernel, Deliver
  <2>4. CASE Surroundings
    BY <2>4 DEF Surroundings, Strike, Swap, CommandForks, LeavesGroup, CommandEnds,
                StragglerEnds, Dies, TaskDies
  <2> QED
    BY <2>3, <2>4
<1> USE DEF RefusedInv, Inv, ShapeInv
<1>4. CASE at' = at
  BY <1>0, <1>1, <1>2, <1>4
<1>5. ASSUME NEW s \in Stages, Alive(s), at' = [at EXCEPT ![s] = "dead"]
      PROVE  RefusedInv' /\ (at'["s1"] \in Early => at["s1"] \in Early)
  <2>1. CASE s = "s1"
    BY <1>0, <1>1, <1>2, <1>5, <2>1
  <2>2. CASE s = "s2"
    BY <1>0, <1>1, <1>2, <1>5, <2>2
  <2> QED
    BY <2>1, <2>2
<1> QED
  BY <1>0, <1>3, <1>4, <1>5

\* A refusal is reported once, by a stage below which no command runs.
LEMMA ReportedOnce ==
  ASSUME Inv, PipeInv, NEW s \in Stages, ReportRefusal(s)
  PROVE  PipeInv'
<1> USE DEF PipeInv, RefusedInv, Inv, ShapeInv
<1>1. /\ at[s] = "refuse" /\ at' = [at EXCEPT ![s] = "quit"]
      /\ reason' = [reason EXCEPT ![s] = Nothing] /\ UNCHANGED <<degraded, program, ran>>
  BY DEF ReportRefusal, Goes
<1>2. ~Refused /\ ran = Nothing /\ reason[s] \in Refusals
  BY <1>1
<1>3. CASE pipe' = pipe
  <2>1. Refused' = Refused
    BY <1>3 DEF Refused
  <2>2. RefusedInv'
    BY <1>1, <1>2, <2>1
  <2> QED
    BY <1>1, <1>3, <2>2, PipeStands
<1>4. CASE pipe' = Append(pipe, reason[s])
  <2>1. /\ pipe \in Seq(Weakenings \cup Refusals) /\ reason[s] \in Weakenings \cup Refusals
        /\ Len(pipe) <= 3
    BY <1>2 DEF PipeType
  <2>2. /\ pipe' \in Seq(Weakenings \cup Refusals) /\ Len(pipe') = Len(pipe) + 1
        /\ DOMAIN pipe' = 1 .. Len(pipe) + 1
        /\ \A i \in DOMAIN pipe : pipe'[i] = pipe[i]
    BY <1>4, <2>1
  <2>3. /\ \A i \in DOMAIN pipe' : IsRefusal(pipe'[i]) => i = Len(pipe')
    <3>1. \A i \in DOMAIN pipe : ~IsRefusal(pipe[i])
      BY <1>2 DEF Refused
    <3> QED
      BY <2>1, <2>2, <3>1 DEF IsRefusal
  <2>4. RefusedInv' /\ Refused'
    <3>1. Refused'
      <4>1. Len(pipe') \in DOMAIN pipe' /\ pipe'[Len(pipe')] = reason[s]
        BY <1>4, <2>1, <2>2
      <4> QED
        BY <1>2, <4>1 DEF Refused, IsRefusal
    <3> QED
      BY <1>1, <1>2, <3>1
  <2> QED
    BY <1>1, <2>1, <2>2, <2>3, <2>4 DEF PipeType
<1> QED
  BY <1>3, <1>4 DEF ReportRefusal

\* What degraded is reported first, and all of it or none.
LEMMA DegradedReported ==
  ASSUME Inv, PipeInv, ReportDegraded
  PROVE  PipeInv'
<1> USE DEF PipeInv, RefusedInv, Inv, ShapeInv
<1>1. /\ pipe = <<>> /\ degraded \in Seq(Weakenings) /\ Len(degraded) <= 3
      /\ pipe' \in {pipe \o degraded, pipe} /\ degraded' = <<>>
  BY DEF ReportDegraded, PipeType
<1>2. pipe' \in Seq(Weakenings) /\ Len(pipe') <= 3
  <2>1. pipe' = <<>> \o degraded \/ pipe' = <<>>
    BY <1>1
  <2>2. <<>> \o degraded = degraded
    BY <1>1
  <2>3. CASE pipe' = degraded
    BY <1>1, <2>3
  <2>4. CASE pipe' = <<>>
    BY <2>4
  <2> QED
    BY <2>1, <2>2, <2>3, <2>4
<1>3. \A i \in DOMAIN pipe' : ~IsRefusal(pipe'[i])
  <2>1. \A i \in DOMAIN pipe' : pipe'[i] \in Weakenings
    BY <1>2
  <2> QED
    BY <2>1 DEF Weakenings, Refusals, IsRefusal
<1>4. ~Refused'
  BY <1>3 DEF Refused
<1>5. RefusedInv'
  BY <1>4 DEF ReportDegraded, Goes
<1>6. PipeType'
  <2>1. pipe' \in Seq(Weakenings \cup Refusals)
    BY <1>2
  <2> QED
    BY <1>1, <2>1 DEF PipeType
<1> QED
  BY <1>2, <1>3, <1>5, <1>6 DEF ReportDegraded, Goes

\* What stage 1 found degraded is some of what it may.
LEMMA DegradedFound ==
  ASSUME Inv, PipeInv, PrepareSupervisor
  PROVE  PipeInv'
<1>1. RefusedInv' /\ UNCHANGED pipe /\ (at'["s1"] \in Early => at["s1"] \in Early)
  BY Stage1Refused DEF PipeInv, PrepareSupervisor
<1>2. degraded' \in Seq(Weakenings) /\ Len(degraded') <= 3
  <2>1. CASE UNCHANGED degraded
    BY <2>1 DEF PipeInv, PipeType
  <2>2. ASSUME NEW found, degraded' = Picked(Degradations,
                                {i \in DOMAIN Degradations : Degradations[i] \in found})
        PROVE  degraded' \in Seq(Weakenings) /\ Len(degraded') <= 3
    <3>1. Degradations \in Seq(Weakenings) /\ Len(Degradations) = 3
      BY DEF Degradations, Weakenings
    <3> QED
      BY <2>2, <3>1, PickedElements, PickedLength
  <2> QED
    BY <2>1, <2>2 DEF PrepareSupervisor
<1>3. Refused' = Refused
  BY <1>1 DEF Refused
<1> QED
  BY <1>1, <1>2, <1>3 DEF PipeInv, PipeType

\* The channel, over every step.
LEMMA PipeKeeps ==
  ASSUME Inv, PipeInv, Next
  PROVE  PipeInv'
<1>1. CASE Output \/ OutputFails \/ Expire
  <2>1. UNCHANGED <<pipe, degraded, reason, program, ran>>
    BY <1>1 DEF Output, OutputFails, RefuseCall, EmitSpawned, StartHelper, RunToCompletion, Poll,
       PollFails, KillGroup, ReapHelper, RecordReports, RecordsUnread, Close, Expire, stageVars
  <2>2. at' = at \/ (at["s1"] = Nothing /\ at' = [at EXCEPT !["s1"] = "find_self"])
    BY <1>1 DEF Output, OutputFails, RefuseCall, EmitSpawned, StartHelper, RunToCompletion, Poll,
       PollFails, KillGroup, ReapHelper, RecordReports, RecordsUnread, Close, Expire, stageVars,
       Inv, CallInv
  <2>3. Refused' = Refused
    BY <2>1 DEF Refused
  <2>4. RefusedInv' /\ (at'["s1"] \in Early => at["s1"] \in Early)
    BY <2>1, <2>2, <2>3 DEF PipeInv, RefusedInv, Inv, ShapeInv
  <2> QED
    BY <2>1, <2>4, PipeStands
<1>2. CASE Below
  <2>1. UNCHANGED call
    BY <1>2 DEF Below
  <2>2. ASSUME \/ FindSelf \/ SpawnInner \/ WaitInner \/ Quit("s1") \/ WaitFails
        PROVE  PipeInv'
    <3>1. UNCHANGED <<pipe, degraded>> /\ (at'["s1"] \in Early => at["s1"] \in Early)
      BY <2>2 DEF FindSelf, SpawnInner, WaitInner, Quit, WaitFails, Goes, GivesUp, Refuses, Dies,
                  Inv, ShapeInv
    <3> QED
      BY <2>2, <3>1, Stage1Refused, PipeStands DEF PipeInv
  <2>3. ASSUME \/ ClaimAuditChannel \/ BindLifetimeToSupervisor \/ ConfirmSupervisor
               \/ InstallFilter \/ RestrictSelf \/ OpenPinned \/ Verify
               \/ StartCommand \/ DropChannel \/ ReapUntil \/ Quit("s2") \/ ReapFails
        PROVE  PipeInv'
    <3>1. UNCHANGED <<pipe, degraded>>
      BY <2>3 DEF ClaimAuditChannel, BindLifetimeToSupervisor, ConfirmSupervisor, InstallFilter,
                  RestrictSelf, OpenPinned, Verify, StartCommand, DropChannel, ReapUntil, Quit,
                  ReapFails
    <3>2. at'["s1"] = at["s1"]
      BY <2>3 DEF ClaimAuditChannel, BindLifetimeToSupervisor, ConfirmSupervisor, InstallFilter,
                  RestrictSelf, OpenPinned, Verify, StartCommand, DropChannel, ReapUntil, Quit,
                  ReapFails, Goes, GivesUp, Refuses, Dies, Inv, ShapeInv
    <3> QED
      BY <2>1, <2>3, <3>1, <3>2, Stage2Refused, PipeStands DEF PipeInv
  <2>4. CASE Kernel \/ Surroundings
    BY <2>4, SurroundingsRefused, PipeStands DEF PipeInv
  <2>5. CASE \E s \in Stages : ReportRefusal(s)
    BY <2>5, ReportedOnce
  <2>6. CASE ReportDegraded
    BY <2>6, DegradedReported
  <2>7. CASE PrepareSupervisor
    BY <2>7, DegradedFound
  <2> QED
    BY <1>2, <2>2, <2>3, <2>4, <2>5, <2>6, <2>7 DEF Below, Stage1, Stage2, WaitRefused
<1> QED
  BY <1>1, <1>2 DEF Next

\* The channel of every state of a call.
LEMMA PipeInvariant == Spec => []PipeInv
<1>1. Init => PipeInv
  <2>1. Init => PipeType /\ pipe = <<>> /\ ~Refused
    BY DEF Init, StagesInit, PipeType, Refused
  <2> QED
    BY <2>1 DEF Init, StagesInit, PipeInv, RefusedInv, Contents
<1>2. Inv /\ PipeInv /\ [Next]_vars => PipeInv'
  <2>1. Inv /\ PipeInv /\ UNCHANGED vars => PipeInv'
    BY DEF vars, stageVars, PipeInv, PipeType, RefusedInv, Refused
  <2> QED
    BY <2>1, PipeKeeps
<1> QED
  BY <1>1, <1>2, SpawnInvariant, PTL DEF Spec

\* A refusal on the channel names why nothing ran, whichever stage put it there and whatever
\* became of the others, and the channel stays within what decode reads.
THEOREM RefusalNeverRan == Spec => []RefusalMeansNotRun
<1>1. PipeInv => RefusalMeansNotRun
  <2>1. RecordLimit = 4
    BY DEF RecordLimit, Degradations
  <2> QED
    BY <2>1 DEF PipeInv, RefusedInv, RefusalMeansNotRun, Refused
<1> QED
  BY <1>1, PipeInvariant, PTL

-----------------------------------------------------------------------------
(***************************************************************************)
(* What the call makes of the channel                                      *)
(***************************************************************************)

\* The labels a wait may end with, besides none.
Waits == {"timeout", "spawn_failed"}

\* What was read of the channel, once it was, and the records it makes.
Read == IF "records" \in lost THEN <<>> ELSE pipe
Told == [i \in DOMAIN DegradedIn(Read) |-> Degraded(DegradedIn(Read)[i])]

\* The trail follows the call; the channel is read once nobody can write to it.
TrailInv ==
  /\ parent \in {"call", "start", "output", "poll", "kill", "reap", "records", "close", "returned"}
  /\ parent \notin {"close", "returned"} => refusal = Nothing /\ "records" \notin lost
  /\ parent = "call" => trail = <<>>
  /\ parent \in {"start", "output", "poll", "kill", "reap", "records"} => trail = <<Spawned>>
  /\ parent \in {"kill", "reap", "records", "close"} => finished.label \in Waits \cup {Nothing}
  /\ parent \in {"close", "returned"} => writers = {}
  /\ parent = "close" => trail = <<Spawned>> \o Told /\ refusal = RefusalIn(Read)
  /\ TrailTellsTheResult

\* What is read holds one refusal at most, which is the one the call goes by.
LEMMA RefusalRead ==
  ASSUME PipeInv
  PROVE  /\ Read \in Seq(Weakenings \cup Refusals)
         /\ LET refused == {Read[i] : i \in {j \in DOMAIN Read : IsRefusal(Read[j])}}
            IN  IF RefusalIn(Read) = Nothing THEN refused = {} ELSE refused = {RefusalIn(Read)}
<1>1. Read \in Seq(Weakenings \cup Refusals) /\ \A i \in DOMAIN Read : IsRefusal(Read[i]) => i = Len(Read)
  BY DEF Read, PipeInv, PipeType
<1> DEFINE refusals == {j \in DOMAIN Read : IsRefusal(Read[j])}
<1>2. CASE refusals = {}
  BY <1>1, <1>2 DEF RefusalIn
<1>3. CASE refusals # {}
  <2>1. Len(Read) \in Nat
    BY <1>1
  <2>2. refusals = {Len(Read)}
    BY <1>1, <1>3
  <2>3. (CHOOSE i \in refusals : \A j \in refusals : j <= i) = Len(Read)
    BY <2>1, <2>2
  <2>4. RefusalIn(Read) = Read[Len(Read)]
    BY <1>3, <2>3 DEF RefusalIn
  <2>5. Read[Len(Read)] \in Refusals
    BY <2>2 DEF IsRefusal
  <2>6. RefusalIn(Read) # Nothing
    BY <2>4, <2>5 DEF Refusals
  <2>7. {Read[i] : i \in refusals} = {RefusalIn(Read)}
    BY <2>2, <2>4
  <2> QED
    BY <1>1, <2>6, <2>7
<1> QED
  BY <1>2, <1>3

\* The degraded steps make records of their own, in a sequence.
LEMMA ToldType ==
  ASSUME PipeInv
  PROVE  Told \in Seq({Degraded(step) : step \in Weakenings \cup Refusals})
<1> DEFINE weakened == DegradedIn(Read)
<1>1. weakened \in Seq(Weakenings \cup Refusals)
  <2>1. Read \in Seq(Weakenings \cup Refusals)
    BY RefusalRead
  <2> QED
    BY <2>1, PickedElements DEF DegradedIn
<1> HIDE DEF weakened
<1>2. [i \in DOMAIN weakened |-> Degraded(weakened[i])] \in
        Seq({Degraded(step) : step \in Weakenings \cup Refusals})
  BY <1>1
<1> QED
  BY <1>2 DEF Told, weakened

\* Who holds no write end writes nothing, and hands none on.
LEMMA ChannelFrozen ==
  ASSUME Inv, Below, writers = {}, ~Alive("s1")
  PROVE  UNCHANGED <<pipe, writers>>
<1> USE DEF Inv, ShapeInv, ChannelInv
<1>1. CASE Stage1 \/ WaitFails
  BY <1>1 DEF Stage1, FindSelf, PrepareSupervisor, ReportDegraded, SpawnInner, WaitInner,
              ReportRefusal, Quit, WaitFails
<1>2. CASE Stage2 \/ ReapFails
  BY <1>2 DEF Stage2, ClaimAuditChannel, BindLifetimeToSupervisor, ConfirmSupervisor, InstallFilter,
              RestrictSelf, OpenPinned, Verify, StartCommand, DropChannel, ReapUntil, ReportRefusal,
              Quit, ReapFails, Dies
<1>3. CASE Kernel \/ Surroundings
  BY <1>3 DEF Kernel, Surroundings, Deliver, Strike, Swap, CommandForks, CommandEnds, StragglerEnds,
              LeavesGroup, Dies, TaskDies
<1> QED
  BY <1>1, <1>2, <1>3 DEF Below, WaitRefused

\* Only the call itself leaves the channel unread.
LEMMA ReadingIsTheCalls ==
  ASSUME Below
  PROVE  "records" \in lost' <=> "records" \in lost
<1>1. CASE Stage1 \/ WaitFails
  BY <1>1 DEF Stage1, FindSelf, PrepareSupervisor, ReportDegraded, SpawnInner, WaitInner,
              ReportRefusal, Quit, WaitFails, GivesUp
<1>2. CASE Stage2 \/ ReapFails
  BY <1>2 DEF Stage2, ClaimAuditChannel, BindLifetimeToSupervisor, ConfirmSupervisor, InstallFilter,
              RestrictSelf, OpenPinned, Verify, StartCommand, DropChannel, ReapUntil, ReportRefusal,
              Quit, ReapFails, GivesUp
<1>3. CASE Kernel \/ Surroundings
  BY <1>3 DEF Kernel, Surroundings, Deliver, Strike, Swap, CommandForks, CommandEnds, StragglerEnds,
              LeavesGroup
<1> QED
  BY <1>1, <1>2, <1>3 DEF Below, WaitRefused

\* The channel is read to its end: everything that was ever written to it.
LEMMA ReadKeeps ==
  ASSUME Inv, PipeInv, TrailInv, RecordReports \/ RecordsUnread
  PROVE  TrailInv'
<1>1. /\ parent = "records" /\ parent' = "close" /\ writers' = {} /\ UNCHANGED <<pipe, finished>>
      /\ trail = <<Spawned>> /\ refusal = Nothing /\ "records" \notin lost
  BY DEF RecordReports, RecordsUnread, TrailInv, stageVars
<1>2. CASE RecordReports
  <2>1. Decode(pipe) = pipe
    <3>1. pipe \in Seq(Weakenings \cup Refusals) /\ Len(pipe) <= 4
      BY DEF PipeInv, PipeType
    <3>2. RecordLimit = 4
      BY DEF RecordLimit, Degradations
    <3>3. Len(pipe) < RecordLimit \/ Len(pipe) = RecordLimit
      <4>1. Len(pipe) \in Nat /\ Len(pipe) <= 4
        BY <3>1
      <4>2. \A n \in Nat : n <= 4 => n < 4 \/ n = 4
        OBVIOUS
      <4>3. Len(pipe) < 4 \/ Len(pipe) = 4
        BY <4>1, <4>2, Zenon
      <4> QED
        BY <3>2, <4>3, Zenon
    <3>4. Decode(pipe) = SubSeq(pipe, 1, Len(pipe))
      <4>1. CASE Len(pipe) < RecordLimit
        BY <4>1 DEF Decode
      <4>2. CASE Len(pipe) = RecordLimit
        BY <4>2, Zenon DEF Decode
      <4> QED
        BY <3>3, <4>1, <4>2
    <3> QED
      BY <3>1, <3>4
  <2>2. Read' = pipe
    BY <1>1, <1>2 DEF Read, RecordReports, stageVars
  <2>3. trail' = <<Spawned>> \o Told' /\ refusal' = RefusalIn(Read')
    BY <1>1, <1>2, <2>1, <2>2 DEF Told, RecordReports
  <2> QED
    BY <1>1, <2>3 DEF TrailInv, TrailTellsTheResult
<1>3. CASE RecordsUnread
  <2>1. Read' = <<>>
    BY <1>1, <1>3 DEF Read, RecordsUnread
  <2>2. DegradedIn(<<>>) = <<>> /\ RefusalIn(<<>>) = Nothing
    BY DEF DegradedIn, Picked, RefusalIn
  <2>3. Told' = <<>>
    BY <2>1, <2>2 DEF Told
  <2>4. trail' = <<Spawned>> \o <<>>
    BY <1>1, <1>3 DEF RecordsUnread
  <2>5. trail' = <<Spawned>> \o Told' /\ refusal' = RefusalIn(Read')
    BY <1>1, <1>3, <2>1, <2>2, <2>3, <2>4 DEF RecordsUnread
  <2> QED
    BY <1>1, <2>5 DEF TrailInv, TrailTellsTheResult
<1> QED
  BY <1>2, <1>3

\* The closing record is what the caller gets, but for a refusal next to a failed wait.
LEMMA CloseKeeps ==
  ASSUME Inv, PipeInv, TrailInv, Close
  PROVE  TrailInv'
<1> DEFINE Entries == {Spawned, Closing} \cup {Degraded(step) : step \in Weakenings \cup Refusals}
           refused == {Read[i] : i \in {j \in DOMAIN Read : IsRefusal(Read[j])}}
<1>1. /\ trail = <<Spawned>> \o Told /\ trail' = Append(trail, Closing) /\ writers' = {}
      /\ parent' = "returned" /\ refusal = RefusalIn(Read) /\ Read' = Read
      /\ finished.label \in Waits \cup {Nothing}
      /\ result' = IF refusal # Nothing /\ ~IsError(finished) THEN Error(refusal) ELSE finished
  BY DEF TrailInv, Close, Read, stageVars
<1>2. Told \in Seq(Entries)
  BY ToldType
<1>3. trail' = <<Spawned>> \o Told \o <<Closing>> /\ Last(trail') = Closing /\ trail' # <<>>
  <2> HIDE DEF Entries
  <2>1. Spawned \in Entries /\ Closing \in Entries
    BY DEF Entries
  <2>2. trail \in Seq(Entries)
    BY <1>1, <1>2, <2>1
  <2>3. trail' = trail \o <<Closing>>
    BY <1>1, <2>1, <2>2
  <2>4. Len(trail') = Len(trail) + 1 /\ trail'[Len(trail) + 1] = Closing
    BY <1>1, <2>1, <2>2
  <2> QED
    BY <1>1, <2>2, <2>3, <2>4 DEF Last
<1>4. Told' = Told
  BY <1>1 DEF Told
<1>5. IF refusal = Nothing THEN refused = {} ELSE refused = {refusal}
  BY <1>1, RefusalRead
<1>6. \A label \in refused : Closing = Failed(label)
  BY <1>5 DEF Closing
<1>7. IF result'.label = Nothing
        THEN Closing = Exited(result'.status)
        ELSE \/ Closing = Failed(result'.label)
             \/ result'.label \in {"timeout", "spawn_failed"} /\ refused # {}
  BY <1>1, <1>5 DEF Closing, IsError, Error, Waits
<1>8. TrailTellsTheResult'
  <2> HIDE DEF refused
  <2>1. /\ DegradedIn(Read') = DegradedIn(Read)
        /\ {Read'[i] : i \in {j \in DOMAIN Read' : IsRefusal(Read'[j])}} = refused
    BY <1>1 DEF refused
  <2> QED
    BY <1>3, <1>6, <1>7, <2>1 DEF TrailTellsTheResult, Read, Told
<1> QED
  BY <1>1, <1>8 DEF TrailInv

\* The trail, over every step.
LEMMA TrailKeeps ==
  ASSUME Inv, PipeInv, TrailInv, Next
  PROVE  TrailInv'
<1>1. CASE Below
  <2>1. UNCHANGED <<call, parentVars>> /\ ("records" \in lost' <=> "records" \in lost)
    BY <1>1, ReadingIsTheCalls DEF Below
  <2>2. CASE parent \in {"close", "returned"}
    <3>1. writers = {} /\ ~Alive("s1")
      BY <2>2 DEF TrailInv, Inv, CallInv
    <3>2. UNCHANGED <<pipe, writers>>
      BY <1>1, <3>1, ChannelFrozen
    <3>3. Read' = Read
      BY <2>1, <3>2 DEF Read
    <3>4. Told' = Told /\ (TrailTellsTheResult => TrailTellsTheResult')
      BY <2>1, <3>2, <3>3 DEF Told, TrailTellsTheResult, parentVars
    <3> QED
      BY <2>1, <2>2, <3>1, <3>2, <3>3, <3>4 DEF TrailInv, parentVars
  <2>3. CASE parent \notin {"close", "returned"}
    BY <2>1, <2>3 DEF TrailInv, parentVars, TrailTellsTheResult
  <2> QED
    BY <2>2, <2>3
<1>2. CASE RefuseCall
  BY <1>2 DEF RefuseCall, TrailInv, TrailTellsTheResult, Error
<1>3. CASE EmitSpawned
  <2>1. trail = <<>> /\ trail' = Append(trail, Spawned)
    BY <1>3 DEF EmitSpawned, TrailInv
  <2>2. trail' = <<Spawned>>
    BY <2>1
  <2> QED
    BY <1>3, <2>2 DEF EmitSpawned, TrailInv, TrailTellsTheResult, stageVars
<1>4. CASE StartHelper
  BY <1>4 DEF StartHelper, TrailInv, TrailTellsTheResult, Error, Waits
<1>5. CASE RunToCompletion
  <2>1. finished'.label \in Waits \cup {Nothing}
    BY <1>5 DEF RunToCompletion, Ended, Error, Waits
  <2> QED
    BY <1>5, <2>1 DEF RunToCompletion, TrailInv, TrailTellsTheResult
<1>6. CASE Poll \/ PollFails
  BY <1>6 DEF Poll, PollFails, TrailInv, TrailTellsTheResult, Ended, Error, Waits, stageVars
<1>7. CASE KillGroup
  <2>1. /\ parent = "kill" /\ parent' \in {"reap", "records"}
        /\ UNCHANGED <<lost, writers, finished, refusal, trail>>
    BY <1>7 DEF KillGroup
  <2> QED
    BY <2>1 DEF TrailInv, TrailTellsTheResult
<1>8. CASE ReapHelper
  BY <1>8 DEF ReapHelper, TrailInv, TrailTellsTheResult, stageVars
<1>9. CASE RecordReports \/ RecordsUnread
  BY <1>9, ReadKeeps
<1>10. CASE Close
  BY <1>10, CloseKeeps
<1>11. CASE Expire
  BY <1>11 DEF Expire, TrailInv, TrailTellsTheResult, stageVars
<1> QED
  BY <1>1, <1>2, <1>3, <1>4, <1>5, <1>6, <1>7, <1>8, <1>9, <1>10, <1>11 DEF Next, Output, OutputFails

LEMMA TrailInvariant == Spec => []TrailInv
<1>1. Init => TrailInv
  BY DEF Init, StagesInit, TrailInv, TrailTellsTheResult
<1>2. Inv /\ PipeInv /\ TrailInv /\ [Next]_vars => TrailInv'
  <2>1. ASSUME TrailInv, UNCHANGED vars PROVE TrailInv'
    <3>1. UNCHANGED <<pipe, lost, parent, writers, finished, refusal, trail, result>>
      BY <2>1 DEF vars, stageVars
    <3>2. Read' = Read
      BY <3>1 DEF Read
    <3>3. Told' = Told /\ (TrailTellsTheResult => TrailTellsTheResult')
      BY <3>1, <3>2 DEF Told, TrailTellsTheResult
    <3> QED
      BY <2>1, <3>1, <3>2, <3>3 DEF TrailInv
  <2> QED
    BY <2>1, TrailKeeps
<1> QED
  BY <1>1, <1>2, SpawnInvariant, PipeInvariant, PTL DEF Spec

\* The trail of a call that returned is spawned, what degraded, and one closing record, which
\* agrees with what the caller got: the refusal the channel named whatever the status was.
THEOREM TrailTells == Spec => []TrailTellsTheResult
<1>1. TrailInv => TrailTellsTheResult
  BY DEF TrailInv
<1> QED
  BY <1>1, TrailInvariant, PTL

-----------------------------------------------------------------------------
(***************************************************************************)
(* What the status is                                                      *)
(***************************************************************************)

\* Whether a stage's own failure went another way than its status.
Untold == "refusal" \in lost \/ Refused

\* The command's end in the form the stages hand it on.
CommandsOwn(how) ==
  ran # Nothing /\ task["command"] = "dead" /\ how = Exit(ExitCode(status["command"]))

\* The end of a stage nobody asked for, or what stage 1 makes of it.
Struck(how) == strikes > 0 /\ how \in {Signal(SIGKILL), Signal(SIGSEGV), Exit(128 + SIGSEGV)}

\* Whether the call itself killed the helper, for a wait that gave no status.
Killed == parent \in {"reap", "records", "close", "returned"} /\ IsError(finished)

Explained(how) == Untold \/ CommandsOwn(how) \/ Struck(how) \/ Killed

\* A kill is pending for the living only; every stage's end is explained; and what the wait
\* gave is the supervisor's end.
EndShape ==
  /\ status = [p \in Stages \cup {"command"} |-> status[p]] /\ strikes \in Nat
  /\ \A t \in Tasks : t \in doomed => TaskAlive(t)

EndsExplained ==
  /\ Alive("s1") /\ doomed \cap Stages # {} => strikes > 0 \/ Killed
  /\ \A s \in Stages : at[s] = "quit" => Untold
  /\ Alive("s1") /\ at["s2"] = "dead" => Explained(status["s2"])
  /\ at["s1"] = "dead" => Explained(status["s1"])

WaitInv ==
  /\ parent \in {"poll", "output"} => at["s1"] # Nothing
  /\ finished.label = Nothing => at["s1"] = "dead" /\ finished.status = status["s1"]

StatusInv == EndShape /\ EndsExplained /\ WaitInv /\ StatusIsTheCommands

\* What explains an end stays: losses and strikes are counted up, a refusal stays on the
\* channel, the dead stay dead, and a call that gave up stays so.
Stays ==
  /\ lost \subseteq lost' /\ (Refused => Refused') /\ (strikes > 0 => strikes' > 0)
  /\ ran # Nothing /\ task["command"] = "dead" =>
       ran' # Nothing /\ task'["command"] = "dead" /\ status'["command"] = status["command"]
  /\ Killed => Killed'

LEMMA ExplainedStays ==
  ASSUME Stays, NEW how, Explained(how)
  PROVE  Explained(how)'
BY DEF Stays, Explained, Untold, CommandsOwn, Struck

\* Once written, a refusal is not written over.
LEMMA RefusedStays ==
  ASSUME Inv, PipeInv, Next
  PROVE  Refused => Refused'
<1>1. UNCHANGED pipe \/ ReportDegraded \/ \E s \in Stages : ReportRefusal(s)
  <2>1. CASE Output \/ OutputFails \/ Expire
    BY <2>1 DEF Output, OutputFails, RefuseCall, EmitSpawned, StartHelper, RunToCompletion, Poll,
       PollFails, KillGroup, ReapHelper, RecordReports, RecordsUnread, Close, Expire, stageVars
  <2>2. CASE Stage1 \/ WaitFails
    BY <2>2 DEF Stage1, FindSelf, PrepareSupervisor, SpawnInner, WaitInner, Quit, WaitFails
  <2>3. CASE Stage2 \/ ReapFails
    BY <2>3 DEF Stage2, ClaimAuditChannel, BindLifetimeToSupervisor, ConfirmSupervisor, InstallFilter,
                RestrictSelf, OpenPinned, Verify, StartCommand, DropChannel, ReapUntil, Quit, ReapFails
  <2>4. CASE Kernel \/ Surroundings
    BY <2>4 DEF Kernel, Surroundings, Deliver, Strike, Swap, CommandForks, CommandEnds, StragglerEnds,
                LeavesGroup
  <2> QED
    BY <2>1, <2>2, <2>3, <2>4 DEF Next, Below, WaitRefused
<1>2. CASE UNCHANGED pipe
  BY <1>2 DEF Refused
<1>3. CASE ReportDegraded
  BY <1>3 DEF ReportDegraded, PipeInv, RefusedInv
<1>4. ASSUME NEW s \in Stages, ReportRefusal(s)
      PROVE  ~Refused
  BY <1>4 DEF ReportRefusal, PipeInv, RefusedInv
<1> QED
  BY <1>1, <1>2, <1>3, <1>4

\* What explains an end stays, over every step below the call.
LEMMA BelowStays ==
  ASSUME Inv, PipeInv, EndShape, Below
  PROVE  Stays
<1>1. Refused => Refused'
  BY RefusedStays DEF Next
<1>2. Killed => Killed'
  BY DEF Below, parentVars, Killed
<1> USE DEF EndShape, Inv, ShapeInv
<1>3. CASE Stage1 \/ WaitFails
  <2>1. UNCHANGED <<strikes, ran, task>> /\ lost \subseteq lost' /\ status'["command"] = status["command"]
    BY <1>3 DEF Stage1, FindSelf, PrepareSupervisor, ReportDegraded, SpawnInner, WaitInner,
                ReportRefusal, Quit, WaitFails, GivesUp, Dies
  <2> QED
    BY <1>1, <1>2, <2>1 DEF Stays
<1>4. CASE Stage2 \/ ReapFails
  <2>1. UNCHANGED strikes /\ lost \subseteq lost'
    BY <1>4 DEF Stage2, ClaimAuditChannel, BindLifetimeToSupervisor, ConfirmSupervisor, InstallFilter,
                RestrictSelf, OpenPinned, Verify, StartCommand, DropChannel, ReapUntil, ReportRefusal,
                Quit, ReapFails, GivesUp
  <2>2. CASE StartCommand
    BY <1>1, <1>2, <2>1, <2>2 DEF Stays, StartCommand, PipeInv, RefusedInv
  <2>3. CASE ~StartCommand
    <3>1. /\ UNCHANGED ran
          /\ UNCHANGED <<task, status>> \/ \E how : Dies("s2", how)
      BY <1>4, <2>3 DEF Stage2, ClaimAuditChannel, BindLifetimeToSupervisor, ConfirmSupervisor,
          InstallFilter, RestrictSelf, OpenPinned, Verify, DropChannel, ReapUntil, ReportRefusal,
          Quit, ReapFails
    <3> QED
      BY <1>1, <1>2, <2>1, <3>1 DEF Stays, Dies
  <2> QED
    BY <2>2, <2>3
<1>5. CASE Kernel \/ Surroundings
  <2>1. /\ UNCHANGED <<ran, lost>> /\ (strikes > 0 => strikes' > 0)
    BY <1>5 DEF Kernel, Surroundings, Deliver, Strike, Swap, CommandForks, CommandEnds, StragglerEnds,
                LeavesGroup
  <2>2. \/ UNCHANGED <<task, status>>
        \/ UNCHANGED status /\ (CommandForks \/ \E t \in Tasks : LeavesGroup(t))
        \/ \E s \in Stages : \E how : Dies(s, how)
        \/ \E t \in Tasks : \E how : TaskAlive(t) /\ TaskDies(t, how)
    BY <1>5 DEF Kernel, Surroundings, Deliver, Strike, Swap, CommandForks, CommandEnds, StragglerEnds,
                LeavesGroup
  <2>3. task["command"] = "dead" => task'["command"] = "dead" /\ status'["command"] = status["command"]
    BY <2>2 DEF CommandForks, LeavesGroup, Dies, TaskDies
  <2> QED
    BY <1>1, <1>2, <2>1, <2>3 DEF Stays
<1> QED
  BY <1>3, <1>4, <1>5 DEF Below, WaitRefused

\* And over the call's own steps.
LEMMA CallStays ==
  ASSUME Inv, PipeInv, EndShape, Output \/ OutputFails \/ Expire
  PROVE  Stays
<1>1. Refused => Refused'
  BY RefusedStays DEF Next
<1>2. UNCHANGED <<strikes, ran, task, status>> /\ lost \subseteq lost'
  BY DEF Output, OutputFails, RefuseCall, EmitSpawned, StartHelper, RunToCompletion, Poll,
       PollFails, KillGroup, ReapHelper, RecordReports, RecordsUnread, Close, Expire, stageVars
<1>3. Killed => Killed'
  BY DEF Killed, Output, OutputFails, RefuseCall, EmitSpawned, StartHelper, RunToCompletion, Poll,
       PollFails, KillGroup, ReapHelper, RecordReports, RecordsUnread, Close, Expire
<1> QED
  BY <1>1, <1>2, <1>3 DEF Stays

LEMMA EndShapeKeeps ==
  ASSUME Inv, EndShape, Next
  PROVE  EndShape'
<1> USE DEF EndShape, Inv, ShapeInv
<1>1. CASE Output \/ OutputFails \/ Expire
  BY <1>1 DEF Output, OutputFails, RefuseCall, EmitSpawned, StartHelper, RunToCompletion, Poll,
       PollFails, KillGroup, Group, ReapHelper, RecordReports, RecordsUnread, Close, Expire, stageVars
<1>2. CASE Stage1 \/ WaitFails
  BY <1>2 DEF Stage1, FindSelf, PrepareSupervisor, ReportDegraded, SpawnInner, WaitInner,
              ReportRefusal, Quit, WaitFails, Dies
<1>3. CASE Stage2 \/ ReapFails
  BY <1>3 DEF Stage2, ClaimAuditChannel, BindLifetimeToSupervisor, ConfirmSupervisor, InstallFilter,
              RestrictSelf, OpenPinned, Verify, StartCommand, DropChannel, ReapUntil, ReportRefusal,
              Quit, ReapFails, Dies
<1>4. CASE Kernel
  BY <1>4 DEF Kernel, Deliver, Dies, TaskDies
<1>5. CASE Surroundings
  BY <1>5 DEF Surroundings, Strike, Swap, CommandForks, CommandEnds, StragglerEnds, LeavesGroup,
              Dies, TaskDies
<1> QED
  BY <1>1, <1>2, <1>3, <1>4, <1>5 DEF Next, Below, WaitRefused

\* What a stage makes of an end that is explained is explained.
LEMMA RelayExplained ==
  ASSUME NEW how, Explained(how)
  PROVE  Explained(Relay(how))
<1>1. CASE CommandsOwn(how)
  <2>1. Relay(how) = how
    BY <1>1 DEF CommandsOwn, Relay, ExitCode, Exit
  <2> QED
    BY <1>1, <2>1 DEF Explained
<1>2. CASE Struck(how)
  <2>1. Relay(Signal(SIGKILL)) = Signal(SIGKILL)
    BY DEF Relay, Raised, Signal, SIGKILL
  <2>2. Relay(Signal(SIGSEGV)) = Exit(128 + SIGSEGV)
    BY DEF Relay, Raised, Signal, SIGKILL, SIGSEGV, ExitCode, Exit
  <2>3. Relay(Exit(128 + SIGSEGV)) = Exit(128 + SIGSEGV)
    BY DEF Relay, ExitCode, Exit
  <2> QED
    BY <1>2, <2>1, <2>2, <2>3 DEF Struck, Explained
<1> QED
  BY <1>1, <1>2 DEF Explained

\* Stage 1's end is stage 2's, its own failure, or a kill.
LEMMA Stage1Explained ==
  ASSUME Inv, PipeInv, EndShape, EndsExplained, UNCHANGED <<call, parentVars>>, Stage1 \/ WaitFails
  PROVE  EndsExplained'
<1>1. Stays
  BY BelowStays DEF Below, WaitRefused
<1>2. \A how : Explained(how) => Explained(how)'
  BY <1>1, ExplainedStays
<1>3. Untold => Untold'
  BY <1>1 DEF Stays, Untold
<1>4. Killed' = Killed
  BY DEF Killed, parentVars
<1> USE DEF EndShape, Inv, ShapeInv, EndsExplained
<1>5. CASE FindSelf
  BY <1>2, <1>3, <1>4, <1>5 DEF FindSelf, Goes, GivesUp, Untold
<1>6. CASE PrepareSupervisor
  BY <1>2, <1>3, <1>4, <1>6 DEF PrepareSupervisor, Goes, Refuses
<1>7. CASE ReportDegraded
  BY <1>2, <1>3, <1>4, <1>7 DEF ReportDegraded, Goes
<1>8. CASE SpawnInner
  BY <1>2, <1>3, <1>4, <1>8 DEF SpawnInner, Refuses
<1>9. CASE WaitInner
  <2>1. Explained(Relay(status["s2"]))
    BY <1>9, RelayExplained DEF WaitInner
  <2> QED
    BY <1>2, <1>3, <1>4, <1>9, <2>1 DEF WaitInner, Dies
<1>10. CASE ReportRefusal("s1")
  <2>1. Untold'
    BY <1>10, <1>1 DEF ReportRefusal, Untold, Refused, PipeInv, RefusedInv, PipeType, IsRefusal
  <2> QED
    BY <1>2, <1>4, <1>10, <2>1 DEF ReportRefusal, Goes
<1>11. CASE Quit("s1")
  BY <1>2, <1>3, <1>4, <1>11 DEF Quit, Dies, Explained
<1>12. CASE WaitFails
  BY <1>2, <1>3, <1>4, <1>12 DEF WaitFails, Goes, GivesUp, Untold
<1> QED
  BY <1>5, <1>6, <1>7, <1>8, <1>9, <1>10, <1>11, <1>12 DEF Stage1

\* Stage 2's end is the command's, its own failure, or a kill.
LEMMA Stage2Explained ==
  ASSUME Inv, PipeInv, EndShape, EndsExplained, UNCHANGED <<call, parentVars>>, Stage2 \/ ReapFails
  PROVE  EndsExplained'
<1>1. Stays
  BY BelowStays DEF Below, WaitRefused
<1>2. \A how : Explained(how) => Explained(how)'
  BY <1>1, ExplainedStays
<1>3. Untold => Untold'
  BY <1>1 DEF Stays, Untold
<1>4. Killed' = Killed
  BY DEF Killed, parentVars
<1> USE DEF EndShape, Inv, ShapeInv, EndsExplained
<1>5. CASE ClaimAuditChannel
  BY <1>2, <1>3, <1>4, <1>5 DEF ClaimAuditChannel, Goes, GivesUp, Untold
<1>6. CASE \/ BindLifetimeToSupervisor \/ ConfirmSupervisor \/ InstallFilter \/ RestrictSelf
           \/ OpenPinned \/ Verify \/ StartCommand \/ DropChannel
  <2>1. /\ UNCHANGED <<status, doomed, strikes, lost>>
        /\ \E place \in Places \ {"quit", "dead"} : at' = [at EXCEPT !["s2"] = place]
        /\ at["s2"] # "dead"
    BY <1>6 DEF BindLifetimeToSupervisor, ConfirmSupervisor, InstallFilter, RestrictSelf,
                OpenPinned, Verify, StartCommand, DropChannel, Goes, Refuses
  <2> QED
    BY <1>2, <1>3, <1>4, <2>1
<1>7. CASE ReapUntil
  <2>1. PICK how : how = Exit(ExitCode(status["command"]))
    OBVIOUS
  <2>2. CommandsOwn(how)
    BY <1>7, <2>1 DEF ReapUntil, CommandReaped, CommandsOwn, PipeInv, RefusedInv
  <2>3. Explained(how)'
    BY <1>2, <2>2 DEF Explained
  <2> QED
    BY <1>2, <1>3, <1>4, <1>7, <2>1, <2>3 DEF ReapUntil, Dies
<1>8. CASE ReportRefusal("s2")
  <2>1. Untold'
    BY <1>8, <1>1 DEF ReportRefusal, Untold, Refused, PipeInv, RefusedInv, PipeType, IsRefusal
  <2> QED
    BY <1>2, <1>4, <1>8, <2>1 DEF ReportRefusal, Goes
<1>9. CASE Quit("s2")
  BY <1>2, <1>3, <1>4, <1>9 DEF Quit, Dies, Explained
<1>10. CASE ReapFails
  <2>1. Untold'
    BY <1>10 DEF ReapFails, Untold
  <2> QED
    BY <1>2, <1>3, <1>4, <1>10, <2>1 DEF ReapFails, Dies, Explained
<1> QED
  BY <1>5, <1>6, <1>7, <1>8, <1>9, <1>10 DEF Stage2

\* A stage's end that is no step of its own is a kill, the call's or somebody else's.
LEMMA KillExplained ==
  ASSUME Inv, PipeInv, EndShape, EndsExplained, UNCHANGED <<call, parentVars>>, Kernel \/ Surroundings
  PROVE  EndsExplained'
<1>1. Stays
  BY BelowStays DEF Below
<1>2. \A how : Explained(how) => Explained(how)'
  BY <1>1, ExplainedStays
<1>3. Untold => Untold'
  BY <1>1 DEF Stays, Untold
<1>4. Killed' = Killed
  BY DEF Killed, parentVars
<1> USE DEF EndShape, Inv, ShapeInv, EndsExplained
<1>5. ASSUME NEW s \in Stages, Deliver(s)
      PROVE  EndsExplained'
  <2>1. s \in doomed /\ Dies(s, Signal(SIGKILL)) /\ UNCHANGED strikes /\ Alive(s)
    BY <1>5 DEF Deliver, WatchInv
  <2>2. PICK how : how = Signal(SIGKILL)
    OBVIOUS
  <2>3. Alive("s1") => Explained(how)'
    BY <1>4, <2>1, <2>2 DEF Explained, Struck
  <2>4. CASE s = "s1"
    BY <1>2, <1>3, <1>4, <2>1, <2>2, <2>3, <2>4 DEF Dies
  <2>5. CASE s = "s2"
    BY <1>2, <1>3, <1>4, <2>1, <2>2, <2>3, <2>5 DEF Dies
  <2> QED
    BY <2>4, <2>5
<1>6. ASSUME NEW t \in Tasks, \E how : TaskDies(t, how),
             UNCHANGED strikes
      PROVE  EndsExplained'
  BY <1>2, <1>3, <1>4, <1>6 DEF TaskDies
<1>7. ASSUME NEW s \in Stages, Strike(s)
      PROVE  EndsExplained'
  <2>1. strikes' > 0 /\ Alive(s)
    BY <1>7 DEF Strike
  <2>2. CASE UNCHANGED <<at, status>>
    BY <1>2, <1>3, <2>1, <2>2
  <2>3. CASE Dies(s, Signal(SIGSEGV))
    <3>1. PICK how : how = Signal(SIGSEGV)
      OBVIOUS
    <3>2. Explained(how)'
      BY <2>1, <3>1 DEF Explained, Struck
    <3>3. CASE s = "s1"
      BY <1>2, <1>3, <2>1, <2>3, <3>1, <3>2, <3>3 DEF Dies
    <3>4. CASE s = "s2"
      BY <1>2, <1>3, <2>1, <2>3, <3>1, <3>2, <3>4 DEF Dies
    <3> QED
      BY <3>3, <3>4
  <2> QED
    BY <1>7, <2>2, <2>3 DEF Strike
<1>8. CASE Swap \/ CommandForks \/ \E t \in Tasks : LeavesGroup(t)
  BY <1>2, <1>3, <1>4, <1>8 DEF Swap, CommandForks, LeavesGroup
<1>9. CASE \E t \in Tasks : Deliver(t)
  BY <1>6, <1>9 DEF Deliver
<1>10. CASE CommandEnds \/ StragglerEnds
  BY <1>6, <1>10 DEF CommandEnds, StragglerEnds
<1> QED
  BY <1>5, <1>7, <1>8, <1>9, <1>10 DEF Kernel, Surroundings

\* The call starts a supervisor, kills what it may not wait for, and ends nothing otherwise.
LEMMA CallExplained ==
  ASSUME Inv, PipeInv, EndShape, EndsExplained, WaitInv, TrailInv, Output \/ OutputFails \/ Expire
  PROVE  EndsExplained'
<1>1. Stays
  BY CallStays
<1>2. \A how : Explained(how) => Explained(how)'
  BY <1>1, ExplainedStays
<1>3. (Untold => Untold') /\ (Killed => Killed')
  BY <1>1 DEF Stays, Untold
<1> USE DEF EndShape, Inv, ShapeInv, EndsExplained
<1>4. UNCHANGED <<status, strikes>>
  BY DEF Output, OutputFails, RefuseCall, EmitSpawned, StartHelper, RunToCompletion, Poll,
       PollFails, KillGroup, ReapHelper, RecordReports, RecordsUnread, Close, Expire, stageVars
<1>5. CASE KillGroup
  <2>1. UNCHANGED at /\ (IsError(finished) => Killed')
    BY <1>5 DEF KillGroup, Killed
  <2>2. ~IsError(finished) => at["s1"] = "dead"
    BY DEF WaitInv, IsError
  <2> QED
    BY <1>2, <1>3, <1>4, <2>1, <2>2
<1>6. CASE StartHelper
  <2>1. UNCHANGED doomed /\ (UNCHANGED at \/ (at["s1"] = Nothing /\ at' = [at EXCEPT !["s1"] = "find_self"]))
    BY <1>6 DEF StartHelper, CallInv
  <2>2. at["s1"] = Nothing => at["s2"] = Nothing /\ "s2" \notin doomed /\ "s1" \notin doomed
    BY DEF WatchInv
  <2> QED
    BY <1>2, <1>3, <1>4, <2>1, <2>2
<1>7. CASE ~KillGroup /\ ~StartHelper
  <2>1. UNCHANGED <<at, doomed>>
    BY <1>7 DEF Output, OutputFails, RefuseCall, EmitSpawned, RunToCompletion, Poll,
       PollFails, ReapHelper, RecordReports, RecordsUnread, Close, Expire, stageVars
  <2> QED
    BY <1>2, <1>3, <1>4, <2>1
<1> QED
  BY <1>5, <1>6, <1>7

\* The wait's status is the supervisor's, which ends once.
LEMMA WaitKeeps ==
  ASSUME Inv, EndShape, WaitInv, Next
  PROVE  WaitInv'
<1> USE DEF EndShape, Inv, ShapeInv, WaitInv
<1>1. CASE Output \/ OutputFails \/ Expire
  <2>1. CASE RunToCompletion \/ Poll \/ PollFails
    BY <2>1 DEF RunToCompletion, OutputClosed, Poll, PollFails, stageVars, Ended, Error
  <2>2. CASE StartHelper
    BY <2>2 DEF StartHelper, CallInv, Error
  <2>3. CASE RefuseCall \/ EmitSpawned \/ KillGroup \/ ReapHelper \/ RecordReports \/ RecordsUnread
             \/ Close \/ Expire
    BY <2>3 DEF RefuseCall, EmitSpawned, KillGroup, ReapHelper, RecordReports, RecordsUnread, Close,
                Expire, stageVars
  <2> QED
    BY <1>1, <2>1, <2>2, <2>3 DEF Output, OutputFails
<1>2. CASE Below
  <2>1. UNCHANGED parentVars
    BY <1>2 DEF Below
  <2>2. (at["s1"] # Nothing => at'["s1"] # Nothing)
        /\ (at["s1"] = "dead" => at'["s1"] = "dead" /\ status'["s1"] = status["s1"])
    <3>1. CASE Stage1 \/ WaitFails
      BY <3>1 DEF Stage1, FindSelf, PrepareSupervisor, ReportDegraded, SpawnInner, WaitInner,
                  ReportRefusal, Quit, WaitFails, Goes, GivesUp, Refuses, Dies
    <3>2. CASE Stage2 \/ ReapFails
      <4>1. at'["s1"] = at["s1"] /\ status'["s1"] = status["s1"]
        BY <3>2 DEF Stage2, ClaimAuditChannel, BindLifetimeToSupervisor, ConfirmSupervisor,
              InstallFilter, RestrictSelf, OpenPinned, Verify, StartCommand, DropChannel, ReapUntil,
              ReportRefusal, Quit, ReapFails, Goes, GivesUp, Refuses, Dies
      <4> QED
        BY <4>1
    <3>3. CASE Kernel
      BY <3>3 DEF Kernel, Deliver, Dies, TaskDies, WatchInv
    <3>4. CASE Surroundings
      BY <3>4 DEF Surroundings, Strike, Swap, CommandForks, CommandEnds, StragglerEnds, LeavesGroup,
                  Dies, TaskDies
    <3> QED
      BY <1>2, <3>1, <3>2, <3>3, <3>4 DEF Below, WaitRefused
  <2> QED
    BY <2>1, <2>2 DEF parentVars
<1> QED
  BY <1>1, <1>2 DEF Next

\* An end that is explained, where nothing was lost, is the command's or follows a strike.
Accounted(end) ==
  IF end[1] = "signal"
    THEN strikes > 0
    ELSE \/ /\ ran # Nothing /\ task["command"] = "dead"
            /\ end[2] = IF status["command"][1] = "exit" THEN status["command"][2]
                        ELSE 128 + status["command"][2]
         \/ strikes > 0 /\ end[2] = 128 + SIGSEGV

LEMMA ExplainedIsAccounted ==
  ASSUME NEW end, Explained(end), ~Untold, ~Killed
  PROVE  Accounted(end)
<1>1. CASE CommandsOwn(end)
  BY <1>1 DEF CommandsOwn, Accounted, Exit, ExitCode
<1>2. CASE Struck(end)
  BY <1>2 DEF Struck, Accounted, Exit, Signal
<1> QED
  BY <1>1, <1>2 DEF Explained

\* The status, over every step.
LEMMA StatusKeeps ==
  ASSUME Inv, PipeInv, TrailInv, StatusInv, Next
  PROVE  StatusInv'
<1>1. EndShape' /\ WaitInv'
  BY EndShapeKeeps, WaitKeeps DEF StatusInv
<1>2. EndsExplained'
  <2>1. CASE Output \/ OutputFails \/ Expire
    BY <2>1, CallExplained DEF StatusInv
  <2>2. CASE Below
    <3>1. CASE Stage1 \/ WaitFails
      BY <2>2, <3>1, Stage1Explained DEF StatusInv, Below
    <3>2. CASE Stage2 \/ ReapFails
      BY <2>2, <3>2, Stage2Explained DEF StatusInv, Below
    <3>3. CASE Kernel \/ Surroundings
      BY <2>2, <3>3, KillExplained DEF StatusInv, Below
    <3> QED
      BY <2>2, <3>1, <3>2, <3>3 DEF Below, WaitRefused
  <2> QED
    BY <2>1, <2>2 DEF Next
<1>3. StatusIsTheCommands'
  <2>1. CASE Below
    <3>1. Stays /\ UNCHANGED <<parent, result>>
      BY <2>1, BelowStays DEF StatusInv, Below, parentVars
    <3>2. lost' = {} => lost = {}
      BY <3>1 DEF Stays
    <3> QED
      BY <3>1, <3>2 DEF Stays, StatusInv, StatusIsTheCommands
  <2>2. CASE Close
    <3>1. UNCHANGED <<at, status, task, ran, strikes, lost, pipe>>
      BY <2>2 DEF Close, stageVars
    <3> SUFFICES ASSUME ~IsError(result'), lost = {}
                 PROVE  Accounted(result'.status)
      BY <3>1 DEF StatusIsTheCommands, Accounted
    <3>2. result' = finished /\ ~IsError(finished) /\ RefusalIn(Read) = Nothing
      BY <2>2 DEF Close, TrailInv, IsError, Error
    <3>3. Read = pipe
      BY DEF Read
    <3>4. ~Refused
      BY <3>2, <3>3, RefusalRead DEF Refused
    <3>5. Explained(finished.status)
      BY <3>2 DEF StatusInv, WaitInv, EndsExplained, IsError
    <3>6. ~Untold /\ ~Killed
      BY <3>2, <3>4 DEF Untold, Killed
    <3> QED
      BY <3>2, <3>5, <3>6, ExplainedIsAccounted
  <2>3. CASE RefuseCall
    BY <2>3 DEF RefuseCall, StatusIsTheCommands, IsError, Error
  <2>4. CASE \/ EmitSpawned \/ StartHelper \/ RunToCompletion \/ Poll \/ PollFails \/ KillGroup
             \/ ReapHelper \/ RecordReports \/ RecordsUnread \/ Expire
    <3>1. parent' # "returned"
      BY <2>4 DEF EmitSpawned, StartHelper, RunToCompletion, Poll, PollFails, KillGroup, ReapHelper,
                  RecordReports, RecordsUnread, Expire
    <3> QED
      BY <3>1 DEF StatusIsTheCommands
  <2> QED
    BY <2>1, <2>2, <2>3, <2>4 DEF Next, Output, OutputFails
<1> QED
  BY <1>1, <1>2, <1>3 DEF StatusInv

\* Every end of a stage in every state of a call is explained.
LEMMA StatusInvariant == Spec => []StatusInv
<1>1. Init => StatusInv
  BY DEF Init, StagesInit, StatusInv, EndShape, EndsExplained, WaitInv, StatusIsTheCommands, Error,
         Pending
<1>2. Inv /\ PipeInv /\ TrailInv /\ StatusInv /\ [Next]_vars => StatusInv'
  <2>1. ASSUME StatusInv, UNCHANGED vars PROVE StatusInv'
    BY <2>1 DEF vars, stageVars, StatusInv, EndShape, EndsExplained, WaitInv, StatusIsTheCommands,
                Explained, Untold, Refused, CommandsOwn, Struck, Killed
  <2> QED
    BY <2>1, StatusKeeps
<1> QED
  BY <1>1, <1>2, SpawnInvariant, PipeInvariant, TrailInvariant, PTL DEF Spec

\* A status handed back as the command's is the command's, unless a stage's own failure never
\* reached the channel or a stage was killed or crashed.
THEOREM StatusIsItsOwn == Spec => []StatusIsTheCommands
<1>1. StatusInv => StatusIsTheCommands
  BY DEF StatusInv
<1> QED
  BY <1>1, StatusInvariant, PTL
=============================================================================
