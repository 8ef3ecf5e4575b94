---------------------------- MODULE HelperStages ----------------------------
(***************************************************************************)
(* The re-exec'd helper below one SandboxedCommand::output: stage 1, the   *)
(* supervisor that makes the namespaces; stage 2, the init of the new PID  *)
(* namespace that confines itself and starts the command; the command and  *)
(* one straggler it may leave behind; and what the kernel does to them.    *)
(*                                                                         *)
(* A process is only ever ended by a step of its own or by a signal.  A    *)
(* SIGKILL is sent at one moment and takes effect at a later one, so       *)
(* "doomed" holds the processes a kill is pending for: they may still take *)
(* steps, but the kernel refuses them a fork.                              *)
(*                                                                         *)
(* Steps of one stage between which nothing another process can see        *)
(* changes are one action.                                                 *)
(***************************************************************************)
EXTENDS Naturals, Sequences, SequencesExt, Picking

CONSTANTS
  CommandStatuses,  \* how a command may end of its own accord
  DegradedTogether, \* bound: the sets of hardening steps one run may find degraded
  MaxStrikes,       \* bound: deaths of a stage nothing in the code asked for
  MaxSwaps          \* bound: replacements of the program's file

VARIABLES
  call,      \* what the caller asked for: a deadline or not, a pin or none
  at,        \* where each stage is
  reason,    \* the refusal a stage is about to report
  status,    \* how each process ended
  task,      \* the command and its straggler: where they are
  doomed,    \* processes a SIGKILL is pending for
  armed,     \* whether stage 2 asked to die with its supervisor
  stdin,     \* what is on stage 2's fd 0: "channel" or "null"
  confined,  \* restrictions the command would be born into
  degraded,  \* what stage 1 could not harden
  pipe,      \* records written to the audit channel
  writers,   \* processes holding its write end
  program,   \* what the program's path names
  image,     \* what the descriptor opened to be hashed holds
  ran,       \* what was exec'd as the command
  lost,      \* "refusal": one never reached the channel; "records": it was not read
  strikes, swaps

stageVars == <<at, reason, status, task, doomed, armed, stdin, confined, degraded,
               pipe, writers, program, image, ran, lost, strikes, swaps>>

Stages == {"s1", "s2"}
Tasks == {"command", "straggler"}

Exit(code) == <<"exit", code>>
Signal(number) == <<"signal", number>>
Running == <<"running", 0>>

SIGKILL == 9
SIGSEGV == 11

\* Degradation::ALL in the order stage 1 meets them.
Degradations == <<"unresolved_dns_name", "userns_identity_map", "capability_bounding_set">>

\* HelperRefusal::ALL: the labels a stage may put on the channel.
Refusals == {"bad_helper_args", "landlock", "grant_redirected", "grant_replaced", "seccomp",
             "namespace_setup_failed", "process_hardening", "inner_stage_failed",
             "exec_failed", "pin_mismatch", "pin_unreadable", "pinned_script", "unsupported"}

Nothing == "none"

Contents == {"binary", "script", "other"}

\* Each of these is applied by one step; a command is to be born into all of them.
Restrictions == {"namespaces", "capabilities", "no_new_privs", "seccomp", "landlock",
                 "init_not_dumpable"}

Alive(stage) == at[stage] \notin {Nothing, "dead"}
TaskAlive(t) == task[t] \in {"in_group", "left_group"}

StagesInit ==
  /\ call \in [timed : BOOLEAN, pin : {Nothing, "binary", "script"}]
  /\ at = [s \in Stages |-> Nothing] /\ reason = [s \in Stages |-> Nothing]
  /\ status = [p \in Stages \cup {"command"} |-> Running]
  /\ task = [t \in Tasks |-> Nothing]
  /\ doomed = {} /\ armed = FALSE /\ stdin = "channel"
  /\ confined = {} /\ degraded = <<>>
  /\ pipe = <<>> /\ writers = {"parent"}
  /\ program \in IF call.pin = Nothing THEN {"binary"} ELSE Contents
  /\ image = Nothing /\ ran = Nothing
  /\ lost = {} /\ strikes = 0 /\ swaps = 0

(***************************************************************************)
(* The kernel                                                              *)
(***************************************************************************)

\* The init's death takes its namespace down before anyone can wait for it; the
\* supervisor's sends the parent death signal, if it was asked for by then.
Dies(stage, how) ==
  /\ at' = [at EXCEPT ![stage] = "dead"]
  /\ IF stage = "s2"
       THEN /\ status' = [p \in DOMAIN status |->
                            CASE p = "s2" -> how
                              [] p = "command" /\ TaskAlive("command") -> Signal(SIGKILL)
                              [] OTHER -> status[p]]
            /\ task' = [t \in Tasks |-> IF task[t] = Nothing THEN Nothing ELSE "dead"]
            /\ writers' = writers \ {"s2", "command"}
            /\ doomed' = doomed \ ({"s2"} \cup Tasks)
       ELSE /\ status' = [status EXCEPT !["s1"] = how]
            /\ writers' = writers \ {"s1"}
            /\ doomed' = (doomed \ {"s1"}) \cup {s \in {"s2"} : armed /\ Alive(s)}
            /\ UNCHANGED task

TaskDies(t, how) ==
  /\ task' = [task EXCEPT ![t] = "dead"]
  /\ status' = [p \in DOMAIN status |-> IF p = t THEN how ELSE status[p]]
  /\ doomed' = doomed \ {t}
  /\ writers' = writers \ {t}
  /\ UNCHANGED at

Deliver(p) ==
  /\ p \in doomed
  /\ IF p \in Stages THEN Dies(p, Signal(SIGKILL)) ELSE TaskDies(p, Signal(SIGKILL))
  /\ UNCHANGED <<reason, armed, stdin, confined, degraded, pipe, program, image, ran, lost,
                 strikes, swaps>>

\* A kill from outside, or a crash of the stage itself.
Strike(stage) ==
  /\ strikes < MaxStrikes
  /\ Alive(stage)
  /\ strikes' = strikes + 1
  /\ \/ /\ doomed' = doomed \cup {stage}
        /\ UNCHANGED <<at, status, task, writers>>
     \/ Dies(stage, Signal(SIGSEGV))
  /\ UNCHANGED <<reason, armed, stdin, confined, degraded, pipe, program, image, ran, lost, swaps>>

\* Another file is renamed over the path of a pinned program, as long as that can matter.
Swap ==
  /\ swaps < MaxSwaps
  /\ call.pin # Nothing /\ ran = Nothing
  /\ swaps' = swaps + 1
  /\ program' \in Contents \ {program}
  /\ UNCHANGED <<at, reason, status, task, doomed, armed, stdin, confined, degraded, pipe,
                 writers, image, ran, lost, strikes>>

(***************************************************************************)
(* Both stages: a refusal is reported, then the stage exits 1              *)
(***************************************************************************)

Goes(stage, step) ==
  /\ at' = [at EXCEPT ![stage] = step]
  /\ reason' = [reason EXCEPT ![stage] = Nothing]

Refuses(stage, labels) ==
  /\ at' = [at EXCEPT ![stage] = "refuse"]
  /\ \E label \in labels : reason' = [reason EXCEPT ![stage] = label]

\* A failure off the channel: outside the reporting region, or of the channel itself.
GivesUp(stage) == Goes(stage, "quit") /\ lost' = lost \cup {"refusal"}

\* Every failure to write is swallowed.
ReportRefusal(stage) ==
  /\ at[stage] = "refuse"
  /\ Goes(stage, "quit")
  /\ \/ pipe' = Append(pipe, reason[stage]) /\ UNCHANGED lost
     \/ lost' = lost \cup {"refusal"} /\ UNCHANGED pipe
  /\ UNCHANGED <<status, task, doomed, armed, stdin, confined, degraded, writers, program,
                 image, ran, strikes, swaps>>

Quit(stage) ==
  /\ at[stage] = "quit"
  /\ Dies(stage, Exit(1))
  /\ UNCHANGED <<reason, armed, stdin, confined, degraded, pipe, program, image, ran, lost,
                 strikes, swaps>>

(***************************************************************************)
(* Stage 1                                                                 *)
(***************************************************************************)

\* self_exe comes before the region whose refusals are reported.
FindSelf ==
  /\ at["s1"] = "find_self"
  /\ \/ Goes("s1", "prepare") /\ UNCHANGED lost
     \/ GivesUp("s1")
  /\ UNCHANGED <<status, task, doomed, armed, stdin, confined, degraded, pipe, writers,
                 program, image, ran, strikes, swaps>>

\* What degraded before a refusal is dropped with it.
PrepareSupervisor ==
  /\ at["s1"] = "prepare"
  /\ \/ /\ Refuses("s1", {"bad_helper_args", "namespace_setup_failed", "process_hardening",
                          "seccomp"})
        /\ UNCHANGED <<degraded, confined>>
     \/ /\ Goes("s1", "report")
        /\ \E found \in DegradedTogether :
             degraded' = Picked(Degradations,
                                {i \in DOMAIN Degradations : Degradations[i] \in found})
        /\ confined' = confined \cup {"namespaces", "capabilities", "no_new_privs"}
  /\ UNCHANGED <<status, task, doomed, armed, stdin, pipe, writers, program, image, ran, lost,
                 strikes, swaps>>

ReportDegraded ==
  /\ at["s1"] = "report"
  /\ Goes("s1", "spawn")
  /\ pipe' \in {pipe \o degraded, pipe}
  /\ degraded' = <<>>
  /\ UNCHANGED <<status, task, doomed, armed, stdin, confined, writers, program, image, ran,
                 lost, strikes, swaps>>

SpawnInner ==
  /\ at["s1"] = "spawn"
  /\ \/ Refuses("s1", {"inner_stage_failed"}) /\ UNCHANGED writers
     \/ /\ "s1" \notin doomed
        /\ at' = [at EXCEPT !["s1"] = "wait", !["s2"] = "claim"]
        /\ writers' = writers \cup {"s2"}
        /\ UNCHANGED reason
  /\ UNCHANGED <<status, task, doomed, armed, stdin, confined, degraded, pipe, program, image,
                 ran, lost, strikes, swaps>>

\* raise returns for the signals Rust's runtime handles or ignores, and the
\* numbered form is left.
Raised == {SIGKILL}

ExitCode(how) == IF how[1] = "exit" THEN how[2] ELSE 128 + how[2]

Relay(how) == IF how[1] = "signal" /\ how[2] \in Raised THEN how ELSE Exit(ExitCode(how))

WaitInner ==
  /\ at["s1"] = "wait"
  /\ at["s2"] = "dead"
  /\ Dies("s1", Relay(status["s2"]))
  /\ UNCHANGED <<reason, armed, stdin, confined, degraded, pipe, program, image, ran, lost,
                 strikes, swaps>>

\* Mutant: the failure is inside the region that reports.
WaitFailsReported ==
  /\ at["s1"] = "wait"
  /\ Refuses("s1", {"inner_stage_failed"})
  /\ UNCHANGED <<status, task, doomed, armed, stdin, confined, degraded, pipe, writers,
                 program, image, ran, lost, strikes, swaps>>

\* Kept off the channel: stage 2 may have reported a refusal, or started the command.
WaitFails ==
  /\ at["s1"] = "wait"
  /\ GivesUp("s1")
  /\ UNCHANGED <<status, task, doomed, armed, stdin, confined, degraded, pipe, writers,
                 program, image, ran, strikes, swaps>>

(***************************************************************************)
(* Stage 2                                                                 *)
(***************************************************************************)

ClaimAuditChannel ==
  /\ at["s2"] = "claim"
  /\ \/ Goes("s2", "bind") /\ stdin' = "null" /\ UNCHANGED lost
     \/ GivesUp("s2") /\ UNCHANGED stdin
  /\ UNCHANGED <<status, task, doomed, armed, confined, degraded, pipe, writers, program,
                 image, ran, strikes, swaps>>

BindLifetimeToSupervisor ==
  /\ at["s2"] = "bind"
  /\ \/ Refuses("s2", {"bad_helper_args", "namespace_setup_failed"}) /\ UNCHANGED armed
     \/ Goes("s2", "confirm") /\ armed' = TRUE
  /\ UNCHANGED <<status, task, doomed, stdin, confined, degraded, pipe, writers, program,
                 image, ran, lost, strikes, swaps>>

\* Mutant: nobody compares the parent.
ParentUnchecked == TRUE

\* The live parent link: an orphan's parent is never the supervisor again.
ParentIsSupervisor == at["s1"] # "dead"

ConfirmSupervisor ==
  /\ at["s2"] = "confirm"
  /\ \/ Refuses("s2", {"namespace_setup_failed"})
     \/ ParentIsSupervisor /\ Goes("s2", "filter")
  /\ UNCHANGED <<status, task, doomed, armed, stdin, confined, degraded, pipe, writers,
                 program, image, ran, lost, strikes, swaps>>

\* The check of the environment, no_new_privs again, and the syscall filter.
InstallFilter ==
  /\ at["s2"] = "filter"
  /\ \/ Refuses("s2", {"process_hardening", "seccomp"}) /\ UNCHANGED confined
     \/ Goes("s2", "ruleset") /\ confined' = confined \cup {"seccomp"}
  /\ UNCHANGED <<status, task, doomed, armed, stdin, degraded, pipe, writers, program, image,
                 ran, lost, strikes, swaps>>

RestrictSelf ==
  /\ at["s2"] = "ruleset"
  /\ \/ /\ Refuses("s2", {"landlock", "grant_redirected", "grant_replaced", "unsupported"})
        /\ UNCHANGED confined
     \/ /\ Goes("s2", IF call.pin = Nothing THEN "start" ELSE "open")
        /\ confined' = confined \cup {"landlock"}
  /\ UNCHANGED <<status, task, doomed, armed, stdin, degraded, pipe, writers, program, image,
                 ran, lost, strikes, swaps>>

OpenPinned ==
  /\ at["s2"] = "open"
  /\ \/ Refuses("s2", {"pin_unreadable"}) /\ UNCHANGED image
     \/ Goes("s2", "verify") /\ image' = program
  /\ UNCHANGED <<status, task, doomed, armed, stdin, confined, degraded, pipe, writers,
                 program, ran, lost, strikes, swaps>>

\* The digest first: a script is the narrower refusal.
Verify ==
  /\ at["s2"] = "verify"
  /\ \/ Refuses("s2", {"pin_unreadable"})
     \/ image # call.pin /\ Refuses("s2", {"pin_mismatch"})
     \/ image = call.pin /\ image = "script" /\ Refuses("s2", {"pinned_script"})
     \/ image = call.pin /\ image # "script" /\ Goes("s2", "start")
  /\ UNCHANGED <<status, task, doomed, armed, stdin, confined, degraded, pipe, writers,
                 program, image, ran, lost, strikes, swaps>>

\* Mutant: the path is looked up again.
ExecutedByPath == program

\* A pinned run execs the descriptor that was hashed, another one whatever the
\* path names by now.  The command takes what stage 2 has on fd 0.
Executed == IF call.pin = Nothing THEN program ELSE image

StartCommand ==
  /\ at["s2"] = "start"
  /\ \/ /\ Refuses("s2", {"process_hardening", "exec_failed"})
        /\ UNCHANGED <<task, confined, writers, ran>>
     \/ /\ "s2" \notin doomed
        /\ Goes("s2", "drop")
        /\ confined' = confined \cup {"init_not_dumpable"}
        /\ task' = [task EXCEPT !["command"] = "in_group"]
        /\ ran' = Executed
        /\ writers' = writers \cup {t \in {"command"} : stdin = "channel"}
  /\ UNCHANGED <<status, doomed, armed, stdin, degraded, pipe, program, image, lost, strikes,
                 swaps>>

DropChannel ==
  /\ at["s2"] = "drop"
  /\ Goes("s2", "reap")
  /\ writers' = writers \ {"s2"}
  /\ UNCHANGED <<status, task, doomed, armed, stdin, confined, degraded, pipe, program, image,
                 ran, lost, strikes, swaps>>

\* Mutant: whichever child was reaped.
AnyChildReaped == \E t \in Tasks : task[t] = "dead"

\* Mutant: until no child is left.
NoChildLeft == \A t \in Tasks : ~TaskAlive(t)

\* Orphans are reaped as they come; only the command's end ends the loop.
CommandReaped == task["command"] = "dead"

ReapUntil ==
  /\ at["s2"] = "reap"
  /\ CommandReaped
  /\ Dies("s2", Exit(ExitCode(status["command"])))
  /\ UNCHANGED <<reason, armed, stdin, confined, degraded, pipe, program, image, ran, lost,
                 strikes, swaps>>

\* No child left to wait for: exit 1, which takes the namespace down.
ReapFails ==
  /\ at["s2"] = "reap"
  /\ Dies("s2", Exit(1))
  /\ lost' = lost \cup {"refusal"}
  /\ UNCHANGED <<reason, armed, stdin, confined, degraded, pipe, program, image, ran, strikes,
                 swaps>>

(***************************************************************************)
(* The command                                                             *)
(***************************************************************************)

CommandForks ==
  /\ TaskAlive("command") /\ "command" \notin doomed
  /\ task["straggler"] = Nothing
  /\ task' = [task EXCEPT !["straggler"] = task["command"]]
  /\ UNCHANGED <<at, reason, status, doomed, armed, stdin, confined, degraded, pipe, writers,
                 program, image, ran, lost, strikes, swaps>>

LeavesGroup(t) ==
  /\ task[t] = "in_group"
  /\ task' = [task EXCEPT ![t] = "left_group"]
  /\ UNCHANGED <<at, reason, status, doomed, armed, stdin, confined, degraded, pipe, writers,
                 program, image, ran, lost, strikes, swaps>>

CommandEnds ==
  /\ TaskAlive("command")
  /\ \E how \in CommandStatuses : TaskDies("command", how)
  /\ UNCHANGED <<reason, armed, stdin, confined, degraded, pipe, program, image, ran, lost,
                 strikes, swaps>>

Stage1 ==
  \/ FindSelf \/ PrepareSupervisor \/ ReportDegraded \/ SpawnInner \/ WaitInner
  \/ ReportRefusal("s1") \/ Quit("s1")

Stage2 ==
  \/ ClaimAuditChannel \/ BindLifetimeToSupervisor \/ ConfirmSupervisor
  \/ InstallFilter \/ RestrictSelf \/ OpenPinned \/ Verify
  \/ StartCommand \/ DropChannel \/ ReapUntil
  \/ ReportRefusal("s2") \/ Quit("s2")

\* A wait the kernel refuses; nothing relies on it ever happening.
WaitRefused == WaitFails \/ ReapFails

Kernel == \E p \in Stages \cup Tasks : Deliver(p)

\* Nobody waits for the straggler's status.
StragglerEnds ==
  /\ TaskAlive("straggler")
  /\ TaskDies("straggler", Exit(0))
  /\ UNCHANGED <<reason, armed, stdin, confined, degraded, pipe, program, image, ran, lost,
                 strikes, swaps>>

Surroundings ==
  \/ \E s \in Stages : Strike(s)
  \/ Swap
  \/ CommandForks \/ CommandEnds \/ StragglerEnds
  \/ \E t \in Tasks : LeavesGroup(t)
=============================================================================
