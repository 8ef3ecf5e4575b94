-------------------------- MODULE SandboxedCommand --------------------------
(***************************************************************************)
(* SandboxedCommand::output: one call of it, from the policy's own refusals*)
(* over the helper it starts to the records it leaves on the audit trail   *)
(* and the result it hands back.  With a deadline it polls and kills; with *)
(* none it reads the output to its end and kills nothing.                  *)
(***************************************************************************)
EXTENDS HelperStages

VARIABLES
  parent,    \* where the call is
  expired,   \* whether the deadline passed
  finished,  \* what the wait gave, before the channel was read
  refusal,   \* the refusal the channel named
  trail,     \* the records on the audit trail
  result     \* what the caller got

vars == <<call, stageVars, parent, expired, finished, refusal, trail, result>>
parentVars == <<parent, expired, finished, refusal, trail, result>>

\* An outcome: the label of an error, or none and a status.
Error(label) == [label |-> label, status |-> Running]
Ended(how) == [label |-> Nothing, status |-> how]
Pending == Error("pending")

IsError(outcome) == outcome.label # Nothing

Spawned == <<"spawned">>
Degraded(step) == <<"degraded", step>>
Exited(how) == <<"exited", how[1], how[2]>>
Failed(label) == <<"failed", label>>

Init ==
  /\ StagesInit
  /\ parent = "call" /\ expired = FALSE
  /\ finished = Pending /\ refusal = Nothing
  /\ trail = <<>> /\ result = Pending

\* Decided off the policy, or before there is anything to record about.
RefuseCall ==
  /\ parent = "call"
  /\ parent' = "returned"
  /\ \E label \in {"unbounded_resolution", "grant_bound_by_resolver", "spawn_failed"} :
       result' = Error(label)
  /\ writers' = {}
  /\ UNCHANGED <<call, at, reason, status, task, doomed, armed, stdin, confined, degraded, pipe,
                 program, image, ran, lost, strikes, swaps, expired, finished, refusal, trail>>

EmitSpawned ==
  /\ parent = "call"
  /\ parent' = "start"
  /\ trail' = Append(trail, Spawned)
  /\ UNCHANGED <<call, stageVars, expired, finished, refusal, result>>

\* With a deadline this process lets go of the write end as soon as the helper has
\* it; without one it keeps it until the helper was waited for.
StartHelper ==
  /\ parent = "start"
  /\ \/ /\ finished' = Error("spawn_failed")
        /\ parent' = "records"
        /\ writers' = {}
        /\ UNCHANGED at
     \/ /\ parent' = IF call.timed THEN "poll" ELSE "output"
        /\ at' = [at EXCEPT !["s1"] = "find_self"]
        /\ writers' = {"s1"} \cup {p \in {"parent"} : ~call.timed}
        /\ UNCHANGED finished
  /\ UNCHANGED <<call, reason, status, task, doomed, armed, stdin, confined, degraded, pipe,
                 program, image, ran, lost, strikes, swaps, expired, refusal, trail, result>>

\* Every process below holds the command's output until it ends.
OutputClosed == ~Alive("s1") /\ ~Alive("s2") /\ \A t \in Tasks : ~TaskAlive(t)

RunToCompletion ==
  /\ parent = "output"
  /\ OutputClosed
  /\ finished' \in {Ended(status["s1"]), Error("spawn_failed")}
  /\ parent' = "records"
  /\ writers' = writers \ {"parent"}
  /\ UNCHANGED <<call, at, reason, status, task, doomed, armed, stdin, confined, degraded, pipe,
                 program, image, ran, lost, strikes, swaps, expired, refusal, trail, result>>

\* The deadline passes; what follows the loop does not look at it again.
Expire ==
  /\ parent = "poll" /\ ~expired
  /\ expired' = TRUE
  /\ UNCHANGED <<call, stageVars, parent, finished, refusal, trail, result>>

\* A status wins over a deadline that passed meanwhile.
Poll ==
  /\ parent = "poll"
  /\ \/ at["s1"] = "dead" /\ finished' = Ended(status["s1"])
     \/ at["s1"] # "dead" /\ expired /\ finished' = Error("timeout")
  /\ parent' = "kill"
  /\ expired' = FALSE
  /\ UNCHANGED <<call, stageVars, refusal, trail, result>>

PollFails ==
  /\ parent = "poll"
  /\ finished' = Error("spawn_failed")
  /\ parent' = "kill"
  /\ expired' = FALSE
  /\ UNCHANGED <<call, stageVars, refusal, trail, result>>

\* The stages never leave the group; the command and what it starts may.
Group == {s \in Stages : Alive(s)} \cup {t \in Tasks : task[t] = "in_group"}

KillGroup ==
  /\ parent = "kill"
  /\ doomed' = doomed \cup Group
  /\ parent' = IF IsError(finished) THEN "reap" ELSE "records"
  /\ UNCHANGED <<call, at, reason, status, task, armed, stdin, confined, degraded, pipe, writers,
                 program, image, ran, lost, strikes, swaps, expired, finished, refusal, trail,
                 result>>

\* A wait that fails is not looked at, and a try_wait that failed may fail again.
ReapHelper ==
  /\ parent = "reap"
  /\ at["s1"] = "dead" \/ finished = Error("spawn_failed")
  /\ parent' = "records"
  /\ UNCHANGED <<call, stageVars, expired, finished, refusal, trail, result>>

\* Mutant: no room for a refusal after every degradation.
RecordLimitShort == Len(Degradations)

RecordLimit == Len(Degradations) + 1

Decode(channel) == SubSeq(channel, 1, IF Len(channel) < RecordLimit THEN Len(channel) ELSE RecordLimit)

IsRefusal(record) == record \in Refusals
DegradedIn(records) == Picked(records, {i \in DOMAIN records : ~IsRefusal(records[i])})

\* A later refusal would outrank an earlier one.
RefusalIn(records) ==
  LET refusals == {i \in DOMAIN records : IsRefusal(records[i])}
  IN  IF refusals = {} THEN Nothing
      ELSE records[CHOOSE i \in refusals : \A j \in refusals : j <= i]

\* To the end of the channel: every holder of the write end is gone.
RecordReports ==
  /\ parent = "records"
  /\ writers = {}
  /\ parent' = "close"
  /\ LET records == Decode(pipe)
     IN  /\ trail' = trail \o [i \in DOMAIN DegradedIn(records) |-> Degraded(DegradedIn(records)[i])]
         /\ refusal' = RefusalIn(records)
  /\ UNCHANGED <<call, stageVars, expired, finished, result>>

\* What was read to its end is not UTF-8; a read of a pipe does not fail before.
RecordsUnread ==
  /\ parent = "records"
  /\ writers = {}
  /\ parent' = "close"
  /\ lost' = lost \cup {"records"}
  /\ UNCHANGED <<call, at, reason, status, task, doomed, armed, stdin, confined, degraded, pipe,
                 writers, program, image, ran, strikes, swaps, expired, finished, refusal, trail,
                 result>>

\* The channel outranks a status on the trail, and an error too; in the result
\* it replaces a status only.
Closing ==
  IF refusal # Nothing THEN Failed(refusal)
  ELSE IF IsError(finished) THEN Failed(finished.label) ELSE Exited(finished.status)

Close ==
  /\ parent = "close"
  /\ parent' = "returned"
  /\ trail' = Append(trail, Closing)
  /\ result' = IF refusal # Nothing /\ ~IsError(finished) THEN Error(refusal) ELSE finished
  /\ UNCHANGED <<call, stageVars, expired, finished, refusal>>

Output ==
  \/ EmitSpawned \/ StartHelper \/ RunToCompletion \/ Poll \/ KillGroup \/ ReapHelper
  \/ RecordReports \/ Close

OutputFails == RefuseCall \/ PollFails \/ RecordsUnread

Below == UNCHANGED <<call, parentVars>> /\ (Stage1 \/ Stage2 \/ WaitRefused \/ Kernel \/ Surroundings)

Next == Output \/ OutputFails \/ Expire \/ Below

Spec == Init /\ [][Next]_vars

\* The caller is scheduled, time passes, and a signal sent arrives.  The stages
\* are only taken to go on where no deadline guards against their stopping.
UntimedStages == ~call.timed /\ UNCHANGED <<call, parentVars>> /\ (Stage1 \/ Stage2)

FairSpec ==
  /\ Spec
  /\ WF_vars(Output) /\ WF_vars(Expire)
  /\ \A p \in Stages \cup Tasks : WF_vars(Deliver(p) /\ UNCHANGED <<call, parentVars>>)
  /\ WF_vars(UntimedStages)

-----------------------------------------------------------------------------

\* A record names why the command never ran, so there is one at most, nothing
\* was exec'd, and the whole channel stays within what decode accepts
\* (RECORD_LIMIT), which is what makes reading it late safe.
RefusalMeansNotRun ==
  /\ \A i \in DOMAIN pipe : IsRefusal(pipe[i]) => ran = Nothing /\ i = Len(pipe)
  /\ Len(pipe) <= RecordLimit

\* A command is born into every restriction of both stages, without the audit
\* channel, below an init that dies with its supervisor; and a pinned one is
\* the bytes that were hashed, whatever was renamed over its path since.
RanAsPromised ==
  ran # Nothing =>
    /\ confined = Restrictions
    /\ "command" \notin writers
    /\ armed
    /\ call.pin # Nothing => ran = "binary" /\ call.pin = "binary"

\* No command runs in a namespace nobody is watching: once its supervisor is
\* gone a kill is on its way to the init, and when the call has returned so is
\* every process below it, or about to be.
NothingUnwatched ==
  /\ (\E t \in Tasks : TaskAlive(t)) => Alive("s1") \/ "s2" \in doomed
  /\ parent = "returned" => /\ ~Alive("s1")
                            /\ Alive("s2") => "s2" \in doomed

\* A run is spawned, any degraded, then exactly one exited or failed (#96), and
\* what closes it is what the caller got: a refusal on the channel whatever the
\* status was, and next to a timeout or a failed wait the one label that may differ.
TrailTellsTheResult ==
  parent = "returned" =>
    IF trail = <<>>
      THEN result.label \in {"unbounded_resolution", "grant_bound_by_resolver", "spawn_failed"}
      ELSE LET read == IF "records" \in lost THEN <<>> ELSE pipe
               weakened == DegradedIn(read)
               refused == {read[i] : i \in {j \in DOMAIN read : IsRefusal(read[j])}}
               closing == Last(trail)
           IN  /\ trail = <<Spawned>> \o [i \in DOMAIN weakened |-> Degraded(weakened[i])]
                             \o <<closing>>
               /\ \A label \in refused : closing = Failed(label)
               /\ IF result.label = Nothing
                    THEN closing = Exited(result.status)
                    ELSE \/ closing = Failed(result.label)
                         \/ result.label \in {"timeout", "spawn_failed"} /\ refused # {}

\* A status handed back as the command's is the command's, a signal as 128 + n:
\* unless a stage's own failure never reached the channel, or a stage was killed
\* or crashed, in which case no signal passes for the command's either.
StatusIsTheCommands ==
  parent = "returned" /\ ~IsError(result) /\ lost = {} =>
    IF result.status[1] = "signal"
      THEN strikes > 0
      ELSE \/ /\ ran # Nothing /\ task["command"] = "dead"
              /\ result.status[2] = IF status["command"][1] = "exit" THEN status["command"][2]
                                    ELSE 128 + status["command"][2]
           \/ strikes > 0 /\ result.status[2] = 128 + SIGSEGV

\* With a deadline the call returns whatever the stages and the command do.
\* With none it returns once the command ended or a stage gave up, whatever the
\* command left behind.
CallReturns ==
  /\ (parent = "poll" /\ call.timed) ~> (parent = "returned")
  /\ (/\ parent = "output"
      /\ \/ task["command"] = "dead"
         \/ \E s \in Stages : at[s] \in {"refuse", "quit", "dead"}) ~> (parent = "returned")
=============================================================================
