# Specifications of sandbx

TLA+ modules that model sandbx's own logic, TLC configurations that check them on small
instances, and TLAPS proofs of what matters most about them. Every definition follows the
Rust source; `PROJECT.json` names, for each, the lines it stands for.

## 1. The system

sandbx runs a coding agent whose tools are confined by the kernel. A command (`agent-run`,
and `tui` with a screen; either is one turn) resumes a stored conversation, sends it with a prompt to a model,
streams the reply, puts every tool call to a gate, runs the approved ones, asks again
until the model is done, and appends the turn to the transcript. Tools read and write
through a path guard, and `bash` runs in a helper process that restricts itself first.

### Components

| Component | State | Operations | Interacts with |
|---|---|---|---|
| Turn loop (`sandbx-turn`) | messages of the turn, the round streamed, cut and floor, last usage | `run_turn_until`, `accumulate`, `answer_calls`, `drop_thinking` | awaits the stream, the caller's stop, a blocking thread per tool; calls the gate |
| Compaction (`sandbx-compact`) | none | `plan_cut`, `window`, `over_budget` | called by the loop |
| Transcript shape (`sandbx-session-store/shape.rs`) | none | `resumable`, `alternating`, `opens`, `follows` | called by the store |
| Session bridge (`sandbx-session-bridge`) | `Merged`: the way back between two index spaces | `merge_user_runs`, `unmerged`, `stored_messages` | between store and loop |
| Session store (`sandbx-session-store`) | one JSON-lines file; a session's messages and accounting | `create`, `resume`, `append` | other processes share the file |
| Commands (`sandbx-cli`: agent-run, wrap-up, tui) | the merged history, the turn, exit code | `drive`, wrap-up, `save` | all of the above |
| Consent gate (`sandbx-cli`: gate, prompt) | blanket approvals, the terminal's buffers | `approve`, `ask`, `discard_typeahead` | the operator, the kernel's line queue |
| SSE framing (`sandbx-sse`) | the buffer, the lines of the event in progress | `tokenize` | reads chunks of the response, feeds the stream |
| Anthropic stream (`sandbx-anthropic`) | open blocks by index, usage, held stop reason, queued events | `next_agent_event` | feeds the loop |
| Sandboxed spawn (`sandbx-core`) | the call, two helper stages, the command and what it leaves, the audit channel | `output`, `exec_sandboxed`, `exec_inner` | audit log, kernel |
| File system guard (`sandbx-core`) | per axis, the granted roots with what they were vetted on and a descriptor of each | `open_read`, `open_write`, `list`, `walk_readable` | the tools; whatever else renames |
| Grants and policy (`sandbx-grants`, `sandbx-core`) | the roots, ports, sockets and names of a run | `Grants::policy`, `encode`, `decode` | guard, spawn |
| Kernel rules of a spawn (`sandbx-core`) | none | Landlock rules, seccomp denials, resolver files | the helper's stages, the kernel |
| Built-in tools (`sandbx-tools`) | none | `read`, `ls`, `write`, `edit`, `find`, `grep`, `bash` | guard, spawn |
| API keys (`sandbx-auth`) | one credentials file | `login`, `logout`, lookup | other processes |
| Keys and screen (`sandbx-tui-input`, `sandbx-screen`) | two threads over the terminal, crossterm's parsed events, one latched stop | `listen`, `stop`; `enter`, `draw`, drop | the operator, the kernel; tui |
| Log (`sandbx-logging`) | records held while a turn is drawn | `hold`, `write`, drop | tui; every thread that audits |

### What is hard about it

* **Nothing can cancel a tool.** A tool runs on a blocking thread; dropping the future
  abandons it. A stop, an abort or a panic must leave a transcript that claims neither more
  nor less than happened.
* **The gate blocks the poll.** While a person thinks, a stop is not looked at.
* **The API is strict about shapes.** Alternation, an answer to each call in the very next
  message, reasoning that is checked against everything before it. Compaction, wrap-ups,
  interrupts and resumes all edit the conversation.
* **Two index spaces.** The transcript stores every message; a request carries each run of
  user messages as one. The withheld count crosses between them twice a run.
* **An append may tear**, and the process that comes next appends behind what is left.
* **An answer may be older than its question.** The kernel and the reader both buffer.
* **A sandboxed command is three processes and two parents.** The helper's stages report over
  one channel that is read only after the wait; either may die at any moment, the deadline
  may pass at any moment, and the command may leave the process group or leave orphans.
* **Names move.** A path is resolved, judged and opened in three steps, a spawn's rules are
  opened one after another in another process, and a command of the agent's own may rename
  between any two of them.
* **Two enforcers, one policy.** The guard decides in this process and the kernel in the
  command's; between them the policy is an argument vector, and of the network Landlock sees
  only what seccomp leaves it.
* **A drawn turn takes the terminal away.** Keys come through two threads and a library's
  buffer, the audit trail waits in memory, stderr may be the screen, and a hangup may take all
  of it at any moment.
* **The wire promises nothing.** Chunks are cut anywhere; blocks stay open, indices come
  back, counts are restated; a turn has to end once all the same.

The hazards, each at its line with the properties that watch it, are in `PROJECT.json`.

### What makes each component correct

* Turn loop: only acceptable requests, fresh reasoning, whole rounds, figures that describe
  requests really finished, an outcome that can be appended, effects that the transcript
  does not deny, an end when its tools end.
* Compaction: a legal cut, never short of a legal floor; the window it leaves is a request.
* Store: a resume reads what was written, agrees with the process that wrote it, and takes
  whatever an append acknowledged.
* Bridge and commands: a cut means the same messages in both spaces and never retreats; the
  transcript stays resumable; the recorded stop and the exit code tell how the run ended.
* Gate: a call runs only on an answer typed for it.
* Spawn: a command starts with every restriction or not at all, never unwatched, and as the
  bytes that were hashed; a refusal on the channel means it never ran; the trail, the result
  and the command's status agree; the call returns.
* Guard: an access beneath a descriptor reaches only what was granted, whatever was renamed
  since the check; a refusal says nothing of what lies outside.
* Policy and kernel rules: the helper rebuilds the harness's policy, and the command may do at
  a path what the tools may; a port allowlist bounds every way to connect and takes nothing from
  its ports; unix sockets need their own grant.
* Tui: a stop ends the run, a hangup too; every record of the trail reaches a stderr that
  lives, in order but for those held; the account of the end is true and told once.
* Stream and SSE: frames are what the bytes say, events what the frames say; one end; bounded
  memory.

## 2. The modules

```
Messages ── Compaction ──┬── TurnLoop ── MC_TurnLoop        TurnPromise (abstract)
   │            │        │       └──────── refines ────────────────┘
   │            │        └── Bridge ── Conversation ── MC_Conversation
   │            │
   └── SessionStore ── MC_SessionStore             ConsentGate ── MC_ConsentGate

HelperStages ── SandboxedCommand ── MC_SandboxedCommand
Sse ── MC_Sse                     AnthropicStream ── MC_AnthropicStream

Keys ──────┬── Tui ── MC_Tui       Tree ── Policy ──┬── FsGuard ──┬── Confinement ── MC_Confinement
AuditHold ─┘                                        └── Ruleset ──┘

proofs:  Compaction_proofs ──┬── TurnLoop_proofs      ┬── SandboxedCommand_proofs
                             ├── Conversation_proofs  ├── Wire_proofs (stream and framing)
                             └── SessionStore_proofs ─┘
         Authority_proofs (gate and kernel rules)     Tui_proofs
```

**Picking** — what `Vec::retain` and `filter` leave of a sequence, as a recursive function, so
that proofs reach inside it. `Messages` and `HelperStages` drop elements with it, and the
reference definitions of the stream and of its framing pick deltas, lines and events with it.

**Messages** — roles, blocks and messages of both the request and the stored side, without
their text, and `shape.rs` over them. A reasoning block carries the number of history
messages the request that elicited it withheld; the code has no such field, the provider's
signature check plays its part. `None` is `Option::None`. `AcceptedByApi` collects what the sources' doc comments say
the Messages API takes (external).

**Compaction** — `plan_cut` and `window` with the code's clamping and saturation. `CHOOSE` of the least legal cut from the target on, else the greatest below,
is what the two scans of `plan_cut` compute.

**TurnLoop** — one call of `run_turn_until`. `pc` is the await the task is parked at or the
step it is in: `plan` (top of the loop), `request` (waiting for the response), `streaming`
(inside `accumulate`), `answering` (about to poll `answer_calls`), `gate` (deciding the next
call), `spawned` (a blocking task just spawned, the same poll still running), `tool` (parked
on it), `done`. Four actors interleave: the task, the stream, the caller's stop and the
blocking thread. `unless` looks at the stop first *whenever the task is polled*, so actions
that start a poll are guarded by `~stopped`; those that go on within one (`gate`, `spawned`)
are not. `finished`, `applied` and `settled` are ghosts.

| Action | Code |
|---|---|
| `PlanRound`, `OutOfRounds` | the head of the `for` loop: plan, floor, `drop_thinking` on a deeper cut; and falling out of it |
| `OpenStream`, `StreamFails`, `StreamText`, `StreamBlock`, `StreamUsage`, `StreamStop` | `open` and `accumulate`; a round of nothing but reasoning ends the turn |
| `BeginAnswers`, `RefuseUnoffered`, `Deny`, `Abort`, `Allow` | `answer_calls` up to the spawn |
| `Park`, `Collect`, `ToolPanicked`, `ToolEnds` | the blocking task and its await |
| `RoundAnswered` | both pushes of a round and the abort exit |
| `StopResolves`, `Interrupt` | the caller's stop, and `unless` returning it |

**TurnPromise** — what a caller may rely on: rounds come whole (a message that asks, a
message that answers all of it), a reply ends the turn, and it ends the way its `TurnStop`
says. `TurnLoop` refines it with `kept` mapped to the result's messages or, while it runs,
the messages so far without their reasoning.

**Bridge** — `merge_user_runs` as a recursive function of how many messages it has taken,
`Merged::unmerged`, `stored_messages`.

**Conversation** — run after run over one stored session: `BeginRun` (resume, merge), the
rounds of a turn, the wrap-up turn, `Save`. The turn is taken at the granularity TurnPromise
grants, with the loop's own compaction bookkeeping, whose figures are what is stored. `Unused`
is the ids the provider may still give to a call: a new one for each, as the loop's own rounds do.
`Finish` is the end of a turn that is to be stored, and `FinishWritten` that of one whose answer
agent-run was writing: its stdout may have failed on any delta, which `Render::finish` tells only
then (`lost`). The turn is stored as it would have been and the failure decides the code, which
also costs a lost operator its 3 (`context/decision-approval-gate.md` says so of a broken pipe).
A store whose writes fail is SessionStore's; here it takes what it may take.

**SessionStore** — the file as newline-terminated lines and perhaps an unterminated last one,
the processes that hold a session, and writes that tear between lines, inside one, inside a
character, or just before the newline. `Fold` replays it, `Resumed` adds `resume`'s checks.

`alone` is the process that has the file to itself, or `None` when two share it; writes tear
only in the former case (`MayTear`), the shared file being the question of whole turns. Two
processes are two runs of the commands, and what `AgentRun::save` appends opens on the prompt
(`OpensOnPrompt`, `Callers`). `append` itself lets a batch open on the model's message when the
session it holds ends on the user's, and holds two processes to nothing more. One process alone
appends whatever `append` takes.

**ConsentGate** — `ArgvGate` with `Terminal::ask` behind it, the kernel's line queue and the
reader's buffer, and an operator who types whenever they like. Each line remembers the call
whose question was up when it was typed.

**Tree** (external) — the host's file system: what each name of each directory holds, objects
that keep their identity when renamed, path resolution with links and `..`, `open` and
`openat2` beneath a descriptor, and `rename` with or without an exchange.

**Policy** — `grants.rs` and `root.rs` with `SandboxPolicy`: a grant is a canonical path and the
object it led to, the root nobody named is vetted against homes, system paths and what sandbx
owns, and `Encode`/`Decode` are the helper's argument vector, one argument an element.
An argument is text: `Encode` writes a path as `display()` does (`Shown`), so a name that is not
UTF-8 crosses as another. `ShownAssumption` is that what is shown is itself UTF-8. `Decode`
refuses a port 0, which `AllowNetworkPort` would skip.

**FsGuard** — `fs_guard.rs` as operators over the tree as it is when each runs: construction
(`Measure`, `DirectoryAt`, `Rooted`), the checks (`PermitRead`, `PermitWrite`) with their concealment, the access
(`Accessed`, `CreatedAt`) and the walk (`Listed`, `Reached`). A verdict carries what the caller
is told, what the trail records, the canonical path and the root that covered it.

**Ruleset** — the Landlock rules of a policy, what their opening checks, the resolver's files
and the tree as the command sees it, the port rules and the seccomp denials. `Ways` is every
way to make a connection that the source tells apart; `Asked`, `Reaches` and `ReachesUnix` are
what the kernel then does (external).

**Confinement** — a run over a tree that something else renames in. `call` is the tool call
under way and its `stage` where in it the thread is.

| Action | Code |
|---|---|
| `MeasureRoot`, `KeepRoot`, `GuardBuilt` | `ExecutionContext::build`: the two opens of each granted root |
| `Begin`, `Resolve`, `Judge`, `Open` | a tool's parse, `canonicalize`, `permit`, and the open with what follows it (a write's creation, an edit's second access, a listing) |
| `Walk`, `WalkEnds`, `Search` | `walk_readable` directory by directory, `find`'s answer, `grep`'s next file with its caps |
| `SpawnBegins`, `SpawnInstalls`, `SpawnRequests`, `SpawnOpens`, `SpawnConfined` | `command_line`, `decode`, `bound_resolution`, `requested_at`, `open_grant` rule by rule, `restrict_self` |
| `Move` | another program's rename (external) |

**Keys** — `sandbx-tui-input`: the terminal's queue, what crossterm has parsed and not handed
out, the reading thread, the watching thread and the latched value both write to. `hung` is the
set of descriptors that hung up; `spinning` is a reader lost inside crossterm. `StopSeen` is what
`stop` resolves to: a keypress seen before a hangup wins over it. Once the turn is over nobody
looks at what the threads read, and they are not followed further (`Unheard`).

**AuditHold** — `sandbx-logging`'s `HELD`: `Emit`, `Hold`, `Take` (under the lock) and
`WriteTaken` (outside it). Records are numbered; `stderr` is where they arrive.

**Tui** — `drive` with both: the hold, the screen, the turn with a tool on a thread nothing
cancels, the wrap-up and the stop in an unbiased select, the account, the save, the screen left
before the trail is released, the reprint, what is told on stderr, and the runtime's drop.

| Action | Code |
|---|---|
| `TakesHold`, `Enters` | `held`, `Screen::enter`, `Keys::listen` |
| `Paints`, `Allows`, `Settles`, `ToolEmits`, `ToolEnds` | the pane during the turn, the gate's notes, the tool's thread |
| `TurnEnds`, `TurnStops`, `WrapEnds`, `WrapStops` | what the futures come to |
| `Accounts`, `LeavesScreen`, `TakesTrail`, `WritesTrail`, `Reprints`, `Tells`, `Exits`, `Panics` | `accounted` and the save, the drops in their order, `given_back`, `main` |

**HelperStages** — the re-exec'd helper: stage 1, the supervisor that makes the namespaces;
stage 2, the init of the PID namespace, which confines itself and starts the command; the
command, and one straggler it may fork. Each has a place in `at` or `task` and a status once
it is over. A kill is sent at one moment and arrives at a later one: `doomed` holds the
processes one is pending for, which may still take steps but are refused a fork. `Dies` is
what the kernel does at an exit: an init takes its namespace with it, a supervisor sends the
parent death signal if stage 2 had asked for it by then. `Strike` is a kill from outside or a
crash of a stage. `lost` is a ghost: a failure that never reached the channel, or a channel
that could not be read.

| Action | Code |
|---|---|
| `FindSelf`, `PrepareSupervisor`, `ReportDegraded`, `SpawnInner`, `WaitInner`, `WaitFails` | `exec_sandboxed` and the prologue it calls |
| `ClaimAuditChannel`, `BindLifetimeToSupervisor`, `ConfirmSupervisor`, `InstallFilter`, `RestrictSelf` | stage 2 up to the command |
| `OpenPinned`, `Verify`, `StartCommand` | the pin and the exec |
| `DropChannel`, `ReapUntil`, `ReapFails` | after the command started |
| `ReportRefusal`, `Quit` | a refusal written to the channel, if it can be, and exit 1 |
| `Deliver`, `Strike`, `Swap`, `CommandForks`, `LeavesGroup`, `CommandEnds`, `StragglerEnds` | the kernel, and what is not this code |

**SandboxedCommand** — the call around it: `RefuseCall`, `EmitSpawned`, `StartHelper`, then
`RunToCompletion` without a deadline, or `Poll`, `Expire`, `KillGroup`, `ReapHelper` with one,
then `RecordReports` over the channel and `Close` with the record and the result.

**Sse** — `tokenize` with a byte as one of five kinds: of a line that starts as `data:` does, of
another line, the two line ends, and one that is not UTF-8. `TakeLine` is one round of the
inner `while`, `OutOfLines` what follows it, `ChunkArrives`, `ReadFails` and `BytesEnd` the
three results of the await. `LinesOf` and `SaidIn` say what the bytes mean without chunks or a
buffer: lines end at line feeds, events at blank lines.

**AnthropicStream** — `next_agent_event`: `Receive` takes a frame off the wire and folds it in,
`Yield` hands out what is queued, `Exhaust` says that nothing follows. A fragment is known by
the position of the frame that brought it, so that the reference definition, which reads the
list of frames and keeps no blocks, can say exactly which fragments belong to which event.
`FramesAssumption` is what `RawStreamEvent` can be: the fields of each variant, and an index
that is a `u32`, hence bounded; `FlushOpenBlocks` goes through the indices in that order, as the
`BTreeMap` does.

## 3. The runs

| Run | Question | Size |
|---|---|---|
| `turn_compaction` | acceptable requests, fresh reasoning, a floor that holds, a deepening cut, matching figures, over every carried floor and two policies | 7.0 M states |
| `turn_tools` | effects, aborts, stops and what is handed back, the return of the turn, and refinement of TurnPromise, with tools on a thread | 1.0 M |
| `conversation` | several runs of one session with and without compaction and wrap-up, and with answers that could not be written | 2.6 M |
| `store_torn` | one process and torn writes of every kind; two processes over one file | 903 k |
| `consent` | typed lines against questions | 780 k |
| `spawn` | confinement, supervision, trail, result and status, and the return of the call, with a stage dying anywhere | 789 k |
| `tui` | stops, hangups, the trail and the account of a drawn run | 379 k |
| `files` | what tools reach and are told, and whether the kernel agrees, while names move and one crosses as another | 452 k |
| `stream` | frames in every order against what they say; one end per turn | 8.9 M |
| `sse` | bytes cut at every place against what they say; bounded buffer | 236 k |
| `store_torn_costs`, `store_glue` | findings, section 6 | — |

**Bounds and why they are enough.** `MaxRounds` 2 (3 with compaction) is the least at which a
round is replayed, a cut deepens between rounds and reasoning of an earlier round is spoilt by
it; `MaxBlocks` 2 the least at which one round holds two calls, or reasoning and a call.
Histories hold the shapes the rules tell apart: a first prompt, a settled tool exchange, and
results merged with the next prompt (`Resumed`), where a cut leaves orphaned results. Floors
0, 2 and 3 are none, one legal cut and one that is not. `MaxStored` 12 lets five or six
runs follow each other. In the store four or five lines hold a header and two turns with a torn
write between. `MaxTyped` 4 and three calls leave a line for each question and one too many.
Symmetry is used over fresh call ids only, in runs without liveness properties.
In `spawn` one strike and one swap are enough for each race between two steps; a second would
only meet a run already refused. `DegradedTogether` is nothing or all three, the latter filling
the channel to its limit; `CommandStatuses` has a success, the exit 1 that a stage's own failure
also gives, and a signal. In `stream` five frames hold a whole block and an end, an index
used again with deltas on either side of it, or two open blocks; at the second index there is
only a tool call that is never closed, since nothing tells indices apart. In `sse` a cap of
three and seven bytes hold two events, or one that is over the cap in one line or in two.
In `files` `MaxMoves` 2 is a root or a component replaced and put back, or one replaced and
another led there; the two trees differ in whether the working directory's link leads out or to
a directory within, and in whether another file has the name that the one that is not UTF-8
is shown as; the command lines are no flag, two axes with a port and sockets, a file and
an executable directory with names, the file that is not UTF-8, and three that are refused; the kernels are one with `openat2` and
the newest ABI and one with neither. A larger file than `MaxFile`, one byte over `MaxScanned`
and a third file stop a search or a walk early. Moves are of the root and what the working directory holds.
In `tui` two keys are one that hides the stop and the stop; three records are one
held, one emitted between the release and its write, and one after it.

**Compaction in the commands.** `agent-run` and `tui` build `..TurnLimits::default()`, which
leaves compaction off. The runs with policies check the library path, which is public and
which the stored figures exist for; `Conversation` also has a run's policy `None`.

**Mutants.** Each property has a definition that changes one mapped operator the way a
plausible bug would (marked `Mutant:` in the modules); with it in place the property fails.

**Fairness.** `Fairness` is weak fairness of the task (the runtime polls what is woken, a gate
answers), of the request being answered or failing (the client's connect and read timeouts),
and of the stream stopping or meeting `stream_timeout`. Nothing bounds a tool, so
`TurnReturns` assumes `ToolsReturn`, and `StopReturns` does not: a stopped turn returns over
a tool that never ends. In `spawn` the caller is scheduled, time passes, and a signal sent is
delivered. The stages are taken to go on only for a call without a deadline (`UntimedStages`),
where the code has nothing else to rely on; with one, the call returns whatever they do.
Waits the kernel refuses, strikes and the command itself are never relied on. In `tui`
(`FairSpec`) the runtime polls a task that was woken and the kernel runs the two threads; no
turn, tool, wrap-up or key is relied on. `PressEndsRun` and `HangupEndsRun` except the failures
after which the code says nobody listens, and only while the turn or its wrap-up still waits:
whatever happens to the threads later, drive has to return. `files` states safety only.

## 4. What is proved

Every theorem is of the specification or of the operators as they are, for any values of the
constants that the named assumptions admit. TLC checks those assumptions in the runs.

### The turn loop (`TurnLoop_proofs`)

For histories, floors, policies, usages, tools, ids and caps of any size:

| Theorem | States |
|---|---|
| `TypeCorrect` | `[]TypeOK` |
| `FloorIsHeld`, `CutDeepensOnly`, `NothingAfterStop` | `[]FloorHeld`, `CutOnlyDeepens`, `AfterStop` |
| `FiguresDescribeRequests` | `[]FiguresMatch` |
| `RequestsAreAccepted`, `ReasoningIsFresh` | `[]RequestAccepted`, `[]ReasoningFresh` |
| `EffectsAreRecorded`, `AbortEndsTheTurn`, `OutcomesAppend` | `[]EffectsRecorded`, `[]AbortIsFinal`, `[]OutcomeAppends` |
| `LoopKeepsPromise` | the refinement of TurnPromise, its safety part |

None of the invariants is inductive. Each layer of the argument adds what the one before lacks:

* `LoopInv` (`LoopInvariant`): types; `RoundInv`, a round in progress is one the cap allows;
  `ThreadInv`; `CutInv`, where the floor and the cut stand between two plans. `FloorHeld` alone
  says nothing of `floor`, from which the next plan starts. A plan keeps to it by `PlanCutLegal`
  and `PlanCutHoldsFloor`.
* `FigureInv`: while a round is under way its cut is that of the last request finished, and the
  last reported usage is at hand; `FiguresMatch` only speaks of the end.
* `WorkInv` (`WorkInvariant`): `ProducedInv`, what was pushed is whole rounds, two messages each;
  `AnswerInv`, the results so far answer the first calls in their order and the thread at work is
  that of the next one; `EffectInv`, what ran is answered up to the round in flight, and the
  ids of that round were never used before, without which an old answer could pass for a new one.
* `SettledInv` adds that the ghost `settled` is what the transcript answers. `FreshInv` adds which
  cut each reasoning block of the turn was produced against: all against the one last sent, since
  a deeper cut drops them.
* `LoopKeepsPromise` maps `kept` to the messages without reasoning. `Handed` says what one step
  hands the caller (a whole round, a reply, an end, nothing); `PromiseStep` shows each of those to
  be a step of TurnPromise or a stutter. That reasoning can be dropped round by round rests on
  `DropThinkingElements` and `NothingToDrop`.

Assumed: `HistoriesAssumption`, the histories are sequences of messages and floors are counts;
`ConversationsAssumption`, what is handed over is a request as it stands, without reasoning, with
calls by the model only. `Turn::history` documents that as the caller's part, and
`TurnsTakeConversations` proves that the commands do it. `UsagesAssumption`, `PoliciesAssumption`,
`ToolsAssumption` and `BoundsAssumption` are the Rust types. `ResultsAssumption` is that an absent
result is not a result.

### One session, run after run (`Conversation_proofs`)

For any number of runs, rounds, tools and usages, any policies, with and without wrap-ups:

| Theorem | States |
|---|---|
| `TranscriptIsResumable`, `StopIsTold`, `ExitCodeAgrees` | `[]TranscriptResumes`, `[]StopTellsTheEnd`, `ExitAgrees` |
| `RequestsOfRunsAreAccepted` | `[]RequestAccepted` |
| `CutNamesTheSameMessages`, `WithheldStaysSo` | `[]CutNamesTheSame`, `[]StaysWithheld` |
| `TurnsTakeConversations` | every history a turn is given satisfies `ConversationsAssumption` |

`ExitCodeAgrees` is of a turn that keeps anything, stored with its stop whatever became of its
output: the code is 1 where that was lost, and else tells the stop (`CodeTells`).

They follow from `ConversationInvariant`. `StoredInv`: the transcript is a `Thread`, prompts and
what turns add in an order in which each message answers the calls of the one before it, and the
stored count names a prompt of it (`Anchored`). `TurnInv`: a turn's history is the merged one with
whole rounds behind it, and its cut, its floor and the cut an interrupt would report are all cuts
that may be made in the merged history (`MayCut`). `HeldInv`: under a policy none of them is short
of what was carried, from the first plan on. `FirstInv` and `OutcomeInv` say the same of the turn a
wrap-up follows and of what is about to be stored, `MergedInv` what the merge is of.

The heart of it is the merge. Its recursive function is opened in `MergeUnfolds`, and then:
`MergeShape` (what it has built after `n` messages is in order, alternating, with one way back for
each message), `MergeOrigins` (the way back leads to the last stored message inside), `AskStays`
(a prompt, once taken, keeps its place), and `WindowIsMerge`: to leave out up to a prompt after
merging is to merge what follows the prompt. `CutIsTheSame` puts them together for any legal cut.

Assumed: `FlagsAssumption`, that `--max-rounds` is positive (`round_cap` refuses zero; with no
round at all a wrap-up would start from a cut of nothing and `StaysWithheld` would fail) and that a
policy is two counts; `StopAssumption`, that an absent stop is not a stop. `Unused` is part of the
specification: a provider that used an id twice could be answered by an old result.

### The store (`SessionStore_proofs`)

For any number of processes, turns, messages and lines, and writes torn at any place in any
mixture:

| Theorem | States |
|---|---|
| `ResumedAgrees`, `ResumeReadsAll` | `[]ResumedAgreesWithContinued`, `[]ResumeReadsAllWritten` |
| `StopIsTheLastTurns` | `[]StopDescribesTheEnd` |
| `ConcurrentRunsAreResumed` | `[]ConcurrentRunsResume` |

They follow from `StoreInvariant`: `Spec => []Inv`. The properties speak of a resume that
succeeds; whether one does says nothing of what the next append makes of it, so `Inv` speaks of the
lines. `Parsed` is what a resume parses, the torn line included when it is whole. `ReadInv`: if none of
it is garbled after a header (`Clean`), then what was written is what the lines carry, no acknowledged
line was lost, the stop the fold ends with is that of the last turn or none, and whoever alone holds the
file holds what the fold comes to. A file that does not parse stays so, whatever is appended, which
is why nothing need be known of one. `CreationInv` is that there is nothing before there is a file. `SharedInv`:
a file two processes share has no torn line and carries a transcript of turns (`Shaped`); `BatchJoins`
is that a turn that opens on a prompt goes behind any such transcript, also behind one that grew
since the session was resumed.

`FoldLines` is a recursive function, opened by lemmas that follow a file line by line: replaying
one line more is one more step, replaying a clean file gives its messages (`ReplayIs`), and the
accounting a live session absorbed turn by turn is what the fold absorbs.

Assumed: `BatchesAssumption` (turns are sequences of messages), `TearsAssumption`, and
`AbsentAssumption`, that an absent value is none of those it might be absent from.

### The stream and its framing (`Wire_proofs`)

For any frames in any order, of any number, with any indices:

| Theorem | States |
|---|---|
| `StreamEndsOnce` | `[]TurnEndsOnce` |
| `StreamSaysItsFrames` | `[]EventsAreTheFrames` |
| `FramingBoundsMemory` | `[]MemoryBounded` of `Sse`, for any cap and chunks |
| `FramesSayTheLines` | `[]FramesAreTheLines` of `Sse`, for any cap, bytes and chunks |

`StreamInvariant` has the types, and `EndInv`: until the stream ends, what is queued or handed out
is neither an end nor counts; once it ended, all there is is that, counts at most once and one end
(`IsTurn`), and nothing is added. `EventsAreTheFrames` compares an incremental fold with a
definition that reads the whole list of frames, so the invariant has to say what the fold holds in
those terms: `HeldInv` says each open block is what its opener and its deltas so far make it, and each
index without one was never opened, closed, or opened by something that is not accumulated (`Accounts`);
the counts are the latest reported (`Counted`) and the reason the last one told. Each handler is
then one lemma about what it queues and one about what it leaves (`HandleSays`, `HeldStays`),
and `FlattenAppend` and `PickedAppend` carry one frame more through the reference definition.
Only while the stream has not ended: a reply that ended keeps what it held.

`MemoryBounded` of the framing speaks of what is held while waiting; the invariant adds why:
`event_bytes` is the bytes of the lines held (`Buffered`), no line feed is passed over by
`scanned`, and after the end of the bytes at most the last byte is one (`Bounded`).

`FramesAreTheLines` compares what was handed out with what the lines of all the bytes say, and no
state says how many of those are read. `FramingInv` says it: until the last item is out, there is a
place in the bytes, at the start of a line, up to which their lines are read (`ReadSoFar`): what
these say is handed out, the event in progress is `lines`, the rest is `buf`, and none of them was
too much or not UTF-8. After it, everything is said, up to an error there is reason for (`AllSaid`).
Each step then moves that place over one line (`GoodLine`, `BadLine`), leaves it while bytes
arrive (`ChunkRead`, `EndRead`), or finds no line feed left (`OpenTail`, `LastEvent`); under them, a
reading of more bytes agrees with one of fewer on the lines that end in these (`ReadToStays`), and
one line more adds to what lines say at most one event (`SaidMore`).

Assumed: of the stream, `FramesAssumption`; of the framing, that the cap is positive
(`CapAssumption`) and that a chunk has a length (`ChunkAssumption`).

### The gate (`Authority_proofs`)

`ConsentIsItsCalls`: `[]ConsentIsForThisCall`, for any number of calls, tools and lines typed, from
`GateInvariant`. The property looks at decisions made; the invariant adds that while a question is
up nothing in the kernel's queue or the reader's buffer is older than it (`FreshInv`, which is what
`discard_typeahead` is for), that only calls that need asking are asked (`CallInv`), and that a
blanket stands on an "all" typed for a call of that tool (`BlanketInv`).

### The spawn (`SandboxedCommand_proofs`)

Whatever the sets and bounds, that is for any number of strikes and renames:

| Theorem | States |
|---|---|
| `CommandRunsAsPromised`, `CommandIsWatched` | `[]RanAsPromised`, `[]NothingUnwatched` |
| `RefusalNeverRan` | `[]RefusalMeansNotRun` |
| `TrailTells`, `StatusIsItsOwn` | `[]TrailTellsTheResult`, `[]StatusIsTheCommands` |

`SpawnInvariant` is the base: each restriction from the step that applies it on (`ConfinedInv`),
the channel off fd 0 and held by the stages alone (`ChannelInv`), the opened program hashed before
it is started (`PinInv`), past the check of its parent a supervisor or a pending kill (`WatchInv`),
and what the caller may conclude at the end of the channel (`CallInv`). `RestrictingKeeps` and
`StartKeeps` are the steps that establish these; all others only have to leave them alone.
On it rest `RefusedInv` (where each stage can be once one refused, and that nothing ran) and
`PipeInv` (the refusal is the last record, after at most three); `TrailInv` (what the trail holds
at each step of the call); and `StatusInv`: `EndShape` says which statuses a stage can end with,
`EndsExplained` that an end other than the command's was refused, lost or struck, and `Stays` that
such an explanation never goes away again.

### Denials and port rules (`Authority_proofs`)

For every policy, of the denials and the port rules:

* `PortsBoundEveryWay`, from `UnaskedIsDenied`: what Landlock is not asked about is denied, and
  what it is asked about has to name a port of the allowlist. `PortsLeaveTcp` is the converse.
* `UnixNeedsGrant` and `PortsLeaveUnix`: the unix axis, and that an allowlist does not narrow it.
* `RulesFollowAxes`: what a grant's rule confers.

The first four are the two halves of `SamePorts` and of `SameSockets`, parts of `KernelAgrees`,
which the `files` run checks for its command lines. They speak of `Ways`, so what they show is
as complete as that list is.

### A drawn run (`Tui_proofs`)

For any number of records, keys and failing threads:

* `TrailIsDelivered`: `[]TrailDelivered`, from `TrailInvariant`: `Spec => []TrailInv`.
* `AccountIsTold`: `[]AccountTold`, from `AccountInv`.

`TrailDelivered` says nothing of a record while it is held, so it is not inductive. `HoldInv` adds
where each record is: all held, in order; or taken, with only later ones on stderr; or all gone to
it, which is why one that overtakes was emitted after the release. `DriverInv` adds the order of
the driver's steps that this rests on: a hold from before the screen until after it unless stderr
was redirected, a release between the screen and the reprint. `LossInv` is that only a dead
stderr swallows. The trail is disturbed by `ToolEmits`, `TakesHold`, `TakesTrail` and
`WritesTrail`; every other step leaves it alone (`UntouchedKeeps`).
`AccountInv` adds to `AccountTold`, which speaks of the end: what the driver has seen is true of the descriptors (`SeenInv`), the pane knows of the call under
way (`CallsInv`), nothing is said before the account (`UntoldInv`), from it on the lines, the code
and the stop stored agree (`AgreedInv`), and a reprint is all of the account or nothing (`SaidInv`).
Both proofs assume of the constants only that what stands for no hold is not a list of records
(`NotHeldAssumption`), nor what stands for an absent option one of its values (`NoneAssumption`).

### Operators (`Compaction_proofs`)

Its first part says of dropping elements what it keeps: types, elements, their order, the parts of
a concatenation, and the tail when only a front is dropped. The second has the cuts (`PlanCutLegal`,
`PlanCutHoldsFloor`) and `drop_thinking` (`DropThinkingReasonless`, `RetainKeepsIds`,
`DropThinkingElements`, `NothingToDrop`, `DropThinkingAgain`). The library's induction theorems take an
operator, which the provers here cannot instantiate; `InductionUpTo` proves induction along a
sequence for a *set* of positions instead, which is enough for `Picked`, the merge, the store's
fold and `FlattenSeq`. `ElementByElement` is the same along the sequences over a set.

### Model-checked only

Liveness under fairness and `ENABLED`, which the prover does not reach: `TurnReturns`,
`StopReturns`, the return of a spawned call, `PressEndsRun`, `HangupEndsRun`. Of safety:

* `ReachesOnlyGranted` and `Conceals` of the guard. That a resolution beneath a descriptor stays
  beneath it is an induction over walks that links splice into, in a tree that changes.
* `KernelAgrees`, but for the part the theorems on denials, port rules and rights cover: the rest
  compares what a resolution in that tree allows.
`TypeOK` of the loop is an invariant the proofs need and no run lists,
since it says little on its own.

## 5. What is left out

Text, arguments and output of tools; what `settle` makes of a command's output; process ids,
hence the reuse of one between `try_wait` and `kill_group`; a pinned file written in place (the
model replaces files by renaming, and no step of the code could tell); the death of sandbx itself
during a spawn; crash signals of a stage other than one; wording and rendering; HTTP and serialisation; the
ownership and mode checks on files (`vet.rs`). In `Conversation` a round has one call, since
`TurnLoop` covers more. In `SessionStore` one fragment is not torn twice. A second process is
not given to `Conversation`. In `store_torn` writes do not tear while two processes share the file.

Of the guard: `canonicalize`, vetting and judging are one step each; `EXDEV`, which the code retries into a refusal, does not occur, since
one resolution is one step; names under `/etc` do not move; a run creates one file. `Conceals`
leaves out requests with `..` and trees with a link outside the grants that leads back in, where
the answer does depend on what lies between. `ReachesOnlyGranted` does not speak of a directory
still pending in a walk that is moved out of its root: it is opened by its parent's descriptor.
`readdir`'s order is any in a walk and one in `grep`'s list of files. Of the policy, environment
names, its description and clap's parsing; of the filters, how they are compiled to BPF and how
an architecture is told; of the resolver, what its files hold and how names are looked up.
Of the tui, rows, wrapping and scrolling; a signal is not a step, and `TrailDelivered` states
what one would lose.

The components with status `not_modelled` in `PROJECT.json`: the Anthropic request and client
(serialisation and one call), the key store (a read, a change and a rename, with a race the
code accepts), ids and paths (parsing), the command line, and the fixtures of tests.

## 6. Findings

* `store_torn_costs`. An append torn after the prompt's line leaves a transcript that ends on
  a user prompt, which `resume` refuses as `Unresumable`. `record.rs` says dropping the torn
  line restores the last consistent state, so that one interrupted append does not cost the
  conversation. The same holds of a tear inside a multi-byte character, which
  `read_to_string` refuses before the fold sees it (the `"split"` tear).
* `store_glue`. A resume that drops a torn last line leaves its bytes in the file, and the next
  append is glued to them: acknowledged, then refused by every later resume.

Two observations without a run of their own. A grant whose path is not UTF-8 reaches the helper
under the name `display()` gives it (helper_args.rs:94, as `context/decision-policy.md` says): the
tools go on with it, and every spawn under it is refused, since that name holds nothing or, by the
pin, not what was vetted. `KernelAgrees` holds because nothing runs: a command that is
confined has each grant in force on its own object (`EnforcesEach`), which without the pin it
would not.

The other: `open_root` opens a root once to measure it against the
pin and a second time for the descriptor it keeps (fs_guard.rs:702, 741), while its comment
(719-724) says that what is kept was measured before. In the model a rename between
`MeasureRoot` and `KeepRoot` leaves a root whose descriptor is of an object nobody measured, and
accesses confirmed later resolve beneath it; `ReachesOnlyGranted` holds of all other roots
(`AsMeasured`) and fails without that condition.

## 7. Plan

1. Core, done: Messages, Compaction, TurnLoop with TurnPromise, Bridge, Conversation,
   SessionStore, ConsentGate; the loop's invariant.
2. Done: HelperStages and SandboxedCommand; Sse and AnthropicStream; Keys, AuditHold and Tui;
   Tree, Policy, FsGuard, Ruleset and Confinement.
3. Left of the models: that the events of a stream are those TurnLoop's stream
   actions allow. One difference is known: a tool call whose input does not parse
   is an error that is not the stream's end, and `accumulate` stops at the first error.
4. Proofs, done: everything safe of the loop and its refinement, the conversation, the gate, the
   spawn, the drawn run, the store, the stream and its framing; denials and port rules.
5. Proofs, left: resolution beneath a descriptor; that `Decode` undoes `Encode`, up to `Shown`, for a policy of one grant.
