--------------------------- MODULE AnthropicStream ---------------------------
(***************************************************************************)
(* next_agent_event of sandbx-anthropic: frames of a streamed reply, in any*)
(* order the wire may bring them, folded into the AgentEvents of one turn. *)
(*                                                                         *)
(* A fragment of text, reasoning or a signature is known by the position of*)
(* its frame.  A tool's JSON comes as a head and a tail, and parses when   *)
(* both arrived once, in that order, or when nothing did.                  *)
(***************************************************************************)
EXTENDS Integers, Sequences, SequencesExt, FiniteSetsExt, Picking

CONSTANTS
  Frames,    \* the frames the wire may bring
  MaxFrames  \* bound: frames before one that ends the turn

VARIABLES
  seen,      \* frames taken off the wire
  blocks,    \* open blocks by index
  usage,     \* the counts so far, by field
  reason,    \* the stop reason held until message_stop
  pending,   \* events queued
  ended,     \* whether the stream takes no more frames
  events,    \* what was handed out
  exhausted  \* whether it was handed out that nothing follows

vars == <<seen, blocks, usage, reason, pending, ended, events, exhausted>>

Nothing == "none"

\* Frames.  A count is known by the position of the frame that reported it.
Start(index, block) == [frame |-> "content_block_start", index |-> index, what |-> block]
Delta(index, delta) == [frame |-> "content_block_delta", index |-> index, what |-> delta]
BlockStop(index) == [frame |-> "content_block_stop", index |-> index, what |-> Nothing]
MessageStart(fields) == [frame |-> "message_start", index |-> 0, what |-> fields]
MessageDelta(fields, stop) == [frame |-> "message_delta", index |-> 0, what |-> fields, stop |-> stop]
Other(kind) == [frame |-> kind, index |-> 0, what |-> Nothing]

UsageFields == {"input", "output", "cache_creation", "cache_read"}
NothingReported == [f \in UsageFields |-> 0]

\* Nothing of a heartbeat, a ping or a tag this adapter does not model is kept.
Ignored == {"blank", "ping", "unknown"}

Ending == {"message_stop", "error", "transport", "eof", "unparsed"}

Indices == {frame.index : frame \in Frames}

IsFrame(frame) ==
  CASE frame.frame = "content_block_start" -> frame = Start(frame.index, frame.what)
    [] frame.frame = "content_block_delta" -> frame = Delta(frame.index, frame.what)
    [] frame.frame = "content_block_stop" -> frame = BlockStop(frame.index)
    [] frame.frame = "message_start" ->
         frame = MessageStart(frame.what) /\ frame.what \subseteq UsageFields
    [] frame.frame = "message_delta" ->
         frame = MessageDelta(frame.what, frame.stop) /\ frame.what \subseteq UsageFields
    [] OTHER -> frame = Other(frame.frame) /\ frame.frame \in Ignored \cup Ending

\* An index is a u32.
ASSUME FramesAssumption ==
  /\ \A frame \in Frames : IsFrame(frame)
  /\ Indices \subseteq Nat
  /\ \E top \in Indices : \A index \in Indices : index <= top

\* Whatever a start opens that is not accumulated still clears its index.
Accumulated == {"tool_use", "thinking"}

Open(block, position) == [block |-> block, start |-> position, json |-> <<>>, text |-> <<>>,
                          signature |-> <<>>]

Init ==
  /\ seen = <<>>
  /\ blocks = <<>> /\ usage = NothingReported /\ reason = Nothing
  /\ pending = <<>> /\ ended = FALSE
  /\ events = <<>> /\ exhausted = FALSE

Text(position) == <<"Text", position>>
Thinking(position) == <<"Thinking", position>>
RedactedThinking(position) == <<"RedactedThinking", position>>
ClosedThinking(start, text, signature) == <<"ThinkingBlock", start, text, signature>>
ToolCallRequested(start, json) == <<"ToolCallRequested", start, json>>
Usage(counts) == <<"Usage", counts>>
Stop(why) == <<"Stop", why>>
Err(kind) == <<"Err", kind>>

\* Blank JSON stands for no arguments.
Parses(json) == json \in {<<>>, <<"head", "tail">>}

ToolCallEvent(open) ==
  IF Parses(open.json) THEN ToolCallRequested(open.start, open.json)
                       ELSE Err("malformed_input")

\* An unsigned block is worth nothing, and an empty signature counts as none.
ClosedBlockEvent(open) ==
  IF open.block = "tool_use" THEN <<ToolCallEvent(open)>>
  ELSE IF open.signature = <<>> THEN <<>>
  ELSE <<ClosedThinking(open.start, open.text, open.signature)>>

\* In index order.
FlushOpenBlocks ==
  FlattenSeq([i \in 1..(Max(Indices) + 1) |->
                IF i - 1 \in DOMAIN blocks THEN ClosedBlockEvent(blocks[i - 1]) ELSE <<>>])

PushUsage == IF usage = NothingReported THEN <<>> ELSE <<Usage(usage)>>

Position == Len(seen) + 1

\* Each field a report carries wins, each it omits keeps its value.
Absorb(fields) == [f \in UsageFields |-> IF f \in fields THEN Position ELSE usage[f]]

Without(index) == [i \in DOMAIN blocks \ {index} |-> blocks[i]]
With(index, open) == [i \in DOMAIN blocks \cup {index} |-> IF i = index THEN open ELSE blocks[i]]

\* Mutant: an index in use is left alone by a start that opens nothing.
OnStartKeeping(frame) ==
  IF frame.what \in Accumulated THEN With(frame.index, Open(frame.what, Position)) ELSE blocks

OnStart(frame) ==
  IF frame.what \in Accumulated THEN With(frame.index, Open(frame.what, Position))
                                ELSE Without(frame.index)

\* A delta reaches the open block of its index if that is of its kind.
OnDelta(frame) ==
  LET index == frame.index
      opens(block) == index \in DOMAIN blocks /\ blocks[index].block = block
  IN  CASE frame.what = "thinking" /\ opens("thinking") ->
             [blocks EXCEPT ![index].text = Append(@, Position)]
        [] frame.what = "signature" /\ opens("thinking") ->
             [blocks EXCEPT ![index].signature = Append(@, Position)]
        [] frame.what \in {"head", "tail"} /\ opens("tool_use") ->
             [blocks EXCEPT ![index].json = Append(@, frame.what)]
        [] OTHER -> blocks

Queue(queued) == pending' = pending \o queued

\* The turn's last items: the counts, if any were reported, then how it ended.
EndsWith(queued, last) ==
  /\ ended' = TRUE
  /\ Queue(queued \o PushUsage \o <<last>>)
  /\ usage' = NothingReported

\* Mutant: a frame that does not parse is skipped.
UnparsedSkipped == Queue(<<Err("malformed_event")>>) /\ UNCHANGED <<usage, ended>>

\* A frame that does not parse ends the turn without its counts.
Unparsed == ended' = TRUE /\ Queue(<<Err("malformed_event")>>) /\ UNCHANGED usage

Handle(frame) ==
  CASE frame.frame = "message_start" ->
         /\ usage' = Absorb(frame.what)
         /\ UNCHANGED <<blocks, reason, pending, ended>>
    [] frame.frame = "content_block_start" ->
         /\ blocks' = OnStart(frame)
         /\ Queue(IF frame.what = "redacted_thinking" THEN <<RedactedThinking(Position)>> ELSE <<>>)
         /\ UNCHANGED <<usage, reason, ended>>
    [] frame.frame = "content_block_delta" ->
         /\ blocks' = OnDelta(frame)
         /\ Queue(CASE frame.what = "text" -> <<Text(Position)>>
                    [] frame.what = "thinking" -> <<Thinking(Position)>>
                    [] OTHER -> <<>>)
         /\ UNCHANGED <<usage, reason, ended>>
    [] frame.frame = "content_block_stop" ->
         /\ blocks' = Without(frame.index)
         /\ Queue(IF frame.index \in DOMAIN blocks THEN ClosedBlockEvent(blocks[frame.index]) ELSE <<>>)
         /\ UNCHANGED <<usage, reason, ended>>
    [] frame.frame = "message_delta" ->
         /\ usage' = Absorb(frame.what)
         /\ reason' = IF frame.stop = Nothing THEN reason ELSE frame.stop
         /\ UNCHANGED <<blocks, pending, ended>>
    [] frame.frame = "message_stop" ->
         /\ EndsWith(FlushOpenBlocks, Stop(IF reason = Nothing THEN "unspecified" ELSE reason))
         /\ blocks' = <<>> /\ reason' = Nothing
    [] frame.frame \in {"error", "transport", "eof"} ->
         /\ EndsWith(<<>>, Err(frame.frame))
         /\ UNCHANGED <<blocks, reason>>
    [] frame.frame = "unparsed" ->
         /\ Unparsed
         /\ UNCHANGED <<blocks, reason>>
    [] frame.frame \in Ignored -> UNCHANGED <<blocks, usage, reason, pending, ended>>

\* The next frame, taken only when nothing is queued.
Receive ==
  /\ pending = <<>> /\ ~ended
  /\ \E frame \in Frames :
       /\ Len(seen) < MaxFrames \/ frame.frame \in Ending
       /\ Handle(frame)
       /\ seen' = Append(seen, frame)
  /\ UNCHANGED <<events, exhausted>>

Yield ==
  /\ pending # <<>>
  /\ events' = Append(events, Head(pending))
  /\ pending' = Tail(pending)
  /\ UNCHANGED <<seen, blocks, usage, reason, ended, exhausted>>

Exhaust ==
  /\ pending = <<>> /\ ended /\ ~exhausted
  /\ exhausted' = TRUE
  /\ UNCHANGED <<seen, blocks, usage, reason, pending, ended, events>>

Next == Receive \/ Yield \/ Exhaust

Spec == Init /\ [][Next]_vars

-----------------------------------------------------------------------------
(***************************************************************************)
(* What the frames say, read off their positions                           *)
(***************************************************************************)

IsStart(k, index) == seen[k].frame = "content_block_start" /\ seen[k].index = index
IsBlockStop(k, index) == seen[k].frame = "content_block_stop" /\ seen[k].index = index
IsDelta(k, index, deltas) ==
  seen[k].frame = "content_block_delta" /\ seen[k].index = index /\ seen[k].what \in deltas

\* The start whose block is still open at an index just before position n.
OpenerOf(n, index) ==
  {k \in 1..(n - 1) : /\ IsStart(k, index)
                      /\ \A j \in (k + 1)..(n - 1) : ~IsStart(j, index) /\ ~IsBlockStop(j, index)}

DeltasIn(k, n, deltas) ==
  Picked([i \in 1..(n - 1) |-> i], {j \in (k + 1)..(n - 1) : IsDelta(j, seen[k].index, deltas)})

\* What the block opened at k says when it is over at n.
SaidBy(k, n) ==
  LET json == DeltasIn(k, n, {"head", "tail"})
      signature == DeltasIn(k, n, {"signature"})
  IN  CASE seen[k].what = "tool_use" ->
             LET fragments == [i \in DOMAIN json |-> seen[json[i]].what]
             IN  <<IF Parses(fragments) THEN ToolCallRequested(k, fragments)
                                        ELSE Err("malformed_input")>>
        [] seen[k].what = "thinking" /\ signature # <<>> ->
             <<ClosedThinking(k, DeltasIn(k, n, {"thinking"}), signature)>>
        [] OTHER -> <<>>

SaidAtEndOf(index, n) ==
  IF OpenerOf(n, index) = {} THEN <<>> ELSE SaidBy(Max(OpenerOf(n, index)), n)

\* The counts before position n: for each field the last frame that reported it.
Counted(n) ==
  [f \in UsageFields |->
     Max({0} \cup {k \in 1..(n - 1) : /\ seen[k].frame \in {"message_start", "message_delta"}
                                      /\ f \in seen[k].what})]

CountsAt(n) == IF Counted(n) = NothingReported THEN <<>> ELSE <<Usage(Counted(n))>>

\* The frames before position n that told why the turn stops; the last one counts.
Told(n) == {k \in 1..(n - 1) : seen[k].frame = "message_delta" /\ seen[k].stop # Nothing}
ReasonAt(n) == IF Told(n) = {} THEN "unspecified" ELSE seen[Max(Told(n))].stop

SaidAt(n) ==
  CASE IsDelta(n, seen[n].index, {"text"}) -> <<Text(n)>>
    [] IsDelta(n, seen[n].index, {"thinking"}) -> <<Thinking(n)>>
    [] IsStart(n, seen[n].index) /\ seen[n].what = "redacted_thinking" -> <<RedactedThinking(n)>>
    [] IsBlockStop(n, seen[n].index) -> SaidAtEndOf(seen[n].index, n)
    [] seen[n].frame = "message_stop" ->
         FlattenSeq([i \in 1..(Max(Indices) + 1) |-> SaidAtEndOf(i - 1, n)])
           \o CountsAt(n) \o <<Stop(ReasonAt(n))>>
    [] seen[n].frame \in {"error", "transport", "eof"} -> CountsAt(n) \o <<Err(seen[n].frame)>>
    [] seen[n].frame = "unparsed" -> <<Err("malformed_event")>>
    [] OTHER -> <<>>

\* Each block is handed out once, whole, at its own end or at the turn's, and no
\* delta ends up in a block that was not open for it; text and reasoning go out
\* as they come; the counts are the last ones reported, and end with the turn.
EventsAreTheFrames ==
  events \o pending = FlattenSeq([n \in DOMAIN seen |-> SaidAt(n)])

Closing(event) ==
  event[1] = "Stop" \/ event \in {Err("error"), Err("transport"), Err("eof"), Err("malformed_event")}

\* A turn ends exactly once, on its last item, with its counts, at most once, just
\* before; accumulate relies on that order.  A tool call that does not parse is an
\* error too, but not the end.
TurnEndsOnce ==
  LET all == events \o pending
  IN  /\ \A i \in DOMAIN all : Closing(all[i]) => i = Len(all)
      /\ \A i \in DOMAIN all : all[i][1] = "Usage" => i = Len(all) - 1
      /\ exhausted => events # <<>> /\ Closing(Last(events))
=============================================================================
