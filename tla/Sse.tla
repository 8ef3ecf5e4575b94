--------------------------------- MODULE Sse ---------------------------------
(***************************************************************************)
(* sandbx-sse's tokenize: chunks of bytes, cut anywhere, into framed       *)
(* events.                                                                 *)
(*                                                                         *)
(* A byte is one of five: part of a line that starts as `data:` does, part *)
(* of one that does not, the two line ends, and one that is not UTF-8.     *)
(***************************************************************************)
EXTENDS Naturals, Sequences, SequencesExt, FiniteSetsExt, Picking

CONSTANTS
  MAX_EVENT_BYTES,
  MaxBytes,    \* bound: bytes that arrive
  MaxChunk     \* bound: bytes in one chunk

ASSUME CapAssumption == MAX_EVENT_BYTES \in Nat \ {0}
ASSUME ChunkAssumption == MaxChunk \in Nat

VARIABLES
  sent,        \* every byte that arrived
  closed,      \* whether the byte stream is over: "no", "eof", "error"
  pc,          \* "poll", "scan", "await", "exhausted"
  buf, scanned, done,
  lines,       \* lines of the event in progress
  event_bytes, \* their bytes
  out          \* items handed out

sse_vars == <<sent, closed, pc, buf, scanned, done, lines, event_bytes, out>>

Bytes == {"data", "comment", "CR", "LF", "invalid"}

Frame(data) == [frame |-> data, err |-> "none"]
Failure(kind) == [frame |-> <<>>, err |-> kind]

SseInit ==
  /\ sent = <<>> /\ closed = "no"
  /\ pc = "poll"
  /\ buf = <<>> /\ scanned = 0 /\ done = FALSE
  /\ lines = <<>> /\ event_bytes = 0
  /\ out = <<>>

\* A call hands out one item and starts over.
Give(item) ==
  /\ out' = Append(out, item)
  /\ pc' = "poll"
  /\ lines' = <<>> /\ event_bytes' = 0

\* The terminal item is the last one: nothing buffered survives it.
Ended == done' = TRUE /\ buf' = <<>> /\ scanned' = 0

\* Checked before anything is taken from the buffer.
Poll ==
  /\ pc = "poll"
  /\ pc' = IF done THEN "exhausted" ELSE "scan"
  /\ UNCHANGED <<sent, closed, buf, scanned, done, lines, event_bytes, out>>

LineEnds == {i \in (scanned + 1)..Len(buf) : buf[i] = "LF"}

TrimCarriageReturn(line) ==
  IF line # <<>> /\ Last(line) = "CR" THEN Front(line) ELSE line

IsData(line) == Head(line) = "data"
ParseEvent(event) == SelectSeq(event, IsData)

\* The next line of the buffer: not UTF-8, blank between events, the blank one that
\* ends an event, or one more of it.
TakeLine ==
  /\ pc = "scan"
  /\ LineEnds # {}
  /\ LET end == Min(LineEnds)
         line == TrimCarriageReturn(SubSeq(buf, 1, end - 1))
         drained == buf' = SubSeq(buf, end + 1, Len(buf)) /\ scanned' = 0
     IN  \/ /\ Contains(line, "invalid")
            /\ Give(Failure("malformed")) /\ Ended
         \/ /\ line = <<>> /\ lines = <<>>
            /\ drained
            /\ UNCHANGED <<pc, done, lines, event_bytes, out>>
         \/ /\ line = <<>> /\ lines # <<>>
            /\ Give(Frame(ParseEvent(lines)))
            /\ drained /\ UNCHANGED done
         \/ /\ line # <<>> /\ ~Contains(line, "invalid")
            /\ IF event_bytes + Len(line) > MAX_EVENT_BYTES
                 THEN Give(Failure("malformed")) /\ Ended
                 ELSE /\ lines' = Append(lines, line)
                      /\ event_bytes' = event_bytes + Len(line)
                      /\ drained /\ UNCHANGED <<pc, done, out>>
  /\ UNCHANGED <<sent, closed>>

\* Mutant: only whole lines count.
TooLongWhole == event_bytes > MAX_EVENT_BYTES

TooLong == event_bytes + Len(buf) > MAX_EVENT_BYTES

\* No line is left: the part of one that is counts against the cap as well.
OutOfLines ==
  /\ pc = "scan"
  /\ LineEnds = {}
  /\ \/ /\ TooLong
        /\ Give(Failure("malformed")) /\ Ended
     \/ /\ ~TooLong /\ ~done
        /\ pc' = "await" /\ scanned' = Len(buf)
        /\ UNCHANGED <<buf, done, lines, event_bytes, out>>
     \/ /\ ~TooLong /\ done /\ lines = <<>>
        /\ pc' = "exhausted" /\ scanned' = Len(buf)
        /\ UNCHANGED <<buf, done, lines, event_bytes, out>>
     \/ /\ ~TooLong /\ done /\ lines # <<>>
        /\ Give(Frame(ParseEvent(lines)))
        /\ scanned' = Len(buf)
        /\ UNCHANGED <<buf, done>>
  /\ UNCHANGED <<sent, closed>>

ChunkArrives ==
  /\ pc = "await"
  /\ \E n \in 1..MaxChunk : \E chunk \in [1..n -> Bytes] :
       /\ Len(sent) + n <= MaxBytes
       /\ sent' = sent \o chunk
       /\ buf' = buf \o chunk
  /\ pc' = "scan"
  /\ UNCHANGED <<closed, scanned, done, lines, event_bytes, out>>

ReadFails ==
  /\ pc = "await"
  /\ closed' = "error"
  /\ Give(Failure("transport")) /\ Ended
  /\ UNCHANGED sent

\* Mutant: what follows the last line end is dropped.
TailDropped(tail) == <<>>

\* The end of the bytes terminates a line the sender did not.
TerminateTail(tail) == IF tail = <<>> THEN <<>> ELSE Append(tail, "LF")

BytesEnd ==
  /\ pc = "await"
  /\ closed' = "eof"
  /\ done' = TRUE
  /\ buf' = TerminateTail(buf)
  /\ pc' = "scan"
  /\ UNCHANGED <<sent, scanned, lines, event_bytes, out>>

SseNext == Poll \/ TakeLine \/ OutOfLines \/ ChunkArrives \/ ReadFails \/ BytesEnd

SseSpec == SseInit /\ [][SseNext]_sse_vars

-----------------------------------------------------------------------------
(***************************************************************************)
(* What the bytes say, however they were cut: lines end at line feeds and  *)
(* events at blank lines, and the last of each where the bytes are over.   *)
(***************************************************************************)

\* A line ends at a line feed, and the last one where the bytes so far do.
Ends(bytes) ==
  {i \in DOMAIN bytes : bytes[i] = "LF"}
    \cup {i \in {Len(bytes) + 1} : bytes # <<>> /\ Last(bytes) # "LF"}

\* A line that more bytes may still extend.
IsOpen(bytes, over, end) == end = Len(bytes) + 1 /\ ~over

LineTo(bytes, over, end) ==
  LET raw == SubSeq(bytes, Max({0} \cup {e \in Ends(bytes) : e < end}) + 1, end - 1)
  IN  IF IsOpen(bytes, over, end) THEN raw ELSE TrimCarriageReturn(raw)

LinesOf(bytes, over) ==
  Picked([end \in 1..(Len(bytes) + 1) |-> LineTo(bytes, over, end)], Ends(bytes))

\* The lines up to the i-th since the last blank one.
EventTo(ls, i) == SubSeq(ls, Max({0} \cup {b \in 1..i : ls[b] = <<>>}) + 1, i)

EventEnds(ls, over) ==
  {i \in DOMAIN ls : ls[i] # <<>> /\ IF i = Len(ls) THEN over ELSE ls[i + 1] = <<>>}

SaidIn(ls, over) ==
  Picked([i \in 1..Len(ls) |-> ParseEvent(EventTo(ls, i))], EventEnds(ls, over))

TooMuch(ls) == \E i \in DOMAIN ls : Len(FlattenSeq(EventTo(ls, i))) > MAX_EVENT_BYTES

\* The line still open may end inside a character.
NotUtf8(ls, open) == \E i \in DOMAIN ls : Contains(ls[i], "invalid") /\ ~(i = Len(ls) /\ open)

Given ==
  Picked([i \in 1..Len(out) |-> out[i].frame], {i \in DOMAIN out : out[i].err = "none"})

\* Wherever the chunks were cut, what is handed out is what the lines of all bytes
\* say: in order, nothing lost once the bytes so far are read or over, the line the
\* sender did not end included.  An error comes last, and "malformed" only for
\* an event over the cap or a line that is not UTF-8; neither gets by.
FramesAreTheLines ==
  LET over == closed = "eof"
      ls == LinesOf(sent, over)
      open == ~over /\ Len(sent) + 1 \in Ends(sent)
      errors == {out[i].err : i \in DOMAIN out} \ {"none"}
  IN  /\ IsPrefix(Given, SaidIn(ls, over))
      /\ \A i \in DOMAIN out : out[i].err # "none" => i = Len(out)
      /\ "malformed" \in errors => TooMuch(ls) \/ NotUtf8(ls, open)
      /\ pc \in {"await", "exhausted"} /\ errors = {} =>
           Given = SaidIn(ls, over) /\ ~TooMuch(ls) /\ ~NotUtf8(ls, open)

\* While it waits for a sender that never ends a line or an event, what is held
\* of them stays within the cap; after the last item, nothing is.
MemoryBounded ==
  /\ pc = "await" => Len(FlattenSeq(lines)) + Len(buf) <= MAX_EVENT_BYTES
  /\ pc = "exhausted" => lines = <<>> /\ buf = <<>>
=============================================================================
