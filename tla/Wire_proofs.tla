----------------------------- MODULE Wire_proofs -----------------------------
(***************************************************************************)
(* What a streamed reply becomes, whatever order its frames come in and    *)
(* however many they are, and what its framing hands out and holds in      *)
(* memory, however its bytes are cut.                                      *)
(***************************************************************************)
EXTENDS AnthropicStream, Sse, Compaction_proofs

-----------------------------------------------------------------------------
(* FlattenSeq. *)

\* The walk FlattenSeq takes, as a function of how far it has come.
IsFlattening(f, all, length) ==
  f = [n \in 1 .. length |-> IF n = 1 THEN all[n] ELSE f[n - 1] \o all[n]]

LEMMA FlatteningExists ==
  ASSUME NEW all, NEW length \in Nat
  PROVE  \E f : IsFlattening(f, all, length)
<1> DEFINE S == {n \in Nat : \E f : IsFlattening(f, all, n)}
<1>1. 0 \in S
  <2> DEFINE f == [n \in 1 .. 0 |-> all[n]]
  <2>1. IsFlattening(f, all, 0)
    BY DEF IsFlattening
  <2> QED
    BY <2>1
<1>2. ASSUME NEW n \in Nat, n \in S PROVE n + 1 \in S
  <2>1. PICK f : IsFlattening(f, all, n)
    BY <1>2
  <2> DEFINE g == [m \in 1 .. n + 1 |->
                     IF m <= n THEN f[m] ELSE IF m = 1 THEN all[m] ELSE f[n] \o all[m]]
             step(m) == IF m = 1 THEN all[m] ELSE g[m - 1] \o all[m]
  <2>2. ASSUME NEW m \in 1 .. n + 1 PROVE g[m] = step(m)
    <3>1. CASE m <= n /\ m = 1
      <4>1. g[m] = f[m] /\ m \in 1 .. n
        BY <3>1
      <4>2. f[m] = all[m]
        BY <2>1, <3>1, <4>1 DEF IsFlattening
      <4> QED
        BY <4>1, <4>2, <3>1
    <3>2. CASE m <= n /\ m # 1
      <4>1. m - 1 \in 1 .. n + 1 /\ m - 1 <= n /\ m \in 1 .. n
        BY <3>2
      <4>2. g[m] = f[m] /\ g[m - 1] = f[m - 1]
        BY <3>2, <4>1
      <4>3. f[m] = f[m - 1] \o all[m]
        BY <2>1, <3>2, <4>1 DEF IsFlattening
      <4> QED
        BY <4>2, <4>3, <3>2
    <3>3. CASE m = n + 1 /\ m = 1
      BY <3>3
    <3>4. CASE m = n + 1 /\ m # 1
      <4>1. m - 1 = n /\ m - 1 \in 1 .. n + 1 /\ ~(m <= n) /\ m - 1 <= n
        BY <3>4
      <4>2. g[m] = f[n] \o all[m] /\ g[m - 1] = f[n]
        BY <3>4, <4>1
      <4> QED
        BY <4>1, <4>2, <3>4
    <3> QED
      BY <3>1, <3>2, <3>3, <3>4
  <2>3. IsFlattening(g, all, n + 1)
    <3>1. g = [m \in 1 .. n + 1 |-> step(m)]
      BY <2>2
    <3> QED
      BY <3>1 DEF IsFlattening
  <2> QED
    BY <2>3
<1>3. 0 .. length \subseteq S
  <2> HIDE DEF S
  <2> QED
    BY <1>1, <1>2, InductionUpTo
<1> QED
  BY <1>3

\* How far two sequences agree, their flattenings do.
LEMMA FlatteningsAgree ==
  ASSUME NEW all, NEW more, NEW length \in Nat, NEW longer \in Nat, length <= longer,
         NEW f, IsFlattening(f, all, length), NEW g, IsFlattening(g, more, longer),
         length # 0, \A n \in 1 .. length : all[n] = more[n]
  PROVE  f[length] = g[length]
<1> DEFINE S == {n \in Nat : n >= 1 /\ n <= length => f[n] = g[n]}
<1>1. 0 \in S
  OBVIOUS
<1>2. ASSUME NEW n \in Nat, n \in S, n < length PROVE n + 1 \in S
  <2>1. n + 1 \in 1 .. length /\ n + 1 \in 1 .. longer /\ (n + 1) - 1 = n
    BY <1>2
  <2>2. /\ f[n + 1] = IF n + 1 = 1 THEN all[n + 1] ELSE f[n] \o all[n + 1]
        /\ g[n + 1] = IF n + 1 = 1 THEN more[n + 1] ELSE g[n] \o more[n + 1]
    BY <2>1, ZenonT(30) DEF IsFlattening
  <2>3. n + 1 # 1 => f[n] = g[n]
    BY <1>2
  <2> QED
    BY <2>1, <2>2, <2>3
<1>3. 0 .. length \subseteq S
  <2> HIDE DEF S
  <2> QED
    BY <1>1, <1>2, InductionUpTo
<1> QED
  BY <1>3

\* A sequence more is flattened after the others.
LEMMA FlattenAppend ==
  ASSUME NEW T
  PROVE  /\ FlattenSeq(<<>>) = <<>>
         /\ \A all \in Seq(Seq(T)), last \in Seq(T) :
              /\ FlattenSeq(all) \in Seq(T)
              /\ FlattenSeq(Append(all, last)) = FlattenSeq(all) \o last
<1>1. ASSUME NEW all, Len(all) \in Nat, Len(all) # 0
      PROVE  \E f : IsFlattening(f, all, Len(all)) /\ FlattenSeq(all) = f[Len(all)]
  <2>1. \E f : IsFlattening(f, all, Len(all))
    BY <1>1, FlatteningExists
  <2> QED
    BY <1>1, <2>1 DEF FlattenSeq, IsFlattening
<1>2. FlattenSeq(<<>>) = <<>>
  BY DEF FlattenSeq
<1>3. ASSUME NEW all \in Seq(Seq(T)), NEW last \in Seq(T), FlattenSeq(all) \in Seq(T)
      PROVE  FlattenSeq(Append(all, last)) = FlattenSeq(all) \o last
  <2> DEFINE more == Append(all, last)
             length == Len(all)
  <2>1. /\ length \in Nat /\ Len(more) = length + 1 /\ length + 1 # 0
        /\ \A n \in 1 .. length : all[n] = more[n]
        /\ more[length + 1] = last
        /\ (length = 0 => all = <<>>)
    OBVIOUS
  <2> HIDE DEF more
  <2>2. PICK g : IsFlattening(g, more, length + 1) /\ FlattenSeq(more) = g[length + 1]
    BY <1>1, <2>1
  <2>3. CASE length = 0
    <3>1. g[length + 1] = more[length + 1]
      <4>1. length + 1 \in 1 .. length + 1 /\ length + 1 = 1
        BY <2>3
      <4> QED
        BY <2>2, <4>1 DEF IsFlattening
    <3>2. FlattenSeq(all) = <<>>
      BY <1>2, <2>1, <2>3
    <3>3. <<>> \o last = last
      OBVIOUS
    <3> QED
      BY <2>1, <2>2, <3>1, <3>2, <3>3 DEF more
  <2>4. CASE length # 0
    <3>1. PICK f : IsFlattening(f, all, length) /\ FlattenSeq(all) = f[length]
      BY <1>1, <2>1, <2>4
    <3> HIDE DEF length
    <3>2. length <= length + 1 /\ length + 1 \in Nat
      BY <2>1
    <3>3. f[length] = g[length]
      BY <2>1, <2>2, <2>4, <3>1, <3>2, FlatteningsAgree
    <3>4. g[length + 1] = g[length] \o more[length + 1]
      <4>1. length + 1 \in 1 .. length + 1 /\ length + 1 # 1 /\ (length + 1) - 1 = length
        BY <2>1, <2>4
      <4> QED
        BY <2>2, <4>1 DEF IsFlattening
    <3> QED
      BY <2>1, <2>2, <3>1, <3>3, <3>4 DEF more
  <2> QED
    BY <2>3, <2>4
<1>4. ASSUME NEW all \in Seq(Seq(T)) PROVE FlattenSeq(all) \in Seq(T)
  <2> DEFINE S == {some \in Seq(Seq(T)) : FlattenSeq(some) \in Seq(T)}
  <2>1. <<>> \in S
    <3>1. <<>> \in Seq(Seq(T)) /\ <<>> \in Seq(T)
      OBVIOUS
    <3> QED
      BY <1>2, <3>1
  <2>2. ASSUME NEW some \in Seq(Seq(T)), NEW last \in Seq(T), some \in S
        PROVE  Append(some, last) \in S
    <3>1. FlattenSeq(some) \in Seq(T)
      BY <2>2
    <3>2. FlattenSeq(Append(some, last)) = FlattenSeq(some) \o last
      BY <1>3, <3>1
    <3>3. FlattenSeq(Append(some, last)) \in Seq(T) /\ Append(some, last) \in Seq(Seq(T))
      BY <3>1, <3>2
    <3> QED
      BY <3>3
  <2>3. Seq(Seq(T)) \subseteq S
    <3> HIDE DEF S
    <3> QED
      BY <2>1, <2>2, ElementByElement
  <2> QED
    BY <2>3
<1> QED
  BY <1>2, <1>3, <1>4

-----------------------------------------------------------------------------
(* Picking from one element more. *)

\* A walk that drops nothing gives back what it went along.
LEMMA WalkWhole ==
  ASSUME NEW T, NEW seq \in Seq(T), NEW positions, DOMAIN seq \subseteq positions,
         NEW f, IsWalk(f, seq, positions, Len(seq))
  PROVE  f[Len(seq)] = seq
<1>0. Len(seq) \in Nat /\ DOMAIN seq = 1 .. Len(seq)
  OBVIOUS
<1> DEFINE S == {n \in Nat : n <= Len(seq) => f[n] = SubSeq(seq, 1, n)}
<1>1. 0 \in S
  <2>1. f[0] = <<>>
    BY <1>0 DEF IsWalk
  <2>2. SubSeq(seq, 1, 0) = <<>>
    BY SubSeqEmpty
  <2> QED
    BY <2>1, <2>2
<1>2. ASSUME NEW n \in Nat, n \in S, n < Len(seq) PROVE n + 1 \in S
  <2>1. n + 1 \in 0 .. Len(seq) /\ n + 1 # 0 /\ (n + 1) - 1 = n /\ n + 1 \in DOMAIN seq
    BY <1>0, <1>2
  <2>2. n + 1 \in positions
    BY <2>1
  <2>3. f[n + 1] = Append(f[n], seq[n + 1])
    BY <2>1, <2>2 DEF IsWalk
  <2>4. SubSeq(seq, 1, n + 1) = Append(SubSeq(seq, 1, n), seq[n + 1])
    BY <1>2
  <2>5. f[n] = SubSeq(seq, 1, n)
    BY <1>0, <1>2
  <2>6. f[n + 1] = SubSeq(seq, 1, n + 1)
    BY <2>3, <2>4, <2>5, Zenon
  <2> QED
    BY <2>6
<1>3. 0 .. Len(seq) \subseteq S
  <2> HIDE DEF S
  <2> QED
    BY <1>0, <1>1, <1>2, InductionUpTo
<1>4. f[Len(seq)] = SubSeq(seq, 1, Len(seq))
  BY <1>0, <1>3
<1>5. SubSeq(seq, 1, Len(seq)) = seq
  OBVIOUS
<1> QED
  BY <1>4, <1>5, Zenon

\* Picked is where its walk ends.
LEMMA PickedIsWalked ==
  ASSUME NEW T, NEW seq \in Seq(T), NEW positions
  PROVE  \E f : IsWalk(f, seq, positions, Len(seq)) /\ Picked(seq, positions) = f[Len(seq)]
<1> DEFINE walk == CHOOSE f : IsWalk(f, seq, positions, Len(seq))
<1>1. IsWalk(walk, seq, positions, Len(seq))
  <2>1. Len(seq) \in Nat
    OBVIOUS
  <2> QED
    BY <2>1, WalkExists
<1>2. CASE DOMAIN seq \subseteq positions
  <2>1. Picked(seq, positions) = seq
    BY <1>2 DEF Picked
  <2> HIDE DEF walk
  <2> QED
    BY <1>1, <1>2, <2>1, WalkWhole
<1>3. CASE ~ (DOMAIN seq \subseteq positions)
  <2>1. Picked(seq, positions) = walk[Len(seq)]
    BY <1>3 DEF Picked, IsWalk
  <2> HIDE DEF walk
  <2> QED
    BY <1>1, <2>1
<1> QED
  BY <1>2, <1>3

\* How far two sequences and what is to be kept of them agree, their walks do.
LEMMA WalksAgree ==
  ASSUME NEW seq, NEW more, NEW kept, NEW keep, NEW length \in Nat, NEW longer \in Nat,
         length <= longer,
         NEW f, IsWalk(f, seq, kept, length), NEW g, IsWalk(g, more, keep, longer),
         \A n \in 1 .. length : seq[n] = more[n] /\ (n \in kept <=> n \in keep)
  PROVE  f[length] = g[length]
<1> DEFINE S == {n \in Nat : n <= length => f[n] = g[n]}
<1>1. 0 \in S
  <2>1. f[0] = <<>> /\ g[0] = <<>>
    BY DEF IsWalk
  <2> QED
    BY <2>1
<1>2. ASSUME NEW n \in Nat, n \in S, n < length PROVE n + 1 \in S
  <2>1. n + 1 \in 0 .. length /\ n + 1 \in 0 .. longer /\ n + 1 # 0 /\ (n + 1) - 1 = n
        /\ n + 1 \in 1 .. length
    BY <1>2
  <2>2. /\ f[n + 1] = IF n + 1 \in kept THEN Append(f[n], seq[n + 1]) ELSE f[n]
        /\ g[n + 1] = IF n + 1 \in keep THEN Append(g[n], more[n + 1]) ELSE g[n]
    BY <2>1 DEF IsWalk
  <2>3. f[n] = g[n]
    BY <1>2
  <2> QED
    BY <2>1, <2>2, <2>3
<1>3. 0 .. length \subseteq S
  <2> HIDE DEF S
  <2> QED
    BY <1>1, <1>2, InductionUpTo
<1> QED
  BY <1>3

\* One element more is kept or not, after what is kept of the others.
LEMMA PickedAppend ==
  ASSUME NEW T, NEW seq \in Seq(T), NEW last \in T, NEW kept, NEW keep,
         \A n \in 1 .. Len(seq) : n \in kept <=> n \in keep
  PROVE  Picked(Append(seq, last), keep)
           = IF Len(seq) + 1 \in keep THEN Append(Picked(seq, kept), last) ELSE Picked(seq, kept)
<1> DEFINE more == Append(seq, last)
           length == Len(seq)
<1>1. /\ length \in Nat /\ Len(more) = length + 1 /\ more \in Seq(T)
      /\ \A n \in 1 .. length : seq[n] = more[n]
      /\ more[length + 1] = last
  OBVIOUS
<1>2. PICK f : IsWalk(f, seq, kept, length) /\ Picked(seq, kept) = f[length]
  BY PickedIsWalked
<1> HIDE DEF more
<1>3. PICK g : IsWalk(g, more, keep, length + 1) /\ Picked(more, keep) = g[length + 1]
  BY <1>1, PickedIsWalked
<1>4. f[length] = g[length]
  <2>1. \A n \in 1 .. length : seq[n] = more[n] /\ (n \in kept <=> n \in keep)
    BY <1>1
  <2> HIDE DEF length
  <2> QED
    BY <1>1, <1>2, <1>3, <2>1, WalksAgree
<1>5. g[length + 1] = IF length + 1 \in keep THEN Append(g[length], last) ELSE g[length]
  <2>1. length + 1 \in 0 .. length + 1 /\ length + 1 # 0 /\ (length + 1) - 1 = length
    BY <1>1
  <2> QED
    BY <1>1, <1>3, <2>1 DEF IsWalk
<1> QED
  BY <1>2, <1>3, <1>4, <1>5 DEF more

-----------------------------------------------------------------------------
(* Types. *)

Reasons ==
  {frame.stop : frame \in {f \in Frames : f.frame = "message_delta"}}
    \cup {Nothing, "unspecified"}

Counts == [UsageFields -> Nat]

OpenBlocks ==
  [block : Accumulated, start : Nat, json : Seq({"head", "tail"}), text : Seq(Nat),
   signature : Seq(Nat)]

\* What a turn says before it ends, its counts, and what ends it.
Said ==
  ({"Text", "Thinking", "RedactedThinking"} \X Nat)
    \cup ({"ThinkingBlock"} \X Nat \X Seq(Nat) \X Seq(Nat))
    \cup ({"ToolCallRequested"} \X Nat \X Seq({"head", "tail"}))
    \cup {Err("malformed_input")}

Totals == {<<>>} \cup {<<Usage(counts)>> : counts \in Counts}

EndItems ==
  ({"Stop"} \X Reasons)
    \cup {Err("error"), Err("transport"), Err("eof"), Err("malformed_event")}

Items == Said \cup ({"Usage"} \X Counts) \cup EndItems

AreOpen(some) ==
  /\ DOMAIN some \subseteq Indices
  /\ some = [i \in DOMAIN some |-> some[i]]
  /\ \A i \in DOMAIN some : some[i] \in OpenBlocks

TypeInv ==
  /\ seen \in Seq(Frames)
  /\ AreOpen(blocks)
  /\ usage \in Counts
  /\ reason \in Reasons
  /\ pending \in Seq(Items)
  /\ events \in Seq(Items)
  /\ ended \in BOOLEAN
  /\ exhausted \in BOOLEAN

\* All of a turn: what it said, its counts and its end.
IsTurn(items) ==
  \E said \in Seq(Said), totals \in Totals, end \in EndItems : items = (said \o totals) \o <<end>>

\* Until a turn ends it queues and hands out only what it says; after that nothing
\* is left but what was queued with its end.
EndInv ==
  /\ ~ ended => events \in Seq(Said) /\ pending \in Seq(Said)
  /\ ended => IsTurn(events \o pending)
  /\ exhausted => ended /\ pending = <<>>

-----------------------------------------------------------------------------
(* What a frame queues. *)

\* What a turn says is not its end, and its counts are neither.
LEMMA SaidIsNoEnd ==
  /\ \A item \in Said : ~ Closing(item) /\ item[1] # "Usage"
  /\ \A counts \in Counts : ~ Closing(Usage(counts))
  /\ \A item \in EndItems : Closing(item) /\ item[1] # "Usage"
<1>1. ASSUME NEW item \in Said PROVE ~ Closing(item) /\ item[1] # "Usage"
  <2>1. CASE item \in {"Text", "Thinking", "RedactedThinking"} \X Nat
    <3>1. item[1] \in {"Text", "Thinking", "RedactedThinking"}
      BY <2>1
    <3> QED
      BY <3>1 DEF Closing, Err
  <2>2. CASE item \in {"ThinkingBlock"} \X Nat \X Seq(Nat) \X Seq(Nat)
    <3>1. item[1] = "ThinkingBlock"
      BY <2>2
    <3> QED
      BY <3>1 DEF Closing, Err
  <2>3. CASE item \in {"ToolCallRequested"} \X Nat \X Seq({"head", "tail"})
    <3>1. item[1] = "ToolCallRequested"
      BY <2>3
    <3> QED
      BY <3>1 DEF Closing, Err
  <2>4. CASE item = Err("malformed_input")
    <3>1. item[1] = "Err" /\ item[2] = "malformed_input"
      BY <2>4 DEF Err
    <3> QED
      BY <3>1 DEF Closing, Err
  <2> QED
    BY <2>1, <2>2, <2>3, <2>4 DEF Said
<1>2. ASSUME NEW counts \in Counts PROVE ~ Closing(Usage(counts))
  <2>1. Usage(counts)[1] = "Usage"
    BY DEF Usage
  <2> QED
    BY <2>1 DEF Closing, Err
<1>3. ASSUME NEW item \in EndItems PROVE Closing(item) /\ item[1] # "Usage"
  <2>1. CASE item \in {"Stop"} \X Reasons
    <3>1. item[1] = "Stop"
      BY <2>1
    <3> QED
      BY <3>1 DEF Closing
  <2>2. CASE item \in {Err("error"), Err("transport"), Err("eof"), Err("malformed_event")}
    BY <2>2 DEF Closing, Err
  <2> QED
    BY <2>1, <2>2 DEF EndItems
<1> QED
  BY <1>1, <1>2, <1>3

\* A closed block says at most one thing.
LEMMA ClosedBlockType ==
  ASSUME NEW open \in OpenBlocks
  PROVE  ClosedBlockEvent(open) \in Seq(Said)
<1>1. /\ open.start \in Nat /\ open.json \in Seq({"head", "tail"})
      /\ open.text \in Seq(Nat) /\ open.signature \in Seq(Nat)
  BY DEF OpenBlocks
<1>2. ToolCallRequested(open.start, open.json) \in Said
  BY <1>1 DEF ToolCallRequested, Said
<1>3. ClosedThinking(open.start, open.text, open.signature) \in Said
  BY <1>1 DEF ClosedThinking, Said
<1>4. Err("malformed_input") \in Said
  BY DEF Said
<1>5. ToolCallEvent(open) \in Said
  BY <1>2, <1>4 DEF ToolCallEvent
<1> HIDE DEF Said
<1>6. <<>> \in Seq(Said) /\ \A item \in Said : <<item>> \in Seq(Said)
  OBVIOUS
<1> QED
  BY <1>3, <1>5, <1>6 DEF ClosedBlockEvent

\* The indices have a greatest.
LEMMA GreatestIndex ==
  /\ Max(Indices) \in Nat
  /\ \A index \in Indices : index \in Nat /\ index <= Max(Indices)
<1>1. PICK top \in Indices : \A index \in Indices : index <= top
  BY FramesAssumption
<1>2. Indices \subseteq Nat
  BY FramesAssumption
<1>3. Max(Indices) \in Indices /\ \A index \in Indices : Max(Indices) >= index
  <2> DEFINE IsMax(x) == x \in Indices /\ \A index \in Indices : x >= index
  <2>1. IsMax(top)
    BY <1>1, <1>2
  <2>2. IsMax(CHOOSE x : IsMax(x))
    <3> HIDE DEF IsMax
    <3> QED
      BY <2>1
  <2> QED
    BY <2>2 DEF Max
<1> QED
  BY <1>2, <1>3

\* The blocks left open, in order.
ClosedAt(index) == IF index \in DOMAIN blocks THEN ClosedBlockEvent(blocks[index]) ELSE <<>>

LEMMA FlushType ==
  ASSUME AreOpen(blocks)
  PROVE  FlushOpenBlocks \in Seq(Said)
<1> DEFINE flushed == [i \in 1 .. (Max(Indices) + 1) |-> ClosedAt(i - 1)]
<1>1. ASSUME NEW i \in 1 .. (Max(Indices) + 1) PROVE ClosedAt(i - 1) \in Seq(Said)
  BY ClosedBlockType DEF AreOpen, ClosedAt
<1>2. flushed \in Seq(Seq(Said))
  <2>1. Max(Indices) + 1 \in Nat
    BY GreatestIndex
  <2> HIDE DEF ClosedAt
  <2> QED
    BY <1>1, <2>1
<1>3. FlushOpenBlocks = FlattenSeq(flushed)
  BY Zenon DEF FlushOpenBlocks, ClosedAt
<1> HIDE DEF flushed
<1> QED
  BY <1>2, <1>3, FlattenAppend

LEMMA PushUsageType ==
  ASSUME usage \in Counts
  PROVE  PushUsage \in Totals
BY DEF PushUsage, Totals

\* What is queued stays of one kind when more of it is.
LEMMA QueuedType ==
  ASSUME NEW T, NEW first \in Seq(T), NEW second \in Seq(T)
  PROVE  first \o second \in Seq(T)
OBVIOUS

\* A delta makes an open block longer.
LEMMA LongerType ==
  ASSUME NEW open \in OpenBlocks, NEW fragments \in Seq(Nat), NEW json \in Seq({"head", "tail"})
  PROVE  /\ [open EXCEPT !.text = fragments] \in OpenBlocks
         /\ [open EXCEPT !.signature = fragments] \in OpenBlocks
         /\ [open EXCEPT !.json = json] \in OpenBlocks
BY DEF OpenBlocks

LEMMA BlocksType ==
  ASSUME AreOpen(blocks), seen \in Seq(Frames), NEW frame \in Frames
  PROVE  /\ AreOpen(OnStart(frame))
         /\ AreOpen(OnDelta(frame))
         /\ AreOpen(Without(frame.index))
         /\ AreOpen(<<>>)
<1> DEFINE index == frame.index
<1>0. index \in Indices /\ Position \in Nat
  <2>1. Len(seen) \in Nat
    OBVIOUS
  <2> QED
    BY <2>1 DEF Indices, Position
<1>1. AreOpen(Without(index))
  BY DEF AreOpen, Without
<1>2. ASSUME NEW open \in OpenBlocks PROVE AreOpen(With(index, open))
  <2> DEFINE more == With(index, open)
  <2>1. /\ DOMAIN more = DOMAIN blocks \cup {index}
        /\ more = [i \in DOMAIN blocks \cup {index} |-> more[i]]
        /\ \A i \in DOMAIN more : more[i] = IF i = index THEN open ELSE blocks[i]
    BY DEF With
  <2> HIDE DEF more
  <2> QED
    BY <1>0, <2>1 DEF AreOpen, more
<1>3. AreOpen(OnStart(frame))
  <2>1. ASSUME frame.what \in Accumulated PROVE Open(frame.what, Position) \in OpenBlocks
    <3>1. <<>> \in Seq({"head", "tail"}) /\ <<>> \in Seq(Nat)
      OBVIOUS
    <3> QED
      BY <1>0, <2>1, <3>1 DEF Open, OpenBlocks
  <2> QED
    BY <1>1, <1>2, <2>1 DEF OnStart
<1>4. AreOpen(OnDelta(frame))
  <2> DEFINE open == blocks[index]
  <2>1. CASE index \notin DOMAIN blocks
    BY <2>1 DEF OnDelta
  <2>2. CASE index \in DOMAIN blocks
    <3>1. open \in OpenBlocks
      BY <2>2 DEF AreOpen
    <3>2. ASSUME NEW open2 \in OpenBlocks PROVE AreOpen([blocks EXCEPT ![index] = open2])
      BY <1>0, <2>2 DEF AreOpen
    <3>3. /\ Append(open.text, Position) \in Seq(Nat)
          /\ Append(open.signature, Position) \in Seq(Nat)
          /\ frame.what \in {"head", "tail"} => Append(open.json, frame.what) \in Seq({"head", "tail"})
      <4>1. open.text \in Seq(Nat) /\ open.signature \in Seq(Nat) /\ open.json \in Seq({"head", "tail"})
        BY <3>1 DEF OpenBlocks
      <4> HIDE DEF open
      <4> QED
        BY <1>0, <4>1
    <3>4. /\ [open EXCEPT !.text = Append(@, Position)] \in OpenBlocks
          /\ [open EXCEPT !.signature = Append(@, Position)] \in OpenBlocks
          /\ frame.what \in {"head", "tail"} =>
               [open EXCEPT !.json = Append(@, frame.what)] \in OpenBlocks
      <4> HIDE DEF open
      <4>1. <<>> \in Seq({"head", "tail"}) /\ <<>> \in Seq(Nat)
        OBVIOUS
      <4> QED
        BY <3>1, <3>3, <4>1, LongerType
    <3>5. \/ OnDelta(frame) = [blocks EXCEPT ![index] = [open EXCEPT !.text = Append(@, Position)]]
          \/ OnDelta(frame) = [blocks EXCEPT ![index] = [open EXCEPT !.signature = Append(@, Position)]]
          \/ /\ frame.what \in {"head", "tail"}
             /\ OnDelta(frame) = [blocks EXCEPT ![index] = [open EXCEPT !.json = Append(@, frame.what)]]
          \/ OnDelta(frame) = blocks
      BY DEF OnDelta
    <3> QED
      BY <3>2, <3>4, <3>5
  <2> QED
    BY <2>1, <2>2
<1>5. AreOpen(<<>>)
  BY DEF AreOpen
<1> QED
  BY <1>1, <1>3, <1>4, <1>5

-----------------------------------------------------------------------------
(* A turn ends once. *)

LEMMA ItemsAre ==
  /\ Said \subseteq Items /\ EndItems \subseteq Items
  /\ Seq(Said) \subseteq Seq(Items)
  /\ Totals \subseteq Seq(Items)
  /\ <<>> \in Totals
<1>1. Said \subseteq Items /\ EndItems \subseteq Items /\ \A counts \in Counts : Usage(counts) \in Items
  BY DEF Items, Usage
<1> HIDE DEF Said, EndItems, Items, Usage
<1>2. Seq(Said) \subseteq Seq(Items)
  BY <1>1
<1>3. <<>> \in Seq(Items) /\ \A item \in Items : <<item>> \in Seq(Items)
  OBVIOUS
<1>4. Totals \subseteq Seq(Items)
  BY <1>1, <1>3 DEF Totals
<1> QED
  BY <1>1, <1>2, <1>4 DEF Totals

\* However what was handed out, what is said, the counts and the end are put together.
Regrouped(first, second, third, fourth) ==
  first \o ((second \o third) \o fourth) = ((first \o second) \o third) \o fourth

LEMMA Regrouping ==
  ASSUME NEW T, NEW first \in Seq(T), NEW second \in Seq(T), NEW third \in Seq(T),
         NEW fourth \in Seq(T)
  PROVE  Regrouped(first, second, third, fourth)
<1>1. first \o ((second \o third) \o fourth) = (first \o (second \o third)) \o fourth
  OBVIOUS
<1>2. first \o (second \o third) = (first \o second) \o third
  OBVIOUS
<1> QED
  BY <1>1, <1>2, Zenon DEF Regrouped

LEMMA QueueKeeps ==
  ASSUME TypeInv, EndInv, pending = <<>>, ended = FALSE, events' = events, exhausted' = exhausted,
         NEW queued \in Seq(Said)
  PROVE  /\ Queue(queued) /\ ended' = ended => pending' \in Seq(Items) /\ EndInv'
         /\ \A totals \in Totals, end \in EndItems :
              Queue((queued \o totals) \o <<end>>) /\ ended' = TRUE =>
                pending' \in Seq(Items) /\ EndInv'
<1> DEFINE T == Items
<1>0. /\ Seq(Said) \subseteq Seq(T) /\ EndItems \subseteq T /\ Totals \subseteq Seq(T)
      /\ events \in Seq(Said) /\ exhausted = FALSE
  BY ItemsAre DEF EndInv, TypeInv
<1>1. ASSUME Queue(queued), ended' = ended PROVE pending' \in Seq(Items) /\ EndInv'
  <2>1. pending' = queued
    <3>1. <<>> \o queued = queued
      OBVIOUS
    <3> QED
      BY <1>1, <3>1 DEF Queue
  <2>2. pending' \in Seq(T)
    BY <1>0, <2>1
  <2> QED
    BY <1>0, <1>1, <2>1, <2>2 DEF EndInv
<1>2. ASSUME NEW totals \in Totals, NEW end \in EndItems, Queue((queued \o totals) \o <<end>>),
             ended' = TRUE
      PROVE  pending' \in Seq(Items) /\ EndInv'
  <2>1. /\ queued \in Seq(T) /\ totals \in Seq(T) /\ events \in Seq(T)
        /\ <<end>> \in Seq(T)
    <3>1. end \in T
      BY <1>0
    <3> HIDE DEF T
    <3>2. <<end>> \in Seq(T)
      BY <3>1
    <3> QED
      BY <1>0, <3>2
  <2> DEFINE all == (queued \o totals) \o <<end>>
  <2>2. all \in Seq(T)
    <3>1. queued \o totals \in Seq(T)
      BY <2>1, QueuedType
    <3> HIDE DEF T
    <3> QED
      BY <2>1, <3>1, QueuedType
  <2>3. pending' = all
    <3> HIDE DEF all
    <3>1. <<>> \o all = all
      BY <2>2
    <3> QED
      BY <1>2, <3>1 DEF Queue, all
  <2>4. events \o all = ((events \o queued) \o totals) \o <<end>>
    <3>1. Regrouped(events, queued, totals, <<end>>)
      BY <2>1, Regrouping
    <3> QED
      BY <3>1, Zenon DEF Regrouped
  <2>5. events \o queued \in Seq(Said)
    BY <1>0, QueuedType
  <2>6. (events \o pending)' = ((events \o queued) \o totals) \o <<end>>
    BY <2>3, <2>4
  <2>7. IsTurn((events \o pending)')
    <3> DEFINE said == events \o queued
    <3>1. said \in Seq(Said) /\ (events \o pending)' = (said \o totals) \o <<end>>
      BY <2>5, <2>6
    <3> HIDE DEF said
    <3> QED
      BY <3>1, Zenon DEF IsTurn
  <2> HIDE DEF all
  <2>8. IsTurn(events \o pending)'
    BY <2>7
  <2> QED
    BY <1>0, <1>2, <2>2, <2>3, <2>8 DEF EndInv
<1> QED
  BY <1>1, <1>2

LEMMA HandleKeeps ==
  ASSUME TypeInv, EndInv, pending = <<>>, ended = FALSE, events' = events, exhausted' = exhausted,
         NEW frame \in Frames, Handle(frame), seen' = Append(seen, frame)
  PROVE  TypeInv' /\ EndInv'
<1>0. /\ seen' \in Seq(Frames) /\ events' \in Seq(Items) /\ exhausted' \in BOOLEAN
      /\ frame.index \in Indices /\ Position \in Nat
  <2>1. seen \in Seq(Frames) /\ events \in Seq(Items) /\ exhausted \in BOOLEAN
    BY DEF TypeInv
  <2>2. Append(seen, frame) \in Seq(Frames) /\ Len(seen) \in Nat
    BY <2>1
  <2> QED
    BY <2>1, <2>2 DEF Indices, Position
<1>1. /\ AreOpen(OnStart(frame)) /\ AreOpen(OnDelta(frame)) /\ AreOpen(Without(frame.index))
      /\ AreOpen(<<>>) /\ AreOpen(blocks)
  BY BlocksType DEF TypeInv
<1>2. Absorb(frame.what) \in Counts /\ usage \in Counts /\ NothingReported \in Counts
  BY <1>0 DEF TypeInv, Absorb, Counts, NothingReported
<1>3. /\ reason \in Reasons /\ Nothing \in Reasons /\ "unspecified" \in Reasons
      /\ frame.frame = "message_delta" => frame.stop \in Reasons
  BY DEF TypeInv, Reasons
<1>4. <<>> \in Seq(Said) /\ \A item \in Said : <<item>> \in Seq(Said)
  <2> HIDE DEF Said
  <2> QED
    OBVIOUS
<1>5. PushUsage \in Totals /\ <<>> \in Totals
  BY <1>2, PushUsageType, ItemsAre
\* What makes the new state: its parts, and how the queue grew.
<1>6. ASSUME AreOpen(blocks'), usage' \in Counts, reason' \in Reasons,
             \/ \E queued \in Seq(Said) : Queue(queued) /\ ended' = ended
             \/ \E queued \in Seq(Said), totals \in Totals, end \in EndItems :
                  Queue((queued \o totals) \o <<end>>) /\ ended' = TRUE
      PROVE  TypeInv' /\ EndInv'
  <2>1. pending' \in Seq(Items) /\ EndInv'
    BY <1>6, QueueKeeps
  <2>2. ended' \in BOOLEAN
    BY <1>6
  <2>3. AreOpen(blocks)'
    BY <1>6 DEF AreOpen
  <2> QED
    BY <1>0, <1>6, <2>1, <2>2, <2>3 DEF TypeInv
<1>7. CASE frame.frame = "message_start"
  <2>1. /\ usage' = Absorb(frame.what)
        /\ blocks' = blocks /\ reason' = reason /\ pending' = pending /\ ended' = ended
    BY <1>7 DEF Handle, Ignored
  <2>2. Queue(<<>>)
    BY <2>1 DEF Queue
  <2> QED
    BY <1>1, <1>2, <1>3, <1>4, <1>6, <2>1, <2>2
<1>8. CASE frame.frame = "content_block_start"
  <2> DEFINE queued == IF frame.what = "redacted_thinking" THEN <<RedactedThinking(Position)>> ELSE <<>>
  <2>1. /\ blocks' = OnStart(frame) /\ Queue(queued)
        /\ usage' = usage /\ reason' = reason /\ ended' = ended
    BY <1>8 DEF Handle, Ignored
  <2>2. queued \in Seq(Said)
    <3>1. RedactedThinking(Position) \in Said
      BY <1>0 DEF RedactedThinking, Said
    <3> QED
      BY <1>4, <3>1
  <2> HIDE DEF queued
  <2> QED
    BY <1>1, <1>2, <1>3, <1>6, <2>1, <2>2
<1>9. CASE frame.frame = "content_block_delta"
  <2> DEFINE queued == CASE frame.what = "text" -> <<Text(Position)>>
                         [] frame.what = "thinking" -> <<Thinking(Position)>>
                         [] OTHER -> <<>>
  <2>1. /\ blocks' = OnDelta(frame) /\ Queue(queued)
        /\ usage' = usage /\ reason' = reason /\ ended' = ended
    BY <1>9 DEF Handle, Ignored
  <2>2. queued \in Seq(Said)
    <3>1. Text(Position) \in Said /\ Thinking(Position) \in Said
      BY <1>0 DEF Text, Thinking, Said
    <3> QED
      BY <1>4, <3>1
  <2> HIDE DEF queued
  <2> QED
    BY <1>1, <1>2, <1>3, <1>6, <2>1, <2>2
<1>10. CASE frame.frame = "content_block_stop"
  <2> DEFINE queued == ClosedAt(frame.index)
  <2>1. /\ blocks' = Without(frame.index) /\ Queue(queued)
        /\ usage' = usage /\ reason' = reason /\ ended' = ended
    BY <1>10 DEF Handle, Ignored, ClosedAt
  <2>2. queued \in Seq(Said)
    BY <1>1, <1>4, ClosedBlockType DEF ClosedAt, AreOpen
  <2> HIDE DEF queued
  <2> QED
    BY <1>1, <1>2, <1>3, <1>6, <2>1, <2>2
<1>11. CASE frame.frame = "message_delta"
  <2>1. /\ usage' = Absorb(frame.what)
        /\ reason' = IF frame.stop = Nothing THEN reason ELSE frame.stop
        /\ blocks' = blocks /\ pending' = pending /\ ended' = ended
    BY <1>11 DEF Handle, Ignored
  <2>2. Queue(<<>>)
    BY <2>1 DEF Queue
  <2>3. reason' \in Reasons
    BY <1>3, <1>11, <2>1
  <2> QED
    BY <1>1, <1>2, <1>4, <1>6, <2>1, <2>2, <2>3
<1>12. CASE frame.frame = "message_stop"
  <2> DEFINE why == IF reason = Nothing THEN "unspecified" ELSE reason
  <2>1. /\ ended' = TRUE /\ Queue((FlushOpenBlocks \o PushUsage) \o <<Stop(why)>>)
        /\ usage' = NothingReported
        /\ blocks' = <<>> /\ reason' = Nothing
    BY <1>12 DEF Handle, Ignored, EndsWith
  <2>2. Stop(why) \in EndItems
    <3>1. why \in Reasons
      BY <1>3
    <3> QED
      BY <3>1 DEF Stop, EndItems
  <2>3. FlushOpenBlocks \in Seq(Said)
    BY <1>1, FlushType
  <2> HIDE DEF why
  <2> QED
    BY <1>1, <1>2, <1>3, <1>5, <1>6, <2>1, <2>2, <2>3
<1>13. CASE frame.frame \in {"error", "transport", "eof"}
  <2>1. /\ ended' = TRUE /\ Queue((<<>> \o PushUsage) \o <<Err(frame.frame)>>)
        /\ usage' = NothingReported
        /\ blocks' = blocks /\ reason' = reason
    BY <1>13 DEF Handle, Ignored, EndsWith
  <2>2. Err(frame.frame) \in EndItems
    BY <1>13 DEF EndItems
  <2> QED
    BY <1>1, <1>2, <1>3, <1>4, <1>5, <1>6, <2>1, <2>2
<1>14. CASE frame.frame = "unparsed"
  <2>1. /\ ended' = TRUE /\ Queue(<<Err("malformed_event")>>)
        /\ usage' = usage
        /\ blocks' = blocks /\ reason' = reason
    BY <1>14 DEF Handle, Ignored, Unparsed
  <2>2. Err("malformed_event") \in EndItems
    BY DEF EndItems
  <2>3. (<<>> \o <<>>) \o <<Err("malformed_event")>> = <<Err("malformed_event")>>
    OBVIOUS
  <2>4. Queue((<<>> \o <<>>) \o <<Err("malformed_event")>>)
    BY <2>1, <2>3
  <2> QED
    BY <1>1, <1>2, <1>3, <1>4, <1>5, <1>6, <2>1, <2>2, <2>4
<1>15. CASE frame.frame \in Ignored
  <2>1. /\ usage' = usage /\ ended' = ended /\ pending' = pending
        /\ blocks' = blocks /\ reason' = reason
    BY <1>15 DEF Handle, Ignored
  <2>2. Queue(<<>>)
    BY <2>1 DEF Queue
  <2> QED
    BY <1>1, <1>2, <1>3, <1>4, <1>6, <2>1, <2>2
<1> QED
  <2>1. IsFrame(frame)
    BY FramesAssumption
  <2>2. \/ frame.frame \in {"content_block_start", "content_block_delta", "content_block_stop",
                            "message_start", "message_delta"}
        \/ frame.frame \in Ignored \cup Ending
    BY <2>1 DEF IsFrame
  <2> QED
    BY <1>7, <1>8, <1>9, <1>10, <1>11, <1>12, <1>13, <1>14, <1>15, <2>2 DEF Ending

\* Handing an item out moves it.
LEMMA YieldMoves ==
  ASSUME NEW T, NEW before \in Seq(T), NEW queue \in Seq(T), queue # <<>>
  PROVE  /\ Append(before, Head(queue)) \in Seq(T) /\ Tail(queue) \in Seq(T)
         /\ Append(before, Head(queue)) \o Tail(queue) = before \o queue
OBVIOUS

LEMMA NextKeeps ==
  ASSUME TypeInv, EndInv, [Next]_vars
  PROVE  TypeInv' /\ EndInv'
<1>1. CASE Receive
  <2>1. PICK frame \in Frames : Handle(frame) /\ seen' = Append(seen, frame)
    BY <1>1 DEF Receive
  <2>2. pending = <<>> /\ ended = FALSE /\ events' = events /\ exhausted' = exhausted
    BY <1>1 DEF Receive, TypeInv
  <2> QED
    BY <2>1, <2>2, HandleKeeps
<1>2. CASE Yield
  <2>1. /\ pending # <<>> /\ events' = Append(events, Head(pending)) /\ pending' = Tail(pending)
        /\ seen' = seen /\ blocks' = blocks /\ usage' = usage /\ reason' = reason
        /\ ended' = ended /\ exhausted' = exhausted
    BY <1>2 DEF Yield
  <2>2. pending \in Seq(Items) /\ events \in Seq(Items)
    BY DEF TypeInv
  <2>3. pending' \in Seq(Items) /\ events' \in Seq(Items)
    BY <2>1, <2>2, YieldMoves
  <2>4. (events \o pending)' = events \o pending
    BY <2>1, <2>2, YieldMoves
  <2>5. TypeInv'
    BY <2>1, <2>3 DEF TypeInv, AreOpen
  <2>6. ~ ended => events' \in Seq(Said) /\ pending' \in Seq(Said)
    BY <2>1, YieldMoves DEF EndInv
  <2>7. ended => IsTurn((events \o pending)')
    BY <2>4 DEF EndInv
  <2>8. IsTurn((events \o pending)') <=> IsTurn(events \o pending)'
    OBVIOUS
  <2>9. EndInv'
    BY <2>1, <2>6, <2>7, <2>8 DEF EndInv
  <2> QED
    BY <2>5, <2>9
<1>3. CASE Exhaust
  BY <1>3 DEF Exhaust, TypeInv, EndInv, AreOpen, IsTurn
<1>4. CASE UNCHANGED vars
  BY <1>4 DEF vars, TypeInv, EndInv, AreOpen, IsTurn
<1> QED
  BY <1>1, <1>2, <1>3, <1>4 DEF Next

LEMMA InitHolds ==
  ASSUME Init
  PROVE  TypeInv /\ EndInv
<1>1. <<>> \in Seq(Frames) /\ <<>> \in Seq(Items) /\ <<>> \in Seq(Said)
  <2> HIDE DEF Items, Said
  <2> QED
    OBVIOUS
<1>2. AreOpen(<<>>) /\ NothingReported \in Counts /\ Nothing \in Reasons
  BY DEF AreOpen, NothingReported, Counts, Reasons
<1> QED
  BY <1>1, <1>2 DEF Init, TypeInv, EndInv

\* What a streamed turn holds has its type, and until it ends all it says is no end.
THEOREM StreamInvariant == Spec => [](TypeInv /\ EndInv)
<1>1. Init => TypeInv /\ EndInv
  BY InitHolds
<1>2. TypeInv /\ EndInv /\ [Next]_vars => (TypeInv /\ EndInv)'
  BY NextKeeps
<1> QED
  BY <1>1, <1>2, PTL DEF Spec

\* The last item of a turn is its end, and the one before it may be its counts.
LEMMA TurnShape ==
  ASSUME NEW all \in Seq(Items), IsTurn(all)
  PROVE  /\ \A i \in DOMAIN all : Closing(all[i]) => i = Len(all)
         /\ \A i \in DOMAIN all : all[i][1] = "Usage" => i = Len(all) - 1
         /\ all # <<>> /\ Closing(all[Len(all)])
<1>1. PICK said \in Seq(Said), totals \in Totals, end \in EndItems :
        all = (said \o totals) \o <<end>>
  BY Zenon DEF IsTurn
<1>2. totals \in Seq(Items) /\ said \in Seq(Items) /\ end \in Items
  BY ItemsAre
<1>3. \/ totals = <<>>
      \/ Len(totals) = 1 /\ ~ Closing(totals[1])
  BY SaidIsNoEnd DEF Totals
<1> HIDE DEF Items, Said, EndItems, Totals
<1>4. Len(totals) \in 0 .. 1 /\ (Len(totals) = 1 => ~ Closing(totals[1]))
  BY <1>3
<1> DEFINE length == Len(said)
           counts == Len(totals)
<1>5. /\ length \in Nat /\ counts \in Nat
      /\ Len(all) = length + counts + 1 /\ DOMAIN all = 1 .. Len(all)
      /\ \A i \in 1 .. length : all[i] = said[i] /\ said[i] \in Said
      /\ \A i \in 1 .. counts : all[length + i] = totals[i]
      /\ all[Len(all)] = end
  BY <1>1, <1>2
<1> HIDE DEF length, counts
<1>6. ASSUME NEW i \in DOMAIN all
      PROVE  \/ ~ Closing(all[i]) /\ all[i][1] # "Usage"
             \/ ~ Closing(all[i]) /\ i = Len(all) - 1
             \/ i = Len(all) /\ all[i][1] # "Usage" /\ Closing(all[i])
  <2>1. CASE i \in 1 .. length
    BY <1>5, <2>1, SaidIsNoEnd
  <2>2. CASE i = Len(all)
    BY <1>5, <2>2, SaidIsNoEnd
  <2>3. CASE i \notin 1 .. length /\ i # Len(all)
    <3>1. i = length + 1 /\ counts = 1 /\ i = Len(all) - 1
      BY <1>4, <1>5, <2>3 DEF counts
    <3>2. all[i] = totals[1]
      BY <1>5, <3>1
    <3> QED
      BY <1>4, <3>1, <3>2 DEF counts
  <2> QED
    BY <2>1, <2>2, <2>3
<1>7. all # <<>> /\ Closing(all[Len(all)])
  <2>1. Len(all) # 0
    BY <1>5
  <2> QED
    BY <1>5, <2>1, SaidIsNoEnd
<1> QED
  BY <1>5, <1>6, <1>7

\* A turn ends exactly once, on its last item, with its counts, at most once, just
\* before: next_agent_event takes no frame once it has queued the end.
THEOREM StreamEndsOnce == Spec => []TurnEndsOnce
<1>1. ASSUME TypeInv, EndInv PROVE TurnEndsOnce
  <2> DEFINE all == events \o pending
  <2>1. events \in Seq(Items) /\ pending \in Seq(Items) /\ ended \in BOOLEAN
    BY <1>1 DEF TypeInv
  <2>2. all \in Seq(Items)
    BY <2>1, QueuedType
  <2>3. CASE ended = FALSE
    <3>1. all \in Seq(Said)
      BY <1>1, <2>3, QueuedType DEF EndInv
    <3>2. exhausted = FALSE
      BY <1>1, <2>3 DEF EndInv, TypeInv
    <3>3. \A i \in DOMAIN all : ~ Closing(all[i]) /\ all[i][1] # "Usage"
      <4> HIDE DEF all, Said
      <4>1. \A i \in DOMAIN all : all[i] \in Said
        BY <3>1
      <4> QED
        BY <4>1, SaidIsNoEnd
    <3> QED
      BY <3>2, <3>3 DEF TurnEndsOnce
  <2>4. CASE ended = TRUE
    <3>1. IsTurn(all)
      BY <1>1, <2>4 DEF EndInv
    <3>2. /\ \A i \in DOMAIN all : Closing(all[i]) => i = Len(all)
          /\ \A i \in DOMAIN all : all[i][1] = "Usage" => i = Len(all) - 1
          /\ all # <<>> /\ Closing(all[Len(all)])
      BY <2>2, <3>1, TurnShape
    <3>3. exhausted => all = events
      <4>1. exhausted => pending = <<>>
        BY <1>1 DEF EndInv
      <4>2. events \o <<>> = events
        BY <2>1
      <4> QED
        BY <4>1, <4>2
    <3> HIDE DEF all
    <3>4. exhausted => events # <<>> /\ Closing(Last(events))
      BY <3>2, <3>3 DEF Last
    <3> QED
      BY <3>2, <3>4 DEF TurnEndsOnce, all
  <2> QED
    BY <2>1, <2>3, <2>4
<1> QED
  BY <1>1, StreamInvariant, PTL

-----------------------------------------------------------------------------
(* What the frames say, of one frame more. *)

LEMMA MaxIs ==
  ASSUME NEW S, S \subseteq Int, NEW greatest \in S, \A n \in S : n <= greatest
  PROVE  Max(S) = greatest
<1> DEFINE IsMax(x) == x \in S /\ \A n \in S : x >= n
<1>1. IsMax(greatest)
  OBVIOUS
<1>2. IsMax(CHOOSE x : IsMax(x))
  <2> HIDE DEF IsMax
  <2> QED
    BY <1>1
<1>3. Max(S) = CHOOSE x : IsMax(x)
  BY Zenon DEF Max
<1> DEFINE max == CHOOSE x : IsMax(x)
<1>4. max \in S /\ greatest \in Int /\ max \in Int /\ max >= greatest /\ greatest >= max
  BY <1>2
<1> HIDE DEF max
<1>5. max = greatest
  BY <1>4
<1> QED
  BY <1>3, <1>5 DEF max

\* What was seen stays, and one frame comes after it.
Grown(frame) ==
  /\ Len(seen') = Position /\ Position \in Nat /\ Len(seen) = Position - 1 /\ Position >= 1
  /\ DOMAIN seen = 1 .. (Position - 1) /\ DOMAIN seen' = 1 .. Position
  /\ \A k \in 1 .. (Position - 1) : seen'[k] = seen[k] /\ seen[k] \in Frames
  /\ seen'[Position] = frame

LEMMA SeenGrows ==
  ASSUME seen \in Seq(Frames), NEW frame \in Frames, seen' = Append(seen, frame)
  PROVE  Grown(frame)
BY DEF Grown, Position

LEMMA PlacesKept ==
  ASSUME NEW frame, Grown(frame), NEW k \in 1 .. (Position - 1), NEW index, NEW deltas
  PROVE  /\ IsStart(k, index)' <=> IsStart(k, index)
         /\ IsBlockStop(k, index)' <=> IsBlockStop(k, index)
         /\ IsDelta(k, index, deltas)' <=> IsDelta(k, index, deltas)
BY DEF Grown, IsStart, IsBlockStop, IsDelta

LEMMA OpenerKept ==
  ASSUME NEW frame, Grown(frame), NEW n \in 1 .. Position, NEW index
  PROVE  OpenerOf(n, index)' = OpenerOf(n, index)
<1>1. \A k \in 1 .. (n - 1) : k \in 1 .. (Position - 1)
  BY DEF Grown
<1>2. ASSUME NEW k \in 1 .. (n - 1), NEW j \in (k + 1) .. (n - 1) PROVE j \in 1 .. (Position - 1)
  BY <1>1 DEF Grown
<1>3. \A k \in 1 .. (n - 1) : /\ IsStart(k, index)' <=> IsStart(k, index)
                              /\ \A j \in (k + 1) .. (n - 1) :
                                   /\ IsStart(j, index)' <=> IsStart(j, index)
                                   /\ IsBlockStop(j, index)' <=> IsBlockStop(j, index)
  BY <1>1, <1>2, PlacesKept
<1> QED
  BY <1>3 DEF OpenerOf

LEMMA DeltasKept ==
  ASSUME NEW frame, Grown(frame), NEW n \in 1 .. Position, NEW k \in 1 .. (n - 1), NEW deltas
  PROVE  DeltasIn(k, n, deltas)' = DeltasIn(k, n, deltas)
<1>1. k \in 1 .. (Position - 1) /\ \A j \in (k + 1) .. (n - 1) : j \in 1 .. (Position - 1)
  BY DEF Grown
<1>2. seen'[k] = seen[k]
  BY <1>1 DEF Grown
<1>3. \A j \in (k + 1) .. (n - 1) :
        IsDelta(j, seen[k].index, deltas)' <=> IsDelta(j, seen[k].index, deltas)
  BY <1>1, <1>2 DEF Grown, IsDelta
<1>4. {j \in (k + 1) .. (n - 1) : IsDelta(j, seen[k].index, deltas)'}
        = {j \in (k + 1) .. (n - 1) : IsDelta(j, seen[k].index, deltas)}
  BY <1>3
<1> QED
  BY <1>4 DEF DeltasIn

\* The positions a block's deltas are at.
LEMMA DeltasType ==
  ASSUME NEW n \in Nat, NEW k \in 1 .. (n - 1), NEW deltas
  PROVE  DeltasIn(k, n, deltas) \in
           Seq({j \in (k + 1) .. (n - 1) : IsDelta(j, seen[k].index, deltas)})
<1> DEFINE places == [i \in 1 .. (n - 1) |-> i]
           meant == {j \in (k + 1) .. (n - 1) : IsDelta(j, seen[k].index, deltas)}
<1>1. places \in Seq(Nat) /\ DOMAIN places = 1 .. (n - 1)
  BY n - 1 \in Nat
<1>2. \A i \in DOMAIN places : i \in meant => places[i] \in meant
  BY <1>1
<1>3. Picked(places, meant) \in Seq(meant)
  <2> HIDE DEF places, meant
  <2> QED
    BY <1>1, <1>2, PickedType
<1> QED
  BY <1>3 DEF DeltasIn

\* The fragments of a tool's JSON.
Fragments(k, n) ==
  LET json == DeltasIn(k, n, {"head", "tail"})
  IN  [i \in DOMAIN json |-> seen[json[i]].what]

LEMMA FragmentsKept ==
  ASSUME NEW frame, Grown(frame), NEW n \in 1 .. Position, NEW k \in 1 .. (n - 1)
  PROVE  Fragments(k, n)' = Fragments(k, n)
<1> DEFINE json == DeltasIn(k, n, {"head", "tail"})
<1>1. json' = json
  BY DeltasKept
<1>2. \A i \in DOMAIN json : json[i] \in 1 .. (Position - 1)
  <2>1. n \in Nat
    BY DEF Grown
  <2>2. \A j \in (k + 1) .. (n - 1) : j \in 1 .. (Position - 1)
    BY DEF Grown
  <2>3. json \in Seq({j \in (k + 1) .. (n - 1) : IsDelta(j, seen[k].index, {"head", "tail"})})
    BY <2>1, DeltasType
  <2> HIDE DEF json
  <2> QED
    BY <2>2, <2>3
<1> HIDE DEF json
<1>3. [i \in DOMAIN json |-> seen'[json[i]].what] = [i \in DOMAIN json |-> seen[json[i]].what]
  BY <1>2 DEF Grown
<1> QED
  BY <1>1, <1>3 DEF Fragments, json

LEMMA SaidByKept ==
  ASSUME NEW frame, Grown(frame), NEW n \in 1 .. Position, NEW k \in 1 .. (n - 1)
  PROVE  SaidBy(k, n)' = SaidBy(k, n)
<1>1. /\ DeltasIn(k, n, {"signature"})' = DeltasIn(k, n, {"signature"})
      /\ DeltasIn(k, n, {"thinking"})' = DeltasIn(k, n, {"thinking"})
  BY DeltasKept
<1>2. Fragments(k, n)' = Fragments(k, n)
  BY FragmentsKept
<1>3. seen'[k] = seen[k]
  <2>1. k \in 1 .. (Position - 1)
    BY DEF Grown
  <2> QED
    BY <2>1 DEF Grown
<1>4. SaidBy(k, n) =
        CASE seen[k].what = "tool_use" ->
               <<IF Parses(Fragments(k, n)) THEN ToolCallRequested(k, Fragments(k, n))
                                            ELSE Err("malformed_input")>>
          [] seen[k].what = "thinking" /\ DeltasIn(k, n, {"signature"}) # <<>> ->
               <<ClosedThinking(k, DeltasIn(k, n, {"thinking"}), DeltasIn(k, n, {"signature"}))>>
          [] OTHER -> <<>>
  BY DEF SaidBy, Fragments
<1>5. SaidBy(k, n)' =
        CASE seen'[k].what = "tool_use" ->
               <<IF Parses(Fragments(k, n)') THEN ToolCallRequested(k, Fragments(k, n)')
                                            ELSE Err("malformed_input")>>
          [] seen'[k].what = "thinking" /\ DeltasIn(k, n, {"signature"})' # <<>> ->
               <<ClosedThinking(k, DeltasIn(k, n, {"thinking"})', DeltasIn(k, n, {"signature"})')>>
          [] OTHER -> <<>>
  BY DEF SaidBy, Fragments
<1> QED
  BY <1>1, <1>2, <1>3, <1>4, <1>5

\* At most one start has its block open at an index.
LEMMA OneOpener ==
  ASSUME NEW n \in Nat, NEW index, NEW k \in OpenerOf(n, index)
  PROVE  /\ OpenerOf(n, index) = {k} /\ Max(OpenerOf(n, index)) = k
         /\ k \in 1 .. (n - 1) /\ SaidAtEndOf(index, n) = SaidBy(k, n)
<1>1. k \in 1 .. (n - 1)
  BY DEF OpenerOf
<1>2. ASSUME NEW other \in OpenerOf(n, index) PROVE other = k
  <2>1. other \in 1 .. (n - 1) /\ IsStart(other, index) /\ IsStart(k, index)
    BY DEF OpenerOf
  <2>2. /\ \A j \in (k + 1) .. (n - 1) : ~ IsStart(j, index)
        /\ \A j \in (other + 1) .. (n - 1) : ~ IsStart(j, index)
    BY DEF OpenerOf
  <2>3. ~ (other > k) /\ ~ (other < k)
    <3>1. ASSUME other > k PROVE FALSE
      <4>1. other \in (k + 1) .. (n - 1)
        BY <1>1, <2>1, <3>1
      <4> QED
        BY <2>1, <2>2, <4>1
    <3>2. ASSUME other < k PROVE FALSE
      <4>1. k \in (other + 1) .. (n - 1)
        BY <1>1, <2>1, <3>2
      <4> QED
        BY <2>1, <2>2, <4>1
    <3> QED
      BY <3>1, <3>2
  <2> QED
    BY <1>1, <2>1, <2>3
<1>3. OpenerOf(n, index) = {k}
  BY <1>2
<1>4. Max({k}) = k
  <2>1. {k} \subseteq Int /\ k \in {k} /\ \A other \in {k} : other <= k
    BY <1>1
  <2> QED
    BY <2>1, MaxIs
<1> QED
  BY <1>1, <1>3, <1>4 DEF SaidAtEndOf

LEMMA EndKept ==
  ASSUME NEW frame, Grown(frame), NEW n \in 1 .. Position, NEW index
  PROVE  SaidAtEndOf(index, n)' = SaidAtEndOf(index, n)
<1>0. n \in Nat
  BY DEF Grown
<1>1. OpenerOf(n, index)' = OpenerOf(n, index)
  BY OpenerKept
<1>2. CASE OpenerOf(n, index) = {}
  BY <1>1, <1>2 DEF SaidAtEndOf
<1>3. CASE OpenerOf(n, index) # {}
  <2>1. PICK k : k \in OpenerOf(n, index)
    BY <1>3
  <2>2. Max(OpenerOf(n, index)) = k /\ k \in 1 .. (n - 1)
    BY <1>0, <2>1, OneOpener
  <2>3. SaidBy(k, n)' = SaidBy(k, n)
    BY <2>2, SaidByKept
  <2>4. SaidAtEndOf(index, n) = SaidBy(Max(OpenerOf(n, index)), n)
    BY <1>3 DEF SaidAtEndOf
  <2>5. SaidAtEndOf(index, n)' = SaidBy(k, n)'
    BY <1>1, <1>3, <2>2 DEF SaidAtEndOf
  <2> QED
    BY <2>2, <2>3, <2>4, <2>5
<1> QED
  BY <1>2, <1>3

\* The frames before position n that report a count.
ReportersOf(n, f) ==
  {k \in 1 .. (n - 1) : /\ seen[k].frame \in {"message_start", "message_delta"}
                        /\ f \in seen[k].what}

LEMMA CountedKept ==
  ASSUME NEW frame, Grown(frame), NEW n \in 1 .. Position
  PROVE  Counted(n)' = Counted(n) /\ CountsAt(n)' = CountsAt(n)
<1>1. \A k \in 1 .. (n - 1) : seen'[k] = seen[k]
  BY DEF Grown
<1>2. ASSUME NEW f \in UsageFields PROVE ReportersOf(n, f)' = ReportersOf(n, f)
  BY <1>1 DEF ReportersOf
<1>3. Counted(n)' = Counted(n)
  BY <1>2 DEF Counted, ReportersOf
<1> QED
  BY <1>3 DEF CountsAt

LEMMA ReasonKept ==
  ASSUME NEW frame, Grown(frame), NEW n \in 1 .. Position
  PROVE  Told(n)' = Told(n) /\ ReasonAt(n)' = ReasonAt(n)
<1>0. n - 1 \in Nat /\ \A k \in 1 .. (n - 1) : k \in Nat
  BY DEF Grown
<1>1. \A k \in 1 .. (n - 1) : seen'[k] = seen[k]
  BY DEF Grown
<1>2. Told(n)' = Told(n)
  BY <1>1 DEF Told
<1>3. ASSUME Told(n) # {} PROVE Max(Told(n)) \in 1 .. (n - 1)
  <2>1. Told(n) \subseteq 1 .. (n - 1)
    BY DEF Told
  <2>2. Told(n) \subseteq Int /\ \A k \in Told(n) : k <= n - 1
    BY <1>0, <2>1
  <2>3. PICK last \in Told(n) : \A k \in Told(n) : k <= last
    BY <1>0, <1>3, <2>2, GreatestElement
  <2>4. Max(Told(n)) = last
    BY <2>2, <2>3, MaxIs
  <2> QED
    BY <2>1, <2>4
<1> QED
  BY <1>1, <1>2, <1>3 DEF ReasonAt

\* What the frame at position n says, of what its index, its counts and its reason are.
SaidOf(n, frame, atStop, atEnd, counts, why) ==
  CASE frame.frame = "content_block_delta" /\ frame.what = "text" -> <<Text(n)>>
    [] frame.frame = "content_block_delta" /\ frame.what = "thinking" -> <<Thinking(n)>>
    [] frame.frame = "content_block_start" /\ frame.what = "redacted_thinking" ->
         <<RedactedThinking(n)>>
    [] frame.frame = "content_block_stop" -> atStop
    [] frame.frame = "message_stop" -> (atEnd \o counts) \o <<Stop(why)>>
    [] frame.frame \in {"error", "transport", "eof"} -> counts \o <<Err(frame.frame)>>
    [] frame.frame = "unparsed" -> <<Err("malformed_event")>>
    [] OTHER -> <<>>

SaidAtTurnEnd(n) == FlattenSeq([i \in 1 .. (Max(Indices) + 1) |-> SaidAtEndOf(i - 1, n)])

LEMMA SaidIs ==
  ASSUME NEW n
  PROVE  SaidAt(n) = SaidOf(n, seen[n], SaidAtEndOf(seen[n].index, n), SaidAtTurnEnd(n),
                            CountsAt(n), ReasonAt(n))
BY DEF SaidAt, SaidOf, SaidAtTurnEnd, IsStart, IsBlockStop, IsDelta

LEMMA SaidKept ==
  ASSUME NEW frame, Grown(frame), NEW n \in 1 .. (Position - 1)
  PROVE  SaidAt(n)' = SaidAt(n)
<1> DEFINE index == seen[n].index
<1>0. n \in 1 .. Position /\ seen'[n] = seen[n]
  BY DEF Grown
<1>1. \A i : SaidAtEndOf(i, n)' = SaidAtEndOf(i, n)
  BY <1>0, EndKept
<1>2. SaidAtTurnEnd(n)' = SaidAtTurnEnd(n)
  <2>1. \A i \in 1 .. (Max(Indices) + 1) : SaidAtEndOf(i - 1, n)' = SaidAtEndOf(i - 1, n)
    BY <1>1
  <2> QED
    BY <2>1 DEF SaidAtTurnEnd
<1>3. CountsAt(n)' = CountsAt(n) /\ ReasonAt(n)' = ReasonAt(n)
  BY <1>0, CountedKept, ReasonKept
<1>4. SaidAt(n)' = SaidOf(n, seen'[n], SaidAtEndOf(seen[n].index, n), SaidAtTurnEnd(n),
                          CountsAt(n), ReasonAt(n))
  <2>1. \A m : m = seen'[n].index =>
          SaidAt(n)' = SaidOf(n, seen'[n], SaidAtEndOf(m, n)', SaidAtTurnEnd(n)',
                              CountsAt(n)', ReasonAt(n)')
    BY DEF SaidAt, SaidOf, SaidAtTurnEnd, IsStart, IsBlockStop, IsDelta
  <2> QED
    BY <1>0, <1>1, <1>2, <1>3, <2>1
<1> QED
  BY <1>0, <1>4, SaidIs

-----------------------------------------------------------------------------
(* What the latest frame adds. *)

LEMMA OpenerNow ==
  ASSUME NEW frame, Grown(frame), NEW p, p = Position, NEW index
  PROVE  OpenerOf(p + 1, index)'
           = IF frame.frame = "content_block_start" /\ frame.index = index THEN {p}
             ELSE IF frame.frame = "content_block_stop" /\ frame.index = index THEN {}
             ELSE OpenerOf(p, index)
<1> DEFINE before == OpenerOf(p, index)
           now == {k \in 1 .. p : /\ IsStart(k, index)'
                                  /\ \A j \in (k + 1) .. p : ~ IsStart(j, index)' /\ ~ IsBlockStop(j, index)'}
<1>0. /\ p \in Nat /\ p >= 1 /\ seen'[p] = frame
      /\ \A k \in 1 .. p : k = p \/ k \in 1 .. (p - 1)
      /\ \A k \in 1 .. (p - 1) :
           /\ \A j \in (k + 1) .. p : j = p \/ j \in (k + 1) .. (p - 1)
           /\ \A j \in (k + 1) .. (p - 1) : j \in 1 .. (p - 1) /\ j \in (k + 1) .. p
      /\ \A k \in 1 .. (p - 1) : p \in (k + 1) .. p
      /\ (p + 1) - 1 = p /\ p \in 1 .. p /\ p \notin 1 .. (p - 1) /\ (p + 1) .. p = {}
  BY DEF Grown
<1>1. OpenerOf(p + 1, index)' = now
  BY <1>0 DEF OpenerOf
<1>2. /\ IsStart(p, index)' <=> frame.frame = "content_block_start" /\ frame.index = index
      /\ IsBlockStop(p, index)' <=> frame.frame = "content_block_stop" /\ frame.index = index
  BY <1>0 DEF IsStart, IsBlockStop
<1>3. \A k \in 1 .. (p - 1) : /\ IsStart(k, index)' <=> IsStart(k, index)
                              /\ IsBlockStop(k, index)' <=> IsBlockStop(k, index)
  BY PlacesKept
<1>4. p \in now <=> IsStart(p, index)'
  BY <1>0
<1>5. ASSUME NEW k \in 1 .. (p - 1)
      PROVE  k \in now <=> k \in before /\ ~ IsStart(p, index)' /\ ~ IsBlockStop(p, index)'
  BY <1>0, <1>3 DEF OpenerOf
<1>6. now \subseteq 1 .. p /\ before \subseteq 1 .. (p - 1)
  BY DEF OpenerOf
<1> HIDE DEF now, before
<1>7. now = IF IsStart(p, index)' THEN {p}
            ELSE IF IsBlockStop(p, index)' THEN {} ELSE before
  <2>0. now \subseteq (1 .. (p - 1)) \cup {p}
    BY <1>0, <1>6
  <2>1. CASE IsStart(p, index)'
    <3>1. p \in now /\ \A k \in 1 .. (p - 1) : k \notin now
      BY <1>4, <1>5, <2>1
    <3>2. now = {p}
      BY <2>0, <3>1
    <3> QED
      BY <2>1, <3>2
  <2>2. CASE ~ IsStart(p, index)' /\ IsBlockStop(p, index)'
    <3>1. p \notin now /\ \A k \in 1 .. (p - 1) : k \notin now
      BY <1>4, <1>5, <2>2
    <3>2. now = {}
      BY <2>0, <3>1
    <3> QED
      BY <2>2, <3>2
  <2>3. CASE ~ IsStart(p, index)' /\ ~ IsBlockStop(p, index)'
    <3>1. p \notin now /\ \A k \in 1 .. (p - 1) : k \in now <=> k \in before
      BY <1>4, <1>5, <2>3
    <3>2. p \notin 1 .. (p - 1)
      BY <1>0
    <3>3. now = before
      BY <1>6, <2>0, <3>1, <3>2
    <3> QED
      BY <2>3, <3>3
  <2> QED
    BY <2>1, <2>2, <2>3
<1> QED
  BY <1>1, <1>2, <1>7 DEF before

\* The latest frame is one more of a block's deltas, or not.
LEMMA DeltasNow ==
  ASSUME NEW frame, Grown(frame), NEW p, p = Position, NEW k \in 1 .. (p - 1),
         NEW index, index = seen[k].index, NEW deltas
  PROVE  DeltasIn(k, p + 1, deltas)'
           = IF /\ frame.frame = "content_block_delta" /\ frame.index = index
                /\ frame.what \in deltas
             THEN Append(DeltasIn(k, p, deltas), p) ELSE DeltasIn(k, p, deltas)
<1> DEFINE places == [i \in 1 .. (p - 1) |-> i]
           more == [i \in 1 .. p |-> i]
           before == {j \in (k + 1) .. (p - 1) : IsDelta(j, index, deltas)}
           now == {j \in (k + 1) .. p : IsDelta(j, index, deltas)'}
<1>0. /\ p \in Nat /\ p >= 1 /\ seen'[p] = frame /\ seen'[k] = seen[k]
      /\ \A j \in (k + 1) .. (p - 1) : j \in 1 .. (p - 1)
      /\ (p + 1) - 1 = p /\ p \in (k + 1) .. p
  BY DEF Grown
<1>1. DeltasIn(k, p + 1, deltas)' = Picked(more, now)
  <2>1. {j \in (k + 1) .. p : IsDelta(j, seen[k].index, deltas)'} = now
    BY <1>0 DEF IsDelta
  <2> QED
    BY <1>0, <2>1 DEF DeltasIn
<1>2. DeltasIn(k, p, deltas) = Picked(places, before)
  <2>1. before = {j \in (k + 1) .. (p - 1) : IsDelta(j, seen[k].index, deltas)}
    BY DEF IsDelta
  <2> QED
    BY <2>1 DEF DeltasIn
<1>3. /\ places \in Seq(Nat) /\ Len(places) = p - 1 /\ p \in Nat /\ (p - 1) + 1 = p
      /\ more = Append(places, p)
  <2>1. p - 1 \in Nat
    BY <1>0
  <2>2. places \in Seq(Nat) /\ Len(places) = p - 1
    BY <2>1
  <2> DEFINE appended == Append(places, p)
  <2>3. /\ appended \in Seq(Nat) /\ Len(appended) = p
        /\ \A i \in 1 .. p : appended[i] = i
    BY <1>0, <2>2
  <2>4. more \in Seq(Nat) /\ Len(more) = p /\ \A i \in 1 .. p : more[i] = i
    BY <1>0
  <2> HIDE DEF appended, more
  <2>5. Len(more) = Len(appended) /\ \A i \in 1 .. Len(more) : more[i] = appended[i]
    BY <2>3, <2>4
  <2>6. more = appended
    BY <2>3, <2>4, <2>5, SeqEqual
  <2> QED
    BY <1>0, <2>2, <2>6 DEF appended
<1>4. \A n \in 1 .. (p - 1) : n \in before <=> n \in now
  <2>1. ASSUME NEW n \in 1 .. (p - 1)
        PROVE  IsDelta(n, index, deltas)' <=> IsDelta(n, index, deltas)
    BY DEF Grown, IsDelta
  <2>2. \A n \in 1 .. (p - 1) : n \in (k + 1) .. (p - 1) <=> n \in (k + 1) .. p
    BY <1>0
  <2> QED
    BY <2>1, <2>2
<1>5. p \in now <=> /\ frame.frame = "content_block_delta" /\ frame.index = index
                    /\ frame.what \in deltas
  BY <1>0 DEF IsDelta
<1> HIDE DEF now, before, more, places
<1>6. Picked(more, now) = IF p \in now THEN Append(Picked(places, before), p)
                          ELSE Picked(places, before)
  <2>1. Picked(Append(places, p), now)
          = IF Len(places) + 1 \in now THEN Append(Picked(places, before), p)
            ELSE Picked(places, before)
    <3>1. \A n \in 1 .. Len(places) : n \in before <=> n \in now
      BY <1>3, <1>4
    <3> QED
      BY <1>3, <3>1, PickedAppend, SMTT(30)
  <2>2. Len(places) + 1 = p /\ more = Append(places, p)
    BY <1>3
  <2> QED
    BY <2>1, <2>2, Zenon
<1> QED
  BY <1>1, <1>2, <1>5, <1>6

\* A block has no deltas yet when it starts.
LEMMA DeltasFirst ==
  ASSUME NEW p \in Nat, p >= 1, NEW deltas
  PROVE  DeltasIn(p, p + 1, deltas)' = <<>>
<1> DEFINE places == [i \in 1 .. p |-> i]
<1>1. (p + 1) .. p = {} /\ (p + 1) - 1 = p
  OBVIOUS
<1>2. DeltasIn(p, p + 1, deltas)' = Picked(places, {})
  BY <1>1 DEF DeltasIn
<1>3. places \in Seq(Nat) /\ 0 \in 0 .. Len(places)
      /\ \A i \in DOMAIN places : i \in {} <=> i <= 0
  OBVIOUS
<1>4. Picked(places, {}) = SubSeq(places, 1, 0)
  <2> HIDE DEF places
  <2> QED
    BY <1>3, PickedFront
<1> QED
  BY <1>2, <1>4, SubSeqEmpty

LEMMA FragmentsNow ==
  ASSUME NEW frame, Grown(frame), NEW p, p = Position, NEW k \in 1 .. (p - 1),
         NEW index, index = seen[k].index
  PROVE  Fragments(k, p + 1)'
           = IF /\ frame.frame = "content_block_delta" /\ frame.index = index
                /\ frame.what \in {"head", "tail"}
             THEN Append(Fragments(k, p), frame.what) ELSE Fragments(k, p)
<1> DEFINE adds == /\ frame.frame = "content_block_delta" /\ frame.index = index
                   /\ frame.what \in {"head", "tail"}
           json == DeltasIn(k, p, {"head", "tail"})
           now == IF adds THEN Append(json, p) ELSE json
<1>0. /\ p \in Nat /\ seen'[p] = frame
      /\ \A j \in 1 .. (p - 1) : seen'[j] = seen[j] /\ j # p
      /\ \A j \in (k + 1) .. (p - 1) : j \in 1 .. (p - 1)
  BY DEF Grown
<1>1. DeltasIn(k, p + 1, {"head", "tail"})' = now
  BY DeltasNow
<1>2. json \in Seq(1 .. (p - 1))
  <2>1. json \in Seq({j \in (k + 1) .. (p - 1) : IsDelta(j, seen[k].index, {"head", "tail"})})
    BY <1>0, DeltasType
  <2> HIDE DEF json
  <2> QED
    BY <1>0, <2>1
<1>3. Fragments(k, p) = [i \in DOMAIN json |-> seen[json[i]].what]
  BY DEF Fragments
<1>4. Fragments(k, p + 1)' = [i \in DOMAIN now |-> seen'[now[i]].what]
  BY <1>1 DEF Fragments
<1> HIDE DEF json
<1>5. [i \in DOMAIN json |-> seen'[json[i]].what] = [i \in DOMAIN json |-> seen[json[i]].what]
  <2>1. ASSUME NEW i \in DOMAIN json PROVE seen'[json[i]].what = seen[json[i]].what
    <3> DEFINE earlier == 1 .. (p - 1)
    <3>1. json[i] \in earlier
      <4> HIDE DEF earlier
      <4>1. json \in Seq(earlier)
        BY <1>2 DEF earlier
      <4> QED
        BY <4>1
    <3> QED
      BY <1>0, <3>1
  <2> QED
    BY <2>1
<1>6. CASE ~ adds
  BY <1>3, <1>4, <1>5, <1>6
<1>7. CASE adds
  <2> DEFINE longer == Append(json, p)
             some == [i \in DOMAIN json |-> seen[json[i]].what]
             fragments == [i \in DOMAIN longer |-> seen'[longer[i]].what]
             T == {seen[j].what : j \in 1 .. (p - 1)} \cup {frame.what}
  <2>1. /\ Len(json) \in Nat /\ DOMAIN json = 1 .. Len(json)
        /\ DOMAIN longer = 1 .. (Len(json) + 1)
        /\ \A i \in 1 .. Len(json) : longer[i] = json[i] /\ json[i] \in 1 .. (p - 1)
        /\ longer[Len(json) + 1] = p
    BY <1>0, <1>2
  <2> HIDE DEF longer
  <2>2. some \in Seq(T) /\ Len(some) = Len(json) /\ frame.what \in T
        /\ \A i \in 1 .. Len(json) : some[i] = seen[json[i]].what
    BY <2>1
  <2>3. /\ fragments \in Seq(T) /\ Len(fragments) = Len(json) + 1
        /\ \A i \in 1 .. Len(json) : fragments[i] = seen[json[i]].what
        /\ fragments[Len(json) + 1] = frame.what
    <3>1. \A i \in 1 .. Len(json) : fragments[i] = seen[json[i]].what
      BY <1>0, <2>1
    <3>2. fragments[Len(json) + 1] = frame.what
      BY <1>0, <2>1
    <3>3. \A i \in 1 .. (Len(json) + 1) : i \in 1 .. Len(json) \/ i = Len(json) + 1
      BY <2>1
    <3>4. \A i \in 1 .. (Len(json) + 1) : fragments[i] \in T
      BY <2>1, <2>2, <3>1, <3>2, <3>3
    <3>5. fragments \in Seq(T) /\ Len(fragments) = Len(json) + 1
      <4>1. fragments = [i \in 1 .. (Len(json) + 1) |-> fragments[i]]
        BY <2>1
      <4>2. Len(json) + 1 \in Nat
        BY <2>1
      <4> HIDE DEF fragments, T
      <4> QED
        BY <3>4, <4>1, <4>2
    <3> QED
      BY <3>1, <3>2, <3>5
  <2> DEFINE appended == Append(some, frame.what)
  <2> HIDE DEF some, fragments, T
  <2>4. /\ appended \in Seq(T) /\ Len(appended) = Len(json) + 1
        /\ \A i \in 1 .. Len(json) : appended[i] = some[i]
        /\ appended[Len(json) + 1] = frame.what
    BY <2>1, <2>2
  <2> HIDE DEF appended
  <2>5. Len(appended) = Len(fragments) /\ \A i \in 1 .. Len(appended) : appended[i] = fragments[i]
    <3>1. \A i \in 1 .. (Len(json) + 1) : i \in 1 .. Len(json) \/ i = Len(json) + 1
      BY <2>1
    <3> QED
      BY <2>1, <2>2, <2>3, <2>4, <3>1
  <2>6. fragments = appended
    BY <2>3, <2>4, <2>5, SeqEqual
  <2> QED
    BY <1>3, <1>4, <1>7, <2>6 DEF fragments, appended, some, longer
<1> QED
  BY <1>6, <1>7

LEMMA CountedNow ==
  ASSUME NEW frame, Grown(frame), NEW p, p = Position
  PROVE  Counted(p + 1)'
           = IF frame.frame \in {"message_start", "message_delta"}
             THEN [f \in UsageFields |-> IF f \in frame.what THEN p ELSE Counted(p)[f]]
             ELSE Counted(p)
<1> DEFINE reports == frame.frame \in {"message_start", "message_delta"}
<1>0. /\ p \in Nat /\ p >= 1 /\ seen'[p] = frame /\ (p + 1) - 1 = p
      /\ \A k \in 1 .. p : k = p \/ k \in 1 .. (p - 1)
      /\ \A k \in 1 .. (p - 1) : k \in 1 .. p /\ seen'[k] = seen[k]
      /\ p \in 1 .. p
  BY DEF Grown
<1>1. ASSUME NEW f \in UsageFields
      PROVE  ReportersOf(p + 1, f)' = ReportersOf(p, f) \cup
               (IF reports /\ f \in frame.what THEN {p} ELSE {})
  BY <1>0 DEF ReportersOf
<1>2. ASSUME NEW f \in UsageFields, reports /\ f \in frame.what
      PROVE  Max({0} \cup ReportersOf(p + 1, f)') = p
  <2> DEFINE S == {0} \cup ReportersOf(p + 1, f)'
  <2>1. S \subseteq Int /\ p \in S /\ \A k \in S : k <= p
    <3>1. ReportersOf(p, f) \subseteq 1 .. (p - 1)
      BY DEF ReportersOf
    <3> QED
      BY <1>0, <1>1, <1>2, <3>1
  <2> HIDE DEF S
  <2>2. Max(S) = p
    BY <2>1, MaxIs
  <2> QED
    BY <2>2 DEF S
<1>3. Counted(p) = [f \in UsageFields |-> Max({0} \cup ReportersOf(p, f))]
  BY DEF Counted, ReportersOf
<1>4. Counted(p + 1)' = [f \in UsageFields |-> Max({0} \cup ReportersOf(p + 1, f)')]
  BY DEF Counted, ReportersOf
<1>5. ASSUME NEW f \in UsageFields
      PROVE  Max({0} \cup ReportersOf(p + 1, f)')
               = IF reports /\ f \in frame.what THEN p ELSE Counted(p)[f]
  <2>1. ~ (reports /\ f \in frame.what) => ReportersOf(p + 1, f)' = ReportersOf(p, f)
    BY <1>1
  <2>2. Counted(p)[f] = Max({0} \cup ReportersOf(p, f))
    BY <1>3
  <2> QED
    BY <1>2, <2>1, <2>2
<1>6. Counted(p) = [f \in UsageFields |-> Counted(p)[f]]
  BY <1>3
<1> QED
  BY <1>4, <1>5, <1>6

\* Why the turn stops, if the frames told.
ReasonKnown(n) == IF Told(n) = {} THEN Nothing ELSE seen[Max(Told(n))].stop

LEMMA ReasonNow ==
  ASSUME NEW frame, Grown(frame), NEW p, p = Position
  PROVE  ReasonKnown(p + 1)'
           = IF frame.frame = "message_delta" /\ frame.stop # Nothing
             THEN frame.stop ELSE ReasonKnown(p)
<1> DEFINE tells == frame.frame = "message_delta" /\ frame.stop # Nothing
<1>0. /\ p \in Nat /\ p >= 1 /\ seen'[p] = frame /\ (p + 1) - 1 = p
      /\ \A k \in 1 .. p : k = p \/ k \in 1 .. (p - 1)
      /\ \A k \in 1 .. (p - 1) : k \in 1 .. p /\ seen'[k] = seen[k] /\ k <= p
      /\ p \in 1 .. p /\ p - 1 \in Nat
  BY DEF Grown
<1>1. Told(p + 1)' = Told(p) \cup (IF tells THEN {p} ELSE {})
  BY <1>0 DEF Told
<1>2. Told(p) \subseteq 1 .. (p - 1)
  BY DEF Told
<1>3. CASE tells
  <2> DEFINE S == Told(p + 1)'
  <2>1. S \subseteq Int /\ p \in S /\ \A k \in S : k <= p
    BY <1>0, <1>1, <1>2, <1>3
  <2>2. Max(S) = p
    <3> HIDE DEF S
    <3> QED
      BY <2>1, MaxIs
  <2>3. ReasonKnown(p + 1)' = seen'[p].stop
    BY <2>1, <2>2 DEF ReasonKnown
  <2> QED
    BY <1>0, <1>3, <2>3
<1>4. CASE ~ tells
  <2>1. Told(p + 1)' = Told(p)
    BY <1>1, <1>4
  <2>2. CASE Told(p) = {}
    BY <1>4, <2>1, <2>2 DEF ReasonKnown
  <2>3. CASE Told(p) # {}
    <3>1. \A k \in Told(p) : k <= p - 1
      BY <1>0, <1>2
    <3>2. PICK last \in Told(p) : \A k \in Told(p) : k <= last
      <4>1. Told(p) \subseteq Int /\ p - 1 \in Int
        BY <1>0, <1>2
      <4> QED
        BY <2>3, <3>1, <4>1, GreatestElement
    <3>3. Max(Told(p)) = last
      <4>1. Told(p) \subseteq Int
        BY <1>0, <1>2
      <4> QED
        BY <3>2, <4>1, MaxIs
    <3>4. seen'[last] = seen[last]
      BY <1>0, <1>2
    <3>5. ReasonKnown(p + 1)' = seen'[last].stop
      BY <2>1, <2>3, <3>3 DEF ReasonKnown
    <3> QED
      BY <1>4, <2>3, <3>3, <3>4, <3>5 DEF ReasonKnown
  <2> QED
    BY <2>2, <2>3
<1> QED
  BY <1>3, <1>4

\* What the turn stops for is unspecified only if no frame told.
LEMMA ReasonIs ==
  ASSUME NEW p \in Nat
  PROVE  ReasonAt(p) = IF ReasonKnown(p) = Nothing THEN "unspecified" ELSE ReasonKnown(p)
<1>1. CASE Told(p) = {}
  BY <1>1 DEF ReasonAt, ReasonKnown
<1>2. CASE Told(p) # {}
  <2>1. Told(p) \subseteq Int /\ p - 1 \in Int /\ \A k \in Told(p) : k <= p - 1
    BY DEF Told
  <2>2. PICK last \in Told(p) : \A k \in Told(p) : k <= last
    BY <1>2, <2>1, GreatestElement
  <2>3. Max(Told(p)) = last
    BY <2>1, <2>2, MaxIs
  <2>4. seen[last].stop # Nothing
    BY DEF Told
  <2> QED
    BY <1>2, <2>3, <2>4 DEF ReasonAt, ReasonKnown
<1> QED
  BY <1>1, <1>2

-----------------------------------------------------------------------------
(* The open blocks are what the frames opened. *)

\* The block opened at k, with its deltas before position n.
Opened(k, n) ==
  [block |-> seen[k].what, start |-> k,
   json |-> IF seen[k].what = "tool_use" THEN Fragments(k, n) ELSE <<>>,
   text |-> IF seen[k].what = "thinking" THEN DeltasIn(k, n, {"thinking"}) ELSE <<>>,
   signature |-> IF seen[k].what = "thinking" THEN DeltasIn(k, n, {"signature"}) ELSE <<>>]

AccountsAt(n, index) ==
  IF index \in DOMAIN blocks
  THEN \E k \in OpenerOf(n, index) : seen[k].what \in Accumulated /\ blocks[index] = Opened(k, n)
  ELSE \A k \in OpenerOf(n, index) : seen[k].what \notin Accumulated

\* An open block after one delta more.
Longer(open, delta, p) ==
  CASE delta = "thinking" /\ open.block = "thinking" -> [open EXCEPT !.text = Append(@, p)]
    [] delta = "signature" /\ open.block = "thinking" -> [open EXCEPT !.signature = Append(@, p)]
    [] delta \in {"head", "tail"} /\ open.block = "tool_use" -> [open EXCEPT !.json = Append(@, delta)]
    [] OTHER -> open

Accounts(n) == \A index \in Indices : AccountsAt(n, index)

LEMMA OpenedNow ==
  ASSUME NEW frame, Grown(frame), NEW p, p = Position, NEW k \in 1 .. (p - 1),
         NEW index, index = seen[k].index
  PROVE  /\ ~ (frame.frame = "content_block_delta" /\ frame.index = index) =>
              Opened(k, p + 1)' = Opened(k, p)
         /\ frame.frame = "content_block_delta" /\ frame.index = index =>
              Opened(k, p + 1)' = Longer(Opened(k, p), frame.what, p)
<1> DEFINE here == frame.frame = "content_block_delta" /\ frame.index = index
           thinking == DeltasIn(k, p, {"thinking"})
           signature == DeltasIn(k, p, {"signature"})
           json == Fragments(k, p)
<1>1. seen'[k] = seen[k]
  BY DEF Grown
<1>2. /\ DeltasIn(k, p + 1, {"thinking"})'
           = IF here /\ frame.what = "thinking" THEN Append(thinking, p) ELSE thinking
      /\ DeltasIn(k, p + 1, {"signature"})'
           = IF here /\ frame.what = "signature" THEN Append(signature, p) ELSE signature
  BY DeltasNow
<1>3. Fragments(k, p + 1)'
        = IF here /\ frame.what \in {"head", "tail"} THEN Append(json, frame.what) ELSE json
  BY FragmentsNow
<1>4. Opened(k, p + 1)' =
        [block |-> seen[k].what, start |-> k,
         json |-> IF seen[k].what = "tool_use" THEN Fragments(k, p + 1)' ELSE <<>>,
         text |-> IF seen[k].what = "thinking" THEN DeltasIn(k, p + 1, {"thinking"})' ELSE <<>>,
         signature |-> IF seen[k].what = "thinking" THEN DeltasIn(k, p + 1, {"signature"})' ELSE <<>>]
  BY <1>1 DEF Opened
<1>5. Opened(k, p) =
        [block |-> seen[k].what, start |-> k,
         json |-> IF seen[k].what = "tool_use" THEN json ELSE <<>>,
         text |-> IF seen[k].what = "thinking" THEN thinking ELSE <<>>,
         signature |-> IF seen[k].what = "thinking" THEN signature ELSE <<>>]
  BY DEF Opened
<1> HIDE DEF thinking, signature, json
<1>6. CASE ~ here
  <2>1. Opened(k, p + 1)' = Opened(k, p)
    BY <1>2, <1>3, <1>4, <1>5, <1>6
  <2> QED
    BY <1>6, <2>1
<1>7. CASE here
  <2> DEFINE what == seen[k].what
             delta == frame.what
             made(j, t, g) == [block |-> what, start |-> k, json |-> j, text |-> t, signature |-> g]
  <2>1. Opened(k, p) = made(IF what = "tool_use" THEN json ELSE <<>>,
                            IF what = "thinking" THEN thinking ELSE <<>>,
                            IF what = "thinking" THEN signature ELSE <<>>)
    BY <1>5
  <2>2. Opened(k, p + 1)' =
          made(IF what = "tool_use" /\ delta \in {"head", "tail"} THEN Append(json, delta)
               ELSE IF what = "tool_use" THEN json ELSE <<>>,
               IF what = "thinking" /\ delta = "thinking" THEN Append(thinking, p)
               ELSE IF what = "thinking" THEN thinking ELSE <<>>,
               IF what = "thinking" /\ delta = "signature" THEN Append(signature, p)
               ELSE IF what = "thinking" THEN signature ELSE <<>>)
    BY <1>2, <1>3, <1>4, <1>7
  <2> HIDE DEF made, what, delta
  <2>3. CASE what = "tool_use"
    <3>1. Opened(k, p) = made(json, <<>>, <<>>)
      BY <2>1, <2>3
    <3>2. Opened(k, p + 1)' = IF delta \in {"head", "tail"} THEN made(Append(json, delta), <<>>, <<>>)
                              ELSE made(json, <<>>, <<>>)
      BY <2>2, <2>3
    <3> DEFINE open == made(json, <<>>, <<>>)
               more == Append(json, delta)
    <3> HIDE DEF more
    <3>a. /\ open.block = what /\ open.json = json
          /\ [open EXCEPT !.json = more] = made(more, <<>>, <<>>)
      BY DEF made
    <3> HIDE DEF open
    <3>3. /\ Opened(k, p).block = "tool_use" /\ Opened(k, p).json = json
          /\ [Opened(k, p) EXCEPT !.json = Append(json, delta)] = made(Append(json, delta), <<>>, <<>>)
      BY <2>3, <3>1, <3>a DEF open, more
    <3>4. Opened(k, p + 1)' = Longer(Opened(k, p), delta, p)
      BY <3>1, <3>2, <3>3 DEF Longer
    <3> QED
      BY <1>7, <3>4 DEF delta
  <2>4. CASE what = "thinking"
    <3>1. Opened(k, p) = made(<<>>, thinking, signature)
      BY <2>1, <2>4
    <3>2. Opened(k, p + 1)' = IF delta = "thinking" THEN made(<<>>, Append(thinking, p), signature)
                              ELSE IF delta = "signature" THEN made(<<>>, thinking, Append(signature, p))
                              ELSE made(<<>>, thinking, signature)
      BY <2>2, <2>4
    <3> DEFINE open == made(<<>>, thinking, signature)
               longer == Append(thinking, p)
               more == Append(signature, p)
    <3> HIDE DEF longer, more
    <3>a. /\ open.block = what /\ open.text = thinking /\ open.signature = signature
          /\ [open EXCEPT !.text = longer] = made(<<>>, longer, signature)
          /\ [open EXCEPT !.signature = more] = made(<<>>, thinking, more)
      BY DEF made
    <3> HIDE DEF open
    <3>3. /\ Opened(k, p).block = "thinking"
          /\ Opened(k, p).text = thinking /\ Opened(k, p).signature = signature
          /\ [Opened(k, p) EXCEPT !.text = Append(thinking, p)] = made(<<>>, Append(thinking, p), signature)
          /\ [Opened(k, p) EXCEPT !.signature = Append(signature, p)]
               = made(<<>>, thinking, Append(signature, p))
      BY <2>4, <3>1, <3>a DEF open, longer, more
    <3>4. Opened(k, p + 1)' = Longer(Opened(k, p), delta, p)
      BY <3>1, <3>2, <3>3 DEF Longer
    <3> QED
      BY <1>7, <3>4 DEF delta
  <2>5. CASE what \notin {"tool_use", "thinking"}
    <3>1. Opened(k, p + 1)' = made(<<>>, <<>>, <<>>) /\ Opened(k, p) = made(<<>>, <<>>, <<>>)
      BY <2>1, <2>2, <2>5
    <3>2. Opened(k, p).block = what
      BY <3>1 DEF made
    <3>3. Opened(k, p + 1)' = Longer(Opened(k, p), delta, p)
      BY <2>5, <3>1, <3>2 DEF Longer
    <3> QED
      BY <1>7, <3>3 DEF delta
  <2> QED
    BY <2>3, <2>4, <2>5
<1> QED
  BY <1>6, <1>7

LEMMA OpenedFirst ==
  ASSUME NEW frame, Grown(frame), NEW p, p = Position, frame.what \in Accumulated
  PROVE  Opened(p, p + 1)' = Open(frame.what, p)
<1>1. p \in Nat /\ p >= 1 /\ seen'[p] = frame
  BY DEF Grown
<1>2. /\ DeltasIn(p, p + 1, {"thinking"})' = <<>> /\ DeltasIn(p, p + 1, {"signature"})' = <<>>
      /\ DeltasIn(p, p + 1, {"head", "tail"})' = <<>>
  BY <1>1, DeltasFirst
<1>3. Fragments(p, p + 1)' = <<>>
  BY <1>2 DEF Fragments
<1> QED
  BY <1>1, <1>2, <1>3 DEF Opened, Open

\* A start has the index its block is open at.
LEMMA OpenerIs ==
  ASSUME NEW n \in Nat, NEW index, NEW k \in OpenerOf(n, index)
  PROVE  k \in 1 .. (n - 1) /\ seen[k].index = index
BY DEF OpenerOf, IsStart

LEMMA AccountsNow ==
  ASSUME NEW frame \in Frames, Grown(frame), NEW p, p = Position, AreOpen(blocks), Accounts(p),
         \/ frame.frame = "content_block_start" /\ blocks' = OnStart(frame)
         \/ frame.frame = "content_block_delta" /\ blocks' = OnDelta(frame)
         \/ frame.frame = "content_block_stop" /\ blocks' = Without(frame.index)
         \/ /\ frame.frame \notin {"content_block_start", "content_block_delta", "content_block_stop"}
            /\ blocks' = blocks
  PROVE  Accounts(p + 1)'
<1>0. /\ p \in Nat /\ p >= 1 /\ seen'[p] = frame
      /\ \A k \in 1 .. (p - 1) : seen'[k] = seen[k]
  BY DEF Grown
<1>1. ASSUME NEW index,
             ~ /\ frame.frame \in {"content_block_start", "content_block_delta", "content_block_stop"}
               /\ frame.index = index,
             index \in DOMAIN blocks' <=> index \in DOMAIN blocks,
             index \in DOMAIN blocks => blocks'[index] = blocks[index],
             AccountsAt(p, index)
      PROVE  AccountsAt(p + 1, index)'
  <2>1. OpenerOf(p + 1, index)' = OpenerOf(p, index)
    BY <1>1, OpenerNow
  <2>2. ASSUME NEW k \in OpenerOf(p, index)
        PROVE  Opened(k, p + 1)' = Opened(k, p) /\ seen'[k].what = seen[k].what
    <3>1. k \in 1 .. (p - 1) /\ seen[k].index = index
      BY <1>0, OpenerIs
    <3>2. ~ (frame.frame = "content_block_delta" /\ frame.index = index)
      BY <1>1
    <3> QED
      BY <1>0, <3>1, <3>2, OpenedNow
  <2> QED
    BY <1>1, <2>1, <2>2 DEF AccountsAt
<1>2. CASE frame.frame \notin {"content_block_start", "content_block_delta", "content_block_stop"}
  BY <1>1, <1>2 DEF Accounts
<1>3. CASE frame.frame = "content_block_stop"
  <2>1. blocks' = Without(frame.index)
    BY <1>3
  <2>2. ASSUME NEW index \in Indices, index # frame.index PROVE AccountsAt(p + 1, index)'
    <3>1. /\ index \in DOMAIN blocks' <=> index \in DOMAIN blocks
          /\ index \in DOMAIN blocks => blocks'[index] = blocks[index]
      BY <2>1, <2>2 DEF Without
    <3> QED
      BY <1>1, <2>2, <3>1 DEF Accounts
  <2>3. ASSUME NEW index, index = frame.index PROVE AccountsAt(p + 1, index)'
    <3>1. OpenerOf(p + 1, index)' = {} /\ index \notin DOMAIN blocks'
      BY <1>3, <2>1, <2>3, OpenerNow DEF Without
    <3> QED
      BY <3>1 DEF AccountsAt
  <2> QED
    BY <2>2, <2>3 DEF Accounts
<1>4. CASE frame.frame = "content_block_start"
  <2>1. blocks' = OnStart(frame)
    BY <1>4
  <2>2. ASSUME NEW index \in Indices, index # frame.index PROVE AccountsAt(p + 1, index)'
    <3>1. /\ index \in DOMAIN blocks' <=> index \in DOMAIN blocks
          /\ index \in DOMAIN blocks => blocks'[index] = blocks[index]
      BY <2>1, <2>2 DEF OnStart, Without, With
    <3> QED
      BY <1>1, <2>2, <3>1 DEF Accounts
  <2>3. ASSUME NEW index, index = frame.index PROVE AccountsAt(p + 1, index)'
    <3>1. OpenerOf(p + 1, index)' = {p}
      BY <1>4, <2>3, OpenerNow
    <3>2. CASE frame.what \in Accumulated
      <4>1. index \in DOMAIN blocks' /\ blocks'[index] = Open(frame.what, p)
        BY <2>1, <2>3, <3>2 DEF OnStart, With
      <4>2. Opened(p, p + 1)' = Open(frame.what, p)
        BY <3>2, OpenedFirst
      <4> QED
        BY <1>0, <3>1, <3>2, <4>1, <4>2 DEF AccountsAt
    <3>3. CASE frame.what \notin Accumulated
      <4>1. index \notin DOMAIN blocks'
        BY <2>1, <2>3, <3>3 DEF OnStart, Without
      <4> QED
        BY <1>0, <3>1, <3>3, <4>1 DEF AccountsAt
    <3> QED
      BY <3>2, <3>3
  <2> QED
    BY <2>2, <2>3 DEF Accounts
<1>5. CASE frame.frame = "content_block_delta"
  <2>1. blocks' = OnDelta(frame)
    BY <1>5
  <2>2. ASSUME NEW index \in Indices, index # frame.index PROVE AccountsAt(p + 1, index)'
    <3>1. /\ index \in DOMAIN blocks' <=> index \in DOMAIN blocks
          /\ index \in DOMAIN blocks => blocks'[index] = blocks[index]
      BY <2>1, <2>2 DEF OnDelta
    <3> QED
      BY <1>1, <2>2, <3>1 DEF Accounts
  <2>3. ASSUME NEW index, index = frame.index, AccountsAt(p, index)
        PROVE  AccountsAt(p + 1, index)'
    <3>1. OpenerOf(p + 1, index)' = OpenerOf(p, index)
      BY <1>5, OpenerNow
    <3>2. CASE index \notin DOMAIN blocks
      <4>1. blocks' = blocks
        BY <2>1, <2>3, <3>2 DEF OnDelta
      <4>2. \A k \in OpenerOf(p, index) : seen[k].what \notin Accumulated /\ seen'[k] = seen[k]
        BY <1>0, <2>3, <3>2, OpenerIs DEF AccountsAt
      <4> QED
        BY <3>1, <3>2, <4>1, <4>2 DEF AccountsAt
    <3>3. CASE index \in DOMAIN blocks
      <4>1. PICK k \in OpenerOf(p, index) :
              seen[k].what \in Accumulated /\ blocks[index] = Opened(k, p)
        BY <2>3, <3>3 DEF AccountsAt
      <4>2. k \in 1 .. (p - 1) /\ index = seen[k].index /\ seen'[k] = seen[k]
        BY <1>0, <4>1, OpenerIs
      <4>3. DOMAIN blocks' = DOMAIN blocks /\ blocks'[index] = Longer(blocks[index], frame.what, p)
        BY <2>1, <2>3, <3>3 DEF OnDelta, Longer
      <4>4. Opened(k, p + 1)' = Longer(Opened(k, p), frame.what, p)
        BY <1>5, <2>3, <4>2, OpenedNow
      <4> QED
        BY <3>1, <3>3, <4>1, <4>2, <4>3, <4>4 DEF AccountsAt
    <3> QED
      BY <3>2, <3>3
  <2>4. frame.index \in Indices
    BY DEF Indices
  <2> QED
    BY <2>2, <2>3, <2>4 DEF Accounts
<1> QED
  BY <1>2, <1>3, <1>4, <1>5

-----------------------------------------------------------------------------
(* What is handed out is what the frames say. *)

\* A closed block says what its deltas do, and one that is not kept says nothing.
LEMMA ClosedSays ==
  ASSUME NEW n, NEW k
  PROVE  /\ seen[k].what \in Accumulated => SaidBy(k, n) = ClosedBlockEvent(Opened(k, n))
         /\ seen[k].what \notin Accumulated => SaidBy(k, n) = <<>>
<1> DEFINE what == seen[k].what
           json == Fragments(k, n)
           thinking == DeltasIn(k, n, {"thinking"})
           signature == DeltasIn(k, n, {"signature"})
<1>1. SaidBy(k, n) =
        CASE what = "tool_use" ->
               <<IF Parses(json) THEN ToolCallRequested(k, json) ELSE Err("malformed_input")>>
          [] what = "thinking" /\ signature # <<>> -> <<ClosedThinking(k, thinking, signature)>>
          [] OTHER -> <<>>
  BY DEF SaidBy, Fragments
<1>2. Opened(k, n) =
        [block |-> what, start |-> k,
         json |-> IF what = "tool_use" THEN json ELSE <<>>,
         text |-> IF what = "thinking" THEN thinking ELSE <<>>,
         signature |-> IF what = "thinking" THEN signature ELSE <<>>]
  BY DEF Opened
<1> HIDE DEF what, json, thinking, signature
<1>3. CASE what = "tool_use"
  <2>1. Opened(k, n).block = "tool_use" /\ Opened(k, n).start = k /\ Opened(k, n).json = json
    BY <1>2, <1>3
  <2>2. ClosedBlockEvent(Opened(k, n))
          = <<IF Parses(json) THEN ToolCallRequested(k, json) ELSE Err("malformed_input")>>
    BY <2>1 DEF ClosedBlockEvent, ToolCallEvent
  <2> QED
    BY <1>1, <1>3, <2>2 DEF Accumulated, what
<1>4. CASE what = "thinking"
  <2>1. /\ Opened(k, n).block = "thinking" /\ Opened(k, n).start = k
        /\ Opened(k, n).text = thinking /\ Opened(k, n).signature = signature
    BY <1>2, <1>4
  <2>2. ClosedBlockEvent(Opened(k, n))
          = IF signature = <<>> THEN <<>> ELSE <<ClosedThinking(k, thinking, signature)>>
    BY <2>1 DEF ClosedBlockEvent
  <2> QED
    BY <1>1, <1>4, <2>2 DEF Accumulated, what
<1>5. CASE what \notin {"tool_use", "thinking"}
  BY <1>1, <1>5 DEF Accumulated, what
<1> QED
  BY <1>3, <1>4, <1>5

LEMMA EndSays ==
  ASSUME seen \in Seq(Frames), AreOpen(blocks), NEW p \in {Position}, Accounts(p), NEW index
  PROVE  SaidAtEndOf(index, p) = ClosedAt(index)
<1>0. p \in Nat /\ p - 1 = Len(seen)
  BY DEF Position
<1>1. CASE OpenerOf(p, index) = {}
  <2>1. index \notin DOMAIN blocks
    BY <1>1 DEF Accounts, AccountsAt, AreOpen
  <2> QED
    BY <1>1, <2>1 DEF SaidAtEndOf, ClosedAt
<1>2. CASE OpenerOf(p, index) # {}
  <2>1. PICK k : k \in OpenerOf(p, index)
    BY <1>2
  <2>2. k \in 1 .. (p - 1) /\ seen[k].index = index
    BY <1>0, <2>1, OpenerIs
  <2>3. index \in Indices
    <3>1. seen[k] \in Frames
      BY <1>0, <2>2
    <3> QED
      BY <2>2, <3>1 DEF Indices
  <2>4. SaidAtEndOf(index, p) = SaidBy(k, p) /\ OpenerOf(p, index) = {k}
    BY <1>0, <2>1, OneOpener
  <2>5. CASE index \in DOMAIN blocks
    <3>1. seen[k].what \in Accumulated /\ blocks[index] = Opened(k, p)
      BY <2>3, <2>4, <2>5 DEF Accounts, AccountsAt
    <3> QED
      BY <2>4, <2>5, <3>1, ClosedSays DEF ClosedAt
  <2>6. CASE index \notin DOMAIN blocks
    <3>1. seen[k].what \notin Accumulated
      BY <2>3, <2>4, <2>6 DEF Accounts, AccountsAt
    <3> QED
      BY <2>4, <2>6, <3>1, ClosedSays DEF ClosedAt
  <2> QED
    BY <2>5, <2>6
<1> QED
  BY <1>1, <1>2

\* What is held while the turn goes on: the open blocks, the counts and the reason.
HeldInv ==
  \A p \in {Position} : Accounts(p) /\ usage = Counted(p) /\ reason = ReasonKnown(p)

SaidSoFar == [n \in DOMAIN seen |-> SaidAt(n)]

FramesInv ==
  /\ SaidSoFar \in Seq(Seq(Items))
  /\ EventsAreTheFrames
  /\ ~ ended => HeldInv

\* What the latest frame queues is what it says.
LEMMA HandleSays ==
  ASSUME TypeInv, HeldInv, pending = <<>>, NEW frame \in Frames, Handle(frame), Grown(frame),
         NEW p \in {Position}, pending' \in Seq(Items)
  PROVE  SaidAt(p)' = pending'
<1> DEFINE why == IF reason = Nothing THEN "unspecified" ELSE reason
<1>0. /\ seen \in Seq(Frames) /\ AreOpen(blocks) /\ Accounts(p) /\ p \in 1 .. Position
      /\ p \in Nat /\ usage = Counted(p) /\ reason = ReasonKnown(p) /\ seen'[p] = frame
  BY DEF TypeInv, HeldInv, Grown
<1>1. /\ \A index : SaidAtEndOf(index, p)' = ClosedAt(index)
      /\ CountsAt(p)' = PushUsage
      /\ ReasonAt(p)' = why
  <2>1. \A index : SaidAtEndOf(index, p)' = SaidAtEndOf(index, p)
    BY <1>0, EndKept
  <2>2. \A index : SaidAtEndOf(index, p) = ClosedAt(index)
    BY <1>0, EndSays
  <2>3. CountsAt(p)' = CountsAt(p) /\ ReasonAt(p)' = ReasonAt(p)
    BY <1>0, CountedKept, ReasonKept
  <2>4. CountsAt(p) = PushUsage
    BY <1>0 DEF CountsAt, PushUsage
  <2>5. ReasonAt(p) = why
    BY <1>0, ReasonIs
  <2> QED
    BY <2>1, <2>2, <2>3, <2>4, <2>5
<1>2. SaidAtTurnEnd(p)' = FlushOpenBlocks
  <2>1. FlushOpenBlocks = FlattenSeq([i \in 1 .. (Max(Indices) + 1) |-> ClosedAt(i - 1)])
    BY Zenon DEF FlushOpenBlocks, ClosedAt
  <2>2. SaidAtTurnEnd(p)' = FlattenSeq([i \in 1 .. (Max(Indices) + 1) |-> SaidAtEndOf(i - 1, p)'])
    BY DEF SaidAtTurnEnd
  <2>3. \A i \in 1 .. (Max(Indices) + 1) : SaidAtEndOf(i - 1, p)' = ClosedAt(i - 1)
    BY <1>1
  <2>4. [i \in 1 .. (Max(Indices) + 1) |-> SaidAtEndOf(i - 1, p)']
          = [i \in 1 .. (Max(Indices) + 1) |-> ClosedAt(i - 1)]
    BY <2>3
  <2> QED
    BY <2>1, <2>2, <2>4, Zenon
<1>3. SaidAt(p)' = SaidOf(p, frame, ClosedAt(frame.index), FlushOpenBlocks, PushUsage, why)
  <2>1. \A m : m = seen'[p].index =>
          SaidAt(p)' = SaidOf(p, seen'[p], SaidAtEndOf(m, p)', SaidAtTurnEnd(p)',
                              CountsAt(p)', ReasonAt(p)')
    BY DEF SaidAt, SaidOf, SaidAtTurnEnd, IsStart, IsBlockStop, IsDelta
  <2> QED
    BY <1>0, <1>1, <1>2, <2>1
<1> DEFINE said == SaidOf(p, frame, ClosedAt(frame.index), FlushOpenBlocks, PushUsage, why)
<1>4. ASSUME NEW queued, Queue(queued), queued \in Seq(Items)
      PROVE  pending' = queued
  <2>1. <<>> \o queued = queued
    BY <1>4
  <2> QED
    BY <1>4, <2>1 DEF Queue
<1>5. said = pending'
  <2>0. /\ PushUsage \in Seq(Items) /\ FlushOpenBlocks \in Seq(Items)
        /\ ClosedAt(frame.index) \in Seq(Items)
        /\ <<>> \in Seq(Items) /\ \A item \in Items : <<item>> \in Seq(Items)
        /\ <<>> \o PushUsage = PushUsage
    <3>1. PushUsage \in Totals
      BY PushUsageType DEF TypeInv
    <3>2. FlushOpenBlocks \in Seq(Said)
      BY <1>0, FlushType
    <3>3. ClosedAt(frame.index) \in Seq(Said)
      <4>1. <<>> \in Seq(Said)
        OBVIOUS
      <4> QED
        BY <1>0, <4>1, ClosedBlockType DEF AreOpen, ClosedAt
    <3> HIDE DEF Items
    <3>4. <<>> \in Seq(Items) /\ \A item \in Items : <<item>> \in Seq(Items)
      OBVIOUS
    <3>5. PushUsage \in Seq(Items)
      BY <3>1, ItemsAre
    <3> QED
      BY <3>2, <3>3, <3>4, <3>5, ItemsAre
  <2>1. <<>> \o <<>> = <<>> /\ \A item : <<>> \o <<item>> = <<item>>
    OBVIOUS
  <2>2. p = Position
    OBVIOUS
  <2>3. CASE frame.frame = "content_block_start"
    <3> DEFINE queued == IF frame.what = "redacted_thinking" THEN <<RedactedThinking(p)>> ELSE <<>>
    <3>1. Queue(queued)
      BY <2>2, <2>3 DEF Handle, Ignored
    <3>2. pending' = queued
      BY <2>1, <3>1 DEF Queue
    <3>3. said = queued
      BY <2>3 DEF SaidOf
    <3> QED
      BY <3>2, <3>3
  <2>4. CASE frame.frame = "content_block_delta"
    <3> DEFINE queued == CASE frame.what = "text" -> <<Text(p)>>
                           [] frame.what = "thinking" -> <<Thinking(p)>>
                           [] OTHER -> <<>>
    <3>1. Queue(queued)
      BY <2>2, <2>4 DEF Handle, Ignored
    <3>2. pending' = queued
      BY <2>1, <3>1 DEF Queue
    <3>3. said = queued
      BY <2>4 DEF SaidOf
    <3> QED
      BY <3>2, <3>3
  <2>5. CASE frame.frame = "content_block_stop"
    <3>1. Queue(ClosedAt(frame.index))
      BY <2>5 DEF Handle, Ignored, ClosedAt
    <3>2. pending' = ClosedAt(frame.index)
      BY <1>4, <2>0, <3>1
    <3>3. said = ClosedAt(frame.index)
      BY <2>5 DEF SaidOf
    <3> QED
      BY <3>2, <3>3
  <2>6. CASE frame.frame = "message_stop"
    <3> DEFINE queued == (FlushOpenBlocks \o PushUsage) \o <<Stop(why)>>
    <3>1. Queue(queued)
      BY <2>6 DEF Handle, Ignored, EndsWith
    <3>2. queued \in Seq(Items)
      <4>1. why \in Reasons
        BY DEF TypeInv, Reasons
      <4>2. Stop(why) \in Items
        BY <4>1 DEF Stop, Items, EndItems
      <4>3. <<Stop(why)>> \in Seq(Items) /\ FlushOpenBlocks \o PushUsage \in Seq(Items)
        BY <2>0, <4>2, QueuedType
      <4> QED
        BY <4>3, QueuedType
    <3>3. pending' = queued
      <4> HIDE DEF queued
      <4> QED
        BY <1>4, <3>1, <3>2
    <3>4. said = queued
      BY <2>6 DEF SaidOf
    <3> QED
      BY <3>3, <3>4
  <2>7. CASE frame.frame \in {"error", "transport", "eof"}
    <3> DEFINE queued == PushUsage \o <<Err(frame.frame)>>
    <3>1. Queue((<<>> \o PushUsage) \o <<Err(frame.frame)>>)
      BY <2>7 DEF Handle, Ignored, EndsWith
    <3>2. Queue(queued)
      BY <2>0, <3>1
    <3>3. queued \in Seq(Items)
      <4>1. Err(frame.frame) \in Items
        BY <2>7 DEF Items, EndItems
      <4>2. <<Err(frame.frame)>> \in Seq(Items)
        BY <2>0, <4>1
      <4> QED
        BY <2>0, <4>2, QueuedType
    <3>4. pending' = queued
      <4> HIDE DEF queued
      <4> QED
        BY <1>4, <3>2, <3>3
    <3>5. said = queued
      BY <2>7 DEF SaidOf
    <3> QED
      BY <3>4, <3>5
  <2>8. CASE frame.frame = "unparsed"
    <3>1. Queue(<<Err("malformed_event")>>)
      BY <2>8 DEF Handle, Ignored, Unparsed
    <3>2. pending' = <<Err("malformed_event")>>
      BY <2>1, <3>1 DEF Queue
    <3>3. said = <<Err("malformed_event")>>
      BY <2>8 DEF SaidOf
    <3> QED
      BY <3>2, <3>3
  <2>9. CASE frame.frame \in Ignored \cup {"message_start", "message_delta"}
    <3>1. pending' = <<>>
      BY <2>9 DEF Handle, Ignored
    <3>2. said = <<>>
      BY <2>9 DEF SaidOf, Ignored
    <3> QED
      BY <3>1, <3>2
  <2> QED
    <3>1. IsFrame(frame)
      BY FramesAssumption
    <3>2. \/ frame.frame \in {"content_block_start", "content_block_delta", "content_block_stop",
                              "message_start", "message_delta"}
          \/ frame.frame \in Ignored \cup Ending
      BY <3>1 DEF IsFrame
    <3> QED
      BY <2>3, <2>4, <2>5, <2>6, <2>7, <2>8, <2>9, <3>2 DEF Ending
<1> QED
  BY <1>3, <1>5

\* What is held follows a frame that does not end the turn.
LEMMA HandleHolds ==
  ASSUME TypeInv, HeldInv, NEW frame \in Frames, Handle(frame), Grown(frame), ended' = FALSE
  PROVE  HeldInv'
<1> SUFFICES ASSUME NEW p, p = Position
             PROVE  HeldInv'
  OBVIOUS
<1>0. /\ AreOpen(blocks) /\ Accounts(p) /\ usage = Counted(p) /\ reason = ReasonKnown(p)
      /\ p \in Nat
  BY DEF TypeInv, HeldInv, Grown
<1>1. Position' = p + 1
  BY DEF Grown, Position
<1>a. frame.frame \in {"content_block_start", "content_block_delta", "content_block_stop",
                       "message_start", "message_delta"} \cup Ignored
  <2>1. IsFrame(frame)
    BY FramesAssumption
  <2>2. \/ frame.frame \in {"content_block_start", "content_block_delta", "content_block_stop",
                            "message_start", "message_delta"}
        \/ frame.frame \in Ignored \cup Ending
    BY <2>1 DEF IsFrame
  <2>3. frame.frame \notin Ending
    BY DEF Handle, Ignored, Ending, EndsWith, Unparsed
  <2> QED
    BY <2>2, <2>3
<1>2. Accounts(p + 1)' /\ usage' = Counted(p + 1)' /\ reason' = ReasonKnown(p + 1)'
  <2>1. \/ frame.frame = "content_block_start" /\ blocks' = OnStart(frame)
        \/ frame.frame = "content_block_delta" /\ blocks' = OnDelta(frame)
        \/ frame.frame = "content_block_stop" /\ blocks' = Without(frame.index)
        \/ /\ frame.frame \notin {"content_block_start", "content_block_delta", "content_block_stop"}
           /\ blocks' = blocks
    BY <1>a DEF Handle, Ignored
  <2>2. usage' = IF frame.frame \in {"message_start", "message_delta"} THEN Absorb(frame.what)
                 ELSE usage
    BY <1>a DEF Handle, Ignored
  <2>3. reason' = IF frame.frame = "message_delta" /\ frame.stop # Nothing THEN frame.stop
                  ELSE reason
    BY <1>a DEF Handle, Ignored
  <2>4. Accounts(p + 1)'
    BY <1>0, <2>1, AccountsNow
  <2>5. usage' = Counted(p + 1)'
    BY <1>0, <2>2, CountedNow DEF Absorb
  <2>6. reason' = ReasonKnown(p + 1)'
    BY <1>0, <2>3, ReasonNow
  <2> QED
    BY <2>4, <2>5, <2>6
<1> QED
  BY <1>1, <1>2 DEF HeldInv

\* What the frames say, and what is held of them, waits for the next frame.
LEMMA SaidStays ==
  ASSUME seen' = seen
  PROVE  SaidSoFar' = SaidSoFar
<1>1. \A n, index : OpenerOf(n, index)' = OpenerOf(n, index)
  BY DEF OpenerOf, IsStart, IsBlockStop
<1>2. \A k, n, deltas : DeltasIn(k, n, deltas)' = DeltasIn(k, n, deltas)
  BY DEF DeltasIn, IsDelta
<1>3. \A k, n : SaidBy(k, n)' = SaidBy(k, n)
  BY <1>2 DEF SaidBy
<1>4. \A index, n : SaidAtEndOf(index, n)' = SaidAtEndOf(index, n)
  BY <1>1, <1>3 DEF SaidAtEndOf
<1>5. \A n : CountsAt(n)' = CountsAt(n) /\ ReasonAt(n)' = ReasonAt(n)
  BY DEF CountsAt, Counted, ReasonAt, Told
<1>6. \A n : SaidAtTurnEnd(n)' = SaidAtTurnEnd(n)
  BY <1>4 DEF SaidAtTurnEnd
<1>7. ASSUME NEW n PROVE SaidAt(n)' = SaidAt(n)
  <2>1. \A m : m = seen[n].index =>
          SaidAt(n)' = SaidOf(n, seen[n], SaidAtEndOf(m, n)', SaidAtTurnEnd(n)',
                              CountsAt(n)', ReasonAt(n)')
    BY DEF SaidAt, SaidOf, SaidAtTurnEnd, IsStart, IsBlockStop, IsDelta
  <2> QED
    BY <1>4, <1>5, <1>6, <2>1, SaidIs
<1> QED
  BY <1>7 DEF SaidSoFar

LEMMA HeldStays ==
  ASSUME HeldInv, seen' = seen, blocks' = blocks, usage' = usage, reason' = reason
  PROVE  HeldInv'
<1>1. Position' = Position
  BY DEF Position
<1>2. \A n, index : OpenerOf(n, index)' = OpenerOf(n, index)
  BY DEF OpenerOf, IsStart, IsBlockStop
<1>3. \A k, n, deltas : DeltasIn(k, n, deltas)' = DeltasIn(k, n, deltas)
  BY DEF DeltasIn, IsDelta
<1>4. \A k, n : Opened(k, n)' = Opened(k, n)
  BY <1>3 DEF Opened, Fragments
<1>5. \A n : Accounts(n)' <=> Accounts(n)
  BY <1>2, <1>4 DEF Accounts, AccountsAt
<1>6. \A n : Counted(n)' = Counted(n) /\ ReasonKnown(n)' = ReasonKnown(n)
  BY DEF Counted, ReasonKnown, Told
<1> QED
  BY <1>1, <1>5, <1>6 DEF HeldInv

LEMMA NextSays ==
  ASSUME TypeInv, EndInv, TypeInv', FramesInv, [Next]_vars
  PROVE  FramesInv'
<1>0. events \in Seq(Items) /\ pending \in Seq(Items) /\ seen \in Seq(Frames)
  BY DEF TypeInv
<1>1. CASE Receive
  <2>1. PICK frame \in Frames : Handle(frame) /\ seen' = Append(seen, frame)
    BY <1>1 DEF Receive
  <2>2. /\ pending = <<>> /\ ended = FALSE /\ events' = events
        /\ Grown(frame) /\ pending' \in Seq(Items) /\ HeldInv
    BY <1>0, <1>1, <2>1, SeenGrows DEF Receive, TypeInv, FramesInv
  <2>3. SUFFICES ASSUME NEW p \in {Position} PROVE FramesInv'
    OBVIOUS
  <2>4. SaidAt(p)' = pending'
    BY <2>1, <2>2, HandleSays
  <2>5. SaidSoFar' = Append(SaidSoFar, pending')
    <3> DEFINE T == Seq(Items)
               so == SaidSoFar
               more == [n \in 1 .. p |-> SaidAt(n)']
    <3>1. /\ so \in Seq(T) /\ p \in Nat /\ DOMAIN seen = 1 .. (p - 1) /\ DOMAIN seen' = 1 .. p
          /\ \A n \in 1 .. p : n = p \/ n \in 1 .. (p - 1)
          /\ pending' \in T
      BY <2>2 DEF FramesInv, Grown
    <3>2. Len(so) = p - 1 /\ \A n \in 1 .. (p - 1) : so[n] = SaidAt(n)
      <4>1. so = [n \in 1 .. (p - 1) |-> SaidAt(n)] /\ p - 1 \in Nat
        BY <2>2, <3>1 DEF SaidSoFar, Grown
      <4> HIDE DEF so
      <4> QED
        BY <4>1
    <3>3. SaidSoFar' = more
      BY <3>1 DEF SaidSoFar
    <3>4. /\ \A n \in 1 .. (p - 1) : more[n] = so[n]
          /\ more[p] = pending'
      BY <2>2, <2>4, <3>1, <3>2, SaidKept
    <3>5. more = [n \in 1 .. p |-> more[n]]
      OBVIOUS
    <3> HIDE DEF T, so, more
    <3>6. \A n \in 1 .. p : more[n] \in T
      BY <3>1, <3>2, <3>4
    <3>7. more \in Seq(T) /\ Len(more) = p
      BY <3>1, <3>5, <3>6
    <3> DEFINE appended == Append(so, pending')
    <3>8. /\ appended \in Seq(T) /\ Len(appended) = p
          /\ \A n \in 1 .. (p - 1) : appended[n] = so[n]
          /\ appended[p] = pending'
      BY <3>1, <3>2
    <3> HIDE DEF appended
    <3>9. Len(more) = Len(appended) /\ \A n \in 1 .. Len(more) : more[n] = appended[n]
      BY <3>1, <3>4, <3>7, <3>8
    <3>10. more = appended
      BY <3>7, <3>8, <3>9, SeqEqual
    <3> QED
      BY <3>3, <3>10 DEF appended, so
  <2>6. SaidSoFar \in Seq(Seq(Items)) /\ events \o pending = FlattenSeq(SaidSoFar)
    BY DEF FramesInv, EventsAreTheFrames, SaidSoFar
  <2>7. /\ SaidSoFar' \in Seq(Seq(Items))
        /\ FlattenSeq(SaidSoFar') = FlattenSeq(SaidSoFar) \o pending'
    <3>1. FlattenSeq(Append(SaidSoFar, pending')) = FlattenSeq(SaidSoFar) \o pending'
      BY <2>2, <2>6, FlattenAppend
    <3>2. Append(SaidSoFar, pending') \in Seq(Seq(Items))
      <4> DEFINE T == Seq(Items)
      <4>1. SaidSoFar \in Seq(T) /\ pending' \in T
        BY <2>2, <2>6
      <4> HIDE DEF T
      <4>2. Append(SaidSoFar, pending') \in Seq(T)
        BY <4>1
      <4> QED
        BY <4>2 DEF T
    <3> QED
      BY <2>5, <3>1, <3>2
  <2>8. EventsAreTheFrames'
    <3>1. events \o <<>> = events
      BY <1>0
    <3>2. FlattenSeq(SaidSoFar)' = events \o pending'
      BY <2>2, <2>6, <2>7, <3>1
    <3> QED
      BY <2>2, <3>2 DEF EventsAreTheFrames, SaidSoFar
  <2>9. ~ ended' => HeldInv'
    <3>1. ended' \in BOOLEAN
      BY DEF TypeInv
    <3> QED
      BY <2>1, <2>2, <3>1, HandleHolds
  <2> QED
    BY <2>7, <2>8, <2>9 DEF FramesInv
<1>2. CASE Yield
  <2>1. /\ pending # <<>> /\ events' = Append(events, Head(pending)) /\ pending' = Tail(pending)
        /\ seen' = seen /\ blocks' = blocks /\ usage' = usage /\ reason' = reason
        /\ ended' = ended
    BY <1>2 DEF Yield
  <2>2. (events \o pending)' = events \o pending
    <3>1. events \in Seq(Items) /\ pending \in Seq(Items)
      BY <1>0
    <3> HIDE DEF Items
    <3>2. Append(events, Head(pending)) \o Tail(pending) = events \o pending
      BY <2>1, <3>1, YieldMoves
    <3> QED
      BY <2>1, <3>2
  <2>3. SaidSoFar' = SaidSoFar
    BY <2>1, SaidStays
  <2>4. EventsAreTheFrames'
    <3>1. events \o pending = FlattenSeq(SaidSoFar)
      BY DEF FramesInv, EventsAreTheFrames, SaidSoFar
    <3>2. (events \o pending)' = FlattenSeq(SaidSoFar)'
      BY <2>2, <2>3, <3>1
    <3> QED
      BY <3>2 DEF EventsAreTheFrames, SaidSoFar
  <2> QED
    BY <2>1, <2>3, <2>4, HeldStays DEF FramesInv
<1>3. CASE Exhaust \/ UNCHANGED vars
  <2>1. /\ seen' = seen /\ blocks' = blocks /\ usage' = usage /\ reason' = reason
        /\ ended' = ended /\ events' = events /\ pending' = pending
    BY <1>3 DEF Exhaust, vars
  <2>2. SaidSoFar' = SaidSoFar
    BY <2>1, SaidStays
  <2>3. EventsAreTheFrames'
    <3>1. events \o pending = FlattenSeq(SaidSoFar)
      BY DEF FramesInv, EventsAreTheFrames, SaidSoFar
    <3>2. (events \o pending)' = FlattenSeq(SaidSoFar)'
      BY <2>1, <2>2, <3>1
    <3> QED
      BY <3>2 DEF EventsAreTheFrames, SaidSoFar
  <2> QED
    BY <2>1, <2>2, <2>3, HeldStays DEF FramesInv
<1> QED
  BY <1>1, <1>2, <1>3 DEF Next

LEMMA InitSays ==
  ASSUME Init
  PROVE  FramesInv
<1>1. /\ seen = <<>> /\ blocks = <<>> /\ usage = NothingReported /\ reason = Nothing
      /\ events = <<>> /\ pending = <<>> /\ Len(seen) = 0
  BY DEF Init
<1>2. Position = 1 /\ 1 .. (1 - 1) = {}
  BY <1>1 DEF Position
<1>3. SaidSoFar = <<>>
  BY <1>1 DEF SaidSoFar
<1>4. EventsAreTheFrames
  <2>1. FlattenSeq(<<>>) = <<>> /\ <<>> \o <<>> = <<>>
    BY FlattenAppend
  <2> QED
    BY <1>1, <1>3, <2>1 DEF EventsAreTheFrames, SaidSoFar
<1>5. Accounts(1)
  BY <1>1, <1>2 DEF Accounts, AccountsAt, OpenerOf
<1>6. usage = Counted(1)
  <2>1. Max({0}) = 0
    <3>1. {0} \subseteq Int /\ 0 \in {0} /\ \A n \in {0} : n <= 0
      OBVIOUS
    <3> QED
      BY <3>1, MaxIs
  <2>2. \A f \in UsageFields : ReportersOf(1, f) = {}
    BY <1>2 DEF ReportersOf
  <2>3. Counted(1) = [f \in UsageFields |-> Max({0} \cup ReportersOf(1, f))]
    BY DEF Counted, ReportersOf
  <2>4. \A f \in UsageFields : {0} \cup ReportersOf(1, f) = {0}
    BY <2>2
  <2> QED
    BY <1>1, <2>1, <2>3, <2>4 DEF NothingReported
<1>7. reason = ReasonKnown(1)
  BY <1>1, <1>2 DEF ReasonKnown, Told
<1>8. SaidSoFar \in Seq(Seq(Items))
  BY <1>3
<1> QED
  BY <1>2, <1>4, <1>5, <1>6, <1>7, <1>8 DEF FramesInv, HeldInv

\* Whatever frames come and in whatever order, what next_agent_event hands out is what
\* they say: each block once and whole, at its own end or at the turn's, with no delta of
\* another; text and reasoning as they come; the counts last reported, at the end.
THEOREM StreamSaysItsFrames == Spec => []EventsAreTheFrames
<1>1. Init => FramesInv
  BY InitSays
<1>2. (TypeInv /\ EndInv) /\ (TypeInv /\ EndInv)' /\ FramesInv /\ [Next]_vars => FramesInv'
  BY NextSays
<1>3. FramesInv => EventsAreTheFrames
  BY DEF FramesInv
<1> QED
  BY <1>1, <1>2, <1>3, StreamInvariant, PTL DEF Spec

-----------------------------------------------------------------------------
(* The frames' framing: what is held of a line and of an event. *)

\* The bytes buffered, and the lines of the event in progress with their bytes counted.
Buffered ==
  /\ buf \in Seq(Bytes) /\ lines \in Seq(Seq(Bytes))
  /\ scanned \in 0 .. Len(buf) /\ event_bytes \in Nat /\ done \in BOOLEAN
  /\ event_bytes = Len(FlattenSeq(lines))

\* No line feed is passed over.  While there is more to come it waits only with none
\* left and what it holds within the cap; once the bytes are over the only one left
\* is the last byte, and between events nothing is left at all.
Bounded ==
  /\ \A i \in 1 .. scanned : buf[i] # "LF"
  /\ pc = "await" => event_bytes + Len(buf) <= MAX_EVENT_BYTES /\ scanned = Len(buf) /\ ~ done
  /\ pc = "poll" => lines = <<>>
  /\ done => \A i \in 1 .. Len(buf) : buf[i] = "LF" <=> i = Len(buf)
  /\ pc = "poll" /\ done => buf = <<>>
  /\ pc = "exhausted" => done /\ lines = <<>> /\ buf = <<>>

LEMMA FirstLineEnd ==
  ASSUME Buffered, LineEnds # {}
  PROVE  \E end \in 1 .. Len(buf) :
           end = Min(LineEnds) /\ end > scanned /\ buf[end] = "LF"
<1>1. LineEnds \subseteq Nat
  BY DEF LineEnds, Buffered
<1>2. PICK least \in LineEnds : \A n \in LineEnds : least <= n
  BY <1>1, LeastElement
<1>3. Min(LineEnds) \in LineEnds
  BY <1>2 DEF Min
<1>4. ASSUME NEW end \in LineEnds
      PROVE  end \in 1 .. Len(buf) /\ end > scanned /\ buf[end] = "LF"
  BY DEF LineEnds, Buffered
<1> QED
  BY <1>3, <1>4

\* The bytes of a line less its carriage return are bytes, and no more of them.
LEMMA LineTyped ==
  ASSUME NEW line \in Seq(Bytes)
  PROVE  TrimCarriageReturn(line) \in Seq(Bytes)
<1>1. CASE line = <<>>
  BY <1>1 DEF TrimCarriageReturn
<1>2. CASE line # <<>>
  <2>1. Len(line) \in Nat /\ Len(line) >= 1
    BY <1>2
  <2>2. SubSeq(line, 1, Len(line) - 1) \in Seq(Bytes)
    BY <2>1
  <2> QED
    BY <2>2 DEF TrimCarriageReturn, Front
<1> QED
  BY <1>1, <1>2

LEMMA NoLineIsFlat ==
  Len(FlattenSeq(<<>>)) = 0
BY DEF FlattenSeq

\* A line counts with the others of its event.
LEMMA LineCounts ==
  ASSUME Buffered, NEW line \in Seq(Bytes)
  PROVE  /\ Append(lines, line) \in Seq(Seq(Bytes))
         /\ event_bytes + Len(line) = Len(FlattenSeq(Append(lines, line)))
<1>1. /\ FlattenSeq(lines) \in Seq(Bytes)
      /\ FlattenSeq(Append(lines, line)) = FlattenSeq(lines) \o line
  BY FlattenAppend DEF Buffered
<1>2. \A flat \in Seq(Bytes) : Len(flat \o line) = Len(flat) + Len(line)
  OBVIOUS
<1>3. event_bytes = Len(FlattenSeq(lines)) /\ lines \in Seq(Seq(Bytes))
  BY DEF Buffered
<1>4. Append(lines, line) \in Seq(Seq(Bytes))
  BY <1>3
<1> QED
  BY <1>1, <1>2, <1>3, <1>4

LEMMA InitBuffers ==
  ASSUME SseInit
  PROVE  Buffered /\ Bounded
<1>1. /\ pc = "poll" /\ buf = <<>> /\ scanned = 0 /\ done = FALSE
      /\ lines = <<>> /\ event_bytes = 0
  BY DEF SseInit
<1>2. event_bytes = Len(FlattenSeq(lines))
  BY <1>1, NoLineIsFlat
<1>3. <<>> \in Seq(Bytes) /\ <<>> \in Seq(Seq(Bytes)) /\ Len(<<>>) = 0 /\ 0 \in 0 .. 0
  OBVIOUS
<1>4. Buffered
  <2>1. buf \in Seq(Bytes) /\ lines \in Seq(Seq(Bytes)) /\ Len(buf) = 0
    BY <1>1, <1>3, Zenon
  <2>2. scanned \in 0 .. Len(buf) /\ event_bytes \in Nat
    BY <1>1, <2>1
  <2>3. done \in BOOLEAN
    BY <1>1
  <2> QED
    BY <1>2, <2>1, <2>2, <2>3 DEF Buffered
<1>5. Bounded
  BY <1>1 DEF Bounded
<1> QED
  BY <1>4, <1>5

\* What a call hands out, it no longer holds.
LEMMA GiveHoldsNothing ==
  ASSUME NEW item, Give(item)
  PROVE  /\ pc' = "poll" /\ lines' = <<>> /\ event_bytes' = 0
         /\ event_bytes' = Len(FlattenSeq(lines'))
<1>1. pc' = "poll" /\ lines' = <<>> /\ event_bytes' = 0
  BY DEF Give
<1> QED
  BY <1>1, NoLineIsFlat

LEMMA LastGiveHoldsNothing ==
  ASSUME NEW item, Give(item), Ended
  PROVE  Buffered' /\ Bounded'
<1>1. /\ pc' = "poll" /\ lines' = <<>> /\ event_bytes' = 0
      /\ event_bytes' = Len(FlattenSeq(lines'))
  BY GiveHoldsNothing
<1>2. done' = TRUE /\ buf' = <<>> /\ scanned' = 0
  BY DEF Ended
<1> QED
  BY <1>1, <1>2 DEF Buffered, Bounded

LEMMA PollBounded ==
  ASSUME Buffered, Bounded, Poll
  PROVE  Buffered' /\ Bounded'
<1>1. Buffered'
  BY DEF Buffered, Poll
<1>2. Bounded'
  BY DEF Buffered, Bounded, Poll
<1> QED
  BY <1>1, <1>2

\* What a line drains leaves at the buffer: what follows it.
LEMMA DrainBounded ==
  ASSUME Buffered, Bounded, LineEnds # {},
         buf' = SubSeq(buf, Min(LineEnds) + 1, Len(buf)), scanned' = 0,
         done' = done
  PROVE  /\ buf' \in Seq(Bytes) /\ scanned' \in 0 .. Len(buf') /\ done' \in BOOLEAN
         /\ done => buf' = <<>>
<1>1. PICK end \in 1 .. Len(buf) :
        end = Min(LineEnds) /\ end > scanned /\ buf[end] = "LF"
  BY FirstLineEnd
<1>2. buf \in Seq(Bytes) /\ Len(buf) \in Nat /\ done \in BOOLEAN
  BY DEF Buffered
<1>3. buf' = SubSeq(buf, end + 1, Len(buf))
  BY <1>1
<1>4. buf' \in Seq(Bytes) /\ Len(buf') \in Nat
  <2>1. \A bytes \in Seq(Bytes) : \A n \in Nat \ {0} :
          SubSeq(bytes, n, Len(bytes)) \in Seq(Bytes)
    OBVIOUS
  <2>2. end + 1 \in Nat \ {0}
    BY <1>2
  <2>3. buf' \in Seq(Bytes)
    BY <1>2, <1>3, <2>1, <2>2
  <2> QED
    BY <2>3
<1>5. ASSUME done PROVE buf' = <<>>
  <2>1. end = Len(buf)
    BY <1>1, <1>5 DEF Bounded
  <2> QED
    BY <1>2, <1>3, <2>1
<1> QED
  BY <1>2, <1>4, <1>5

LEMMA TakeLineBounded ==
  ASSUME Buffered, Bounded, TakeLine
  PROVE  Buffered' /\ Bounded'
<1> DEFINE end == Min(LineEnds)
           raw == SubSeq(buf, 1, end - 1)
           line == TrimCarriageReturn(raw)
           Drained == buf' = SubSeq(buf, end + 1, Len(buf)) /\ scanned' = 0
<1>1. line \in Seq(Bytes) /\ Len(line) \in Nat
  <2>1. PICK n \in 1 .. Len(buf) : n = end
    BY FirstLineEnd DEF TakeLine
  <2>2. raw \in Seq(Bytes)
    BY <2>1 DEF Buffered
  <2>3. line \in Seq(Bytes)
    BY <2>2, LineTyped
  <2> QED
    BY <2>3
<1>2. pc = "scan" /\ LineEnds # {}
  BY DEF TakeLine
<1>3. \/ Give(Failure("malformed")) /\ Ended
      \/ Drained /\ UNCHANGED <<pc, done, lines, event_bytes, out>>
      \/ /\ Give(Frame(ParseEvent(lines)))
         /\ Drained /\ UNCHANGED done
      \/ /\ lines' = Append(lines, line) /\ event_bytes' = event_bytes + Len(line)
         /\ Drained /\ UNCHANGED <<pc, done, out>>
  BY ZenonT(30) DEF TakeLine
<1> HIDE DEF line
<1>4. CASE Give(Failure("malformed")) /\ Ended
  BY <1>4, LastGiveHoldsNothing
<1>5. ASSUME Drained, UNCHANGED done
      PROVE  /\ buf' \in Seq(Bytes) /\ scanned' \in 0 .. Len(buf') /\ done' \in BOOLEAN
             /\ done => buf' = <<>>
             /\ scanned' = 0
  BY <1>2, <1>5, DrainBounded
<1> HIDE DEF end, Drained
<1>6. CASE Drained /\ UNCHANGED <<pc, done, lines, event_bytes, out>>
  BY <1>2, <1>5, <1>6 DEF Buffered, Bounded
<1>7. CASE /\ Give(Frame(ParseEvent(lines)))
           /\ Drained /\ UNCHANGED done
  <2>1. /\ pc' = "poll" /\ lines' = <<>> /\ event_bytes' = 0
        /\ event_bytes' = Len(FlattenSeq(lines'))
    BY <1>7, GiveHoldsNothing
  <2> QED
    BY <1>2, <1>5, <1>7, <2>1 DEF Buffered, Bounded
<1>8. CASE /\ lines' = Append(lines, line) /\ event_bytes' = event_bytes + Len(line)
           /\ Drained /\ UNCHANGED <<pc, done, out>>
  <2>1. lines' \in Seq(Seq(Bytes)) /\ event_bytes' = Len(FlattenSeq(lines'))
    BY <1>1, <1>8, LineCounts
  <2>2. event_bytes' \in Nat
    BY <1>1, <1>8 DEF Buffered
  <2> QED
    BY <1>2, <1>5, <1>8, <2>1, <2>2 DEF Buffered, Bounded
<1> QED
  BY <1>3, <1>4, <1>6, <1>7, <1>8

LEMMA OutOfLinesBounded ==
  ASSUME Buffered, Bounded, OutOfLines
  PROVE  Buffered' /\ Bounded'
<1>1. pc = "scan" /\ Len(buf) \in Nat /\ \A i \in 1 .. Len(buf) : buf[i] # "LF"
  <2>1. pc = "scan" /\ LineEnds = {}
    BY DEF OutOfLines
  <2>2. /\ Len(buf) \in Nat /\ scanned \in 0 .. Len(buf)
        /\ \A i \in 1 .. scanned : buf[i] # "LF"
    BY DEF Buffered, Bounded
  <2>3. \A i \in scanned + 1 .. Len(buf) : buf[i] # "LF"
    BY <2>1 DEF LineEnds
  <2>4. \A i \in 1 .. Len(buf) : i \in 1 .. scanned \/ i \in scanned + 1 .. Len(buf)
    BY <2>2
  <2> QED
    BY <2>1, <2>2, <2>3, <2>4
<1>2. done => buf = <<>>
  <2>1. done => Len(buf) = 0
    BY <1>1 DEF Bounded
  <2> QED
    BY <2>1 DEF Buffered
<1>3. CASE Give(Failure("malformed")) /\ Ended
  BY <1>3, LastGiveHoldsNothing
<1>4. CASE /\ ~ TooLong /\ ~ done
           /\ pc' = "await" /\ scanned' = Len(buf)
           /\ UNCHANGED <<buf, done, lines, event_bytes, out>>
  BY <1>1, <1>4, CapAssumption DEF TooLong, Buffered, Bounded
<1>5. CASE /\ done /\ lines = <<>>
           /\ pc' = "exhausted" /\ scanned' = Len(buf)
           /\ UNCHANGED <<buf, done, lines, event_bytes, out>>
  BY <1>1, <1>2, <1>5 DEF Buffered, Bounded
<1>6. CASE /\ done
           /\ Give(Frame(ParseEvent(lines)))
           /\ scanned' = Len(buf)
           /\ UNCHANGED <<buf, done>>
  <2>1. /\ pc' = "poll" /\ lines' = <<>> /\ event_bytes' = 0
        /\ event_bytes' = Len(FlattenSeq(lines'))
    BY <1>6, GiveHoldsNothing
  <2> QED
    BY <1>1, <1>2, <1>6, <2>1 DEF Buffered, Bounded
<1> QED
  BY <1>3, <1>4, <1>5, <1>6 DEF OutOfLines

LEMMA ChunkArrivesBounded ==
  ASSUME Buffered, Bounded, ChunkArrives
  PROVE  Buffered' /\ Bounded'
<1>1. PICK n \in 1 .. MaxChunk : \E chunk \in [1 .. n -> Bytes] : buf' = buf \o chunk
  <2>1. \E n \in 1 .. MaxChunk : \E chunk \in [1 .. n -> Bytes] :
          /\ Len(sent) + n <= MaxBytes
          /\ sent' = sent \o chunk
          /\ buf' = buf \o chunk
    BY Zenon DEF ChunkArrives
  <2> QED
    BY <2>1, Zenon
<1>2. PICK chunk \in [1 .. n -> Bytes] : buf' = buf \o chunk
  BY <1>1
<1>3. chunk \in Seq(Bytes)
  BY <1>1, ChunkAssumption
<1>4. /\ pc = "await" /\ pc' = "scan"
      /\ UNCHANGED <<closed, scanned, done, lines, event_bytes, out>>
  BY DEF ChunkArrives
<1>5. /\ buf' \in Seq(Bytes) /\ Len(buf') = Len(buf) + Len(chunk) /\ Len(chunk) \in Nat
      /\ \A i \in 1 .. Len(buf) : buf'[i] = buf[i]
  BY <1>2, <1>3 DEF Buffered
<1>6. Buffered'
  BY <1>4, <1>5 DEF Buffered
<1>7. Bounded'
  BY <1>4, <1>5 DEF Buffered, Bounded
<1> QED
  BY <1>6, <1>7

LEMMA BytesEndBounded ==
  ASSUME Buffered, Bounded, BytesEnd
  PROVE  Buffered' /\ Bounded'
<1>1. /\ pc = "await" /\ pc' = "scan" /\ done' = TRUE
      /\ buf' = IF buf = <<>> THEN <<>> ELSE Append(buf, "LF")
      /\ UNCHANGED <<sent, scanned, lines, event_bytes, out>>
  BY DEF BytesEnd, TerminateTail
<1>2. \A i \in 1 .. Len(buf) : buf[i] # "LF"
  BY <1>1 DEF Bounded
<1>3. CASE buf = <<>>
  BY <1>1, <1>3 DEF Buffered, Bounded
<1>4. CASE buf # <<>>
  <2>1. "LF" \in Bytes
    BY DEF Bytes
  <2>2. /\ buf' \in Seq(Bytes) /\ Len(buf') = Len(buf) + 1 /\ Len(buf) \in Nat
        /\ \A i \in 1 .. Len(buf) : buf'[i] = buf[i]
        /\ buf'[Len(buf) + 1] = "LF"
    BY <1>1, <1>4, <2>1 DEF Buffered
  <2>3. \A i \in 1 .. Len(buf') : buf'[i] = "LF" <=> i = Len(buf')
    BY <1>2, <2>2
  <2>4. Buffered'
    BY <1>1, <2>2 DEF Buffered
  <2> QED
    BY <1>1, <2>2, <2>3, <2>4 DEF Buffered, Bounded
<1> QED
  BY <1>3, <1>4

\* What holds of the buffers between any two steps.
LEMMA BuffersBounded == SseSpec => [](Buffered /\ Bounded)
<1>1. SseInit => Buffered /\ Bounded
  BY InitBuffers
<1>2. Buffered /\ Bounded /\ [SseNext]_sse_vars => Buffered' /\ Bounded'
  <2> SUFFICES ASSUME Buffered, Bounded, [SseNext]_sse_vars
               PROVE  Buffered' /\ Bounded'
    OBVIOUS
  <2>1. CASE Poll
    BY <2>1, PollBounded
  <2>2. CASE TakeLine
    BY <2>2, TakeLineBounded
  <2>3. CASE OutOfLines
    BY <2>3, OutOfLinesBounded
  <2>4. CASE ChunkArrives
    BY <2>4, ChunkArrivesBounded
  <2>5. CASE ReadFails
    BY <2>5, LastGiveHoldsNothing DEF ReadFails
  <2>6. CASE BytesEnd
    BY <2>6, BytesEndBounded
  <2>7. CASE UNCHANGED sse_vars
    BY <2>7 DEF sse_vars, Buffered, Bounded
  <2> QED
    BY <2>1, <2>2, <2>3, <2>4, <2>5, <2>6, <2>7 DEF SseNext
<1> QED
  BY <1>1, <1>2, PTL DEF SseSpec

\* While tokenize waits for a sender that never ends a line or an event, the lines held
\* and the bytes buffered stay within the cap together, however the bytes were cut;
\* after the last item, nothing is held (lib.rs, tokenize and its step).
THEOREM FramingBoundsMemory == SseSpec => []MemoryBounded
<1>1. Buffered /\ Bounded => MemoryBounded
  BY DEF Buffered, Bounded, MemoryBounded
<1> QED
  BY <1>1, BuffersBounded, PTL

-----------------------------------------------------------------------------
(* What is picked of a longer sequence. *)

LEMMA FunctionIsSequence ==
  ASSUME NEW T, NEW n \in Nat, NEW f \in [1 .. n -> T]
  PROVE  f \in Seq(T) /\ Len(f) = n
OBVIOUS

IsOneMore(long, short, n) ==
  long = [i \in 1 .. n + 1 |-> long[i]] /\ short = [i \in 1 .. n |-> long[i]]

\* One element more is picked or it is not.
LEMMA PickedOneMore ==
  ASSUME NEW n \in Nat, NEW long, NEW short, NEW kept, NEW keep, IsOneMore(long, short, n),
         \A i \in 1 .. n : i \in kept <=> i \in keep
  PROVE  Picked(long, keep)
           = IF n + 1 \in keep THEN Append(Picked(short, kept), long[n + 1]) ELSE Picked(short, kept)
<1> DEFINE T == {long[i] : i \in 1 .. n + 1}
           last == long[n + 1]
<1>1. short \in Seq(T) /\ Len(short) = n /\ last \in T
  <2>1. \A i \in 1 .. n : long[i] \in T
    OBVIOUS
  <2>2. last \in T
    OBVIOUS
  <2> HIDE DEF T, last
  <2>3. short \in [1 .. n -> T]
    BY <2>1 DEF IsOneMore
  <2> QED
    BY <2>2, <2>3, FunctionIsSequence
<1>2. \A i \in 1 .. Len(short) : i \in kept <=> i \in keep
  BY <1>1
<1>3. long = Append(short, last)
  <2> DEFINE more == Append(short, last)
  <2>1. long \in Seq(T) /\ Len(long) = n + 1
    <3>1. \A i \in 1 .. n + 1 : long[i] \in T
      OBVIOUS
    <3> HIDE DEF T
    <3>2. long \in [1 .. n + 1 -> T]
      BY <3>1 DEF IsOneMore
    <3> QED
      BY <3>2, FunctionIsSequence
  <2>2. more \in Seq(T) /\ Len(more) = n + 1
    <3> HIDE DEF T, last
    <3> QED
      BY <1>1
  <2>3. \A i \in 1 .. n + 1 : long[i] = more[i]
    <3>1. \A i \in 1 .. n : short[i] = long[i]
      BY DEF IsOneMore
    <3> HIDE DEF T
    <3> QED
      BY <1>1, <3>1
  <2> HIDE DEF T, more, last
  <2>4. long = more
    BY <2>1, <2>2, <2>3, SeqEqual
  <2> QED
    BY <2>4 DEF more
<1> HIDE DEF T, last
<1>4. Picked(Append(short, last), keep)
        = IF Len(short) + 1 \in keep THEN Append(Picked(short, kept), last) ELSE Picked(short, kept)
  BY <1>1, <1>2, PickedAppend
<1> QED
  BY <1>1, <1>3, <1>4, Zenon DEF last

LEMMA PickedNothing ==
  ASSUME NEW keep
  PROVE  Picked(<<>>, keep) = <<>>
BY DEF Picked

\* Parts of a sequence with one element more.
LEMMA PartsOfMore ==
  ASSUME NEW T, NEW seq \in Seq(T), NEW last \in T, NEW a \in 1 .. Len(seq) + 1
  PROVE  /\ \A i \in 0 .. Len(seq) : SubSeq(Append(seq, last), a, i) = SubSeq(seq, a, i)
         /\ SubSeq(Append(seq, last), a, Len(seq) + 1) = Append(SubSeq(seq, a, Len(seq)), last)
<1> DEFINE more == Append(seq, last)
           n == Len(seq)
<1>1. /\ more \in Seq(T) /\ n \in Nat /\ Len(more) = n + 1
      /\ \A i \in 1 .. n : more[i] = seq[i]
      /\ more[n + 1] = last
  OBVIOUS
<1> HIDE DEF more
<1>2. ASSUME NEW i \in 0 .. n PROVE SubSeq(more, a, i) = SubSeq(seq, a, i)
  BY <1>1
<1>3. SubSeq(more, a, n + 1) = Append(SubSeq(seq, a, n), last)
  <2> DEFINE part == SubSeq(seq, a, n)
             longer == SubSeq(more, a, n + 1)
             size == n + 1 - a
  <2>1. /\ part \in Seq(T) /\ Len(part) = size /\ size \in Nat
        /\ \A i \in 1 .. size : part[i] = seq[a + i - 1]
    BY <1>1
  <2>2. /\ longer \in Seq(T) /\ Len(longer) = size + 1
        /\ \A i \in 1 .. size + 1 : longer[i] = more[a + i - 1]
    BY <1>1
  <2>3. \A i \in 1 .. size : longer[i] = part[i]
    BY <1>1, <2>1, <2>2
  <2>4. longer[size + 1] = last
    BY <1>1, <2>1, <2>2
  <2> HIDE DEF part, longer, size
  <2>5. /\ Append(part, last) \in Seq(T) /\ Len(Append(part, last)) = size + 1
        /\ \A i \in 1 .. size + 1 : Append(part, last)[i] = IF i = size + 1 THEN last ELSE part[i]
    BY <2>1
  <2>6. \A i \in 1 .. size + 1 : longer[i] = Append(part, last)[i]
    BY <2>1, <2>3, <2>4, <2>5
  <2>7. longer = Append(part, last)
    BY <2>2, <2>5, <2>6, SeqEqual
  <2> QED
    BY <2>7 DEF part, longer
<1> QED
  BY <1>2, <1>3 DEF more

-----------------------------------------------------------------------------
(* Events of lines. *)

\* The last blank line of the first i is the m-th, or m is 0 and there is none.
IsBlankBefore(ls, m, i) ==
  m \in 0 .. i /\ (m = 0 \/ ls[m] = <<>>) /\ \A b \in m + 1 .. i : ls[b] # <<>>

LEMMA BlankBefore ==
  ASSUME NEW ls, NEW i \in Nat
  PROVE  \E m \in 0 .. i : IsBlankBefore(ls, m, i)
<1> DEFINE S == {0} \cup {b \in 1 .. i : ls[b] = <<>>}
<1>1. S \subseteq Int /\ S # {} /\ i \in Int /\ \A n \in S : n <= i
  OBVIOUS
<1>2. PICK m \in S : \A n \in S : n <= m
  <2> HIDE DEF S
  <2> QED
    BY <1>1, GreatestElement
<1>3. m \in 0 .. i /\ (m = 0 \/ ls[m] = <<>>)
  OBVIOUS
<1>4. ASSUME NEW b \in m + 1 .. i PROVE ls[b] # <<>>
  <2>1. b \in 1 .. i /\ ~ (b <= m)
    BY <1>3
  <2> QED
    BY <1>2, <2>1
<1> QED
  BY <1>3, <1>4 DEF IsBlankBefore

LEMMA EventToIs ==
  ASSUME NEW ls, NEW i \in Nat, NEW m \in 0 .. i, IsBlankBefore(ls, m, i)
  PROVE  EventTo(ls, i) = SubSeq(ls, m + 1, i)
<1> DEFINE S == {0} \cup {b \in 1 .. i : ls[b] = <<>>}
<1>1. S \subseteq Int /\ m \in S
  BY DEF IsBlankBefore
<1>2. ASSUME NEW n \in S PROVE n <= m
  BY DEF IsBlankBefore
<1>3. Max(S) = m
  <2> HIDE DEF S
  <2> QED
    BY <1>1, <1>2, MaxIs
<1> QED
  BY <1>3, Zenon DEF EventTo

LEMMA EventToType ==
  ASSUME NEW T, NEW ls \in Seq(T), NEW i \in 0 .. Len(ls)
  PROVE  EventTo(ls, i) \in Seq(T)
<1>0. i \in Nat
  OBVIOUS
<1>1. PICK m \in 0 .. i : IsBlankBefore(ls, m, i)
  BY <1>0, BlankBefore
<1>2. SubSeq(ls, m + 1, i) \in Seq(T)
  OBVIOUS
<1>3. EventTo(ls, i) = SubSeq(ls, m + 1, i)
  BY <1>0, <1>1, EventToIs
<1> QED
  BY <1>2, <1>3

\* Lines that follow leave the events up to here alone.
LEMMA EventStays ==
  ASSUME NEW T, NEW ls \in Seq(T), NEW l \in T, NEW i \in 0 .. Len(ls)
  PROVE  EventTo(Append(ls, l), i) = EventTo(ls, i)
<1> DEFINE more == Append(ls, l)
<1>0. i \in Nat
  OBVIOUS
<1>1. PICK m \in 0 .. i : IsBlankBefore(ls, m, i)
  BY <1>0, BlankBefore
<1>2. \A n \in 1 .. Len(ls) : more[n] = ls[n]
  OBVIOUS
<1> HIDE DEF more
<1>3. IsBlankBefore(more, m, i)
  BY <1>1, <1>2 DEF IsBlankBefore
<1>4. EventTo(ls, i) = SubSeq(ls, m + 1, i) /\ EventTo(more, i) = SubSeq(more, m + 1, i)
  BY <1>0, <1>1, <1>3, EventToIs
<1>5. SubSeq(more, m + 1, i) = SubSeq(ls, m + 1, i)
  BY PartsOfMore DEF more
<1> QED
  BY <1>4, <1>5 DEF more

\* The lines of the event in progress.
Run(ls) == EventTo(ls, Len(ls))

LEMMA RunIs ==
  ASSUME NEW T, NEW ls \in Seq(T), NEW l \in T
  PROVE  /\ Run(<<>>) = <<>>
         /\ Run(ls) \in Seq(T)
         /\ Run(Append(ls, l)) = IF l = <<>> THEN <<>> ELSE Append(Run(ls), l)
         /\ Run(Append(ls, l)) = <<>> <=> l = <<>>
<1> DEFINE more == Append(ls, l)
           n == Len(ls)
<1>0. /\ n \in Nat /\ more \in Seq(T) /\ Len(more) = n + 1
      /\ more[n + 1] = l /\ \A i \in 1 .. n : more[i] = ls[i]
  OBVIOUS
<1> HIDE DEF more
<1>1. Run(<<>>) = <<>>
  <2>1. Run(<<>>) = SubSeq(<<>>, 1, 0)
    <3>1. IsBlankBefore(<<>>, 0, 0)
      BY DEF IsBlankBefore
    <3>2. Len(<<>>) = 0 /\ 0 + 1 = 1 /\ 0 \in 0 .. 0 /\ 0 \in Nat
      OBVIOUS
    <3>3. EventTo(<<>>, 0) = SubSeq(<<>>, 0 + 1, 0)
      BY <3>1, <3>2, EventToIs
    <3> QED
      BY <3>2, <3>3 DEF Run
  <2> QED
    BY <2>1
<1>2. Run(ls) \in Seq(T)
  BY <1>0, EventToType DEF Run
<1>3. CASE l = <<>>
  <2>1. IsBlankBefore(more, n + 1, n + 1)
    BY <1>0, <1>3 DEF IsBlankBefore
  <2>2. EventTo(more, n + 1) = SubSeq(more, n + 1 + 1, n + 1)
    BY <1>0, <2>1, EventToIs
  <2>3. SubSeq(more, n + 1 + 1, n + 1) = <<>>
    BY <1>0
  <2>4. Run(more) = <<>>
    BY <1>0, <2>2, <2>3 DEF Run
  <2> QED
    BY <1>1, <1>2, <1>3, <2>4 DEF more
<1>4. CASE l # <<>>
  <2>1. PICK m \in 0 .. n : IsBlankBefore(ls, m, n)
    BY <1>0, BlankBefore
  <2>2. IsBlankBefore(more, m, n + 1)
    BY <1>0, <1>4, <2>1 DEF IsBlankBefore
  <2>3. EventTo(ls, n) = SubSeq(ls, m + 1, n) /\ EventTo(more, n + 1) = SubSeq(more, m + 1, n + 1)
    BY <1>0, <2>1, <2>2, EventToIs
  <2>4. SubSeq(more, m + 1, n + 1) = Append(SubSeq(ls, m + 1, n), l)
    <3>1. m + 1 \in 1 .. n + 1
      BY <1>0
    <3> QED
      BY <3>1, PartsOfMore DEF more
  <2>5. Run(more) = Append(Run(ls), l)
    BY <1>0, <2>3, <2>4, Zenon DEF Run
  <2>6. \A run \in Seq(T) : Append(run, l) # <<>>
    OBVIOUS
  <2>7. Append(Run(ls), l) # <<>>
    BY <1>2, <2>6
  <2> QED
    BY <1>1, <1>2, <1>4, <2>5, <2>7, Zenon DEF more
<1> QED
  BY <1>3, <1>4

LEMMA FrontAndLast ==
  ASSUME NEW T, NEW ls \in Seq(T), ls # <<>>
  PROVE  \E front \in Seq(T), l \in T :
           /\ ls = Append(front, l) /\ Len(front) = Len(ls) - 1 /\ l = ls[Len(ls)]
           /\ front = SubSeq(ls, 1, Len(ls) - 1)
<1> DEFINE n == Len(ls)
           front == SubSeq(ls, 1, n - 1)
           l == ls[n]
<1>1. n \in Nat \ {0}
  OBVIOUS
<1>2. front \in Seq(T) /\ l \in T /\ Len(front) = n - 1 /\ \A i \in 1 .. n - 1 : front[i] = ls[i]
  <2>1. n - 1 \in Nat /\ n - 1 <= Len(ls) /\ l \in T
    BY <1>1
  <2>2. \A k \in Nat : k <= Len(ls) =>
          /\ SubSeq(ls, 1, k) \in Seq(T) /\ Len(SubSeq(ls, 1, k)) = k
          /\ \A i \in 1 .. k : SubSeq(ls, 1, k)[i] = ls[i]
    OBVIOUS
  <2> HIDE DEF n, l
  <2> QED
    BY <2>1, <2>2 DEF front
<1> HIDE DEF front
<1>3. /\ Append(front, l) \in Seq(T) /\ Len(Append(front, l)) = n
      /\ \A i \in 1 .. n : Append(front, l)[i] = ls[i]
  BY <1>1, <1>2
<1>4. ls = Append(front, l)
  BY <1>3, SeqEqual
<1> QED
  BY <1>2, <1>4 DEF front

LEMMA RunEnds ==
  ASSUME NEW T, NEW ls \in Seq(T), ls # <<>>
  PROVE  Run(ls) = <<>> <=> ls[Len(ls)] = <<>>
<1>1. PICK front \in Seq(T), l \in T : ls = Append(front, l) /\ l = ls[Len(ls)]
  BY FrontAndLast
<1>2. Run(Append(front, l)) = <<>> <=> l = <<>>
  BY RunIs, ZenonT(30)
<1> QED
  BY <1>1, <1>2

\* Where the events end, without a line more and with it, and if nothing follows.
LEMMA EventEndsAre ==
  ASSUME NEW T, NEW ls \in Seq(T), NEW l \in T, NEW n \in Nat, n = Len(ls)
  PROVE  /\ n + 1 \notin EventEnds(Append(ls, l), FALSE)
         /\ n \notin EventEnds(ls, FALSE)
         /\ \A i \in 1 .. n - 1 : /\ i \in EventEnds(ls, FALSE) <=> i \in EventEnds(Append(ls, l), FALSE)
                                  /\ i \in EventEnds(ls, FALSE) <=> i \in EventEnds(ls, TRUE)
         /\ n # 0 => /\ n \in EventEnds(Append(ls, l), FALSE) <=> Run(ls) # <<>> /\ l = <<>>
                     /\ n \in EventEnds(ls, TRUE) <=> Run(ls) # <<>>
<1> DEFINE more == Append(ls, l)
<1>1. /\ more \in Seq(T) /\ Len(more) = n + 1 /\ DOMAIN more = 1 .. n + 1 /\ DOMAIN ls = 1 .. n
      /\ more[n + 1] = l /\ \A i \in 1 .. n : more[i] = ls[i]
  OBVIOUS
<1> HIDE DEF more
<1>2. n # 0 => (Run(ls) # <<>> <=> ls[n] # <<>>)
  BY RunEnds
<1>3. ASSUME NEW i \in 1 .. n - 1
      PROVE  /\ i \in EventEnds(ls, FALSE) <=> i \in EventEnds(more, FALSE)
             /\ i \in EventEnds(ls, FALSE) <=> i \in EventEnds(ls, TRUE)
  <2>1. i # n /\ i # n + 1 /\ i \in 1 .. n /\ i + 1 \in 1 .. n /\ i \in 1 .. n + 1
    OBVIOUS
  <2>2. more[i] = ls[i] /\ more[i + 1] = ls[i + 1]
    BY <1>1, <2>1
  <2> QED
    BY <1>1, <2>1, <2>2 DEF EventEnds
<1>4. n + 1 \notin EventEnds(more, FALSE) /\ n \notin EventEnds(ls, FALSE)
  BY <1>1 DEF EventEnds
<1>5. ASSUME n # 0
      PROVE  /\ n \in EventEnds(more, FALSE) <=> Run(ls) # <<>> /\ l = <<>>
             /\ n \in EventEnds(ls, TRUE) <=> Run(ls) # <<>>
  <2>1. n \in 1 .. n /\ n \in 1 .. n + 1 /\ n # n + 1
    BY <1>5
  <2>2. more[n] = ls[n]
    BY <1>1, <2>1
  <2> QED
    BY <1>1, <1>2, <1>5, <2>1, <2>2 DEF EventEnds
<1> QED
  BY <1>3, <1>4, <1>5 DEF more

\* A blank line ends the event in progress, and so does the end of the lines; nothing
\* else says anything.
LEMMA SaidMore ==
  ASSUME NEW T, NEW ls \in Seq(T), NEW l \in T
  PROVE  /\ SaidIn(<<>>, FALSE) = <<>>
         /\ SaidIn(Append(ls, l), FALSE)
              = IF l = <<>> /\ Run(ls) # <<>> THEN Append(SaidIn(ls, FALSE), ParseEvent(Run(ls)))
                ELSE SaidIn(ls, FALSE)
         /\ SaidIn(ls, TRUE)
              = IF Run(ls) # <<>> THEN Append(SaidIn(ls, FALSE), ParseEvent(Run(ls)))
                ELSE SaidIn(ls, FALSE)
<1> DEFINE n == Len(ls)
           more == Append(ls, l)
           all == [i \in 1 .. n |-> ParseEvent(EventTo(ls, i))]
           longer == [i \in 1 .. n + 1 |-> ParseEvent(EventTo(more, i))]
           ends == EventEnds(ls, FALSE)
           after == EventEnds(more, FALSE)
           last == EventEnds(ls, TRUE)
<1>0. n \in Nat /\ Len(more) = n + 1
  OBVIOUS
<1>1. \A i \in 1 .. n : all[i] = longer[i]
  <2>1. ASSUME NEW i \in 1 .. n PROVE EventTo(more, i) = EventTo(ls, i)
    <3>1. i \in 0 .. Len(ls)
      OBVIOUS
    <3> QED
      BY <3>1, EventStays
  <2> HIDE DEF more
  <2> QED
    BY <2>1
<1>2. /\ SaidIn(more, FALSE) = Picked(longer, after)
      /\ SaidIn(ls, FALSE) = Picked(all, ends)
      /\ SaidIn(ls, TRUE) = Picked(all, last)
  BY <1>0, Zenon DEF SaidIn
<1>3. /\ n + 1 \notin after /\ n \notin ends
      /\ \A i \in 1 .. n - 1 : (i \in ends <=> i \in after) /\ (i \in ends <=> i \in last)
      /\ n # 0 => (n \in after <=> Run(ls) # <<>> /\ l = <<>>) /\ (n \in last <=> Run(ls) # <<>>)
  BY <1>0, EventEndsAre
<1>4. IsOneMore(longer, all, n) /\ all = [i \in 1 .. n |-> all[i]]
  <2>1. all = [i \in 1 .. n |-> all[i]]
    OBVIOUS
  <2>2. longer = [i \in 1 .. n + 1 |-> longer[i]]
    OBVIOUS
  <2> HIDE DEF all, longer
  <2> QED
    BY <1>1, <2>1, <2>2 DEF IsOneMore
<1>5. n # 0 => all[n] = ParseEvent(Run(ls))
  BY <1>0 DEF Run
<1>6. SaidIn(<<>>, FALSE) = <<>>
  <2>1. Len(<<>>) = 0 /\ [i \in 1 .. 0 |-> ParseEvent(EventTo(<<>>, i))] = <<>>
    OBVIOUS
  <2>2. SaidIn(<<>>, FALSE) = Picked(<<>>, EventEnds(<<>>, FALSE))
    BY <2>1, Zenon DEF SaidIn
  <2> QED
    BY <2>2, PickedNothing
<1>7. n = 0 => ls = <<>> /\ all = <<>>
  OBVIOUS
<1> HIDE DEF all, longer, ends, after, last, more, n
<1>8. Picked(longer, after) = Picked(all, after)
  BY <1>0, <1>3, <1>4, PickedOneMore
<1>9. CASE n = 0
  <2>1. Run(ls) = <<>> /\ all = <<>>
    BY <1>7, <1>9, RunIs
  <2>2. Picked(all, after) = <<>> /\ Picked(all, ends) = <<>> /\ Picked(all, last) = <<>>
    BY <2>1, PickedNothing
  <2> QED
    BY <1>2, <1>6, <1>8, <2>1, <2>2 DEF more
<1>10. CASE n # 0
  <2> DEFINE m == n - 1
             before == [i \in 1 .. m |-> all[i]]
  <2>1. m \in Nat /\ m + 1 = n
    BY <1>0, <1>10
  <2>3. /\ m + 1 \notin ends
        /\ \A i \in 1 .. m : (i \in ends <=> i \in after) /\ (i \in ends <=> i \in last)
        /\ (m + 1 \in after <=> Run(ls) # <<>> /\ l = <<>>) /\ (m + 1 \in last <=> Run(ls) # <<>>)
    BY <1>3, <1>10, <2>1
  <2>4. IsOneMore(all, before, m)
    BY <1>4, <2>1 DEF IsOneMore
  <2> HIDE DEF m, before
  <2>5. Picked(all, ends) = Picked(before, ends)
    BY <2>1, <2>3, <2>4, PickedOneMore
  <2>6. Picked(all, after) = IF m + 1 \in after THEN Append(Picked(before, ends), all[m + 1])
                             ELSE Picked(before, ends)
    BY <2>1, <2>3, <2>4, PickedOneMore
  <2>7. Picked(all, last) = IF m + 1 \in last THEN Append(Picked(before, ends), all[m + 1])
                            ELSE Picked(before, ends)
    BY <2>1, <2>3, <2>4, PickedOneMore
  <2>8. all[m + 1] = ParseEvent(Run(ls))
    BY <1>5, <1>10, <2>1
  <2> QED
    BY <1>2, <1>6, <1>8, <2>3, <2>5, <2>6, <2>7, <2>8 DEF more
<1> QED
  BY <1>9, <1>10

LEMMA PrefixMore ==
  ASSUME NEW T, NEW s \in Seq(T), NEW x \in T
  PROVE  IsPrefix(s, s) /\ IsPrefix(s, Append(s, x))
<1>1. SubSeq(s, 1, Len(s)) = SubSeq(Append(s, x), 1, Len(s))
  <2>1. 1 \in 1 .. Len(s) + 1 /\ Len(s) \in 0 .. Len(s)
    OBVIOUS
  <2> QED
    BY <2>1, PartsOfMore
<1>2. Len(s) <= Len(s) /\ Len(s) <= Len(Append(s, x))
  OBVIOUS
<1> QED
  BY <1>1, <1>2, Zenon DEF IsPrefix

LEMMA PrefixIs ==
  ASSUME NEW T, NEW s \in Seq(T), NEW t \in Seq(T)
  PROVE  IsPrefix(s, t) <=> Len(s) <= Len(t) /\ \A i \in 1 .. Len(s) : s[i] = t[i]
<1> DEFINE n == Len(s)
           front == SubSeq(s, 1, n)
           part == SubSeq(t, 1, n)
<1>1. n \in Nat /\ front \in Seq(T) /\ Len(front) = n /\ \A i \in 1 .. n : front[i] = s[i]
  OBVIOUS
<1>2. n <= Len(t) => part \in Seq(T) /\ Len(part) = n /\ \A i \in 1 .. n : part[i] = t[i]
  OBVIOUS
<1>3. IsPrefix(s, t) <=> n <= Len(t) /\ front = part
  BY Zenon DEF IsPrefix
<1> HIDE DEF n, front, part
<1>4. CASE n <= Len(t) /\ \A i \in 1 .. n : s[i] = t[i]
  <2>1. \A i \in 1 .. n : front[i] = part[i]
    BY <1>1, <1>2, <1>4
  <2>2. front = part
    BY <1>1, <1>2, <1>4, <2>1, SeqEqual
  <2> QED
    BY <1>3, <1>4, <2>2 DEF n
<1>5. CASE ~ (n <= Len(t) /\ \A i \in 1 .. n : s[i] = t[i])
  BY <1>1, <1>2, <1>3, <1>5 DEF n
<1> QED
  BY <1>4, <1>5

LEMMA PrefixOfPrefix ==
  ASSUME NEW T, NEW s \in Seq(T), NEW t \in Seq(T), NEW u \in Seq(T), IsPrefix(s, t), IsPrefix(t, u)
  PROVE  IsPrefix(s, u)
<1>1. Len(s) <= Len(t) /\ \A i \in 1 .. Len(s) : s[i] = t[i]
  BY PrefixIs
<1>2. Len(t) <= Len(u) /\ \A i \in 1 .. Len(t) : t[i] = u[i]
  BY PrefixIs
<1>3. Len(s) \in Nat /\ Len(t) \in Nat /\ Len(u) \in Nat
  OBVIOUS
<1>4. Len(s) <= Len(u) /\ \A i \in 1 .. Len(s) : s[i] = u[i]
  BY <1>1, <1>2, <1>3
<1> QED
  BY <1>4, PrefixIs

\* What an event may hand out.
Payloads == {ParseEvent(event) : event \in Seq(Seq(Bytes))}

LEMMA SaidType ==
  ASSUME NEW ls \in Seq(Seq(Bytes)), NEW over \in BOOLEAN
  PROVE  SaidIn(ls, over) \in Seq(Payloads)
<1> DEFINE all == [i \in 1 .. Len(ls) |-> ParseEvent(EventTo(ls, i))]
<1>1. ASSUME NEW i \in 1 .. Len(ls) PROVE ParseEvent(EventTo(ls, i)) \in Payloads
  <2>1. EventTo(ls, i) \in Seq(Seq(Bytes))
    <3>1. i \in 0 .. Len(ls)
      OBVIOUS
    <3> HIDE DEF Bytes
    <3> QED
      BY <3>1, EventToType
  <2> QED
    BY <2>1 DEF Payloads
<1>2. Len(ls) \in Nat
  OBVIOUS
<1>3. all \in [1 .. Len(ls) -> Payloads]
  BY <1>1
<1>4. all \in Seq(Payloads)
  BY <1>2, <1>3, FunctionIsSequence
<1>5. SaidIn(ls, over) = Picked(all, EventEnds(ls, over))
  BY Zenon DEF SaidIn
<1> HIDE DEF all
<1>6. Picked(all, EventEnds(ls, over)) \in Seq(Payloads)
  BY <1>4, PickedElements
<1> QED
  BY <1>5, <1>6

LEMMA PartGrows ==
  ASSUME NEW T, NEW ls \in Seq(T), NEW n \in Nat, n < Len(ls)
  PROVE  /\ SubSeq(ls, 1, n) \in Seq(T) /\ Len(SubSeq(ls, 1, n)) = n
         /\ ls[n + 1] \in T
         /\ SubSeq(ls, 1, n + 1) = Append(SubSeq(ls, 1, n), ls[n + 1])
<1> DEFINE part == SubSeq(ls, 1, n)
           longer == SubSeq(ls, 1, n + 1)
           l == ls[n + 1]
<1>1. part \in Seq(T) /\ Len(part) = n /\ \A i \in 1 .. n : part[i] = ls[i]
  OBVIOUS
<1>2. longer \in Seq(T) /\ Len(longer) = n + 1 /\ \A i \in 1 .. n + 1 : longer[i] = ls[i]
  OBVIOUS
<1>3. l \in T
  OBVIOUS
<1>4. l = ls[n + 1]
  OBVIOUS
<1> HIDE DEF part, longer, l
<1>5. /\ Append(part, l) \in Seq(T) /\ Len(Append(part, l)) = n + 1
      /\ \A i \in 1 .. n + 1 : Append(part, l)[i] = ls[i]
  BY <1>1, <1>3, <1>4
<1>6. longer = Append(part, l)
  BY <1>2, <1>5, SeqEqual
<1> QED
  BY <1>1, <1>3, <1>6 DEF part, longer, l

\* What the first lines say stays said.
LEMMA SaidGrows ==
  ASSUME NEW ls \in Seq(Seq(Bytes)), NEW n \in 0 .. Len(ls), NEW over \in BOOLEAN
  PROVE  IsPrefix(SaidIn(SubSeq(ls, 1, n), FALSE), SaidIn(ls, over))
<1> DEFINE T == Seq(Bytes)
           SaidTo(k) == SaidIn(SubSeq(ls, 1, k), FALSE)
           S == {k \in Nat : n + k <= Len(ls) => IsPrefix(SaidTo(n), SaidTo(n + k))}
<1>0. n \in Nat /\ Len(ls) \in Nat /\ Len(ls) - n \in Nat /\ n + (Len(ls) - n) = Len(ls)
  OBVIOUS
<1>1. ASSUME NEW k \in Nat, k <= Len(ls) PROVE SaidTo(k) \in Seq(Payloads)
  <2>1. SubSeq(ls, 1, k) \in Seq(Seq(Bytes))
    BY <1>1
  <2> QED
    BY <2>1, SaidType
<1>2. SubSeq(ls, 1, Len(ls)) = ls
  <2>1. /\ SubSeq(ls, 1, Len(ls)) \in Seq(T) /\ Len(SubSeq(ls, 1, Len(ls))) = Len(ls)
        /\ \A i \in 1 .. Len(ls) : SubSeq(ls, 1, Len(ls))[i] = ls[i]
    OBVIOUS
  <2> QED
    BY <2>1, SeqEqual
<1>3. 0 \in S
  <2>1. SaidTo(n) \in Seq(Payloads)
    <3>1. n <= Len(ls)
      OBVIOUS
    <3> HIDE DEF SaidTo
    <3> QED
      BY <1>0, <1>1, <3>1
  <2>2. IsPrefix(SaidTo(n), SaidTo(n))
    <3> HIDE DEF SaidTo
    <3>1. Len(SaidTo(n)) <= Len(SaidTo(n))
      BY <2>1
    <3> QED
      BY <3>1, Zenon DEF IsPrefix
  <2>3. n + 0 = n
    BY <1>0
  <2> QED
    BY <2>2, <2>3
<1>4. ASSUME NEW k \in Nat, k \in S, k < Len(ls) - n PROVE k + 1 \in S
  <2>1. /\ n + k \in Nat /\ n + k < Len(ls) /\ n + k <= Len(ls) /\ n + k + 1 <= Len(ls)
        /\ n + (k + 1) = n + k + 1 /\ n + k + 1 \in Nat
    BY <1>0, <1>4
  <2>2. /\ SubSeq(ls, 1, n + k) \in Seq(T) /\ ls[n + k + 1] \in T
        /\ SubSeq(ls, 1, n + k + 1) = Append(SubSeq(ls, 1, n + k), ls[n + k + 1])
    <3> HIDE DEF T
    <3>1. ls \in Seq(T)
      BY DEF T
    <3> QED
      BY <2>1, <3>1, PartGrows
  <2> DEFINE part == SubSeq(ls, 1, n + k)
             event == ParseEvent(Run(part))
  <2>3. SaidTo(n + k + 1) = SaidTo(n + k) \/ SaidTo(n + k + 1) = Append(SaidTo(n + k), event)
    <3>1. \/ SaidIn(Append(part, ls[n + k + 1]), FALSE) = SaidIn(part, FALSE)
          \/ SaidIn(Append(part, ls[n + k + 1]), FALSE) = Append(SaidIn(part, FALSE), event)
      <4> HIDE DEF part, T
      <4>1. part \in Seq(T)
        BY <2>2 DEF part
      <4> QED
        BY <2>2, <4>1, SaidMore DEF event
    <3> QED
      BY <2>2, <3>1, Zenon
  <2>4. event \in Payloads
    <3>1. Run(part) \in Seq(Seq(Bytes))
      <4>1. part \in Seq(T)
        BY <2>2
      <4> HIDE DEF part
      <4> QED
        BY <2>2, <4>1, RunIs
    <3> QED
      BY <3>1 DEF Payloads
  <2>5. SaidTo(n) \in Seq(Payloads) /\ SaidTo(n + k) \in Seq(Payloads) /\ SaidTo(n + k + 1) \in Seq(Payloads)
    <3>1. n <= Len(ls)
      BY <1>0
    <3> HIDE DEF SaidTo
    <3> QED
      BY <1>0, <1>1, <2>1, <3>1
  <2>6. IsPrefix(SaidTo(n), SaidTo(n + k))
    BY <1>4, <2>1
  <2> HIDE DEF SaidTo, event
  <2>7. IsPrefix(SaidTo(n + k), SaidTo(n + k + 1))
    BY <2>3, <2>4, <2>5, PrefixMore
  <2>8. IsPrefix(SaidTo(n), SaidTo(n + k + 1))
    BY <2>5, <2>6, <2>7, PrefixOfPrefix
  <2> QED
    BY <2>1, <2>8
<1>5. IsPrefix(SaidTo(n), SaidTo(Len(ls)))
  <2> HIDE DEF SaidTo
  <2>1. 0 .. (Len(ls) - n) \subseteq S
    <3> HIDE DEF S
    <3> QED
      BY <1>0, <1>3, <1>4, InductionUpTo
  <2>2. Len(ls) - n \in S
    <3> HIDE DEF S
    <3> QED
      BY <1>0, <2>1
  <2>3. n + (Len(ls) - n) <= Len(ls)
    BY <1>0
  <2>4. IsPrefix(SaidTo(n), SaidTo(n + (Len(ls) - n)))
    BY <2>2, <2>3
  <2> QED
    BY <1>0, <2>4
<1>6. IsPrefix(SaidTo(Len(ls)), SaidIn(ls, over))
  <2>1. SaidTo(Len(ls)) = SaidIn(ls, FALSE)
    BY <1>2
  <2>2. SaidIn(ls, over) = SaidIn(ls, FALSE) \/ SaidIn(ls, over) = Append(SaidIn(ls, FALSE), ParseEvent(Run(ls)))
    <3>1. <<>> \in T
      OBVIOUS
    <3> HIDE DEF T
    <3>2. ls \in Seq(T)
      BY DEF T
    <3>3. SaidIn(ls, TRUE) = SaidIn(ls, FALSE) \/ SaidIn(ls, TRUE) = Append(SaidIn(ls, FALSE), ParseEvent(Run(ls)))
      BY <3>1, <3>2, SaidMore
    <3> QED
      BY <3>3
  <2>3. ParseEvent(Run(ls)) \in Payloads
    <3>1. Run(ls) \in Seq(Seq(Bytes))
      <4>1. Len(ls) \in 0 .. Len(ls)
        OBVIOUS
      <4> QED
        BY <4>1, EventToType DEF Run
    <3> QED
      BY <3>1 DEF Payloads
  <2>4. SaidIn(ls, FALSE) \in Seq(Payloads)
    BY SaidType
  <2> QED
    BY <2>1, <2>2, <2>3, <2>4, PrefixMore
<1>7. SaidTo(n) \in Seq(Payloads) /\ SaidTo(Len(ls)) \in Seq(Payloads) /\ SaidIn(ls, over) \in Seq(Payloads)
  <2>1. n <= Len(ls) /\ Len(ls) <= Len(ls)
    BY <1>0
  <2> HIDE DEF SaidTo
  <2> QED
    BY <1>0, <1>1, <2>1, SaidType
<1> HIDE DEF SaidTo
<1>8. IsPrefix(SaidTo(n), SaidIn(ls, over))
  BY <1>5, <1>6, <1>7, PrefixOfPrefix
<1> QED
  BY <1>8 DEF SaidTo

LEMMA EventOfPrefix ==
  ASSUME NEW T, NEW ls \in Seq(T), NEW n \in 0 .. Len(ls), NEW i \in 1 .. n
  PROVE  EventTo(SubSeq(ls, 1, n), i) = EventTo(ls, i)
<1> DEFINE part == SubSeq(ls, 1, n)
<1>0. i \in Nat /\ i <= n /\ n <= Len(ls)
  OBVIOUS
<1>1. part \in Seq(T) /\ Len(part) = n /\ \A j \in 1 .. n : part[j] = ls[j]
  OBVIOUS
<1>2. PICK m \in 0 .. i : IsBlankBefore(ls, m, i)
  BY <1>0, BlankBefore
<1> HIDE DEF part
<1>3. IsBlankBefore(part, m, i)
  BY <1>1, <1>2 DEF IsBlankBefore
<1>4. EventTo(ls, i) = SubSeq(ls, m + 1, i) /\ EventTo(part, i) = SubSeq(part, m + 1, i)
  BY <1>0, <1>2, <1>3, EventToIs
<1>5. SubSeq(part, m + 1, i) = SubSeq(ls, m + 1, i)
  <2> DEFINE short == SubSeq(part, m + 1, i)
             long == SubSeq(ls, m + 1, i)
  <2>1. /\ short \in Seq(T) /\ Len(short) = i - m
        /\ \A j \in 1 .. i - m : short[j] = part[m + j]
    BY <1>0, <1>1
  <2>2. /\ long \in Seq(T) /\ Len(long) = i - m
        /\ \A j \in 1 .. i - m : long[j] = ls[m + j]
    BY <1>0
  <2>3. \A j \in 1 .. i - m : m + j \in 1 .. n
    BY <1>0
  <2> HIDE DEF short, long
  <2>4. \A j \in 1 .. i - m : short[j] = long[j]
    BY <1>1, <2>1, <2>2, <2>3
  <2>5. short = long
    BY <2>1, <2>2, <2>4, SeqEqual
  <2> QED
    BY <2>5 DEF short, long
<1> QED
  BY <1>4, <1>5 DEF part

\* An event over the cap stays one, and a line more makes no other than its own.
LEMMA TooMuchMore ==
  ASSUME NEW T, NEW ls \in Seq(T), NEW l \in T
  PROVE  /\ ~ TooMuch(<<>>)
         /\ TooMuch(Append(ls, l)) <=> TooMuch(ls) \/ Len(FlattenSeq(Run(Append(ls, l)))) > MAX_EVENT_BYTES
         /\ ls # <<>> /\ Len(FlattenSeq(Run(ls))) > MAX_EVENT_BYTES => TooMuch(ls)
<1> DEFINE more == Append(ls, l)
           n == Len(ls)
           Over(event) == Len(FlattenSeq(event)) > MAX_EVENT_BYTES
<1>0. n \in Nat /\ DOMAIN ls = 1 .. n /\ DOMAIN more = 1 .. n + 1 /\ Len(more) = n + 1 /\ DOMAIN <<>> = {}
  OBVIOUS
<1>1. \A i \in 1 .. n : EventTo(more, i) = EventTo(ls, i)
  <2>1. ASSUME NEW i \in 1 .. n PROVE EventTo(more, i) = EventTo(ls, i)
    <3>1. i \in 0 .. Len(ls)
      OBVIOUS
    <3> QED
      BY <3>1, EventStays
  <2> QED
    BY <2>1
<1>2. ls # <<>> => n \in 1 .. n
  OBVIOUS
<1>3. /\ TooMuch(ls) <=> \E i \in 1 .. n : Over(EventTo(ls, i))
      /\ TooMuch(more) <=> \E i \in 1 .. n + 1 : Over(EventTo(more, i))
      /\ ~ TooMuch(<<>>)
  BY <1>0 DEF TooMuch
<1>4. Run(ls) = EventTo(ls, n) /\ Run(more) = EventTo(more, n + 1)
  BY <1>0, Zenon DEF Run
<1> HIDE DEF more, n, Over
<1>5. 1 .. n + 1 = 1 .. n \cup {n + 1}
  BY <1>0
<1>6. TooMuch(more) <=> (\E i \in 1 .. n : Over(EventTo(more, i))) \/ Over(EventTo(more, n + 1))
  BY <1>3, <1>5
<1>7. TooMuch(more) <=> TooMuch(ls) \/ Over(Run(more))
  BY <1>1, <1>3, <1>4, <1>6
<1>8. ls # <<>> /\ Over(Run(ls)) => TooMuch(ls)
  BY <1>2, <1>3, <1>4
<1> QED
  BY <1>3, <1>7, <1>8, Zenon DEF more, Over

LEMMA TooMuchStays ==
  ASSUME NEW T, NEW ls \in Seq(T), NEW n \in 0 .. Len(ls), TooMuch(SubSeq(ls, 1, n))
  PROVE  TooMuch(ls)
<1> DEFINE part == SubSeq(ls, 1, n)
           Over(event) == Len(FlattenSeq(event)) > MAX_EVENT_BYTES
<1>1. DOMAIN part = 1 .. n /\ DOMAIN ls = 1 .. Len(ls) /\ 1 .. n \subseteq 1 .. Len(ls)
  OBVIOUS
<1>2. \A i \in 1 .. n : EventTo(part, i) = EventTo(ls, i)
  BY EventOfPrefix
<1>3. \E i \in DOMAIN part : Over(EventTo(part, i))
  BY Zenon DEF TooMuch
<1> HIDE DEF part, Over
<1>4. \E i \in DOMAIN ls : Over(EventTo(ls, i))
  BY <1>1, <1>2, <1>3
<1> QED
  BY <1>4, Zenon DEF TooMuch, Over

LEMMA NotUtf8More ==
  ASSUME NEW T, NEW ls \in Seq(T), NEW l \in T
  PROVE  /\ ~ NotUtf8(<<>>, FALSE)
         /\ NotUtf8(Append(ls, l), FALSE) <=> NotUtf8(ls, FALSE) \/ Contains(l, "invalid")
         /\ NotUtf8(Append(ls, l), TRUE) <=> NotUtf8(ls, FALSE)
<1> DEFINE more == Append(ls, l)
           n == Len(ls)
           Bad(line) == Contains(line, "invalid")
<1>1. /\ n \in Nat /\ DOMAIN ls = 1 .. n /\ DOMAIN more = 1 .. n + 1 /\ Len(more) = n + 1
      /\ \A i \in 1 .. n : more[i] = ls[i]
      /\ more[n + 1] = l
      /\ DOMAIN <<>> = {}
  OBVIOUS
<1>2. /\ NotUtf8(ls, FALSE) <=> \E i \in DOMAIN ls : Bad(ls[i])
      /\ NotUtf8(more, FALSE) <=> \E i \in DOMAIN more : Bad(more[i])
      /\ NotUtf8(more, TRUE) <=> \E i \in DOMAIN more : Bad(more[i]) /\ i # Len(more)
      /\ NotUtf8(<<>>, FALSE) <=> \E i \in DOMAIN <<>> : Bad(<<>>[i])
  BY Zenon DEF NotUtf8
<1> HIDE DEF more, n, Bad
<1>3. 1 .. n + 1 = 1 .. n \cup {n + 1} /\ \A i \in 1 .. n : i # n + 1
  BY <1>1
<1>4. NotUtf8(more, FALSE) <=> NotUtf8(ls, FALSE) \/ Bad(l)
  BY <1>1, <1>2, <1>3
<1>5. NotUtf8(more, TRUE) <=> NotUtf8(ls, FALSE)
  <2>1. (\E i \in DOMAIN more : Bad(more[i]) /\ i # Len(more)) <=> \E i \in 1 .. n : Bad(more[i])
    BY <1>1, <1>3
  <2>2. (\E i \in 1 .. n : Bad(more[i])) <=> \E i \in DOMAIN ls : Bad(ls[i])
    BY <1>1
  <2> QED
    BY <1>2, <2>1, <2>2, Zenon
<1>6. ~ NotUtf8(<<>>, FALSE)
  BY <1>1, <1>2
<1> QED
  BY <1>4, <1>5, <1>6, Zenon DEF more, Bad

LEMMA NotUtf8Stays ==
  ASSUME NEW T, NEW ls \in Seq(T), NEW n \in 0 .. Len(ls), NotUtf8(SubSeq(ls, 1, n), FALSE)
  PROVE  NotUtf8(ls, FALSE)
<1> DEFINE part == SubSeq(ls, 1, n)
           Bad(line) == Contains(line, "invalid")
<1>1. DOMAIN part = 1 .. n /\ DOMAIN ls = 1 .. Len(ls) /\ \A i \in 1 .. n : part[i] = ls[i]
  OBVIOUS
<1>2. n <= Len(ls) /\ Len(ls) \in Nat
  OBVIOUS
<1>3. \E i \in DOMAIN part : Bad(part[i])
  BY Zenon DEF NotUtf8
<1> HIDE DEF part, Bad
<1>4. \E i \in DOMAIN ls : Bad(ls[i])
  BY <1>1, <1>2, <1>3
<1> QED
  BY <1>4, Zenon DEF NotUtf8, Bad

-----------------------------------------------------------------------------
(* Lines of bytes. *)

LEMMA PickedAgree ==
  ASSUME NEW T, NEW seq \in Seq(T), NEW kept, NEW keep,
         \A n \in 1 .. Len(seq) : n \in kept <=> n \in keep
  PROVE  Picked(seq, kept) = Picked(seq, keep)
<1>1. PICK f : IsWalk(f, seq, kept, Len(seq)) /\ Picked(seq, kept) = f[Len(seq)]
  BY PickedIsWalked
<1>2. PICK g : IsWalk(g, seq, keep, Len(seq)) /\ Picked(seq, keep) = g[Len(seq)]
  BY PickedIsWalked
<1>3. Len(seq) \in Nat /\ Len(seq) <= Len(seq)
  OBVIOUS
<1>4. f[Len(seq)] = g[Len(seq)]
  BY <1>1, <1>2, <1>3, WalksAgree
<1> QED
  BY <1>1, <1>2, <1>4

\* The lines that end at the first c bytes.
ReadTo(bytes, over, c) == Picked([end \in 1 .. c |-> LineTo(bytes, over, end)], Ends(bytes))

LEMMA EndsAre ==
  ASSUME NEW s \in Seq(Bytes)
  PROVE  /\ \A e \in 1 .. Len(s) : e \in Ends(s) <=> s[e] = "LF"
         /\ Len(s) + 1 \in Ends(s) <=> s # <<>> /\ s[Len(s)] # "LF"
         /\ Ends(s) \subseteq 1 .. Len(s) + 1
<1>1. Len(s) \in Nat /\ DOMAIN s = 1 .. Len(s)
  OBVIOUS
<1>2. s # <<>> => Last(s) = s[Len(s)]
  BY DEF Last
<1> QED
  BY <1>1, <1>2 DEF Ends

\* A line starts after the end before its own.
LEMMA LineToIs ==
  ASSUME NEW s \in Seq(Bytes), NEW over \in BOOLEAN, NEW end \in 1 .. Len(s) + 1, NEW c \in 0 .. end - 1,
         c = 0 \/ c \in Ends(s), \A e \in c + 1 .. end - 1 : e \notin Ends(s)
  PROVE  LineTo(s, over, end)
           = IF end = Len(s) + 1 /\ ~ over THEN SubSeq(s, c + 1, end - 1)
             ELSE TrimCarriageReturn(SubSeq(s, c + 1, end - 1))
<1> DEFINE S == {0} \cup {e \in Ends(s) : e < end}
<1>1. Ends(s) \subseteq 1 .. Len(s) + 1 /\ Len(s) \in Nat
  BY EndsAre
<1>2. S \subseteq Int /\ c \in S
  BY <1>1
<1>3. \A e \in S : e <= c
  BY <1>1
<1>4. Max(S) = c
  <2> HIDE DEF S
  <2> QED
    BY <1>2, <1>3, MaxIs
<1>5. LineTo(s, over, end)
        = IF end = Len(s) + 1 /\ ~ over THEN SubSeq(s, Max(S) + 1, end - 1)
          ELSE TrimCarriageReturn(SubSeq(s, Max(S) + 1, end - 1))
  BY Zenon DEF LineTo, IsOpen
<1> HIDE DEF S
<1> QED
  BY <1>4, <1>5

\* Every line has the end before it.
LEMMA EndBefore ==
  ASSUME NEW s \in Seq(Bytes), NEW end \in 1 .. Len(s) + 1
  PROVE  \E c \in 0 .. end - 1 : /\ c = 0 \/ c \in Ends(s)
                                 /\ \A e \in c + 1 .. end - 1 : e \notin Ends(s)
<1> DEFINE S == {0} \cup {e \in Ends(s) : e < end}
<1>1. Ends(s) \subseteq 1 .. Len(s) + 1 /\ Len(s) \in Nat
  BY EndsAre
<1>2. S \subseteq Int /\ S # {} /\ end \in Int /\ \A e \in S : e <= end
  BY <1>1
<1>3. PICK c \in S : \A e \in S : e <= c
  <2> HIDE DEF S
  <2> QED
    BY <1>2, GreatestElement
<1>4. c \in 0 .. end - 1 /\ (c = 0 \/ c \in Ends(s))
  BY <1>1
<1>5. ASSUME NEW e \in c + 1 .. end - 1 PROVE e \notin Ends(s)
  <2>1. e < end /\ ~ (e <= c)
    BY <1>1, <1>4
  <2> QED
    BY <1>3, <2>1
<1> QED
  BY <1>4, <1>5

LEMMA LineToType ==
  ASSUME NEW s \in Seq(Bytes), NEW over \in BOOLEAN, NEW end \in 1 .. Len(s) + 1
  PROVE  LineTo(s, over, end) \in Seq(Bytes)
<1>1. PICK c \in 0 .. end - 1 : /\ c = 0 \/ c \in Ends(s)
                                /\ \A e \in c + 1 .. end - 1 : e \notin Ends(s)
  BY EndBefore
<1>2. SubSeq(s, c + 1, end - 1) \in Seq(Bytes)
  <2> HIDE DEF Bytes
  <2> QED
    OBVIOUS
<1>3. TrimCarriageReturn(SubSeq(s, c + 1, end - 1)) \in Seq(Bytes)
  BY <1>2, LineTyped
<1>4. LineTo(s, over, end)
        = IF end = Len(s) + 1 /\ ~ over THEN SubSeq(s, c + 1, end - 1)
          ELSE TrimCarriageReturn(SubSeq(s, c + 1, end - 1))
  BY <1>1, LineToIs
<1> QED
  BY <1>2, <1>3, <1>4

LEMMA ReadToType ==
  ASSUME NEW s \in Seq(Bytes), NEW over \in BOOLEAN, NEW c \in 0 .. Len(s) + 1
  PROVE  /\ [end \in 1 .. c |-> LineTo(s, over, end)] \in Seq(Seq(Bytes))
         /\ Len([end \in 1 .. c |-> LineTo(s, over, end)]) = c
         /\ ReadTo(s, over, c) \in Seq(Seq(Bytes))
<1> DEFINE all == [end \in 1 .. c |-> LineTo(s, over, end)]
<1>1. c \in Nat /\ c <= Len(s) + 1
  OBVIOUS
<1>2. \A end \in 1 .. c : LineTo(s, over, end) \in Seq(Bytes)
  <2>1. ASSUME NEW end \in 1 .. c PROVE LineTo(s, over, end) \in Seq(Bytes)
    <3>1. end \in 1 .. Len(s) + 1
      BY <1>1
    <3> QED
      BY <3>1, LineToType
  <2> QED
    BY <2>1
<1> DEFINE T == Seq(Bytes)
<1> HIDE DEF T
<1>3. all \in [1 .. c -> T]
  BY <1>2 DEF T
<1> HIDE DEF all
<1>4. all \in Seq(T) /\ Len(all) = c
  BY <1>1, <1>3, FunctionIsSequence
<1>5. Picked(all, Ends(s)) \in Seq(T)
  BY <1>4, PickedElements
<1> QED
  BY <1>4, <1>5, Zenon DEF all, T, ReadTo

\* A byte more is the end of a line or it is not.
LEMMA ReadToMore ==
  ASSUME NEW s, NEW over, NEW c \in Nat
  PROVE  /\ ReadTo(s, over, 0) = <<>>
         /\ ReadTo(s, over, c + 1)
              = IF c + 1 \in Ends(s) THEN Append(ReadTo(s, over, c), LineTo(s, over, c + 1))
                ELSE ReadTo(s, over, c)
<1> DEFINE short == [end \in 1 .. c |-> LineTo(s, over, end)]
           long == [end \in 1 .. c + 1 |-> LineTo(s, over, end)]
           none == [end \in 1 .. 0 |-> LineTo(s, over, end)]
<1>1. none = <<>>
  OBVIOUS
<1>2. ReadTo(s, over, 0) = <<>>
  <2>1. ReadTo(s, over, 0) = Picked(none, Ends(s))
    BY Zenon DEF ReadTo
  <2> HIDE DEF none
  <2> QED
    BY <1>1, <2>1, PickedNothing
<1>3. IsOneMore(long, short, c)
  <2>1. long = [i \in 1 .. c + 1 |-> long[i]]
    OBVIOUS
  <2>2. short = [i \in 1 .. c |-> long[i]]
    <3>1. \A i \in 1 .. c : i \in 1 .. c + 1
      OBVIOUS
    <3> QED
      BY <3>1
  <2> HIDE DEF short, long
  <2> QED
    BY <2>1, <2>2, Zenon DEF IsOneMore
<1>4. long[c + 1] = LineTo(s, over, c + 1)
  <2>1. c + 1 \in 1 .. c + 1
    OBVIOUS
  <2> QED
    BY <2>1
<1>5. ReadTo(s, over, c) = Picked(short, Ends(s)) /\ ReadTo(s, over, c + 1) = Picked(long, Ends(s))
  BY Zenon DEF ReadTo
<1> HIDE DEF short, long
<1>6. Picked(long, Ends(s))
        = IF c + 1 \in Ends(s) THEN Append(Picked(short, Ends(s)), long[c + 1])
          ELSE Picked(short, Ends(s))
  BY <1>3, PickedOneMore
<1> QED
  BY <1>2, <1>4, <1>5, <1>6

\* The lines read stay, and nothing joins them where none ends.
LEMMA ReadToGrows ==
  ASSUME NEW s \in Seq(Bytes), NEW over \in BOOLEAN, NEW d \in 0 .. Len(s) + 1, NEW c \in 0 .. d
  PROVE  /\ IsPrefix(ReadTo(s, over, c), ReadTo(s, over, d))
         /\ (\A e \in c + 1 .. d : e \notin Ends(s)) => ReadTo(s, over, d) = ReadTo(s, over, c)
<1> DEFINE T == Seq(Bytes)
           Read(e) == ReadTo(s, over, e)
           Silent(e) == \A i \in c + 1 .. e : i \notin Ends(s)
           S == {k \in Nat : c + k <= d => /\ IsPrefix(Read(c), Read(c + k))
                                           /\ Silent(c + k) => Read(c + k) = Read(c)}
<1>0. c \in Nat /\ d \in Nat /\ d - c \in Nat /\ c + (d - c) = d /\ c <= d /\ c + 0 = c
  OBVIOUS
<1>1. ASSUME NEW e \in Nat, e <= d PROVE Read(e) \in Seq(T)
  <2>1. e \in 0 .. Len(s) + 1
    BY <1>1
  <2> QED
    BY <2>1, ReadToType
<1>2. ASSUME NEW e \in Nat, e + 1 <= d
      PROVE  /\ e + 1 \notin Ends(s) => Read(e + 1) = Read(e)
             /\ IsPrefix(Read(e), Read(e + 1))
  <2>1. Read(e + 1) = IF e + 1 \in Ends(s) THEN Append(Read(e), LineTo(s, over, e + 1)) ELSE Read(e)
    BY ReadToMore
  <2>2. LineTo(s, over, e + 1) \in T
    <3>1. e + 1 \in 1 .. Len(s) + 1
      BY <1>2
    <3> QED
      BY <3>1, LineToType
  <2>3. Read(e) \in Seq(T)
    <3>1. e <= d
      BY <1>2
    <3> QED
      BY <1>1, <3>1
  <2> HIDE DEF Read, T
  <2> QED
    BY <2>1, <2>2, <2>3, PrefixMore
<1>3. 0 \in S
  <2>1. Read(c) \in Seq(T)
    BY <1>0, <1>1
  <2> HIDE DEF Read, T
  <2>2. IsPrefix(Read(c), Read(c))
    <3>1. Len(Read(c)) <= Len(Read(c))
      BY <2>1
    <3> QED
      BY <3>1, Zenon DEF IsPrefix
  <2> QED
    BY <1>0, <2>2
<1>4. ASSUME NEW k \in Nat, k \in S, k < d - c PROVE k + 1 \in S
  <2>1. /\ c + k \in Nat /\ c + k <= d /\ c + k + 1 <= d /\ c + (k + 1) = c + k + 1
        /\ c + k + 1 \in Nat /\ c + k + 1 \in c + 1 .. c + k + 1
        /\ c + 1 .. c + k \subseteq c + 1 .. c + k + 1
    BY <1>0, <1>4
  <2> DEFINE e == c + k
  <2>2. Read(c) \in Seq(T) /\ Read(e) \in Seq(T) /\ Read(e + 1) \in Seq(T)
    BY <1>0, <1>1, <2>1
  <2>3. /\ e + 1 \notin Ends(s) => Read(e + 1) = Read(e)
        /\ IsPrefix(Read(e), Read(e + 1))
    BY <1>2, <2>1
  <2>4. IsPrefix(Read(c), Read(e)) /\ (Silent(e) => Read(e) = Read(c))
    BY <1>4, <2>1
  <2>5. Silent(e + 1) => Silent(e) /\ e + 1 \notin Ends(s)
    BY <2>1
  <2> HIDE DEF Read, T, Silent
  <2>6. IsPrefix(Read(c), Read(e + 1))
    BY <2>2, <2>3, <2>4, PrefixOfPrefix
  <2>7. Silent(e + 1) => Read(e + 1) = Read(c)
    BY <2>3, <2>4, <2>5
  <2> QED
    BY <2>1, <2>6, <2>7
<1>5. d - c \in S
  <2> HIDE DEF S
  <2>1. 0 .. (d - c) \subseteq S
    BY <1>0, <1>3, <1>4, InductionUpTo
  <2> QED
    BY <1>0, <2>1
<1> HIDE DEF Read
<1>6. IsPrefix(Read(c), Read(d)) /\ (Silent(d) => Read(d) = Read(c))
  BY <1>0, <1>5
<1> QED
  BY <1>6 DEF Read

\* Bytes that follow leave what was read alone, and so does their end.
LEMMA ReadToStays ==
  ASSUME NEW s \in Seq(Bytes), NEW t \in Seq(Bytes), NEW over \in BOOLEAN, IsPrefix(s, t),
         NEW c \in 0 .. Len(s)
  PROVE  ReadTo(t, over, c) = ReadTo(s, FALSE, c)
<1> DEFINE before == [end \in 1 .. c |-> LineTo(s, FALSE, end)]
           after == [end \in 1 .. c |-> LineTo(t, over, end)]
<1>1. /\ Len(s) <= Len(t) /\ Len(s) \in Nat /\ Len(t) \in Nat /\ c \in Nat /\ c <= Len(s)
      /\ \A i \in 1 .. Len(s) : s[i] = t[i]
  BY PrefixIs
<1>2. \A e \in 1 .. Len(s) : e \in Ends(s) <=> e \in Ends(t)
  <2>1. \A e \in 1 .. Len(s) : e \in 1 .. Len(t)
    BY <1>1
  <2> QED
    BY <1>1, <2>1, EndsAre
<1>3. ASSUME NEW end \in 1 .. c PROVE LineTo(t, over, end) = LineTo(s, FALSE, end)
  <2>1. end \in 1 .. Len(s) + 1 /\ end \in 1 .. Len(t) + 1 /\ end # Len(s) + 1 /\ end # Len(t) + 1
    BY <1>1
  <2>2. PICK b \in 0 .. end - 1 : /\ b = 0 \/ b \in Ends(s)
                                  /\ \A e \in b + 1 .. end - 1 : e \notin Ends(s)
    BY <2>1, EndBefore
  <2>3. /\ b = 0 \/ b \in Ends(t)
        /\ \A e \in b + 1 .. end - 1 : e \notin Ends(t)
    BY <1>1, <1>2, <2>2
  <2>4. LineTo(s, FALSE, end) = TrimCarriageReturn(SubSeq(s, b + 1, end - 1))
    BY <2>1, <2>2, LineToIs
  <2>5. LineTo(t, over, end) = TrimCarriageReturn(SubSeq(t, b + 1, end - 1))
    <3>1. LineTo(t, over, end)
            = IF end = Len(t) + 1 /\ ~ over THEN SubSeq(t, b + 1, end - 1)
              ELSE TrimCarriageReturn(SubSeq(t, b + 1, end - 1))
      BY <2>1, <2>3, LineToIs, ZenonT(30)
    <3> QED
      BY <2>1, <3>1, Zenon
  <2>6. SubSeq(s, b + 1, end - 1) = SubSeq(t, b + 1, end - 1)
    <3> DEFINE p == SubSeq(s, b + 1, end - 1)
               q == SubSeq(t, b + 1, end - 1)
    <3>1. /\ p \in Seq(Bytes) /\ Len(p) = end - 1 - b
          /\ \A i \in 1 .. end - 1 - b : p[i] = s[b + i]
      <4> HIDE DEF Bytes
      <4> QED
        BY <1>1, <2>1, SMTT(30)
    <3>2. /\ q \in Seq(Bytes) /\ Len(q) = end - 1 - b
          /\ \A i \in 1 .. end - 1 - b : q[i] = t[b + i]
      <4> HIDE DEF Bytes
      <4> QED
        BY <1>1, <2>1
    <3>3. \A i \in 1 .. end - 1 - b : b + i \in 1 .. Len(s)
      BY <1>1, <2>1
    <3> HIDE DEF p, q
    <3>4. p = q
      BY <1>1, <3>1, <3>2, <3>3, SeqEqual
    <3> QED
      BY <3>4 DEF p, q
  <2> QED
    BY <2>4, <2>5, <2>6
<1>4. before = after
  BY <1>3
<1>5. before \in Seq(Seq(Bytes)) /\ Len(before) = c
  <2>1. c \in 0 .. Len(s) + 1 /\ FALSE \in BOOLEAN
    BY <1>1
  <2> HIDE DEF Bytes
  <2> QED
    BY <2>1, ReadToType
<1>6. \A n \in 1 .. c : n \in Ends(s) <=> n \in Ends(t)
  BY <1>1, <1>2
<1>7. ReadTo(s, FALSE, c) = Picked(before, Ends(s)) /\ ReadTo(t, over, c) = Picked(after, Ends(t))
  BY Zenon DEF ReadTo
<1> HIDE DEF before, after
<1>8. Picked(before, Ends(s)) = Picked(before, Ends(t))
  BY <1>5, <1>6, PickedAgree
<1> QED
  BY <1>4, <1>7, <1>8

\* The bytes as tokenize has them in the end.
Whole(bytes, over) ==
  IF over /\ bytes # <<>> /\ bytes[Len(bytes)] # "LF" THEN Append(bytes, "LF") ELSE bytes

LEMMA WholeIs ==
  ASSUME NEW s \in Seq(Bytes), NEW over \in BOOLEAN
  PROVE  /\ Whole(s, over) \in Seq(Bytes)
         /\ Len(Whole(s, over)) \in {Len(s), Len(s) + 1}
         /\ Len(Whole(s, over)) = Len(s) + 1 => over
         /\ ~ over => Whole(s, over) = s
         /\ \A i \in 1 .. Len(s) : Whole(s, over)[i] = s[i]
         /\ \A i \in 1 .. Len(Whole(s, over)) : i \in Ends(s) <=> Whole(s, over)[i] = "LF"
         /\ over => Ends(s) \subseteq 1 .. Len(Whole(s, over))
<1>1. /\ \A e \in 1 .. Len(s) : e \in Ends(s) <=> s[e] = "LF"
      /\ Len(s) + 1 \in Ends(s) <=> s # <<>> /\ s[Len(s)] # "LF"
      /\ Ends(s) \subseteq 1 .. Len(s) + 1
  BY EndsAre
<1>2. Len(s) \in Nat /\ "LF" \in Bytes
  BY DEF Bytes
<1>3. CASE over /\ s # <<>> /\ s[Len(s)] # "LF"
  <2> DEFINE more == Append(s, "LF")
  <2>1. Whole(s, over) = more
    BY <1>3 DEF Whole
  <2>2. /\ more \in Seq(Bytes) /\ Len(more) = Len(s) + 1
        /\ \A i \in 1 .. Len(s) : more[i] = s[i]
        /\ more[Len(s) + 1] = "LF"
    BY <1>2, AppendProperties
  <2> HIDE DEF more
  <2>3. Len(s) + 1 \in Ends(s)
    BY <1>1, <1>3
  <2>4. \A i \in 1 .. Len(more) : i \in Ends(s) <=> more[i] = "LF"
    <3>1. \A i \in 1 .. Len(more) : i \in 1 .. Len(s) \/ i = Len(s) + 1
      BY <1>2, <2>2
    <3> QED
      BY <1>1, <2>2, <2>3, <3>1
  <2>5. Ends(s) \subseteq 1 .. Len(more)
    BY <1>1, <2>2
  <2> QED
    BY <1>3, <2>1, <2>2, <2>4, <2>5
<1>4. CASE ~ (over /\ s # <<>> /\ s[Len(s)] # "LF")
  <2>1. Whole(s, over) = s
    BY <1>4 DEF Whole
  <2>2. over => Ends(s) \subseteq 1 .. Len(s)
    <3>1. over => Len(s) + 1 \notin Ends(s)
      BY <1>1, <1>4
    <3>2. 1 .. Len(s) + 1 = 1 .. Len(s) \cup {Len(s) + 1}
      BY <1>2
    <3> QED
      BY <1>1, <3>1, <3>2
  <2>3. Len(s) # Len(s) + 1
    BY <1>2
  <2> QED
    BY <1>1, <2>1, <2>2, <2>3
<1> QED
  BY <1>3, <1>4

\* The line up to the next line feed is the next one read.
LEMMA NextLine ==
  ASSUME NEW s \in Seq(Bytes), NEW over \in BOOLEAN, NEW whole, whole = Whole(s, over),
         NEW c \in 0 .. Len(whole), c = 0 \/ whole[c] = "LF",
         NEW d \in c + 1 .. Len(whole), whole[d] = "LF",
         \A i \in c + 1 .. d - 1 : whole[i] # "LF"
  PROVE  ReadTo(s, over, d)
           = Append(ReadTo(s, over, c), TrimCarriageReturn(SubSeq(whole, c + 1, d - 1)))
<1>1. /\ whole \in Seq(Bytes) /\ Len(whole) \in {Len(s), Len(s) + 1} /\ Len(s) \in Nat
      /\ Len(whole) = Len(s) + 1 => over
      /\ \A i \in 1 .. Len(s) : whole[i] = s[i]
      /\ \A i \in 1 .. Len(whole) : i \in Ends(s) <=> whole[i] = "LF"
  BY WholeIs
<1> DEFINE b == d - 1
<1>2. /\ c \in Nat /\ d \in Nat /\ b \in Nat /\ b + 1 = d /\ c <= b /\ b <= Len(s)
      /\ d \in 1 .. Len(whole) /\ (c # 0 => c \in 1 .. Len(whole)) /\ Len(whole) \in Nat
      /\ d \in 1 .. Len(s) + 1 /\ c \in 0 .. b /\ b \in 0 .. Len(s) + 1
      /\ c + 1 .. b \subseteq 1 .. Len(whole)
  BY <1>1
<1>3. c = 0 \/ c \in Ends(s)
  BY <1>1, <1>2
<1>4. d \in Ends(s) /\ \A e \in c + 1 .. b : e \notin Ends(s)
  BY <1>1, <1>2
<1>5. d = Len(s) + 1 => over
  BY <1>1, <1>2
<1>6. LineTo(s, over, d) = TrimCarriageReturn(SubSeq(s, c + 1, b))
  BY <1>2, <1>3, <1>4, <1>5, LineToIs
<1>7. SubSeq(s, c + 1, b) = SubSeq(whole, c + 1, b)
  <2> DEFINE p == SubSeq(s, c + 1, b)
             q == SubSeq(whole, c + 1, b)
  <2>1. p \in Seq(Bytes) /\ Len(p) = b - c /\ \A i \in 1 .. b - c : p[i] = s[c + i]
    <3> HIDE DEF b, Bytes
    <3> QED
      BY <1>2
  <2>2. q \in Seq(Bytes) /\ Len(q) = b - c /\ \A i \in 1 .. b - c : q[i] = whole[c + i]
    <3>1. b <= Len(whole)
      BY <1>2
    <3> HIDE DEF b, Bytes
    <3> QED
      BY <1>1, <1>2, <3>1
  <2>3. \A i \in 1 .. b - c : c + i \in 1 .. Len(s)
    BY <1>2
  <2> HIDE DEF p, q, b
  <2>4. \A i \in 1 .. b - c : p[i] = q[i]
    BY <1>1, <2>1, <2>2, <2>3
  <2>5. p = q
    BY <2>1, <2>2, <2>4, SeqEqual
  <2> QED
    BY <2>5 DEF p, q
<1>8. ReadTo(s, over, b) = ReadTo(s, over, c)
  <2> HIDE DEF b
  <2> QED
    BY <1>2, <1>4, ReadToGrows
<1>9. ReadTo(s, over, b + 1) = IF b + 1 \in Ends(s) THEN Append(ReadTo(s, over, b), LineTo(s, over, b + 1))
                               ELSE ReadTo(s, over, b)
  <2>1. b \in Nat
    BY <1>2
  <2> HIDE DEF b
  <2> QED
    BY <2>1, ReadToMore
<1> HIDE DEF b
<1>10. ReadTo(s, over, d) = Append(ReadTo(s, over, c), LineTo(s, over, d))
  BY <1>2, <1>4, <1>8, <1>9
<1> QED
  BY <1>6, <1>7, <1>10 DEF b

\* The last line has no end yet, and may get one.
IsOpenLast(s, over) == ~ over /\ Len(s) + 1 \in Ends(s)

\* The lines there are: those read, and the open one if there is one.
LEMMA AllLinesAre ==
  ASSUME NEW s \in Seq(Bytes), NEW over \in BOOLEAN
  PROVE  /\ LinesOf(s, over) = ReadTo(s, over, Len(s) + 1)
         /\ LinesOf(s, over) \in Seq(Seq(Bytes))
         /\ IsOpenLast(s, over) =>
              LinesOf(s, over) = Append(ReadTo(s, over, Len(s)), LineTo(s, over, Len(s) + 1))
<1>1. LinesOf(s, over) = ReadTo(s, over, Len(s) + 1)
  BY Zenon DEF LinesOf, ReadTo
<1>2. Len(s) \in Nat /\ Len(s) + 1 \in 0 .. Len(s) + 1
  OBVIOUS
<1>3. LinesOf(s, over) \in Seq(Seq(Bytes))
  BY <1>1, <1>2, ReadToType
<1>4. ReadTo(s, over, Len(s) + 1)
        = IF Len(s) + 1 \in Ends(s) THEN Append(ReadTo(s, over, Len(s)), LineTo(s, over, Len(s) + 1))
          ELSE ReadTo(s, over, Len(s))
  BY <1>2, ReadToMore
<1> QED
  BY <1>1, <1>3, <1>4 DEF IsOpenLast

LEMMA TailIs ==
  ASSUME NEW T, NEW s \in Seq(T), NEW c \in 0 .. Len(s)
  PROVE  /\ SubSeq(s, c + 1, Len(s)) \in Seq(T)
         /\ Len(SubSeq(s, c + 1, Len(s))) = Len(s) - c
         /\ SubSeq(s, c + 1, Len(s)) # <<>> <=> c < Len(s)
         /\ \A i \in 1 .. Len(s) - c : SubSeq(s, c + 1, Len(s))[i] = s[c + i]
<1> DEFINE tail == SubSeq(s, c + 1, Len(s))
<1>1. /\ tail \in Seq(T) /\ Len(tail) = Len(s) - c
      /\ \A i \in 1 .. Len(s) - c : tail[i] = s[c + i]
  OBVIOUS
<1>2. tail # <<>> <=> Len(tail) # 0
  BY <1>1
<1>3. Len(s) - c # 0 <=> c < Len(s)
  OBVIOUS
<1> HIDE DEF tail
<1> QED
  BY <1>1, <1>2, <1>3 DEF tail

\* No line feed in the tail, none after its start.
LEMMA SilentTail ==
  ASSUME NEW T, NEW s \in Seq(T), NEW c \in 0 .. Len(s), NEW tail, tail = SubSeq(s, c + 1, Len(s)),
         \A i \in 1 .. Len(tail) : tail[i] # "LF"
  PROVE  \A i \in c + 1 .. Len(s) : s[i] # "LF"
<1>1. Len(tail) = Len(s) - c /\ \A i \in 1 .. Len(s) - c : tail[i] = s[c + i]
  BY TailIs
<1>2. ASSUME NEW i \in c + 1 .. Len(s) PROVE s[i] # "LF"
  <2>1. i - c \in 1 .. Len(s) - c /\ c + (i - c) = i
    OBVIOUS
  <2> QED
    BY <1>1, <2>1
<1> QED
  BY <1>2

\* The last line is open where bytes follow the last line feed.
LEMMA OpenLast ==
  ASSUME NEW s \in Seq(Bytes), NEW c \in 0 .. Len(s), c = 0 \/ s[c] = "LF",
         \A i \in c + 1 .. Len(s) : s[i] # "LF"
  PROVE  Len(s) + 1 \in Ends(s) <=> c < Len(s)
<1>1. Len(s) + 1 \in Ends(s) <=> s # <<>> /\ s[Len(s)] # "LF"
  BY EndsAre
<1>2. Len(s) \in Nat /\ (s = <<>> <=> Len(s) = 0)
  OBVIOUS
<1>3. CASE c < Len(s)
  <2>1. Len(s) \in c + 1 .. Len(s) /\ Len(s) # 0
    BY <1>2, <1>3
  <2> QED
    BY <1>1, <1>2, <1>3, <2>1
<1>4. CASE c = Len(s)
  BY <1>1, <1>2, <1>4
<1> QED
  BY <1>2, <1>3, <1>4

\* What follows the last line feed.
IsTail(whole, c, tail) ==
  /\ c \in 0 .. Len(whole) /\ (c = 0 \/ whole[c] = "LF")
  /\ \A i \in c + 1 .. Len(whole) : whole[i] # "LF"
  /\ tail = SubSeq(whole, c + 1, Len(whole))

\* Where no line feed is left.
LEMMA NothingLeft ==
  ASSUME NEW s \in Seq(Bytes), NEW over \in BOOLEAN, NEW c, NEW tail, IsTail(Whole(s, over), c, tail)
  PROVE  /\ over => LinesOf(s, over) = ReadTo(s, over, c)
         /\ ~ over => /\ LinesOf(s, over) = IF tail = <<>> THEN ReadTo(s, over, c)
                                            ELSE Append(ReadTo(s, over, c), tail)
                      /\ IsOpenLast(s, over) <=> tail # <<>>
<1> DEFINE whole == Whole(s, over)
<1>0. /\ c \in 0 .. Len(whole) /\ (c = 0 \/ whole[c] = "LF")
      /\ \A i \in c + 1 .. Len(whole) : whole[i] # "LF"
      /\ tail = SubSeq(whole, c + 1, Len(whole))
  BY Zenon DEF IsTail
<1>1. /\ whole \in Seq(Bytes) /\ Len(whole) \in {Len(s), Len(s) + 1} /\ Len(s) \in Nat
      /\ ~ over => whole = s
      /\ \A i \in 1 .. Len(whole) : i \in Ends(s) <=> whole[i] = "LF"
      /\ over => Ends(s) \subseteq 1 .. Len(whole)
  BY WholeIs
<1> HIDE DEF whole
<1>2. LinesOf(s, over) = ReadTo(s, over, Len(s) + 1)
  BY AllLinesAre
<1>3. CASE over
  <2>1. Len(s) + 1 \in 0 .. Len(s) + 1 /\ c \in 0 .. Len(s) + 1
    BY <1>0, <1>1
  <2>2. \A e \in c + 1 .. Len(s) + 1 : e \notin Ends(s)
    <3>1. ASSUME NEW e \in c + 1 .. Len(s) + 1, e \in Ends(s) PROVE FALSE
      <4>1. e \in 1 .. Len(whole)
        BY <1>0, <1>1, <1>3, <3>1, Zenon
      <4>2. e \in c + 1 .. Len(whole)
        <5>1. e >= c + 1 /\ e <= Len(whole) /\ e \in Int
          BY <1>0, <4>1
        <5> QED
          BY <5>1
      <4>3. whole[e] = "LF"
        BY <1>1, <3>1, <4>1, Zenon
      <4> QED
        BY <1>0, <4>2, <4>3, Zenon
    <3> QED
      BY <3>1
  <2>3. ReadTo(s, over, Len(s) + 1) = ReadTo(s, over, c)
    BY <2>1, <2>2, ReadToGrows
  <2> QED
    BY <1>2, <1>3, <2>3
<1>4. CASE ~ over
  <2>1. /\ whole = s /\ c \in 0 .. Len(s) /\ Len(s) \in 0 .. Len(s) + 1 /\ Len(s) + 1 \in 1 .. Len(s) + 1
        /\ c \in Nat /\ c \in 0 .. (Len(s) + 1) - 1 /\ (Len(s) + 1) - 1 = Len(s)
        /\ c # 0 => c \in 1 .. Len(whole)
        /\ c + 1 .. Len(s) \subseteq 1 .. Len(whole)
    BY <1>0, <1>1, <1>4
  <2>2. \A e \in c + 1 .. Len(s) : e \notin Ends(s)
    BY <1>0, <1>1, <2>1
  <2>3. ReadTo(s, over, Len(s)) = ReadTo(s, over, c)
    BY <2>1, <2>2, ReadToGrows
  <2>4. c = 0 \/ c \in Ends(s)
    BY <1>0, <1>1, <2>1
  <2>5. LineTo(s, over, Len(s) + 1) = tail
    <3> DEFINE end == Len(s) + 1
    <3>1. /\ end \in 1 .. Len(s) + 1 /\ c \in 0 .. end - 1
          /\ \A e \in c + 1 .. end - 1 : e \notin Ends(s)
          /\ end - 1 = Len(s)
      BY <2>1, <2>2
    <3>2. LineTo(s, over, end) = SubSeq(s, c + 1, end - 1)
      <4> HIDE DEF end
      <4>1. LineTo(s, over, end)
              = IF end = Len(s) + 1 /\ ~ over THEN SubSeq(s, c + 1, end - 1)
                ELSE TrimCarriageReturn(SubSeq(s, c + 1, end - 1))
        BY <2>4, <3>1, LineToIs
      <4> QED
        BY <1>4, <4>1 DEF end
    <3>3. tail = SubSeq(s, c + 1, Len(s))
      BY <1>0, <2>1
    <3> QED
      BY <3>1, <3>2, <3>3
  <2>7. tail # <<>> <=> c < Len(s)
    <3>1. c \in 0 .. Len(s)
      BY <2>1
    <3> HIDE DEF Bytes
    <3>2. SubSeq(s, c + 1, Len(s)) # <<>> <=> c < Len(s)
      BY <3>1, TailIs
    <3>3. tail = SubSeq(s, c + 1, Len(s))
      BY <1>0, <2>1
    <3> QED
      BY <3>2, <3>3, Zenon
  <2>8. Len(s) + 1 \in Ends(s) <=> c < Len(s)
    <3>1. c = 0 \/ s[c] = "LF"
      BY <1>0, <2>1, Zenon
    <3>2. \A i \in c + 1 .. Len(s) : s[i] # "LF"
      BY <1>0, <2>1, Zenon
    <3> QED
      BY <2>1, <3>1, <3>2, OpenLast
  <2>9. ReadTo(s, over, Len(s) + 1)
          = IF Len(s) + 1 \in Ends(s) THEN Append(ReadTo(s, over, Len(s)), LineTo(s, over, Len(s) + 1))
            ELSE ReadTo(s, over, Len(s))
    BY <1>0, <1>1, ReadToMore
  <2> QED
    BY <1>2, <1>4, <2>3, <2>5, <2>7, <2>8, <2>9 DEF IsOpenLast
<1> QED
  BY <1>3, <1>4

-----------------------------------------------------------------------------
(* What is handed out. *)

\* What next_event returns: a payload or an error.
Outputs == [frame : Payloads \cup {<<>>}, err : {"none", "malformed", "transport"}]

\* The payloads of what was handed out.
KeptOf(all) ==
  Picked([i \in 1 .. Len(all) |-> all[i].frame], {i \in DOMAIN all : all[i].err = "none"})

LEMMA KeptMore ==
  ASSUME NEW all \in Seq(Outputs), NEW item \in Outputs
  PROVE  /\ KeptOf(<<>>) = <<>>
         /\ KeptOf(Append(all, item)) = IF item.err = "none" THEN Append(KeptOf(all), item.frame)
                                        ELSE KeptOf(all)
<1> DEFINE n == Len(all)
           more == Append(all, item)
           short == [i \in 1 .. n |-> all[i].frame]
           long == [i \in 1 .. n + 1 |-> more[i].frame]
           kept == {i \in DOMAIN all : all[i].err = "none"}
           keep == {i \in DOMAIN more : more[i].err = "none"}
<1>1. /\ n \in Nat /\ Len(more) = n + 1 /\ DOMAIN all = 1 .. n /\ DOMAIN more = 1 .. n + 1
      /\ \A i \in 1 .. n : more[i] = all[i] /\ i \in 1 .. n + 1
      /\ more[n + 1] = item /\ n + 1 \in 1 .. n + 1
  <2> HIDE DEF Outputs
  <2> QED
    OBVIOUS
<1> HIDE DEF more, n
<1>2. KeptOf(all) = Picked(short, kept) /\ KeptOf(more) = Picked(long, keep)
  BY <1>1, Zenon DEF KeptOf, n
<1>3. KeptOf(<<>>) = <<>>
  <2>1. Len(<<>>) = 0 /\ [i \in 1 .. 0 |-> <<>>[i].frame] = <<>>
    OBVIOUS
  <2>2. KeptOf(<<>>) = Picked(<<>>, {i \in DOMAIN <<>> : <<>>[i].err = "none"})
    BY <2>1, Zenon DEF KeptOf
  <2> QED
    BY <2>2, PickedNothing
<1>4. /\ \A i \in 1 .. n : i \in kept <=> i \in keep
      /\ n + 1 \in keep <=> item.err = "none"
  BY <1>1
<1>5. IsOneMore(long, short, n) /\ long[n + 1] = item.frame
  <2>1. long = [i \in 1 .. n + 1 |-> long[i]]
    OBVIOUS
  <2>2. \A i \in 1 .. n : all[i].frame = long[i]
    BY <1>1
  <2>3. short = [i \in 1 .. n |-> long[i]]
    BY <2>2
  <2>4. long[n + 1] = item.frame
    BY <1>1
  <2> HIDE DEF short, long
  <2> QED
    BY <2>1, <2>3, <2>4, Zenon DEF IsOneMore
<1> HIDE DEF short, long, kept, keep
<1>6. Picked(long, keep)
        = IF n + 1 \in keep THEN Append(Picked(short, kept), long[n + 1]) ELSE Picked(short, kept)
  BY <1>1, <1>4, <1>5, PickedOneMore
<1> QED
  BY <1>2, <1>3, <1>4, <1>5, <1>6 DEF more

\* The errors among what was handed out.
Errors(all) == {all[i].err : i \in DOMAIN all} \ {"none"}

LEMMA ErrorsMore ==
  ASSUME NEW all \in Seq(Outputs), NEW item \in Outputs
  PROVE  /\ Errors(<<>>) = {}
         /\ Errors(Append(all, item)) = Errors(all) \cup ({item.err} \ {"none"})
<1> DEFINE n == Len(all)
           more == Append(all, item)
<1>1. /\ n \in Nat /\ DOMAIN all = 1 .. n /\ DOMAIN more = 1 .. n + 1
      /\ \A i \in 1 .. n : more[i] = all[i] /\ i \in 1 .. n + 1
      /\ more[n + 1] = item /\ n + 1 \in 1 .. n + 1
      /\ DOMAIN <<>> = {}
  <2> HIDE DEF Outputs
  <2> QED
    OBVIOUS
<1> HIDE DEF more, n
<1>2. {more[i].err : i \in DOMAIN more} = {all[i].err : i \in DOMAIN all} \cup {item.err}
  <2>1. \A i \in DOMAIN more : i \in DOMAIN all \/ i = n + 1
    BY <1>1
  <2> QED
    BY <1>1, <2>1
<1>3. Errors(<<>>) = {}
  BY <1>1 DEF Errors
<1>4. Errors(more) = Errors(all) \cup ({item.err} \ {"none"})
  BY <1>2 DEF Errors
<1> QED
  BY <1>3, <1>4 DEF more

-----------------------------------------------------------------------------
(* How far tokenize has come. *)

\* The first c of the bytes are read, whole lines of them: what they say is handed out
\* but for the event in progress, and the rest is buffered.
ReadSoFar(s, over, c, b, ls, given) ==
  /\ c \in 0 .. Len(Whole(s, over))
  /\ c = 0 \/ Whole(s, over)[c] = "LF"
  /\ b = SubSeq(Whole(s, over), c + 1, Len(Whole(s, over)))
  /\ given = SaidIn(ReadTo(s, over, c), FALSE)
  /\ ls = Run(ReadTo(s, over, c))
  /\ ~ TooMuch(ReadTo(s, over, c))
  /\ ~ NotUtf8(ReadTo(s, over, c), FALSE)

\* What the bytes say is handed out, up to an error there is reason for.
AllSaid(s, over, given, errors) ==
  /\ IsPrefix(given, SaidIn(LinesOf(s, over), over))
  /\ "malformed" \in errors =>
       TooMuch(LinesOf(s, over)) \/ NotUtf8(LinesOf(s, over), IsOpenLast(s, over))
  /\ errors = {} => /\ given = SaidIn(LinesOf(s, over), over)
                    /\ ~ TooMuch(LinesOf(s, over))
                    /\ ~ NotUtf8(LinesOf(s, over), IsOpenLast(s, over))

\* What is true of the lines read is true of them all.
LEMMA ReadOfAll ==
  ASSUME NEW s \in Seq(Bytes), NEW over \in BOOLEAN, NEW c \in 0 .. Len(Whole(s, over)),
         NEW read, read = ReadTo(s, over, c), NEW all, all = LinesOf(s, over)
  PROVE  /\ read \in Seq(Seq(Bytes)) /\ all \in Seq(Seq(Bytes))
         /\ IsPrefix(SaidIn(read, FALSE), SaidIn(all, over))
         /\ TooMuch(read) => TooMuch(all)
         /\ NotUtf8(read, FALSE) => NotUtf8(all, IsOpenLast(s, over))
<1> DEFINE T == Seq(Bytes)
<1>1. /\ Len(s) \in Nat /\ c \in 0 .. Len(s) + 1 /\ Len(s) + 1 \in 0 .. Len(s) + 1
      /\ ~ over => c \in 0 .. Len(s)
      /\ Len(s) \in 0 .. Len(s) + 1
  BY WholeIs
<1>2. all = ReadTo(s, over, Len(s) + 1) /\ all \in Seq(T)
  BY AllLinesAre
<1>3. read \in Seq(T)
  BY <1>1, ReadToType
<1>4. IsPrefix(read, all)
  <2>1. c \in 0 .. Len(s) + 1 /\ Len(s) + 1 \in 0 .. Len(s) + 1
    BY <1>1
  <2>2. IsPrefix(ReadTo(s, over, c), ReadTo(s, over, Len(s) + 1))
    BY <2>1, ReadToGrows
  <2> QED
    BY <1>2, <2>2, Zenon
<1> DEFINE n == Len(read)
<1>5. n \in 0 .. Len(all) /\ read = SubSeq(all, 1, n)
  <2> HIDE DEF T
  <2>1. Len(read) <= Len(all) /\ \A i \in 1 .. Len(read) : read[i] = all[i]
    BY <1>2, <1>3, <1>4, PrefixIs
  <2>2. n \in 0 .. Len(all)
    BY <1>2, <1>3, <2>1
  <2>3. /\ SubSeq(all, 1, n) \in Seq(T) /\ Len(SubSeq(all, 1, n)) = n
        /\ \A i \in 1 .. n : SubSeq(all, 1, n)[i] = all[i]
    BY <1>2, <2>2
  <2>4. read = SubSeq(all, 1, n)
    BY <1>3, <2>1, <2>3, SeqEqual
  <2> QED
    BY <2>2, <2>4
<1> HIDE DEF n
<1>6. IsPrefix(SaidIn(read, FALSE), SaidIn(all, over))
  BY <1>2, <1>5, SaidGrows
<1>7. TooMuch(read) => TooMuch(all)
  BY <1>2, <1>5, TooMuchStays
<1>8. ASSUME NotUtf8(read, FALSE) PROVE NotUtf8(all, IsOpenLast(s, over))
  <2>1. CASE ~ IsOpenLast(s, over)
    <3>1. NotUtf8(all, FALSE)
      BY <1>2, <1>5, <1>8, NotUtf8Stays
    <3>2. IsOpenLast(s, over) = FALSE
      BY <2>1 DEF IsOpenLast
    <3> QED
      BY <3>1, <3>2
  <2>2. CASE IsOpenLast(s, over)
    <3> DEFINE whole == ReadTo(s, over, Len(s))
               open == LineTo(s, over, Len(s) + 1)
    <3>1. all = Append(whole, open)
      BY <2>2, AllLinesAre
    <3>2. whole \in Seq(T) /\ open \in T
      BY <1>1, ReadToType, LineToType
    <3>3. c \in 0 .. Len(s)
      BY <1>1, <2>2 DEF IsOpenLast
    <3>4. IsPrefix(read, whole)
      BY <1>1, <3>3, ReadToGrows
    <3> HIDE DEF whole, open, T
    <3>5. NotUtf8(whole, FALSE)
      <4>1. Len(read) <= Len(whole) /\ \A i \in 1 .. Len(read) : read[i] = whole[i]
        BY <1>3, <3>2, <3>4, PrefixIs
      <4>2. n \in 0 .. Len(whole)
        BY <1>3, <3>2, <4>1 DEF n
      <4>3. /\ SubSeq(whole, 1, n) \in Seq(T) /\ Len(SubSeq(whole, 1, n)) = n
            /\ \A i \in 1 .. n : SubSeq(whole, 1, n)[i] = whole[i]
        BY <3>2, <4>2
      <4>4. Len(read) = n
        BY DEF n
      <4>5. read = SubSeq(whole, 1, n)
        BY <1>3, <4>1, <4>3, <4>4, SeqEqual
      <4> QED
        BY <1>8, <3>2, <4>2, <4>5, NotUtf8Stays
    <3>6. NotUtf8(all, TRUE)
      BY <3>1, <3>2, <3>5, NotUtf8More
    <3>7. IsOpenLast(s, over) = TRUE
      BY <2>2 DEF IsOpenLast
    <3> QED
      BY <3>6, <3>7
  <2> QED
    BY <2>1, <2>2
<1> QED
  BY <1>2, <1>3, <1>6, <1>7, <1>8 DEF T

LEMMA PartIs ==
  ASSUME NEW T, NEW s \in Seq(T), NEW k \in 0 .. Len(s), NEW a \in 0 .. k
  PROVE  /\ SubSeq(s, a + 1, k) \in Seq(T)
         /\ Len(SubSeq(s, a + 1, k)) = k - a
         /\ \A i \in 1 .. k - a : SubSeq(s, a + 1, k)[i] = s[a + i]
OBVIOUS

\* The line up to the first line feed of the buffer, and what follows it.
IsNextLine(b, end, line, rest) ==
  /\ end \in 1 .. Len(b) /\ b[end] = "LF" /\ \A i \in 1 .. end - 1 : b[i] # "LF"
  /\ line = TrimCarriageReturn(SubSeq(b, 1, end - 1))
  /\ rest = SubSeq(b, end + 1, Len(b))

\* The next line of the buffer is the next of the bytes.
LEMMA LineRead ==
  ASSUME NEW s \in Seq(Bytes), NEW over \in BOOLEAN, NEW c, NEW b, NEW ls, NEW given,
         ReadSoFar(s, over, c, b, ls, given),
         NEW end, NEW line, NEW rest, IsNextLine(b, end, line, rest)
  PROVE  /\ c + end \in 0 .. Len(Whole(s, over)) /\ Whole(s, over)[c + end] = "LF"
         /\ rest = SubSeq(Whole(s, over), c + end + 1, Len(Whole(s, over)))
         /\ ReadTo(s, over, c + end) = Append(ReadTo(s, over, c), line)
         /\ line \in Seq(Bytes) /\ ReadTo(s, over, c) \in Seq(Seq(Bytes))
<1> DEFINE whole == Whole(s, over)
           d == c + end
<1>0. /\ end \in 1 .. Len(b) /\ b[end] = "LF" /\ \A i \in 1 .. end - 1 : b[i] # "LF"
      /\ line = TrimCarriageReturn(SubSeq(b, 1, end - 1))
      /\ rest = SubSeq(b, end + 1, Len(b))
  BY Zenon DEF IsNextLine
<1>1. whole \in Seq(Bytes)
  BY WholeIs
<1>2. c \in 0 .. Len(whole) /\ (c = 0 \/ whole[c] = "LF") /\ b = SubSeq(whole, c + 1, Len(whole))
  BY Zenon DEF ReadSoFar
<1> HIDE DEF whole
<1>3. b \in Seq(Bytes) /\ Len(b) = Len(whole) - c /\ \A i \in 1 .. Len(whole) - c : b[i] = whole[c + i]
  BY <1>1, <1>2, TailIs
<1>4. /\ c \in Nat /\ end \in Nat /\ d \in Nat /\ Len(whole) \in Nat /\ d \in c + 1 .. Len(whole)
      /\ d \in 0 .. Len(whole) /\ end \in 1 .. Len(whole) - c /\ d - 1 = c + (end - 1)
      /\ end <= Len(b) /\ d <= Len(whole) /\ end - 1 \in Nat
  BY <1>0, <1>1, <1>2, <1>3
<1>5. whole[d] = "LF"
  BY <1>0, <1>3, <1>4
<1>6. ASSUME NEW i \in c + 1 .. d - 1 PROVE whole[i] # "LF"
  <2>1. i - c \in 1 .. end - 1 /\ i - c \in 1 .. Len(whole) - c /\ c + (i - c) = i
    BY <1>4
  <2> QED
    BY <1>0, <1>3, <2>1
<1>7. SubSeq(b, 1, end - 1) = SubSeq(whole, c + 1, d - 1)
  <2> DEFINE p == SubSeq(b, 1, end - 1)
             q == SubSeq(whole, c + 1, d - 1)
  <2>1. p \in Seq(Bytes) /\ Len(p) = end - 1 /\ \A i \in 1 .. end - 1 : p[i] = b[i]
    <3>1. end - 1 \in 0 .. Len(b) /\ 0 \in 0 .. end - 1 /\ 0 + 1 = 1
          /\ end - 1 - 0 = end - 1 /\ \A i \in 1 .. end - 1 : 0 + i = i
      BY <1>3, <1>4
    <3> HIDE DEF p
    <3>2. /\ SubSeq(b, 0 + 1, end - 1) \in Seq(Bytes)
          /\ Len(SubSeq(b, 0 + 1, end - 1)) = end - 1 - 0
          /\ \A i \in 1 .. end - 1 - 0 : SubSeq(b, 0 + 1, end - 1)[i] = b[0 + i]
      BY <1>3, <3>1, PartIs
    <3>3. p = SubSeq(b, 0 + 1, end - 1)
      BY <3>1 DEF p
    <3> QED
      BY <3>1, <3>2, <3>3
  <2>2. q \in Seq(Bytes) /\ Len(q) = end - 1 /\ \A i \in 1 .. end - 1 : q[i] = whole[c + i]
    <3>1. d - 1 \in 0 .. Len(whole) /\ c \in 0 .. d - 1 /\ d - 1 - c = end - 1
      BY <1>4
    <3> HIDE DEF d
    <3>2. /\ q \in Seq(Bytes) /\ Len(q) = d - 1 - c
          /\ \A i \in 1 .. d - 1 - c : q[i] = whole[c + i]
      BY <1>1, <3>1, PartIs
    <3> HIDE DEF q
    <3> QED
      BY <3>1, <3>2
  <2>3. \A i \in 1 .. end - 1 : i \in 1 .. Len(whole) - c
    BY <1>4
  <2> HIDE DEF p, q, d
  <2>4. \A i \in 1 .. end - 1 : p[i] = q[i]
    BY <1>3, <2>1, <2>2, <2>3
  <2>5. p = q
    BY <2>1, <2>2, <2>4, SeqEqual
  <2> QED
    BY <2>5 DEF p, q
<1>8. rest = SubSeq(whole, d + 1, Len(whole))
  <2> DEFINE size == Len(whole) - d
             q == SubSeq(whole, d + 1, Len(whole))
  <2>0. size \in Nat /\ size = Len(b) - end
    BY <1>3, <1>4
  <2>1. rest \in Seq(Bytes) /\ Len(rest) = size /\ \A i \in 1 .. size : rest[i] = b[end + i]
    <3>1. end \in 0 .. Len(b)
      BY <1>3, <1>4
    <3> QED
      BY <1>0, <1>3, <2>0, <3>1, TailIs
  <2>2. q \in Seq(Bytes) /\ Len(q) = size /\ \A i \in 1 .. size : q[i] = whole[d + i]
    BY <1>1, <1>4, TailIs
  <2>3. \A i \in 1 .. size : end + i \in 1 .. Len(whole) - c /\ c + (end + i) = d + i
    BY <1>4
  <2> HIDE DEF q, d, size
  <2>4. \A i \in 1 .. size : rest[i] = q[i]
    BY <1>3, <2>1, <2>2, <2>3
  <2>5. rest = q
    BY <2>1, <2>2, <2>4, SeqEqual
  <2> QED
    BY <2>5 DEF q
<1>9. ReadTo(s, over, d) = Append(ReadTo(s, over, c), TrimCarriageReturn(SubSeq(whole, c + 1, d - 1)))
  <2>1. whole = Whole(s, over)
    BY DEF whole
  <2>2. d \in c + 1 .. Len(whole) /\ c \in 0 .. Len(whole)
    BY <1>2, <1>4, Zenon
  <2>3. c = 0 \/ whole[c] = "LF"
    BY <1>2
  <2>4. \A i \in c + 1 .. d - 1 : whole[i] # "LF"
    BY <1>6
  <2> HIDE DEF d
  <2> QED
    BY <1>5, <2>1, <2>2, <2>3, <2>4, NextLine
<1>10. line \in Seq(Bytes)
  <2>1. SubSeq(b, 1, end - 1) \in Seq(Bytes)
    <3>1. end - 1 \in 0 .. Len(b) /\ 0 \in 0 .. end - 1 /\ 0 + 1 = 1
      BY <1>3, <1>4
    <3>2. SubSeq(b, 0 + 1, end - 1) \in Seq(Bytes)
      BY <1>3, <3>1, PartIs
    <3> QED
      BY <3>1, <3>2
  <2> QED
    BY <1>0, <2>1, LineTyped
<1>11. ReadTo(s, over, c) \in Seq(Seq(Bytes))
  <2>1. c \in 0 .. Len(Whole(s, over))
    BY <1>2 DEF whole
  <2> QED
    BY <2>1, ReadOfAll
<1> QED
  BY <1>0, <1>4, <1>5, <1>7, <1>8, <1>9, <1>10, <1>11, Zenon DEF whole

\* A line with nothing against it is read: a blank one hands out the event there is.
LEMMA GoodLine ==
  ASSUME NEW s \in Seq(Bytes), NEW over \in BOOLEAN, NEW c, NEW b, NEW ls, NEW given,
         ReadSoFar(s, over, c, b, ls, given),
         NEW end, NEW line, NEW rest, IsNextLine(b, end, line, rest),
         ~ Contains(line, "invalid"),
         NEW new, new = IF line = <<>> THEN <<>> ELSE Append(ls, line),
         ~ (Len(FlattenSeq(new)) > MAX_EVENT_BYTES)
  PROVE  ReadSoFar(s, over, c + end, rest, new,
                   IF line = <<>> /\ ls # <<>> THEN Append(given, ParseEvent(ls)) ELSE given)
<1> DEFINE read == ReadTo(s, over, c)
           T == Seq(Bytes)
<1>1. /\ c + end \in 0 .. Len(Whole(s, over)) /\ Whole(s, over)[c + end] = "LF"
      /\ rest = SubSeq(Whole(s, over), c + end + 1, Len(Whole(s, over)))
      /\ ReadTo(s, over, c + end) = Append(read, line)
      /\ line \in T /\ read \in Seq(T)
  BY LineRead
<1>2. given = SaidIn(read, FALSE) /\ ls = Run(read) /\ ~ TooMuch(read) /\ ~ NotUtf8(read, FALSE)
  BY Zenon DEF ReadSoFar
<1> HIDE DEF read, T
<1> DEFINE more == Append(read, line)
           said == IF line = <<>> /\ ls # <<>> THEN Append(given, ParseEvent(ls)) ELSE given
<1>3. SaidIn(more, FALSE) = said
  BY <1>1, <1>2, SaidMore
<1>4. Run(more) = new
  <2>1. Run(more) = IF line = <<>> THEN <<>> ELSE Append(ls, line)
    <3>1. read \in Seq(T) /\ line \in T /\ ls = Run(read)
      BY <1>1, <1>2
    <3>2. Run(Append(read, line)) = IF line = <<>> THEN <<>> ELSE Append(Run(read), line)
      BY <3>1, RunIs
    <3> QED
      BY <3>1, <3>2, Zenon
  <2>2. new = IF line = <<>> THEN <<>> ELSE Append(ls, line)
    OBVIOUS
  <2> HIDE DEF more
  <2> QED
    BY <2>1, <2>2
<1>5. ~ TooMuch(more)
  BY <1>1, <1>2, <1>4, TooMuchMore
<1>6. ~ NotUtf8(more, FALSE)
  BY <1>1, <1>2, NotUtf8More
<1> HIDE DEF more, said
<1>7. ReadTo(s, over, c + end) = more
  BY <1>1 DEF more
<1>8. ReadSoFar(s, over, c + end, rest, new, said)
  BY <1>1, <1>3, <1>4, <1>5, <1>6, <1>7, Zenon DEF ReadSoFar
<1> QED
  BY <1>8 DEF said

\* One with something against it is reason for an error.
LEMMA BadLine ==
  ASSUME NEW s \in Seq(Bytes), NEW over \in BOOLEAN, NEW c, NEW b, NEW ls, NEW given,
         ReadSoFar(s, over, c, b, ls, given),
         NEW end, NEW line, NEW rest, IsNextLine(b, end, line, rest),
         \/ Contains(line, "invalid")
         \/ line # <<>> /\ Len(FlattenSeq(Append(ls, line))) > MAX_EVENT_BYTES
  PROVE  AllSaid(s, over, given, {"malformed"})
<1> DEFINE read == ReadTo(s, over, c)
           more == ReadTo(s, over, c + end)
           all == LinesOf(s, over)
           T == Seq(Bytes)
<1>1. /\ c + end \in 0 .. Len(Whole(s, over))
      /\ more = Append(read, line)
      /\ line \in T /\ read \in Seq(T)
  BY LineRead
<1>2. /\ given = SaidIn(read, FALSE) /\ ls = Run(read)
      /\ c \in 0 .. Len(Whole(s, over))
  BY Zenon DEF ReadSoFar
<1>3. read = ReadTo(s, over, c) /\ more = ReadTo(s, over, c + end) /\ all = LinesOf(s, over)
  BY DEF read, more, all
<1> HIDE DEF read, more, T, all
<1>4. IsPrefix(SaidIn(read, FALSE), SaidIn(all, over))
  BY <1>2, <1>3, ReadOfAll
<1>5. /\ TooMuch(more) => TooMuch(all)
      /\ NotUtf8(more, FALSE) => NotUtf8(all, IsOpenLast(s, over))
  BY <1>1, <1>3, ReadOfAll
<1>6. TooMuch(more) \/ NotUtf8(more, FALSE)
  <2>1. CASE Contains(line, "invalid")
    BY <1>1, <2>1, NotUtf8More
  <2>2. CASE line # <<>> /\ Len(FlattenSeq(Append(ls, line))) > MAX_EVENT_BYTES
    <3>1. Run(more) = Append(ls, line)
      BY <1>1, <1>2, <2>2, RunIs
    <3> QED
      BY <1>1, <2>2, <3>1, TooMuchMore
  <2> QED
    BY <2>1, <2>2
<1> QED
  BY <1>2, <1>4, <1>5, <1>6 DEF AllSaid, all

\* Bytes read to no purpose but an error of the transport.
LEMMA ReadFailing ==
  ASSUME NEW s \in Seq(Bytes), NEW c, NEW b, NEW ls, NEW given, ReadSoFar(s, FALSE, c, b, ls, given)
  PROVE  AllSaid(s, FALSE, given, {"transport"})
<1>1. given = SaidIn(ReadTo(s, FALSE, c), FALSE) /\ c \in 0 .. Len(Whole(s, FALSE))
  BY Zenon DEF ReadSoFar
<1>2. IsPrefix(SaidIn(ReadTo(s, FALSE, c), FALSE), SaidIn(LinesOf(s, FALSE), FALSE))
  BY <1>1, ReadOfAll
<1> QED
  BY <1>1, <1>2 DEF AllSaid

\* While no line ends, the open one may still be too long.
LEMMA OpenTail ==
  ASSUME NEW s \in Seq(Bytes), NEW c, NEW b, NEW ls, NEW given, ReadSoFar(s, FALSE, c, b, ls, given),
         \A i \in 1 .. Len(b) : b[i] # "LF"
  PROVE  /\ ls \in Seq(Seq(Bytes)) /\ b \in Seq(Bytes)
         /\ IsPrefix(given, SaidIn(LinesOf(s, FALSE), FALSE))
         /\ given = SaidIn(LinesOf(s, FALSE), FALSE)
         /\ TooMuch(LinesOf(s, FALSE)) <=> Len(FlattenSeq(ls)) + Len(b) > MAX_EVENT_BYTES
         /\ ~ NotUtf8(LinesOf(s, FALSE), IsOpenLast(s, FALSE))
<1> DEFINE read == ReadTo(s, FALSE, c)
           all == LinesOf(s, FALSE)
           T == Seq(Bytes)
<1>1. Whole(s, FALSE) = s
  BY DEF Whole
<1>2. /\ c \in 0 .. Len(s) /\ (c = 0 \/ s[c] = "LF") /\ b = SubSeq(s, c + 1, Len(s))
      /\ given = SaidIn(read, FALSE) /\ ls = Run(read) /\ ~ TooMuch(read) /\ ~ NotUtf8(read, FALSE)
  BY <1>1, Zenon DEF ReadSoFar
<1>3. b \in Seq(Bytes) /\ Len(b) = Len(s) - c /\ \A i \in 1 .. Len(s) - c : b[i] = s[c + i]
  BY <1>2, TailIs
<1>4. \A i \in c + 1 .. Len(s) : s[i] # "LF"
  BY <1>2, SilentTail
<1>5. /\ all = IF b = <<>> THEN read ELSE Append(read, b)
      /\ IsOpenLast(s, FALSE) <=> b # <<>>
  <2>1. /\ LinesOf(s, FALSE) = IF b = <<>> THEN ReadTo(s, FALSE, c) ELSE Append(ReadTo(s, FALSE, c), b)
        /\ IsOpenLast(s, FALSE) <=> b # <<>>
    <3>1. IsTail(Whole(s, FALSE), c, b)
      BY <1>1, <1>2, <1>4 DEF IsTail
    <3> QED
      BY <3>1, NothingLeft
  <2> QED
    BY <2>1, Zenon
<1>6. read \in Seq(T) /\ IsPrefix(SaidIn(read, FALSE), SaidIn(all, FALSE))
  <2>1. c \in 0 .. Len(Whole(s, FALSE))
    BY <1>1, <1>2, Zenon
  <2> QED
    BY <2>1, ReadOfAll
<1>7. IsPrefix(given, SaidIn(all, FALSE))
  BY <1>2, <1>6, Zenon
<1> DEFINE open == IsOpenLast(s, FALSE)
<1>8. open \in BOOLEAN
  BY DEF IsOpenLast
<1> HIDE DEF read, all, T, open
<1>9. ls \in Seq(T) /\ (read = <<>> => ls = <<>>)
  <2>1. Run(read) \in Seq(T) /\ Run(<<>>) = <<>>
    <3>1. <<>> \in T
      BY DEF T
    <3> QED
      BY <1>6, <3>1, RunIs
  <2> QED
    BY <1>2, <2>1
<1>10. Len(FlattenSeq(<<>>)) = 0 /\ MAX_EVENT_BYTES \in Nat
  BY NoLineIsFlat, CapAssumption
<1>11. CASE b = <<>>
  <2>1. all = read /\ Len(b) = 0 /\ open = FALSE
    BY <1>5, <1>8, <1>11 DEF open
  <2>2. FlattenSeq(ls) \in Seq(Bytes)
    BY <1>9, FlattenAppend DEF T
  <2>3. ~ (Len(FlattenSeq(ls)) > MAX_EVENT_BYTES)
    <3>1. <<>> \in T
      BY DEF T
    <3>2. read # <<>> /\ Len(FlattenSeq(Run(read))) > MAX_EVENT_BYTES => TooMuch(read)
      BY <1>6, <3>1, TooMuchMore
    <3> QED
      BY <1>2, <1>9, <1>10, <3>2
  <2>4. Len(FlattenSeq(ls)) + Len(b) = Len(FlattenSeq(ls))
    BY <2>1, <2>2
  <2>5. ~ TooMuch(all) /\ ~ NotUtf8(all, open) /\ given = SaidIn(all, FALSE)
    BY <1>2, <2>1
  <2> QED
    BY <1>3, <1>9, <1>7, <2>3, <2>4, <2>5 DEF T, open, all
<1>12. CASE b # <<>>
  <2>1. all = Append(read, b) /\ open = TRUE /\ b \in T
    BY <1>3, <1>5, <1>8, <1>12 DEF open, T
  <2>2. SaidIn(all, FALSE) = given
    BY <1>2, <1>6, <1>12, <2>1, SaidMore
  <2>3. Run(all) = Append(ls, b)
    <3>1. Run(Append(read, b)) = IF b = <<>> THEN <<>> ELSE Append(Run(read), b)
      BY <1>6, <2>1, RunIs
    <3>2. Run(Append(read, b)) = Append(Run(read), b)
      BY <1>12, <3>1
    <3>3. ls = Run(read) /\ all = Append(read, b)
      BY <1>2, <2>1
    <3> QED
      BY <3>2, <3>3, Zenon
  <2>4. Len(FlattenSeq(Append(ls, b))) = Len(FlattenSeq(ls)) + Len(b)
    <3>1. /\ FlattenSeq(ls) \in Seq(Bytes)
          /\ FlattenSeq(Append(ls, b)) = FlattenSeq(ls) \o b
      BY <1>3, <1>9, FlattenAppend DEF T
    <3>2. \A flat \in Seq(Bytes) : Len(flat \o b) = Len(flat) + Len(b)
      BY <1>3
    <3> QED
      BY <3>1, <3>2
  <2>5. TooMuch(all) <=> Len(FlattenSeq(Run(all))) > MAX_EVENT_BYTES
    BY <1>2, <1>6, <2>1, TooMuchMore
  <2>6. ~ NotUtf8(all, open)
    BY <1>2, <1>6, <2>1, NotUtf8More
  <2> QED
    BY <1>3, <1>9, <2>2, <2>3, <2>4, <1>7, <2>5, <2>6 DEF T, open, all
<1> QED
  BY <1>11, <1>12

LEMMA PrefixSelf ==
  ASSUME NEW ls \in Seq(Seq(Bytes)), NEW over \in BOOLEAN
  PROVE  IsPrefix(SaidIn(ls, over), SaidIn(ls, over))
<1>1. Len(SaidIn(ls, over)) <= Len(SaidIn(ls, over))
  <2>1. SaidIn(ls, over) \in Seq(Payloads)
    BY SaidType
  <2> QED
    BY <2>1
<1> QED
  BY <1>1, Zenon DEF IsPrefix

\* Once the bytes are over and no line ends, the event in progress is the last.
LEMMA LastEvent ==
  ASSUME NEW s \in Seq(Bytes), NEW c, NEW b, NEW ls, NEW given, ReadSoFar(s, TRUE, c, b, ls, given),
         \A i \in 1 .. Len(b) : b[i] # "LF"
  PROVE  /\ ls = <<>> => AllSaid(s, TRUE, given, {})
         /\ ls # <<>> => AllSaid(s, TRUE, Append(given, ParseEvent(ls)), {})
         /\ ~ (Len(FlattenSeq(ls)) > MAX_EVENT_BYTES)
<1> DEFINE whole == Whole(s, TRUE)
           read == ReadTo(s, TRUE, c)
           all == LinesOf(s, TRUE)
           T == Seq(Bytes)
           open == IsOpenLast(s, TRUE)
<1>1. whole \in Seq(Bytes) /\ whole = Whole(s, TRUE)
  BY WholeIs
<1>2. /\ c \in 0 .. Len(whole) /\ (c = 0 \/ whole[c] = "LF") /\ b = SubSeq(whole, c + 1, Len(whole))
      /\ given = SaidIn(read, FALSE) /\ ls = Run(read) /\ ~ TooMuch(read) /\ ~ NotUtf8(read, FALSE)
  BY Zenon DEF ReadSoFar
<1>3. read \in Seq(T)
  BY <1>2, ReadOfAll
<1> HIDE DEF whole
<1>4. \A i \in c + 1 .. Len(whole) : whole[i] # "LF"
  BY <1>1, <1>2, SilentTail
<1>5. all = read
  <2>1. LinesOf(s, TRUE) = ReadTo(s, TRUE, c)
    <3>1. IsTail(Whole(s, TRUE), c, b)
      <4>1. IsTail(whole, c, b)
        BY <1>2, <1>4, Zenon DEF IsTail
      <4> QED
        BY <1>1, <4>1, Zenon
    <3> QED
      BY <3>1, NothingLeft
  <2> QED
    BY <2>1, Zenon
<1>6. open = FALSE
  BY DEF IsOpenLast
<1>7. IsPrefix(SaidIn(all, TRUE), SaidIn(all, TRUE))
  BY <1>3, <1>5, PrefixSelf
<1> HIDE DEF read, all, T, open
<1>8. <<>> \in T
  BY DEF T
<1>9. SaidIn(read, TRUE) = IF Run(read) # <<>> THEN Append(SaidIn(read, FALSE), ParseEvent(Run(read)))
                           ELSE SaidIn(read, FALSE)
  BY <1>3, <1>8, SaidMore
<1> DEFINE said == IF ls = <<>> THEN given ELSE Append(given, ParseEvent(ls))
<1>10. said = SaidIn(all, TRUE)
  BY <1>2, <1>5, <1>9
<1> HIDE DEF said
<1>11. ~ TooMuch(all) /\ ~ NotUtf8(all, open)
  BY <1>2, <1>5, <1>6
<1>12. AllSaid(s, TRUE, said, {})
  BY <1>7, <1>10, <1>11 DEF AllSaid, all, open
<1>13. ~ (Len(FlattenSeq(ls)) > MAX_EVENT_BYTES)
  <2>1. read # <<>> /\ Len(FlattenSeq(Run(read))) > MAX_EVENT_BYTES => TooMuch(read)
    BY <1>3, <1>8, TooMuchMore
  <2>2. CASE read = <<>>
    <3>1. Run(<<>>) = <<>>
      BY <1>3, <1>8, RunIs
    <3>2. Len(FlattenSeq(ls)) = 0
      BY <1>2, <2>2, <3>1, NoLineIsFlat
    <3> QED
      BY <3>2, CapAssumption
  <2>3. CASE read # <<>>
    BY <1>2, <2>1, <2>3
  <2> QED
    BY <2>2, <2>3
<1> QED
  BY <1>12, <1>13 DEF said

LEMMA JoinIs ==
  ASSUME NEW T, NEW s \in Seq(T), NEW t \in Seq(T)
  PROVE  /\ s \o t \in Seq(T) /\ Len(s \o t) = Len(s) + Len(t)
         /\ \A i \in 1 .. Len(s) : (s \o t)[i] = s[i]
         /\ \A i \in 1 .. Len(t) : (s \o t)[Len(s) + i] = t[i]
OBVIOUS

\* A chunk is read after what was there.
LEMMA ChunkRead ==
  ASSUME NEW s \in Seq(Bytes), NEW c, NEW b, NEW ls, NEW given, ReadSoFar(s, FALSE, c, b, ls, given),
         NEW chunk \in Seq(Bytes)
  PROVE  ReadSoFar(s \o chunk, FALSE, c, b \o chunk, ls, given)
<1> DEFINE t == s \o chunk
<1>1. Whole(s, FALSE) = s /\ Whole(t, FALSE) = t
  BY DEF Whole
<1>2. /\ t \in Seq(Bytes) /\ Len(t) = Len(s) + Len(chunk) /\ Len(s) \in Nat /\ Len(chunk) \in Nat
      /\ \A i \in 1 .. Len(s) : t[i] = s[i]
      /\ \A i \in 1 .. Len(chunk) : t[Len(s) + i] = chunk[i]
  BY JoinIs
<1>3. /\ c \in 0 .. Len(s) /\ (c = 0 \/ s[c] = "LF") /\ b = SubSeq(s, c + 1, Len(s))
      /\ given = SaidIn(ReadTo(s, FALSE, c), FALSE) /\ ls = Run(ReadTo(s, FALSE, c))
      /\ ~ TooMuch(ReadTo(s, FALSE, c)) /\ ~ NotUtf8(ReadTo(s, FALSE, c), FALSE)
  BY <1>1, Zenon DEF ReadSoFar
<1> HIDE DEF t
<1>4. IsPrefix(s, t)
  <2>1. Len(s) <= Len(t) /\ \A i \in 1 .. Len(s) : s[i] = t[i]
    BY <1>2
  <2> QED
    BY <1>2, <2>1, PrefixIs
<1>5. ReadTo(t, FALSE, c) = ReadTo(s, FALSE, c)
  BY <1>2, <1>3, <1>4, ReadToStays
<1>6. c \in 0 .. Len(t) /\ (c = 0 \/ t[c] = "LF")
  BY <1>2, <1>3
<1>7. b \o chunk = SubSeq(t, c + 1, Len(t))
  <2> DEFINE p == b \o chunk
             q == SubSeq(t, c + 1, Len(t))
             size == Len(t) - c
  <2>1. b \in Seq(Bytes) /\ Len(b) = Len(s) - c /\ \A i \in 1 .. Len(s) - c : b[i] = s[c + i]
    BY <1>3, TailIs
  <2>2. q \in Seq(Bytes) /\ Len(q) = size /\ \A i \in 1 .. size : q[i] = t[c + i]
    BY <1>2, <1>6, TailIs
  <2>3. /\ p \in Seq(Bytes) /\ Len(p) = Len(b) + Len(chunk)
        /\ \A i \in 1 .. Len(b) : p[i] = b[i]
        /\ \A i \in 1 .. Len(chunk) : p[Len(b) + i] = chunk[i]
    <3>1. b \in Seq(Bytes)
      BY <2>1
    <3> QED
      BY <3>1, JoinIs
  <2> HIDE DEF p, q
  <2>4. Len(p) = size
    BY <1>2, <1>3, <2>1, <2>3
  <2>5. ASSUME NEW i \in 1 .. size PROVE p[i] = q[i]
    <3>1. CASE i \in 1 .. Len(b)
      <4>1. i \in 1 .. Len(s) - c /\ c + i \in 1 .. Len(s)
        BY <1>2, <1>3, <2>1, <3>1
      <4>2. p[i] = b[i] /\ b[i] = s[c + i] /\ s[c + i] = t[c + i]
        BY <1>2, <2>1, <2>3, <3>1, <4>1
      <4> QED
        BY <2>2, <4>2
    <3>2. CASE i \notin 1 .. Len(b)
      <4> DEFINE j == i - Len(b)
      <4>1. j \in 1 .. Len(chunk) /\ Len(b) + j = i /\ Len(s) + j = c + i
        <5>1. /\ Len(b) \in Nat /\ Len(b) = Len(s) - c /\ size = Len(s) + Len(chunk) - c
              /\ Len(s) \in Nat /\ Len(chunk) \in Nat /\ c \in Nat
          BY <1>2, <1>3, <2>1
        <5>2. i \in Nat /\ i > Len(b) /\ i <= size
          BY <3>2, <5>1
        <5> QED
          BY <5>1, <5>2
      <4> HIDE DEF j
      <4>2. p[i] = chunk[j] /\ t[c + i] = chunk[j]
        BY <1>2, <2>3, <4>1
      <4> QED
        BY <2>2, <4>2
    <3> QED
      BY <3>1, <3>2
  <2>6. p = q
    BY <2>2, <2>3, <2>4, <2>5, SeqEqual
  <2> QED
    BY <2>6 DEF p, q
<1>8. ReadSoFar(t, FALSE, c, b \o chunk, ls, given)
  BY <1>1, <1>3, <1>5, <1>6, <1>7, Zenon DEF ReadSoFar
<1> QED
  BY <1>8 DEF t

\* The end of the bytes ends the last line.
LEMMA EndRead ==
  ASSUME NEW s \in Seq(Bytes), NEW c, NEW b, NEW ls, NEW given, ReadSoFar(s, FALSE, c, b, ls, given),
         \A i \in 1 .. Len(b) : b[i] # "LF"
  PROVE  ReadSoFar(s, TRUE, c, IF b = <<>> THEN <<>> ELSE Append(b, "LF"), ls, given)
<1>1. Whole(s, FALSE) = s
  BY DEF Whole
<1>2. /\ c \in 0 .. Len(s) /\ (c = 0 \/ s[c] = "LF") /\ b = SubSeq(s, c + 1, Len(s))
      /\ given = SaidIn(ReadTo(s, FALSE, c), FALSE) /\ ls = Run(ReadTo(s, FALSE, c))
      /\ ~ TooMuch(ReadTo(s, FALSE, c)) /\ ~ NotUtf8(ReadTo(s, FALSE, c), FALSE)
  BY <1>1, Zenon DEF ReadSoFar
<1>3. /\ b \in Seq(Bytes) /\ Len(b) = Len(s) - c /\ (b # <<>> <=> c < Len(s))
      /\ \A i \in 1 .. Len(s) - c : b[i] = s[c + i]
  BY <1>2, TailIs
<1>4. ReadTo(s, TRUE, c) = ReadTo(s, FALSE, c)
  <2>1. IsPrefix(s, s)
    <3>1. "LF" \in Bytes
      BY DEF Bytes
    <3> QED
      BY <3>1, PrefixMore
  <2> QED
    BY <1>2, <2>1, ReadToStays
<1> DEFINE whole == Whole(s, TRUE)
           tail == IF b = <<>> THEN <<>> ELSE Append(b, "LF")
<1>5. whole = IF b = <<>> THEN s ELSE Append(s, "LF")
  <2>1. whole = IF s # <<>> /\ s[Len(s)] # "LF" THEN Append(s, "LF") ELSE s
    BY DEF Whole
  <2>2. Len(s) \in Nat /\ (s = <<>> <=> Len(s) = 0)
    OBVIOUS
  <2>3. s # <<>> /\ s[Len(s)] # "LF" <=> b # <<>>
    <3>1. CASE c < Len(s)
      <4>1. Len(s) - c \in 1 .. Len(s) - c /\ c + (Len(s) - c) = Len(s) /\ Len(s) # 0
        BY <1>2, <2>2, <3>1
      <4> QED
        BY <1>3, <2>2, <3>1, <4>1
    <3>2. CASE c = Len(s)
      BY <1>2, <1>3, <2>2, <3>2
    <3> QED
      BY <1>2, <2>2, <3>1, <3>2
  <2> HIDE DEF whole
  <2> QED
    BY <2>1, <2>3
<1>6. /\ c \in 0 .. Len(whole) /\ (c = 0 \/ whole[c] = "LF")
      /\ tail = SubSeq(whole, c + 1, Len(whole))
  <2> HIDE DEF whole
  <2>1. CASE b = <<>>
    BY <1>2, <1>5, <2>1
  <2>2. CASE b # <<>>
    <3>1. whole = Append(s, "LF") /\ tail = Append(b, "LF") /\ "LF" \in Bytes
      BY <1>5, <2>2 DEF Bytes
    <3>2. /\ Len(Append(s, "LF")) = Len(s) + 1 /\ \A i \in 1 .. Len(s) : Append(s, "LF")[i] = s[i]
      BY <3>1, AppendProperties
    <3>3. c + 1 \in 1 .. Len(s) + 1 /\ (c # 0 => c \in 1 .. Len(s)) /\ c \in 0 .. Len(s) + 1
      BY <1>2
    <3>4. SubSeq(Append(s, "LF"), c + 1, Len(s) + 1) = Append(SubSeq(s, c + 1, Len(s)), "LF")
      BY <3>1, <3>3, PartsOfMore
    <3> HIDE DEF tail
    <3> QED
      BY <1>2, <3>1, <3>2, <3>3, <3>4
  <2> QED
    BY <2>1, <2>2
<1> HIDE DEF tail
<1>7. ReadSoFar(s, TRUE, c, tail, ls, given)
  BY <1>2, <1>4, <1>6, Zenon DEF ReadSoFar
<1> QED
  BY <1>7 DEF tail

-----------------------------------------------------------------------------
(* The steps of tokenize. *)

IsLast(all) == \A i \in DOMAIN all : all[i].err # "none" => i = Len(all)

\* Before the last item: the bytes up to some whole line are read.
Reading ==
  /\ closed = IF done THEN "eof" ELSE "no"
  /\ Errors(out) = {}
  /\ \E c \in Nat : ReadSoFar(sent, done, c, buf, lines, KeptOf(out))

\* After it.
SaidAtEnd ==
  /\ closed \in {"no", "eof", "error"}
  /\ IsLast(out)
  /\ AllSaid(sent, closed = "eof", KeptOf(out), Errors(out))

\* What a call has handed out so far, and what of the bytes is still to come; nothing
\* is once the last item is out.
FramingInv ==
  /\ sent \in Seq(Bytes) /\ out \in Seq(Outputs)
  /\ IF done /\ pc \in {"poll", "exhausted"} THEN SaidAtEnd ELSE Reading

LEMMA NoErrorYet ==
  ASSUME NEW all \in Seq(Outputs), Errors(all) = {}
  PROVE  /\ \A i \in DOMAIN all : all[i].err = "none"
         /\ \A item \in Outputs : IsLast(Append(all, item))
<1>1. \A i \in DOMAIN all : all[i].err = "none"
  BY DEF Errors
<1>2. ASSUME NEW item \in Outputs PROVE IsLast(Append(all, item))
  <2>1. /\ DOMAIN Append(all, item) = 1 .. Len(all) + 1 /\ Len(Append(all, item)) = Len(all) + 1
        /\ \A i \in 1 .. Len(all) : Append(all, item)[i] = all[i]
        /\ DOMAIN all = 1 .. Len(all) /\ Len(all) \in Nat
    <3> HIDE DEF Outputs
    <3> QED
      BY AppendProperties
  <2> DEFINE more == Append(all, item)
  <2> HIDE DEF more
  <2>2. ASSUME NEW i \in DOMAIN more, more[i].err # "none" PROVE i = Len(more)
    <3>1. i \notin 1 .. Len(all)
      BY <1>1, <2>1, <2>2 DEF more
    <3> QED
      BY <2>1, <3>1 DEF more
  <2> QED
    BY <2>2 DEF IsLast, more
<1> QED
  BY <1>1, <1>2

\* A failure ends what there is to say.
LEMMA FailureSettles ==
  ASSUME sent \in Seq(Bytes), out \in Seq(Outputs), Errors(out) = {}, sent' = sent,
         NEW kind \in {"malformed", "transport"}, Give(Failure(kind)), Ended,
         closed' \in {"no", "eof", "error"},
         AllSaid(sent, closed' = "eof", KeptOf(out), {kind})
  PROVE  FramingInv'
<1> DEFINE item == Failure(kind)
<1>1. item \in Outputs /\ item.err = kind /\ kind # "none"
  BY DEF Failure, Outputs
<1>2. out' = Append(out, item) /\ pc' = "poll" /\ done' = TRUE
  BY DEF Give, Ended
<1> HIDE DEF item
<1>3. out' \in Seq(Outputs)
  BY <1>1, <1>2, AppendProperties
<1>4. KeptOf(out') = KeptOf(out)
  BY <1>1, <1>2, KeptMore
<1>5. Errors(out') = {kind}
  <2>1. Errors(Append(out, item)) = Errors(out) \cup ({item.err} \ {"none"})
    BY <1>1, ErrorsMore
  <2> QED
    BY <1>1, <1>2, <2>1
<1>6. IsLast(out')
  BY <1>1, <1>2, NoErrorYet
<1>7. AllSaid(sent', closed' = "eof", KeptOf(out'), Errors(out'))
  BY <1>4, <1>5
<1> QED
  BY <1>2, <1>3, <1>6, <1>7 DEF FramingInv, SaidAtEnd

\* An event handed out joins what was.
LEMMA FrameGiven ==
  ASSUME out \in Seq(Outputs), Errors(out) = {}, lines \in Seq(Seq(Bytes)),
         Give(Frame(ParseEvent(lines)))
  PROVE  /\ out' \in Seq(Outputs) /\ Errors(out') = {}
         /\ KeptOf(out') = Append(KeptOf(out), ParseEvent(lines))
         /\ pc' = "poll" /\ lines' = <<>>
<1> DEFINE item == Frame(ParseEvent(lines))
<1>1. item \in Outputs /\ item.err = "none" /\ item.frame = ParseEvent(lines)
  <2>1. ParseEvent(lines) \in Payloads
    BY DEF Payloads
  <2> HIDE DEF Payloads
  <2> QED
    BY <2>1 DEF Frame, Outputs
<1>2. out' = Append(out, item) /\ pc' = "poll" /\ lines' = <<>>
  BY DEF Give
<1> HIDE DEF item
<1>3. out' \in Seq(Outputs)
  BY <1>1, <1>2, AppendProperties
<1>4. KeptOf(out') = Append(KeptOf(out), ParseEvent(lines))
  BY <1>1, <1>2, KeptMore
<1>5. Errors(Append(out, item)) = Errors(out) \cup ({item.err} \ {"none"})
  BY <1>1, ErrorsMore
<1> QED
  BY <1>1, <1>2, <1>3, <1>4, <1>5

LEMMA InitFrames ==
  ASSUME SseInit
  PROVE  FramingInv
<1>1. /\ sent = <<>> /\ closed = "no" /\ done = FALSE /\ buf = <<>> /\ lines = <<>> /\ out = <<>>
  BY DEF SseInit
<1>2. <<>> \in Seq(Bytes) /\ <<>> \in Seq(Outputs) /\ <<>> \in Seq(Seq(Bytes)) /\ Len(<<>>) = 0
  <2> HIDE DEF Bytes, Outputs
  <2> QED
    OBVIOUS
<1>3. Failure("transport") \in Outputs /\ <<>> \in Seq(Bytes)
  BY <1>2 DEF Failure, Outputs
<1>4. KeptOf(<<>>) = <<>> /\ Errors(<<>>) = {}
  BY <1>2, <1>3, KeptMore, ErrorsMore
<1>5. Whole(<<>>, FALSE) = <<>>
  BY DEF Whole
<1>6. ReadTo(<<>>, FALSE, 0) = <<>>
  BY ReadToMore
<1>7. SaidIn(<<>>, FALSE) = <<>> /\ Run(<<>>) = <<>> /\ ~ TooMuch(<<>>) /\ ~ NotUtf8(<<>>, FALSE)
  BY <1>2, SaidMore, RunIs, TooMuchMore, NotUtf8More
<1>8. SubSeq(<<>>, 0 + 1, 0) = <<>> /\ 0 \in 0 .. 0 /\ 0 \in Nat
  OBVIOUS
<1>9. ReadSoFar(<<>>, FALSE, 0, <<>>, <<>>, <<>>)
  BY <1>2, <1>5, <1>6, <1>7, <1>8 DEF ReadSoFar
<1>10. Reading
  BY <1>1, <1>4, <1>8, <1>9 DEF Reading
<1> QED
  BY <1>1, <1>2, <1>10 DEF FramingInv

LEMMA PollFrames ==
  ASSUME FramingInv, Poll
  PROVE  FramingInv'
<1>1. /\ pc = "poll" /\ pc' = IF done THEN "exhausted" ELSE "scan"
      /\ UNCHANGED <<sent, closed, buf, scanned, done, lines, event_bytes, out>>
  BY DEF Poll
<1>2. CASE done
  <2>1. SaidAtEnd
    BY <1>1, <1>2 DEF FramingInv
  <2>2. SaidAtEnd'
    BY <1>1, <2>1 DEF SaidAtEnd
  <2> QED
    BY <1>1, <1>2, <2>2 DEF FramingInv
<1>3. CASE ~ done
  <2>1. Reading
    BY <1>1, <1>3 DEF FramingInv
  <2>2. Reading'
    BY <1>1, <2>1 DEF Reading
  <2> QED
    BY <1>1, <1>3, <2>2 DEF FramingInv
<1> QED
  BY <1>2, <1>3

LEMMA StutterFrames ==
  ASSUME FramingInv, UNCHANGED sse_vars
  PROVE  FramingInv'
<1>1. UNCHANGED <<sent, closed, pc, buf, done, lines, out>>
  BY DEF sse_vars
<1>2. SaidAtEnd => SaidAtEnd'
  BY <1>1 DEF SaidAtEnd
<1>3. Reading => Reading'
  BY <1>1 DEF Reading
<1> QED
  BY <1>1, <1>2, <1>3 DEF FramingInv

LEMMA OverIsDone ==
  ASSUME Buffered, Reading
  PROVE  (closed = "eof") = done /\ closed \in {"no", "eof", "error"} /\ Errors(out) = {}
<1>1. done \in BOOLEAN /\ closed = IF done THEN "eof" ELSE "no"
  BY DEF Buffered, Reading
<1>2. CASE done = TRUE
  <2>1. closed = "eof"
    BY <1>1, <1>2
  <2>2. (closed = "eof") = TRUE
    BY <2>1
  <2> QED
    BY <1>2, <2>1, <2>2 DEF Reading
<1>3. CASE done = FALSE
  <2>1. closed = "no"
    BY <1>1, <1>3
  <2>2. (closed = "eof") = FALSE
    BY <2>1
  <2> QED
    BY <1>3, <2>1, <2>2 DEF Reading
<1> QED
  BY <1>1, <1>2, <1>3

LEMMA FirstIsNext ==
  ASSUME Buffered, Bounded, LineEnds # {},
         NEW line, line = TrimCarriageReturn(SubSeq(buf, 1, Min(LineEnds) - 1)),
         NEW rest, rest = SubSeq(buf, Min(LineEnds) + 1, Len(buf))
  PROVE  IsNextLine(buf, Min(LineEnds), line, rest)
<1>1. LineEnds \subseteq Nat
  BY DEF LineEnds, Buffered
<1>2. PICK least \in LineEnds : \A n \in LineEnds : least <= n
  BY <1>1, LeastElement
<1> DEFINE end == Min(LineEnds)
<1>3. end \in LineEnds /\ \A n \in LineEnds : end <= n
  BY <1>2 DEF Min
<1> HIDE DEF end
<1>4. end \in 1 .. Len(buf) /\ buf[end] = "LF" /\ scanned \in 0 .. Len(buf) /\ Len(buf) \in Nat
  BY <1>3 DEF LineEnds, Buffered
<1>5. ASSUME NEW i \in 1 .. end - 1 PROVE buf[i] # "LF"
  <2>1. CASE i <= scanned
    BY <1>4, <2>1 DEF Bounded
  <2>2. CASE ~ (i <= scanned)
    <3>1. i \in scanned + 1 .. Len(buf) /\ ~ (end <= i)
      BY <1>4, <2>2
    <3>2. i \notin LineEnds
      BY <1>3, <3>1
    <3> QED
      BY <3>1, <3>2 DEF LineEnds
  <2> QED
    BY <2>1, <2>2
<1> QED
  BY <1>4, <1>5, Zenon DEF IsNextLine, end

\* A step that reads on.
LEMMA ReadsOn ==
  ASSUME Buffered, Reading, sent \in Seq(Bytes), sent' = sent, closed' = closed, done' = done,
         out' \in Seq(Outputs), Errors(out') = {},
         NEW c \in Nat, ReadSoFar(sent, done, c, buf', lines', KeptOf(out')),
         done /\ pc' \in {"poll", "exhausted"} => lines' = <<>> /\ buf' = <<>>
  PROVE  FramingInv'
<1>1. (closed = "eof") = done /\ closed \in {"no", "eof", "error"} /\ done \in BOOLEAN
  BY OverIsDone DEF Buffered
<1>2. CASE done /\ pc' \in {"poll", "exhausted"}
  <2>1. lines' = <<>> /\ buf' = <<>> /\ done = TRUE
    BY <1>1, <1>2
  <2>2. ReadSoFar(sent, TRUE, c, <<>>, <<>>, KeptOf(out'))
    BY <2>1
  <2>3. Len(<<>>) = 0 /\ \A i \in 1 .. 0 : <<>>[i] # "LF"
    OBVIOUS
  <2>4. AllSaid(sent, TRUE, KeptOf(out'), {})
    BY <2>2, <2>3, LastEvent
  <2>5. IsLast(out')
    <3>1. \A i \in DOMAIN out' : out'[i].err = "none"
      BY NoErrorYet
    <3> QED
      BY <3>1 DEF IsLast
  <2>6. (closed' = "eof") = TRUE
    BY <1>1, <2>1
  <2>7. AllSaid(sent', closed' = "eof", KeptOf(out'), Errors(out'))
    BY <2>4, <2>6
  <2>8. SaidAtEnd'
    BY <1>1, <2>5, <2>7 DEF SaidAtEnd
  <2> QED
    BY <1>2, <2>8 DEF FramingInv
<1>3. CASE ~ (done /\ pc' \in {"poll", "exhausted"})
  <2>1. closed' = IF done' THEN "eof" ELSE "no"
    BY DEF Reading
  <2>2. ReadSoFar(sent', done', c, buf', lines', KeptOf(out'))
    OBVIOUS
  <2>3. Reading'
    BY <2>1, <2>2 DEF Reading
  <2> QED
    BY <1>3, <2>3 DEF FramingInv
<1> QED
  BY <1>2, <1>3

LEMMA TakeLineFrames ==
  ASSUME Buffered, Bounded, FramingInv, TakeLine
  PROVE  FramingInv'
<1> DEFINE end == Min(LineEnds)
           line == TrimCarriageReturn(SubSeq(buf, 1, end - 1))
           rest == SubSeq(buf, end + 1, Len(buf))
           given == KeptOf(out)
           bad == Contains(line, "invalid")
           long == event_bytes + Len(line) > MAX_EVENT_BYTES
           Drained == buf' = rest /\ scanned' = 0
<1>1. pc = "scan" /\ LineEnds # {} /\ UNCHANGED <<sent, closed>>
  BY DEF TakeLine
<1>2. \/ bad /\ Give(Failure("malformed")) /\ Ended
      \/ line # <<>> /\ ~ bad /\ long /\ Give(Failure("malformed")) /\ Ended
      \/ /\ line = <<>> /\ lines = <<>>
         /\ Drained /\ UNCHANGED <<pc, done, lines, event_bytes, out>>
      \/ /\ line = <<>> /\ lines # <<>>
         /\ Give(Frame(ParseEvent(lines))) /\ Drained /\ UNCHANGED done
      \/ /\ line # <<>> /\ ~ bad /\ ~ long
         /\ lines' = Append(lines, line) /\ event_bytes' = event_bytes + Len(line)
         /\ Drained /\ UNCHANGED <<pc, done, out>>
  BY ZenonT(30) DEF TakeLine
<1>3. IsNextLine(buf, end, line, rest)
  BY <1>1, FirstIsNext
<1>4. Reading /\ sent \in Seq(Bytes) /\ out \in Seq(Outputs)
  BY <1>1 DEF FramingInv
<1>5. (closed = "eof") = done /\ closed \in {"no", "eof", "error"} /\ Errors(out) = {}
  BY <1>4, OverIsDone
<1>6. /\ done \in BOOLEAN /\ lines \in Seq(Seq(Bytes)) /\ Len(buf) \in Nat
      /\ MAX_EVENT_BYTES \in Nat
  BY CapAssumption DEF Buffered
<1>7. PICK c \in Nat : ReadSoFar(sent, done, c, buf, lines, given)
  BY <1>4 DEF Reading
<1>8. line \in Seq(Bytes)
  BY <1>3, <1>4, <1>6, <1>7, LineRead
<1>9. c + end \in Nat /\ end \in 1 .. Len(buf)
  BY <1>3, <1>6, <1>7 DEF IsNextLine
<1>10. Len(FlattenSeq(Append(lines, line))) = event_bytes + Len(line) /\ Len(FlattenSeq(<<>>)) = 0
  BY <1>8, LineCounts, NoLineIsFlat
<1> DEFINE new == IF line = <<>> THEN <<>> ELSE Append(lines, line)
           said == IF line = <<>> /\ lines # <<>> THEN Append(given, ParseEvent(lines)) ELSE given
<1>11. ASSUME ~ bad, line # <<>> => ~ long
       PROVE  ReadSoFar(sent, done, c + end, rest, new, said)
  <2>1. ~ (Len(FlattenSeq(new)) > MAX_EVENT_BYTES)
    BY <1>6, <1>10, <1>11
  <2> HIDE DEF end, line, rest, given
  <2> QED
    BY <1>3, <1>4, <1>6, <1>7, <1>11, <2>1, GoodLine
<1>12. ASSUME done PROVE rest = <<>>
  <2>1. end = Len(buf)
    BY <1>3, <1>9, <1>12 DEF Bounded, IsNextLine
  <2> QED
    BY <1>6, <2>1 DEF Buffered
<1>13. ASSUME line = <<>> PROVE ~ bad
  BY <1>13 DEF Contains
<1> HIDE DEF end, line, rest, long
<1>14. ASSUME bad \/ (line # <<>> /\ long), Give(Failure("malformed")), Ended
       PROVE  FramingInv'
  <2>1. AllSaid(sent, done, given, {"malformed"})
    <3>1. bad \/ (line # <<>> /\ Len(FlattenSeq(Append(lines, line))) > MAX_EVENT_BYTES)
      BY <1>10, <1>14 DEF long
    <3> QED
      BY <1>3, <1>4, <1>6, <1>7, <3>1, BadLine
  <2>2. AllSaid(sent, closed' = "eof", KeptOf(out), {"malformed"})
    BY <1>1, <1>5, <2>1
  <2> QED
    BY <1>1, <1>4, <1>5, <1>14, <2>2, FailureSettles
<1>15. CASE /\ line = <<>> /\ lines = <<>>
            /\ Drained /\ UNCHANGED <<pc, done, lines, event_bytes, out>>
  <2>1. ReadSoFar(sent, done, c + end, buf', lines', KeptOf(out'))
    BY <1>11, <1>13, <1>15
  <2>2. pc' \notin {"poll", "exhausted"} /\ out' \in Seq(Outputs) /\ Errors(out') = {}
    BY <1>1, <1>4, <1>5, <1>15
  <2> QED
    BY <1>1, <1>4, <1>9, <1>15, <2>1, <2>2, ReadsOn
<1>16. CASE /\ line = <<>> /\ lines # <<>>
            /\ Give(Frame(ParseEvent(lines))) /\ Drained /\ UNCHANGED done
  <2>1. /\ out' \in Seq(Outputs) /\ Errors(out') = {}
        /\ KeptOf(out') = Append(KeptOf(out), ParseEvent(lines))
        /\ lines' = <<>>
    BY <1>4, <1>5, <1>6, <1>16, FrameGiven
  <2>2. ReadSoFar(sent, done, c + end, buf', lines', KeptOf(out'))
    BY <1>11, <1>13, <1>16, <2>1
  <2>3. done => buf' = <<>>
    BY <1>12, <1>16
  <2> QED
    BY <1>1, <1>4, <1>9, <1>16, <2>1, <2>2, <2>3, ReadsOn
<1>17. CASE /\ line # <<>> /\ ~ bad /\ ~ long
            /\ lines' = Append(lines, line) /\ event_bytes' = event_bytes + Len(line)
            /\ Drained /\ UNCHANGED <<pc, done, out>>
  <2>1. ReadSoFar(sent, done, c + end, buf', lines', KeptOf(out'))
    BY <1>11, <1>17
  <2>2. pc' \notin {"poll", "exhausted"} /\ out' \in Seq(Outputs) /\ Errors(out') = {}
    BY <1>1, <1>4, <1>5, <1>17
  <2> QED
    BY <1>1, <1>4, <1>9, <1>17, <2>1, <2>2, ReadsOn
<1>18. CASE bad /\ Give(Failure("malformed")) /\ Ended
  BY <1>14, <1>18
<1>19. CASE line # <<>> /\ ~ bad /\ long /\ Give(Failure("malformed")) /\ Ended
  BY <1>14, <1>19
<1> HIDE DEF bad, Drained
<1> QED
  BY <1>2, <1>15, <1>16, <1>17, <1>18, <1>19, Zenon

LEMMA OutOfLinesFrames ==
  ASSUME Buffered, Bounded, FramingInv, OutOfLines
  PROVE  FramingInv'
<1> DEFINE given == KeptOf(out)
<1>1. pc = "scan" /\ LineEnds = {} /\ UNCHANGED <<sent, closed>>
  BY DEF OutOfLines
<1>2. \/ TooLong /\ Give(Failure("malformed")) /\ Ended
      \/ /\ ~ TooLong /\ ~ done
         /\ pc' = "await" /\ scanned' = Len(buf)
         /\ UNCHANGED <<buf, done, lines, event_bytes, out>>
      \/ /\ done /\ lines = <<>>
         /\ pc' = "exhausted" /\ UNCHANGED <<buf, done, lines, event_bytes, out>>
      \/ done /\ lines # <<>> /\ Give(Frame(ParseEvent(lines))) /\ UNCHANGED <<buf, done>>
  BY Zenon DEF OutOfLines
<1>3. Reading /\ sent \in Seq(Bytes) /\ out \in Seq(Outputs)
  BY <1>1 DEF FramingInv
<1>4. (closed = "eof") = done /\ closed \in {"no", "eof", "error"} /\ Errors(out) = {}
  BY <1>3, OverIsDone
<1>5. /\ done \in BOOLEAN /\ lines \in Seq(Seq(Bytes)) /\ buf \in Seq(Bytes) /\ Len(buf) \in Nat
      /\ event_bytes = Len(FlattenSeq(lines)) /\ event_bytes \in Nat /\ MAX_EVENT_BYTES \in Nat
  BY CapAssumption DEF Buffered
<1>6. PICK c \in Nat : ReadSoFar(sent, done, c, buf, lines, given)
  BY <1>3 DEF Reading
<1>7. \A i \in 1 .. Len(buf) : buf[i] # "LF"
  <2>1. scanned \in 0 .. Len(buf) /\ \A i \in 1 .. scanned : buf[i] # "LF"
    BY DEF Buffered, Bounded
  <2>2. \A i \in scanned + 1 .. Len(buf) : buf[i] # "LF"
    BY <1>1 DEF LineEnds
  <2>3. \A i \in 1 .. Len(buf) : i \in 1 .. scanned \/ i \in scanned + 1 .. Len(buf)
    BY <1>5, <2>1
  <2> QED
    BY <2>1, <2>2, <2>3
<1>8. ASSUME done PROVE buf = <<>>
  <2>1. \A i \in 1 .. Len(buf) : buf[i] = "LF" <=> i = Len(buf)
    BY <1>8 DEF Bounded
  <2>2. ~ (Len(buf) \in 1 .. Len(buf))
    BY <1>7, <2>1
  <2>3. Len(buf) = 0
    BY <1>5, <2>2
  <2> QED
    BY <1>5, <2>3
<1>9. CASE TooLong /\ Give(Failure("malformed")) /\ Ended
  <2>1. CASE done
    <3>1. ReadSoFar(sent, TRUE, c, buf, lines, given)
      <4>1. done = TRUE
        BY <1>5, <2>1
      <4> QED
        BY <1>6, <4>1
    <3>2. ~ (Len(FlattenSeq(lines)) > MAX_EVENT_BYTES)
      BY <1>3, <1>7, <3>1, LastEvent
    <3>3. Len(buf) = 0
      BY <1>8, <2>1
    <3> QED
      BY <1>5, <1>9, <3>2, <3>3 DEF TooLong
  <2>2. CASE ~ done
    <3>1. done = FALSE
      BY <1>5, <2>2
    <3>2. ReadSoFar(sent, FALSE, c, buf, lines, given)
      BY <1>6, <3>1
    <3>3. /\ IsPrefix(given, SaidIn(LinesOf(sent, FALSE), FALSE))
          /\ TooMuch(LinesOf(sent, FALSE)) <=> Len(FlattenSeq(lines)) + Len(buf) > MAX_EVENT_BYTES
      BY <1>3, <1>7, <3>2, OpenTail
    <3>4. TooMuch(LinesOf(sent, FALSE))
      BY <1>5, <1>9, <3>3 DEF TooLong
    <3>5. AllSaid(sent, FALSE, given, {"malformed"})
      BY <3>3, <3>4 DEF AllSaid
    <3>6. AllSaid(sent, closed' = "eof", given, {"malformed"})
      BY <1>1, <1>4, <3>1, <3>5
    <3> QED
      BY <1>1, <1>3, <1>4, <1>9, <3>6, FailureSettles
  <2> QED
    BY <2>1, <2>2
<1>10. CASE /\ ~ TooLong /\ ~ done
            /\ pc' = "await" /\ scanned' = Len(buf)
            /\ UNCHANGED <<buf, done, lines, event_bytes, out>>
  <2>1. ReadSoFar(sent, done, c, buf', lines', KeptOf(out'))
    BY <1>6, <1>10
  <2>2. out' \in Seq(Outputs) /\ Errors(out') = {}
    BY <1>3, <1>4, <1>10
  <2> QED
    BY <1>1, <1>3, <1>6, <1>10, <2>1, <2>2, ReadsOn
<1>11. CASE /\ done /\ lines = <<>>
            /\ pc' = "exhausted" /\ UNCHANGED <<buf, done, lines, event_bytes, out>>
  <2>1. ReadSoFar(sent, done, c, buf', lines', KeptOf(out'))
    BY <1>6, <1>11
  <2>2. out' \in Seq(Outputs) /\ Errors(out') = {} /\ lines' = <<>> /\ buf' = <<>>
    BY <1>3, <1>4, <1>8, <1>11
  <2> QED
    BY <1>1, <1>3, <1>6, <1>11, <2>1, <2>2, ReadsOn
<1>12. CASE done /\ lines # <<>> /\ Give(Frame(ParseEvent(lines))) /\ UNCHANGED <<buf, done>>
  <2>1. /\ out' \in Seq(Outputs) /\ Errors(out') = {}
        /\ KeptOf(out') = Append(given, ParseEvent(lines))
        /\ pc' = "poll"
    BY <1>3, <1>4, <1>5, <1>12, FrameGiven
  <2>2. ReadSoFar(sent, TRUE, c, buf, lines, given) /\ done = TRUE
    <3>1. done = TRUE
      BY <1>5, <1>12
    <3> QED
      BY <1>6, <3>1
  <2>3. lines # <<>>
    BY <1>12
  <2>4. AllSaid(sent, TRUE, Append(given, ParseEvent(lines)), {})
    BY <1>3, <1>7, <2>2, <2>3, LastEvent
  <2>5. IsLast(out')
    <3>1. \A i \in DOMAIN out' : out'[i].err = "none"
      BY <2>1, NoErrorYet
    <3> QED
      BY <3>1 DEF IsLast
  <2>6. AllSaid(sent', closed' = "eof", KeptOf(out'), Errors(out'))
    BY <1>1, <1>4, <2>1, <2>2, <2>4
  <2>7. SaidAtEnd'
    BY <1>1, <1>4, <2>5, <2>6 DEF SaidAtEnd
  <2> QED
    BY <1>1, <1>3, <1>12, <2>1, <2>7 DEF FramingInv
<1> QED
  BY <1>2, <1>9, <1>10, <1>11, <1>12

LEMMA ChunkFrames ==
  ASSUME Buffered, Bounded, FramingInv, ChunkArrives
  PROVE  FramingInv'
<1>1. \E n \in 1 .. MaxChunk : \E chunk \in [1 .. n -> Bytes] :
        sent' = sent \o chunk /\ buf' = buf \o chunk
  BY Zenon DEF ChunkArrives
<1>2. PICK n \in 1 .. MaxChunk : \E chunk \in [1 .. n -> Bytes] :
        sent' = sent \o chunk /\ buf' = buf \o chunk
  BY <1>1
<1>3. PICK chunk \in [1 .. n -> Bytes] : sent' = sent \o chunk /\ buf' = buf \o chunk
  BY <1>2
<1>4. chunk \in Seq(Bytes)
  BY <1>2, <1>3, ChunkAssumption
<1>5. /\ pc = "await" /\ pc' = "scan" /\ done = FALSE
      /\ UNCHANGED <<closed, scanned, done, lines, event_bytes, out>>
  BY DEF ChunkArrives, Bounded, Buffered
<1>6. Reading /\ sent \in Seq(Bytes) /\ out \in Seq(Outputs)
  BY <1>5 DEF FramingInv
<1>7. PICK c \in Nat : ReadSoFar(sent, FALSE, c, buf, lines, KeptOf(out))
  BY <1>5, <1>6 DEF Reading
<1>8. ReadSoFar(sent \o chunk, FALSE, c, buf \o chunk, lines, KeptOf(out))
  BY <1>4, <1>6, <1>7, ChunkRead
<1>9. sent' \in Seq(Bytes)
  BY <1>3, <1>4, <1>6, JoinIs
<1>10. ReadSoFar(sent', done', c, buf', lines', KeptOf(out'))
  BY <1>3, <1>5, <1>8
<1>11. Reading'
  BY <1>5, <1>6, <1>10 DEF Reading
<1> QED
  BY <1>5, <1>6, <1>9, <1>11 DEF FramingInv

LEMMA ReadFailsFrames ==
  ASSUME Buffered, Bounded, FramingInv, ReadFails
  PROVE  FramingInv'
<1>1. /\ pc = "await" /\ closed' = "error" /\ Give(Failure("transport")) /\ Ended /\ sent' = sent
  BY DEF ReadFails
<1>2. done = FALSE
  BY <1>1 DEF Bounded, Buffered
<1>3. Reading /\ sent \in Seq(Bytes) /\ out \in Seq(Outputs)
  BY <1>1 DEF FramingInv
<1>4. PICK c \in Nat : ReadSoFar(sent, FALSE, c, buf, lines, KeptOf(out))
  BY <1>2, <1>3 DEF Reading
<1>5. AllSaid(sent, FALSE, KeptOf(out), {"transport"})
  BY <1>3, <1>4, ReadFailing
<1>6. (closed' = "eof") = FALSE
  BY <1>1
<1>7. AllSaid(sent, closed' = "eof", KeptOf(out), {"transport"})
  BY <1>5, <1>6
<1>8. Errors(out) = {}
  BY <1>3 DEF Reading
<1> QED
  BY <1>1, <1>3, <1>7, <1>8, FailureSettles

LEMMA BytesEndFrames ==
  ASSUME Buffered, Bounded, FramingInv, BytesEnd
  PROVE  FramingInv'
<1>1. /\ pc = "await" /\ pc' = "scan" /\ closed' = "eof" /\ done' = TRUE
      /\ buf' = IF buf = <<>> THEN <<>> ELSE Append(buf, "LF")
      /\ UNCHANGED <<sent, scanned, lines, event_bytes, out>>
  BY DEF BytesEnd, TerminateTail
<1>2. done = FALSE /\ \A i \in 1 .. Len(buf) : buf[i] # "LF"
  BY <1>1 DEF Bounded, Buffered
<1>3. Reading /\ sent \in Seq(Bytes) /\ out \in Seq(Outputs)
  BY <1>1 DEF FramingInv
<1>4. PICK c \in Nat : ReadSoFar(sent, FALSE, c, buf, lines, KeptOf(out))
  BY <1>2, <1>3 DEF Reading
<1>5. ReadSoFar(sent, TRUE, c, IF buf = <<>> THEN <<>> ELSE Append(buf, "LF"), lines, KeptOf(out))
  BY <1>2, <1>3, <1>4, EndRead
<1>6. ReadSoFar(sent', done', c, buf', lines', KeptOf(out'))
  BY <1>1, <1>5
<1>7. Reading'
  BY <1>1, <1>3, <1>6 DEF Reading
<1> QED
  BY <1>1, <1>3, <1>7 DEF FramingInv

\* While a call is under way, what it has yet to hand out is still buffered.
LEMMA FramingSays ==
  ASSUME Buffered, Bounded, FramingInv
  PROVE  FramesAreTheLines
<1> DEFINE over == closed = "eof"
           ls == LinesOf(sent, over)
           open == IsOpenLast(sent, over)
<1>1. Given = KeptOf(out)
  BY Zenon DEF Given, KeptOf
<1>2. sent \in Seq(Bytes) /\ out \in Seq(Outputs)
  BY DEF FramingInv
<1>3. (~ over /\ Len(sent) + 1 \in Ends(sent)) = open
  BY DEF IsOpenLast
<1> DEFINE Says(given, errors) ==
             /\ IsPrefix(given, SaidIn(ls, over))
             /\ IsLast(out)
             /\ "malformed" \in errors => TooMuch(ls) \/ NotUtf8(ls, open)
             /\ pc \in {"await", "exhausted"} /\ errors = {} =>
                  given = SaidIn(ls, over) /\ ~ TooMuch(ls) /\ ~ NotUtf8(ls, open)
<1>4. Says(KeptOf(out), Errors(out))
  <2>1. CASE done /\ pc \in {"poll", "exhausted"}
    BY <2>1, Zenon DEF FramingInv, SaidAtEnd, AllSaid
  <2>2. CASE ~ (done /\ pc \in {"poll", "exhausted"})
    <3>1. Reading
      BY <2>2 DEF FramingInv
    <3>2. (closed = "eof") = done /\ Errors(out) = {} /\ done \in BOOLEAN
      BY <3>1, OverIsDone DEF Buffered
    <3>3. PICK c \in Nat : ReadSoFar(sent, done, c, buf, lines, KeptOf(out))
      BY <3>1 DEF Reading
    <3>4. IsLast(out)
      <4>1. \A i \in DOMAIN out : out[i].err = "none"
        BY <1>2, <3>2, NoErrorYet
      <4> QED
        BY <4>1 DEF IsLast
    <3>5. IsPrefix(KeptOf(out), SaidIn(LinesOf(sent, done), done))
      <4>1. KeptOf(out) = SaidIn(ReadTo(sent, done, c), FALSE) /\ c \in 0 .. Len(Whole(sent, done))
        BY <3>3, Zenon DEF ReadSoFar
      <4>2. IsPrefix(SaidIn(ReadTo(sent, done, c), FALSE), SaidIn(LinesOf(sent, done), done))
        BY <1>2, <3>2, <4>1, ReadOfAll
      <4> QED
        BY <4>1, <4>2
    <3>6. pc # "exhausted"
      BY <2>2 DEF Bounded
    <3>7. ASSUME pc = "await"
          PROVE  /\ KeptOf(out) = SaidIn(LinesOf(sent, done), done)
                 /\ ~ TooMuch(LinesOf(sent, done))
                 /\ ~ NotUtf8(LinesOf(sent, done), IsOpenLast(sent, done))
      <4>1. /\ done = FALSE /\ \A i \in 1 .. Len(buf) : buf[i] # "LF"
            /\ Len(FlattenSeq(lines)) + Len(buf) <= MAX_EVENT_BYTES
        BY <3>7 DEF Bounded, Buffered
      <4>2. Len(FlattenSeq(lines)) \in Nat /\ Len(buf) \in Nat /\ MAX_EVENT_BYTES \in Nat
        BY CapAssumption DEF Buffered
      <4>3. ReadSoFar(sent, FALSE, c, buf, lines, KeptOf(out))
        BY <3>3, <4>1
      <4>4. /\ KeptOf(out) = SaidIn(LinesOf(sent, FALSE), FALSE)
            /\ TooMuch(LinesOf(sent, FALSE)) <=> Len(FlattenSeq(lines)) + Len(buf) > MAX_EVENT_BYTES
            /\ ~ NotUtf8(LinesOf(sent, FALSE), IsOpenLast(sent, FALSE))
        BY <1>2, <4>1, <4>3, OpenTail
      <4>5. ~ (Len(FlattenSeq(lines)) + Len(buf) > MAX_EVENT_BYTES)
        BY <4>1, <4>2
      <4> QED
        BY <4>1, <4>4, <4>5
    <3> QED
      BY <3>2, <3>4, <3>5, <3>6, <3>7
  <2> QED
    BY <2>1, <2>2
<1>5. Says(Given, {out[i].err : i \in DOMAIN out} \ {"none"})
  BY <1>1, <1>4, Zenon DEF Errors
<1> QED
  BY <1>3, <1>5, Zenon DEF FramesAreTheLines, IsLast

\* However the bytes are cut into chunks and whatever they are, what tokenize hands out is
\* what their lines say, in order and nothing lost once it has caught up; an error is
\* the last item, "malformed" only for an event over the cap or a line that is not UTF-8,
\* and neither gets by (lib.rs, tokenize, its step and parse_event).
THEOREM FramesSayTheLines == SseSpec => []FramesAreTheLines
<1>1. SseInit => FramingInv
  BY InitFrames
<1>2. (Buffered /\ Bounded) /\ FramingInv /\ [SseNext]_sse_vars => FramingInv'
  <2> SUFFICES ASSUME Buffered, Bounded, FramingInv, [SseNext]_sse_vars
               PROVE  FramingInv'
    OBVIOUS
  <2>1. CASE Poll
    BY <2>1, PollFrames
  <2>2. CASE TakeLine
    BY <2>2, TakeLineFrames
  <2>3. CASE OutOfLines
    BY <2>3, OutOfLinesFrames
  <2>4. CASE ChunkArrives
    BY <2>4, ChunkFrames
  <2>5. CASE ReadFails
    BY <2>5, ReadFailsFrames
  <2>6. CASE BytesEnd
    BY <2>6, BytesEndFrames
  <2>7. CASE UNCHANGED sse_vars
    BY <2>7, StutterFrames
  <2> QED
    BY <2>1, <2>2, <2>3, <2>4, <2>5, <2>6, <2>7 DEF SseNext
<1>3. (Buffered /\ Bounded) /\ FramingInv => FramesAreTheLines
  BY FramingSays
<1> QED
  BY <1>1, <1>2, <1>3, BuffersBounded, PTL DEF SseSpec
=============================================================================
