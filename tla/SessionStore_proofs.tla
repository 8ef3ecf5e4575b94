------------------------- MODULE SessionStore_proofs -------------------------
(***************************************************************************)
(* What a transcript file replays to, whatever was torn: for any batches,  *)
(* any number of appends and resumes, and any number of processes.         *)
(***************************************************************************)
EXTENDS SessionStore, Compaction_proofs

-----------------------------------------------------------------------------
(* Replaying one line more. *)

\* The walk FoldLines takes, as a function of how many lines it has read.
IsReplay(f, all, length) ==
  f = [n \in 0 .. length |-> IF n = 0 THEN Replayed ELSE FoldLine(f[n - 1], all[n])]

LEMMA ReplayExists ==
  ASSUME NEW all, NEW length \in Nat
  PROVE  \E f : IsReplay(f, all, length)
<1> DEFINE S == {n \in Nat : \E f : IsReplay(f, all, n)}
<1>1. 0 \in S
  <2> DEFINE f == [n \in 0 .. 0 |-> Replayed]
  <2>1. IsReplay(f, all, 0)
    BY DEF IsReplay
  <2> QED
    BY <2>1
<1>2. ASSUME NEW n \in Nat, n \in S PROVE n + 1 \in S
  <2>1. PICK f : IsReplay(f, all, n)
    BY <1>2
  <2> DEFINE g == [m \in 0 .. n + 1 |-> IF m <= n THEN f[m] ELSE FoldLine(f[n], all[m])]
             step(m) == IF m = 0 THEN Replayed ELSE FoldLine(g[m - 1], all[m])
  <2>2. ASSUME NEW m \in 0 .. n + 1 PROVE g[m] = step(m)
    <3>1. CASE m = 0
      <4>1. g[m] = f[m] /\ f[m] = Replayed
        BY <2>1, <3>1 DEF IsReplay
      <4> QED
        BY <4>1, <3>1
    <3>2. CASE m # 0 /\ m <= n
      <4>1. m - 1 \in 0 .. n + 1 /\ m - 1 <= n /\ m \in 0 .. n
        BY <3>2
      <4>2. g[m] = f[m] /\ g[m - 1] = f[m - 1]
        BY <3>2, <4>1
      <4>3. f[m] = FoldLine(f[m - 1], all[m])
        BY <2>1, <3>2, <4>1 DEF IsReplay
      <4> QED
        BY <4>2, <4>3, <3>2
    <3>3. CASE m = n + 1
      <4>1. g[m] = FoldLine(f[n], all[m]) /\ m - 1 = n /\ g[m - 1] = f[n]
        BY <3>3
      <4> QED
        BY <4>1, <3>3
    <3> QED
      BY <3>1, <3>2, <3>3
  <2>3. IsReplay(g, all, n + 1)
    <3>1. g = [m \in 0 .. n + 1 |-> step(m)]
      BY <2>2
    <3> QED
      BY <3>1 DEF IsReplay
  <2> QED
    BY <2>3
<1>3. 0 .. length \subseteq S
  <2> HIDE DEF S
  <2> QED
    BY <1>1, <1>2, InductionUpTo
<1> QED
  BY <1>3

\* How far two files agree, their replays do.
LEMMA ReplaysAgree ==
  ASSUME NEW all, NEW more, NEW length \in Nat, NEW longer \in Nat, length <= longer,
         NEW f, IsReplay(f, all, length), NEW g, IsReplay(g, more, longer),
         \A n \in 1 .. length : all[n] = more[n]
  PROVE  f[length] = g[length]
<1> DEFINE S == {n \in Nat : n <= length => f[n] = g[n]}
<1>1. 0 \in S
  <2>1. f[0] = Replayed /\ g[0] = Replayed
    BY DEF IsReplay
  <2> QED
    BY <2>1
<1>2. ASSUME NEW n \in Nat, n \in S, n < length PROVE n + 1 \in S
  <2>1. n + 1 \in 0 .. length /\ n + 1 \in 0 .. longer /\ n + 1 # 0 /\ (n + 1) - 1 = n
        /\ n + 1 \in 1 .. length
    BY <1>2
  <2>2. f[n + 1] = FoldLine(f[n], all[n + 1]) /\ g[n + 1] = FoldLine(g[n], more[n + 1])
    BY <2>1 DEF IsReplay
  <2>3. f[n] = g[n]
    BY <1>2
  <2> QED
    BY <2>1, <2>2, <2>3
<1>3. 0 .. length \subseteq S
  <2> HIDE DEF S
  <2> QED
    BY <1>1, <1>2, InductionUpTo
<1> QED
  BY <1>3

\* One more line is one more step.
LEMMA FoldAppend ==
  /\ FoldLines(<<>>) = Replayed
  /\ \A all \in Seq(Lines), line \in Lines :
       FoldLines(Append(all, line)) = FoldLine(FoldLines(all), line)
<1> DEFINE replay(all) == CHOOSE f : IsReplay(f, all, Len(all))
<1>1. ASSUME NEW all, Len(all) \in Nat
      PROVE  IsReplay(replay(all), all, Len(all)) /\ FoldLines(all) = replay(all)[Len(all)]
  <2>1. \E f : IsReplay(f, all, Len(all))
    BY <1>1, ReplayExists
  <2> QED
    BY <2>1 DEF FoldLines, IsReplay
<1>2. FoldLines(<<>>) = Replayed
  <2>1. Len(<<>>) = 0
    OBVIOUS
  <2>2. IsReplay(replay(<<>>), <<>>, 0) /\ FoldLines(<<>>) = replay(<<>>)[0]
    BY <1>1, <2>1
  <2> HIDE DEF replay
  <2> QED
    BY <2>2 DEF IsReplay
<1>3. ASSUME NEW all \in Seq(Lines), NEW line \in Lines
      PROVE  FoldLines(Append(all, line)) = FoldLine(FoldLines(all), line)
  <2> DEFINE more == Append(all, line)
             length == Len(all)
  <2>1. /\ length \in Nat /\ Len(more) = length + 1
        /\ \A n \in 1 .. length : all[n] = more[n]
        /\ more[length + 1] = line
    OBVIOUS
  <2> HIDE DEF more
  <2>2. IsReplay(replay(all), all, length) /\ FoldLines(all) = replay(all)[length]
    BY <1>1, <2>1
  <2>3. IsReplay(replay(more), more, length + 1) /\ FoldLines(more) = replay(more)[length + 1]
    BY <1>1, <2>1
  <2> HIDE DEF replay, length
  <2>4. replay(all)[length] = replay(more)[length]
    BY <2>1, <2>2, <2>3, ReplaysAgree
  <2>5. replay(more)[length + 1] = FoldLine(replay(more)[length], more[length + 1])
    <3>1. length + 1 \in 0 .. length + 1 /\ length + 1 # 0 /\ (length + 1) - 1 = length
      BY <2>1
    <3> QED
      BY <2>3, <3>1 DEF IsReplay
  <2> QED
    BY <2>1, <2>2, <2>3, <2>4, <2>5 DEF more
<1> QED
  BY <1>2, <1>3

-----------------------------------------------------------------------------
(* The messages of one line more. *)

\* The messages so far, and one line more.
Carry(sofar, line) == IF line.type = "message" THEN Append(sofar, line.message) ELSE sofar

\* The walk MessagesOf takes, in the same way.
IsCarry(f, all, length) ==
  f = [n \in 0 .. length |-> IF n = 0 THEN <<>> ELSE Carry(f[n - 1], all[n])]

LEMMA CarryExists ==
  ASSUME NEW all, NEW length \in Nat
  PROVE  \E f : IsCarry(f, all, length)
<1> DEFINE S == {n \in Nat : \E f : IsCarry(f, all, n)}
<1>1. 0 \in S
  <2> DEFINE f == [n \in 0 .. 0 |-> <<>>]
  <2>1. IsCarry(f, all, 0)
    BY DEF IsCarry
  <2> QED
    BY <2>1
<1>2. ASSUME NEW n \in Nat, n \in S PROVE n + 1 \in S
  <2>1. PICK f : IsCarry(f, all, n)
    BY <1>2
  <2> DEFINE g == [m \in 0 .. n + 1 |-> IF m <= n THEN f[m] ELSE Carry(f[n], all[m])]
             step(m) == IF m = 0 THEN <<>> ELSE Carry(g[m - 1], all[m])
  <2>2. ASSUME NEW m \in 0 .. n + 1 PROVE g[m] = step(m)
    <3>1. CASE m = 0
      <4>1. g[m] = f[m] /\ f[m] = <<>>
        BY <2>1, <3>1 DEF IsCarry
      <4> QED
        BY <4>1, <3>1
    <3>2. CASE m # 0 /\ m <= n
      <4>1. m - 1 \in 0 .. n + 1 /\ m - 1 <= n /\ m \in 0 .. n
        BY <3>2
      <4>2. g[m] = f[m] /\ g[m - 1] = f[m - 1]
        BY <3>2, <4>1
      <4>3. f[m] = Carry(f[m - 1], all[m])
        BY <2>1, <3>2, <4>1 DEF IsCarry
      <4> QED
        BY <4>2, <4>3, <3>2
    <3>3. CASE m = n + 1
      <4>1. g[m] = Carry(f[n], all[m]) /\ m - 1 = n /\ g[m - 1] = f[n]
        BY <3>3
      <4> QED
        BY <4>1, <3>3
    <3> QED
      BY <3>1, <3>2, <3>3
  <2>3. IsCarry(g, all, n + 1)
    <3>1. g = [m \in 0 .. n + 1 |-> step(m)]
      BY <2>2
    <3> QED
      BY <3>1 DEF IsCarry
  <2> QED
    BY <2>3
<1>3. 0 .. length \subseteq S
  <2> HIDE DEF S
  <2> QED
    BY <1>1, <1>2, InductionUpTo
<1> QED
  BY <1>3

\* How far two files agree, they carry the same.
LEMMA CarriesAgree ==
  ASSUME NEW all, NEW more, NEW length \in Nat, NEW longer \in Nat, length <= longer,
         NEW f, IsCarry(f, all, length), NEW g, IsCarry(g, more, longer),
         \A n \in 1 .. length : all[n] = more[n]
  PROVE  f[length] = g[length]
<1> DEFINE S == {n \in Nat : n <= length => f[n] = g[n]}
<1>1. 0 \in S
  <2>1. f[0] = <<>> /\ g[0] = <<>>
    BY DEF IsCarry
  <2> QED
    BY <2>1
<1>2. ASSUME NEW n \in Nat, n \in S, n < length PROVE n + 1 \in S
  <2>1. n + 1 \in 0 .. length /\ n + 1 \in 0 .. longer /\ n + 1 # 0 /\ (n + 1) - 1 = n
        /\ n + 1 \in 1 .. length
    BY <1>2
  <2>2. f[n + 1] = Carry(f[n], all[n + 1]) /\ g[n + 1] = Carry(g[n], more[n + 1])
    BY <2>1 DEF IsCarry
  <2>3. f[n] = g[n]
    BY <1>2
  <2> QED
    BY <2>1, <2>2, <2>3
<1>3. 0 .. length \subseteq S
  <2> HIDE DEF S
  <2> QED
    BY <1>1, <1>2, InductionUpTo
<1> QED
  BY <1>3

\* One more line carries at most one more message.
LEMMA CarriedAppend ==
  /\ MessagesOf(<<>>) = <<>>
  /\ \A all \in Seq(Lines), line \in Lines :
       MessagesOf(Append(all, line)) = Carry(MessagesOf(all), line)
<1> DEFINE carry(all) == CHOOSE f : IsCarry(f, all, Len(all))
<1>1. ASSUME NEW all, Len(all) \in Nat
      PROVE  IsCarry(carry(all), all, Len(all)) /\ MessagesOf(all) = carry(all)[Len(all)]
  <2>1. \E f : IsCarry(f, all, Len(all))
    BY <1>1, CarryExists
  <2> QED
    BY <2>1, Zenon DEF MessagesOf, IsCarry, Carry
<1>2. MessagesOf(<<>>) = <<>>
  <2>1. Len(<<>>) = 0
    OBVIOUS
  <2>2. IsCarry(carry(<<>>), <<>>, 0) /\ MessagesOf(<<>>) = carry(<<>>)[0]
    BY <1>1, <2>1
  <2> HIDE DEF carry
  <2> QED
    BY <2>2 DEF IsCarry
<1>3. ASSUME NEW all \in Seq(Lines), NEW line \in Lines
      PROVE  MessagesOf(Append(all, line)) = Carry(MessagesOf(all), line)
  <2> DEFINE more == Append(all, line)
             length == Len(all)
  <2>1. /\ length \in Nat /\ Len(more) = length + 1
        /\ \A n \in 1 .. length : all[n] = more[n]
        /\ more[length + 1] = line
    OBVIOUS
  <2> HIDE DEF more
  <2>2. IsCarry(carry(all), all, length) /\ MessagesOf(all) = carry(all)[length]
    BY <1>1, <2>1
  <2>3. IsCarry(carry(more), more, length + 1) /\ MessagesOf(more) = carry(more)[length + 1]
    BY <1>1, <2>1
  <2> HIDE DEF carry, length
  <2>4. carry(all)[length] = carry(more)[length]
    BY <2>1, <2>2, <2>3, CarriesAgree
  <2>5. carry(more)[length + 1] = Carry(carry(more)[length], more[length + 1])
    <3>1. length + 1 \in 0 .. length + 1 /\ length + 1 # 0 /\ (length + 1) - 1 = length
      BY <2>1
    <3> QED
      BY <2>3, <3>1 DEF IsCarry
  <2> QED
    BY <2>1, <2>2, <2>3, <2>4, <2>5 DEF more
<1> QED
  BY <1>2, <1>3

-----------------------------------------------------------------------------
(* What a file replays to. *)

Replays ==
  [messages : Seq(Messages), accounting : Accountings, read : Nat, error : Refusals \cup {None}]

\* A file that begins with its header and has no line glued to a torn one.
Clean(all) ==
  all # <<>> => all[1].type = "header" /\ \A i \in DOMAIN all : all[i] # Garbled

LEMMA LineKinds ==
  ASSUME NEW line \in Lines
  PROVE  /\ line.type \in {"header", "garbled", "message", "turn"}
         /\ line = Garbled <=> line.type = "garbled"
         /\ line.type = "message" => line.message \in Messages
         /\ line.type = "turn" => line.accounting \in Accountings
BY DEF Lines, HeaderLine, Garbled

LEMMA ReplayedIs ==
  /\ Replayed \in Replays /\ Replayed.messages = <<>> /\ Replayed.read = 0
  /\ Replayed.error = None /\ Replayed.accounting = NoAccounting
<1>1. NoAccounting \in Accountings
  BY DEF NoAccounting, Accountings
<1>2. <<>> \in Seq(Messages)
  OBVIOUS
<1> HIDE DEF Messages
<1> QED
  BY <1>1, <1>2 DEF Replayed, Replays

LEMMA AbsorbType ==
  ASSUME NEW old \in Accountings, NEW new \in Accountings
  PROVE  Absorb(old, new) \in Accountings
BY DEF Absorb, Accountings

\* One line read, by what it is and where.
LEMMA FoldLineIs ==
  ASSUME NEW replayed \in Replays, NEW line \in Lines
  PROVE  LET next == FoldLine(replayed, line)
         IN  /\ next \in Replays
             /\ replayed.error # None => next = replayed
             /\ replayed.error = None =>
                  /\ next.error = None
                       <=> line # Garbled /\ (replayed.read = 0 => line.type = "header")
                  /\ next.read = replayed.read + 1
                  /\ next.error = None =>
                       /\ next.messages = Carry(replayed.messages, line)
                       /\ next.accounting =
                            CASE line.type = "message" -> [replayed.accounting EXCEPT !.stop = None]
                              [] line.type = "turn" -> Absorb(replayed.accounting, line.accounting)
                              [] line.type = "header" -> replayed.accounting
<1> DEFINE next == FoldLine(replayed, line)
           more == [replayed EXCEPT !.read = @ + 1]
<1>0. /\ None \notin Refusals
      /\ replayed.messages \in Seq(Messages) /\ replayed.accounting \in Accountings
      /\ replayed.read \in Nat /\ replayed.error \in Refusals \cup {None}
  BY AbsentAssumption DEF Replays, Refusals
<1>1. line.type \in {"header", "garbled", "message", "turn"}
      /\ (line = Garbled <=> line.type = "garbled")
  BY LineKinds
<1>2. /\ more \in Replays /\ more.messages = replayed.messages
      /\ more.accounting = replayed.accounting /\ more.error = replayed.error
      /\ more.read = replayed.read + 1
  BY <1>0 DEF Replays
<1>3. CASE replayed.error # None
  BY <1>3 DEF FoldLine
<1>4. CASE replayed.error = None /\ line = Garbled
  <2>1. next = [more EXCEPT !.error = "malformed"]
    BY <1>4 DEF FoldLine
  <2>2. next \in Replays /\ next.error = "malformed" /\ next.read = more.read
    BY <1>2, <2>1 DEF Replays, Refusals
  <2>3. "malformed" # None
    BY <1>0 DEF Refusals
  <2> QED
    BY <1>2, <1>4, <2>2, <2>3
<1>5. CASE replayed.error = None /\ line # Garbled /\ replayed.read = 0 /\ line.type # "header"
  <2>1. next = [more EXCEPT !.error = "missing_header"]
    BY <1>5 DEF FoldLine
  <2>2. next \in Replays /\ next.error = "missing_header" /\ next.read = more.read
    BY <1>2, <2>1 DEF Replays, Refusals
  <2>3. "missing_header" # None
    BY <1>0 DEF Refusals
  <2> QED
    BY <1>2, <1>5, <2>2, <2>3
<1>6. CASE /\ replayed.error = None /\ line # Garbled
           /\ replayed.read = 0 => line.type = "header"
  <2>1. CASE line.type = "header"
    <3>1. next = more
      <4>1. CASE replayed.read = 0
        <5>1. next = [more EXCEPT !.error = None]
          BY <1>6, <2>1, <4>1 DEF FoldLine
        <5> QED
          BY <1>2, <1>6, <5>1 DEF Replays
      <4>2. CASE replayed.read # 0
        BY <1>6, <2>1, <4>2 DEF FoldLine
      <4> QED
        BY <4>1, <4>2
    <3> QED
      BY <1>2, <1>6, <2>1, <3>1 DEF Carry
  <2>2. CASE line.type = "message"
    <3>1. next = [more EXCEPT !.messages = Append(@, line.message), !.accounting.stop = None]
      BY <1>6, <2>2 DEF FoldLine
    <3>2. line.message \in Messages
      BY <2>2, LineKinds
    <3>3. [replayed.accounting EXCEPT !.stop = None] \in Accountings
      BY <1>0 DEF Accountings
    <3>4. Append(replayed.messages, line.message) \in Seq(Messages)
      BY <1>0, <3>2
    <3>5. next = [messages |-> Append(replayed.messages, line.message),
                  accounting |-> [replayed.accounting EXCEPT !.stop = None],
                  read |-> replayed.read + 1, error |-> None]
      BY <1>2, <1>6, <3>1 DEF Replays
    <3> HIDE DEF Messages
    <3> QED
      BY <1>0, <1>6, <2>2, <3>3, <3>4, <3>5 DEF Carry, Replays
  <2>3. CASE line.type = "turn"
    <3>1. next = [more EXCEPT !.accounting = Absorb(@, line.accounting)]
      BY <1>6, <2>3 DEF FoldLine
    <3>2. line.accounting \in Accountings
      BY <2>3, LineKinds
    <3>3. Absorb(replayed.accounting, line.accounting) \in Accountings
      BY <1>0, <3>2, AbsorbType
    <3>4. next = [messages |-> replayed.messages,
                  accounting |-> Absorb(replayed.accounting, line.accounting),
                  read |-> replayed.read + 1, error |-> None]
      BY <1>2, <1>6, <3>1 DEF Replays
    <3> HIDE DEF Messages
    <3> QED
      BY <1>0, <1>6, <2>3, <3>3, <3>4 DEF Carry, Replays
  <2> QED
    BY <1>1, <1>6, <2>1, <2>2, <2>3
<1> QED
  BY <1>3, <1>4, <1>5, <1>6

\* A file replays without an error just if it is clean, and then to all its messages.
LEMMA ReplayIs ==
  ASSUME NEW all \in Seq(Lines)
  PROVE  /\ FoldLines(all) \in Replays
         /\ FoldLines(all).error = None <=> Clean(all)
         /\ Clean(all) => /\ FoldLines(all).read = Len(all)
                          /\ FoldLines(all).messages = MessagesOf(all)
<1> DEFINE Right(some) ==
             /\ FoldLines(some) \in Replays
             /\ FoldLines(some).error = None <=> Clean(some)
             /\ Clean(some) => /\ FoldLines(some).read = Len(some)
                               /\ FoldLines(some).messages = MessagesOf(some)
           S == {some \in Seq(Lines) : Right(some)}
<1>1. <<>> \in S
  <2>1. Clean(<<>>) /\ Len(<<>>) = 0 /\ <<>> \in Seq(Lines)
    BY DEF Clean
  <2>2. FoldLines(<<>>) = Replayed /\ MessagesOf(<<>>) = <<>>
    BY FoldAppend, CarriedAppend
  <2> QED
    BY <2>1, <2>2, ReplayedIs
<1>2. ASSUME NEW some \in Seq(Lines), NEW line \in Lines, some \in S
      PROVE  Append(some, line) \in S
  <2> DEFINE more == Append(some, line)
             before == FoldLines(some)
             after == FoldLines(more)
  <2>1. /\ more \in Seq(Lines) /\ more # <<>> /\ Len(more) = Len(some) + 1 /\ Len(some) \in Nat
        /\ DOMAIN more = DOMAIN some \cup {Len(some) + 1} /\ DOMAIN some = 1 .. Len(some)
        /\ \A i \in DOMAIN some : more[i] = some[i]
        /\ more[Len(some) + 1] = line /\ (some = <<>> <=> Len(some) = 0)
    OBVIOUS
  <2>2. Right(some)
    BY <1>2
  <2>3. after = FoldLine(before, line) /\ MessagesOf(more) = Carry(MessagesOf(some), line)
    BY FoldAppend, CarriedAppend
  <2> HIDE DEF more
  <2>4. Clean(more) <=> /\ Clean(some) /\ line # Garbled
                        /\ some = <<>> => line.type = "header"
    <3>1. CASE some = <<>>
      <4>1. DOMAIN more = {1} /\ more[1] = line
        BY <2>1, <3>1
      <4>2. line.type = "header" => line # Garbled
        BY LineKinds
      <4> QED
        BY <2>1, <3>1, <4>1, <4>2 DEF Clean
    <3>2. CASE some # <<>>
      <4>1. 1 \in DOMAIN some /\ more[1] = some[1]
        BY <2>1, <3>2
      <4> HIDE DEF Lines
      <4> QED
        BY <2>1, <3>2, <4>1 DEF Clean
    <3> QED
      BY <3>1, <3>2
  <2> HIDE DEF before, after
  <2>5. /\ before \in Replays /\ (before.error = None <=> Clean(some))
        /\ Clean(some) => before.read = Len(some) /\ before.messages = MessagesOf(some)
    BY <2>2 DEF before
  <2>6. /\ after \in Replays
        /\ before.error # None => after = before
        /\ before.error = None =>
             /\ after.error = None <=> line # Garbled /\ (before.read = 0 => line.type = "header")
             /\ after.read = before.read + 1
             /\ after.error = None => after.messages = Carry(before.messages, line)
    BY <2>3, <2>5, FoldLineIs
  <2>7. /\ after \in Replays /\ (after.error = None <=> Clean(more))
        /\ Clean(more) => after.read = Len(more) /\ after.messages = MessagesOf(more)
    BY <2>1, <2>3, <2>4, <2>5, <2>6
  <2> QED
    BY <2>1, <2>7 DEF after, more
<1>3. Seq(Lines) \subseteq S
  <2> HIDE DEF S
  <2> QED
    BY <1>1, <1>2, ElementByElement
<1> QED
  BY <1>3

-----------------------------------------------------------------------------
(* What a turn's lines do to a replay. *)

\* Two sequences and one element more, however they are put together.
Together(first, second, last) ==
  /\ first \o Append(second, last) = Append(first \o second, last)
  /\ (first \o second) \o <<last>> = first \o Append(second, last)

LEMMA PutTogether ==
  ASSUME NEW T, NEW first \in Seq(T), NEW second \in Seq(T), NEW last \in T
  PROVE  Together(first, second, last)
<1>1. first \o Append(second, last) = Append(first \o second, last)
  OBVIOUS
<1>2. first \o second \in Seq(T)
  OBVIOUS
<1> DEFINE both == first \o second
<1>3. \A some \in Seq(T) : some \o <<last>> = Append(some, last)
  OBVIOUS
<1>4. both \o <<last>> = Append(both, last)
  BY <1>2, <1>3, Zenon
<1> QED
  BY <1>1, <1>4, Zenon DEF Together

LEMMA SessionExcept ==
  ASSUME NEW S, NEW T, NEW one \in [messages : S, accounting : T], NEW m, NEW a, NEW two,
         two = [one EXCEPT !.messages = m, !.accounting = a]
  PROVE  two = [messages |-> m, accounting |-> a]
<1>1. /\ two.messages = m /\ two.accounting = a
      /\ two = [messages |-> two.messages, accounting |-> two.accounting]
  OBVIOUS
<1> QED
  BY <1>1, Zenon

MessageLines(batch) == [i \in 1 .. Len(batch) |-> MessageLine(batch[i])]

\* An accounting, and the messages of one turn more: they stop describing it.
Over(accounting, batch) ==
  IF batch = <<>> THEN accounting ELSE [accounting EXCEPT !.stop = None]

LEMMA OverType ==
  ASSUME NEW accounting \in Accountings, NEW batch
  PROVE  Over(accounting, batch) \in Accountings
BY DEF Over, Accountings

LEMMA MessageLineType ==
  ASSUME NEW message \in Messages
  PROVE  /\ MessageLine(message) \in Lines /\ MessageLine(message).type = "message"
         /\ MessageLine(message).message = message /\ MessageLine(message) # Garbled
<1>1. MessageLine(message) \in [type : {"message"}, message : Messages]
  BY DEF MessageLine
<1>2. MessageLine(message) \in Lines
  BY <1>1 DEF Lines
<1>3. MessageLine(message).type = "message" /\ MessageLine(message).message = message
  BY DEF MessageLine
<1>4. MessageLine(message) # Garbled
  BY <1>2, <1>3, LineKinds
<1> QED
  BY <1>2, <1>3, <1>4

LEMMA TurnLineType ==
  ASSUME NEW accounting \in Accountings
  PROVE  /\ TurnLine(accounting) \in Lines /\ TurnLine(accounting).type = "turn"
         /\ TurnLine(accounting).accounting = accounting /\ TurnLine(accounting) # Garbled
<1>1. TurnLine(accounting) \in [type : {"turn"}, accounting : Accountings]
  BY DEF TurnLine
<1>2. TurnLine(accounting) \in Lines
  BY <1>1 DEF Lines
<1>3. TurnLine(accounting).type = "turn" /\ TurnLine(accounting).accounting = accounting
  BY DEF TurnLine
<1>4. TurnLine(accounting) # Garbled
  BY <1>2, <1>3, LineKinds
<1> QED
  BY <1>2, <1>3, <1>4

LEMMA MessageLinesGrow ==
  /\ MessageLines(<<>>) = <<>>
  /\ \A batch \in Seq(Messages) : MessageLines(batch) \in Seq(Lines)
  /\ \A batch \in Seq(Messages), message \in Messages :
       MessageLines(Append(batch, message)) = Append(MessageLines(batch), MessageLine(message))
<1>1. MessageLines(<<>>) = <<>>
  BY DEF MessageLines
<1>2. ASSUME NEW batch \in Seq(Messages) PROVE MessageLines(batch) \in Seq(Lines)
  <2>1. \A i \in 1 .. Len(batch) : MessageLine(batch[i]) \in Lines
    <3> SUFFICES ASSUME NEW i \in 1 .. Len(batch) PROVE MessageLine(batch[i]) \in Lines
      OBVIOUS
    <3>1. batch[i] \in Messages
      OBVIOUS
    <3> QED
      BY <3>1, MessageLineType
  <2> HIDE DEF Lines, MessageLine
  <2> QED
    BY <2>1 DEF MessageLines
<1>3. ASSUME NEW batch \in Seq(Messages), NEW message \in Messages
      PROVE  MessageLines(Append(batch, message)) = Append(MessageLines(batch), MessageLine(message))
  <2> DEFINE more == Append(batch, message)
  <2>1. /\ Len(more) = Len(batch) + 1 /\ Len(batch) \in Nat
        /\ \A i \in 1 .. Len(batch) : more[i] = batch[i]
        /\ more[Len(batch) + 1] = message
    OBVIOUS
  <2> HIDE DEF more
  <2>2. MessageLines(batch) \in Seq(Lines) /\ MessageLine(message) \in Lines
    BY <1>2, MessageLineType
  <2>3. Len(MessageLines(batch)) = Len(batch)
    BY <2>1 DEF MessageLines
  <2>4. /\ Append(MessageLines(batch), MessageLine(message)) \in Seq(Lines)
        /\ Len(Append(MessageLines(batch), MessageLine(message))) = Len(batch) + 1
        /\ \A i \in 1 .. Len(batch) :
             Append(MessageLines(batch), MessageLine(message))[i] = MessageLines(batch)[i]
        /\ Append(MessageLines(batch), MessageLine(message))[Len(batch) + 1] = MessageLine(message)
    BY <2>1, <2>2, <2>3
  <2> DEFINE added == Append(MessageLines(batch), MessageLine(message))
  <2> HIDE DEF added, MessageLine
  <2>5. \A i \in 1 .. Len(batch) + 1 : added[i] = MessageLine(more[i])
    BY <2>1, <2>4 DEF added, MessageLines
  <2>6. added = [i \in 1 .. Len(batch) + 1 |-> added[i]]
    <3>1. added \in Seq(Lines) /\ Len(added) = Len(batch) + 1
      BY <2>4 DEF added
    <3> HIDE DEF Lines
    <3> QED
      BY <3>1
  <2>7. MessageLines(more) = [i \in 1 .. Len(batch) + 1 |-> MessageLine(more[i])]
    BY <2>1 DEF MessageLines
  <2>8. added = MessageLines(more)
    BY <2>5, <2>6, <2>7
  <2> QED
    BY <2>8 DEF added, more
<1> QED
  BY <1>1, <1>2, <1>3

\* Lines behind a file change nothing before them.
LEMMA CleanBefore ==
  ASSUME NEW all \in Seq(Lines), NEW more \in Seq(Lines), Clean(all \o more)
  PROVE  Clean(all) /\ \A i \in DOMAIN more : more[i] # Garbled
<1>1. /\ all \o more \in Seq(Lines) /\ Len(all \o more) = Len(all) + Len(more)
      /\ Len(all) \in Nat /\ Len(more) \in Nat
      /\ DOMAIN all = 1 .. Len(all) /\ DOMAIN more = 1 .. Len(more)
      /\ DOMAIN (all \o more) = 1 .. Len(all) + Len(more)
      /\ \A i \in 1 .. Len(all) : (all \o more)[i] = all[i]
      /\ \A i \in 1 .. Len(more) : (all \o more)[Len(all) + i] = more[i]
      /\ (all # <<>> => Len(all) > 0) /\ (all \o more # <<>> <=> Len(all \o more) > 0)
  OBVIOUS
<1> DEFINE both == all \o more
<1> HIDE DEF both, Lines
<1>2. CASE both = <<>>
  BY <1>1, <1>2 DEF both, Clean
<1>3. CASE both # <<>>
  <2>1. both[1].type = "header" /\ \A i \in 1 .. Len(all) + Len(more) : both[i] # Garbled
    BY <1>1, <1>3 DEF both, Clean
  <2>2. Clean(all)
    <3> SUFFICES ASSUME all # <<>> PROVE all[1].type = "header" /\ \A i \in 1 .. Len(all) : all[i] # Garbled
      BY <1>1 DEF Clean
    <3>1. 1 \in 1 .. Len(all) /\ \A i \in 1 .. Len(all) : i \in 1 .. Len(all) + Len(more)
      BY <1>1
    <3> QED
      BY <1>1, <2>1, <3>1 DEF both
  <2>3. ASSUME NEW i \in 1 .. Len(more) PROVE more[i] # Garbled
    <3>1. Len(all) + i \in 1 .. Len(all) + Len(more)
      BY <1>1
    <3> QED
      BY <1>1, <2>1, <3>1 DEF both
  <2> QED
    BY <1>1, <2>2, <2>3
<1> QED
  BY <1>2, <1>3

\* One clean line more, on a file that has its header or is the header's.
LEMMA CleanAppend ==
  ASSUME NEW all \in Seq(Lines), NEW line \in Lines
  PROVE  Clean(Append(all, line))
           <=> Clean(all) /\ line # Garbled /\ (all = <<>> => line.type = "header")
<1> DEFINE before == FoldLines(all)
           after == FoldLines(Append(all, line))
<1>1. /\ before \in Replays /\ (before.error = None <=> Clean(all))
      /\ Clean(all) => before.read = Len(all)
  BY ReplayIs
<1>2. Append(all, line) \in Seq(Lines)
  OBVIOUS
<1>3. after.error = None <=> Clean(Append(all, line))
  BY <1>2, ReplayIs
<1>4. after = FoldLine(before, line)
  BY FoldAppend
<1> HIDE DEF before, after
<1>5. /\ before.error # None => after = before
      /\ before.error = None =>
           (after.error = None <=> line # Garbled /\ (before.read = 0 => line.type = "header"))
  BY <1>1, <1>4, FoldLineIs
<1>6. Len(all) = 0 <=> all = <<>>
  OBVIOUS
<1> QED
  BY <1>1, <1>3, <1>5, <1>6

\* What one line more does to a clean file's replay.
LEMMA ReplayAppend ==
  ASSUME NEW all \in Seq(Lines), NEW line \in Lines, Clean(Append(all, line))
  PROVE  FoldLines(Append(all, line)).accounting =
           CASE line.type = "message" -> Over(FoldLines(all).accounting, <<line>>)
             [] line.type = "turn" -> Absorb(FoldLines(all).accounting, line.accounting)
             [] line.type = "header" -> FoldLines(all).accounting
<1> DEFINE before == FoldLines(all)
           after == FoldLines(Append(all, line))
<1>1. Clean(all)
  BY CleanAppend
<1>2. before \in Replays /\ before.error = None
  BY <1>1, ReplayIs
<1>3. Append(all, line) \in Seq(Lines)
  OBVIOUS
<1>4. after.error = None
  BY <1>3, ReplayIs
<1>5. after = FoldLine(before, line)
  BY FoldAppend
<1>6. <<line>> # <<>>
  OBVIOUS
<1> HIDE DEF before, after
<1>7. after.accounting =
        CASE line.type = "message" -> [before.accounting EXCEPT !.stop = None]
          [] line.type = "turn" -> Absorb(before.accounting, line.accounting)
          [] line.type = "header" -> before.accounting
  BY <1>2, <1>4, <1>5, FoldLineIs
<1>8. Over(before.accounting, <<line>>) = [before.accounting EXCEPT !.stop = None]
  BY <1>6 DEF Over
<1>9. after.accounting =
        CASE line.type = "message" -> Over(before.accounting, <<line>>)
          [] line.type = "turn" -> Absorb(before.accounting, line.accounting)
          [] line.type = "header" -> before.accounting
  BY <1>7, <1>8
<1> QED
  BY <1>9 DEF before, after

LEMMA MessagesOfType ==
  ASSUME NEW all \in Seq(Lines)
  PROVE  MessagesOf(all) \in Seq(Messages)
<1> DEFINE T == {some \in Seq(Lines) : MessagesOf(some) \in Seq(Messages)}
<1>1. <<>> \in T
  <2>1. <<>> \in Seq(Lines) /\ <<>> \in Seq(Messages)
    OBVIOUS
  <2> QED
    BY <2>1, CarriedAppend, Zenon
<1>2. ASSUME NEW some \in Seq(Lines), NEW line \in Lines, some \in T PROVE Append(some, line) \in T
  <2>1. Append(some, line) \in Seq(Lines)
    OBVIOUS
  <2>2. MessagesOf(Append(some, line)) = Carry(MessagesOf(some), line)
    BY CarriedAppend
  <2>3. line.type = "message" => line.message \in Messages
    BY LineKinds
  <2>4. MessagesOf(some) \in Seq(Messages)
    BY <1>2
  <2>5. Carry(MessagesOf(some), line) \in Seq(Messages)
    <3> HIDE DEF Messages, Lines
    <3> QED
      BY <2>3, <2>4 DEF Carry
  <2> QED
    BY <2>1, <2>2, <2>5, Zenon
<1>3. Seq(Lines) \subseteq T
  <2> HIDE DEF T
  <2> QED
    BY <1>1, <1>2, ElementByElement
<1> QED
  BY <1>3

\* A turn's messages, written whole.
LEMMA MessagesWritten ==
  ASSUME NEW all \in Seq(Lines), NEW batch \in Seq(Messages)
  PROVE  LET now == all \o MessageLines(batch)
         IN  /\ now \in Seq(Lines)
             /\ MessagesOf(now) = MessagesOf(all) \o batch
             /\ Clean(now) => FoldLines(now).accounting = Over(FoldLines(all).accounting, batch)
             /\ Clean(all) /\ all # <<>> => Clean(now)
<1> DEFINE now(some) == all \o MessageLines(some)
           Right(some) ==
             /\ now(some) \in Seq(Lines)
             /\ MessagesOf(now(some)) = MessagesOf(all) \o some
             /\ Clean(now(some)) =>
                  FoldLines(now(some)).accounting = Over(FoldLines(all).accounting, some)
             /\ Clean(all) /\ all # <<>> => Clean(now(some))
           S == {some \in Seq(Messages) : Right(some)}
<1>0. MessagesOf(all) \in Seq(Messages)
  BY MessagesOfType
<1>1. <<>> \in S
  <2>1. now(<<>>) = all
    BY MessageLinesGrow
  <2>2. MessagesOf(all) \o <<>> = MessagesOf(all)
    BY <1>0
  <2> HIDE DEF now
  <2>3. Right(<<>>) /\ <<>> \in Seq(Messages)
    BY <2>1, <2>2 DEF Over
  <2> QED
    BY <2>3, Zenon
<1>2. ASSUME NEW some \in Seq(Messages), NEW message \in Messages, some \in S
      PROVE  Append(some, message) \in S
  <2> DEFINE more == Append(some, message)
             line == MessageLine(message)
  <2>1. Right(some)
    BY <1>2
  <2>2. /\ line \in Lines /\ line.type = "message" /\ line.message = message /\ line # Garbled
    BY MessageLineType
  <2>3. now(more) = Append(now(some), line)
    <3>1. MessageLines(more) = Append(MessageLines(some), line) /\ MessageLines(some) \in Seq(Lines)
      BY MessageLinesGrow
    <3> HIDE DEF line, more, Lines
    <3> QED
      BY <2>2, <3>1
  <2>4. /\ more \in Seq(Messages) /\ more # <<>>
        /\ MessagesOf(all) \o more = Append(MessagesOf(all) \o some, message)
    <3> DEFINE old == MessagesOf(all)
    <3>1. old \in Seq(Messages)
      BY <1>0
    <3> HIDE DEF old, Messages
    <3>2. old \o Append(some, message) = Append(old \o some, message)
      BY <3>1
    <3>3. Append(some, message) \in Seq(Messages) /\ Append(some, message) # <<>>
      OBVIOUS
    <3> QED
      BY <3>2, <3>3 DEF old
  <2> HIDE DEF line, now, more
  <2>5. now(more) \in Seq(Lines)
    BY <2>1, <2>2, <2>3
  <2>6. MessagesOf(now(more)) = Append(MessagesOf(now(some)), message)
    BY <2>1, <2>2, <2>3, CarriedAppend DEF Carry
  <2>7. /\ Clean(now(more)) =>
             /\ Clean(now(some))
             /\ FoldLines(now(more)).accounting = Over(FoldLines(now(some)).accounting, <<line>>)
        /\ Clean(now(some)) /\ now(some) # <<>> => Clean(now(more))
    BY <2>1, <2>2, <2>3, CleanAppend, ReplayAppend, ZenonT(60)
  <2>8. Over(Over(FoldLines(all).accounting, some), <<line>>) = Over(FoldLines(all).accounting, more)
    <3> DEFINE old == FoldLines(all).accounting
    <3>1. old \in Accountings
      BY ReplayIs DEF Replays
    <3>2. <<line>> # <<>>
      OBVIOUS
    <3> HIDE DEF old
    <3>3. Over(Over(old, some), <<line>>) = Over(old, more)
      BY <2>4, <3>1, <3>2 DEF Over, Accountings
    <3> QED
      BY <3>3 DEF old
  <2>9. all # <<>> => now(some) # <<>>
    <3>1. MessageLines(some) \in Seq(Lines)
      BY MessageLinesGrow
    <3> HIDE DEF Lines
    <3> QED
      BY <3>1 DEF now
  <2>10. Right(more)
    BY <2>1, <2>4, <2>5, <2>6, <2>7, <2>8, <2>9
  <2>11. more \in S
    BY <2>4, <2>10, Zenon
  <2> QED
    BY <2>11 DEF more
<1>3. Seq(Messages) \subseteq S
  <2> HIDE DEF S
  <2> QED
    BY <1>1, <1>2, ElementByElement
<1> QED
  BY <1>3

LEMMA RecordsAre ==
  ASSUME NEW batch \in Seq(Messages), NEW accounting \in Accountings
  PROVE  LET added == Records(batch, accounting)
         IN  /\ added \in Seq(Lines) /\ Len(added) = Len(batch) + 1
             /\ added = Append(MessageLines(batch), TurnLine(accounting))
             /\ SubSeq(added, 1, Len(batch) + 1) = added
             /\ \A n \in 0 .. Len(batch) :
                  SubSeq(added, 1, n) = MessageLines(SubSeq(batch, 1, n))
<1> DEFINE added == Records(batch, accounting)
           carried == MessageLines(batch)
           last == TurnLine(accounting)
<1>1. carried \in Seq(Lines) /\ last \in Lines
  BY MessageLinesGrow, TurnLineType
<1>2. Len(carried) = Len(batch) /\ Len(batch) \in Nat
  BY DEF MessageLines
<1>3. added = carried \o <<last>>
  BY DEF Records, MessageLines
<1> HIDE DEF added, carried, last, Lines, Messages
<1>4. added = Append(carried, last) /\ added \in Seq(Lines) /\ Len(added) = Len(batch) + 1
  BY <1>1, <1>2, <1>3
<1>5. SubSeq(added, 1, Len(batch) + 1) = added
  BY <1>4
<1>6. ASSUME NEW n \in 0 .. Len(batch)
      PROVE  SubSeq(added, 1, n) = MessageLines(SubSeq(batch, 1, n))
  <2>1. Len(SubSeq(batch, 1, n)) = n /\ \A i \in 1 .. n : SubSeq(batch, 1, n)[i] = batch[i]
    BY <1>2
  <2> DEFINE front == SubSeq(batch, 1, n)
  <2> HIDE DEF front, MessageLine
  <2>2. MessageLines(front) = [i \in 1 .. n |-> MessageLine(batch[i])]
    BY <2>1 DEF front, MessageLines
  <2>3. \A i \in 1 .. n : added[i] = MessageLine(batch[i])
    <3> SUFFICES ASSUME NEW i \in 1 .. n PROVE added[i] = MessageLine(batch[i])
      OBVIOUS
    <3>1. i \in 1 .. Len(carried) /\ i \in 1 .. Len(batch)
      BY <1>2
    <3>2. added[i] = carried[i]
      BY <1>1, <1>4, <3>1
    <3>3. carried[i] = MessageLine(batch[i])
      BY <3>1 DEF carried, MessageLines
    <3> QED
      BY <3>2, <3>3
  <2>4. SubSeq(added, 1, n) = [i \in 1 .. n |-> added[i]]
    BY <1>2, <1>4
  <2> QED
    BY <2>2, <2>3, <2>4 DEF front
<1> QED
  BY <1>4, <1>5, <1>6 DEF added, carried, last

\* The messages of the first lines of a turn.
Told(batch, n) == IF n <= Len(batch) THEN SubSeq(batch, 1, n) ELSE batch

\* The first lines of a turn, written whole.
PartFacts(all, batch, accounting, n) ==
  LET part == SubSeq(Records(batch, accounting), 1, n)
      now == all \o part
      old == FoldLines(all).accounting
  IN  /\ part \in Seq(Lines) /\ now \in Seq(Lines) /\ Told(batch, n) \in Seq(Messages)
      /\ MessagesOf(now) = MessagesOf(all) \o Told(batch, n)
      /\ MessagesOf(part) = Told(batch, n)
      /\ StopOf(part) = IF n <= Len(batch) THEN None ELSE accounting.stop
      /\ Clean(now) =>
           /\ Clean(all)
           /\ FoldLines(now).accounting =
                IF n <= Len(batch) THEN Over(old, Told(batch, n))
                ELSE Absorb(Over(old, batch), accounting)
      /\ Clean(all) /\ all # <<>> => Clean(now)

LEMMA PartWritten ==
  ASSUME NEW all \in Seq(Lines), NEW batch \in Seq(Messages), NEW accounting \in Accountings,
         NEW n \in 0 .. Len(batch) + 1
  PROVE  PartFacts(all, batch, accounting, n)
<1> DEFINE part == SubSeq(Records(batch, accounting), 1, n)
           old == FoldLines(all).accounting
           last == TurnLine(accounting)
<1>0. Len(batch) \in Nat
  OBVIOUS
<1>1. last \in Lines /\ last.type = "turn" /\ last.accounting = accounting /\ last # Garbled
  BY TurnLineType
<1>2. CASE n <= Len(batch)
  <2> DEFINE told == SubSeq(batch, 1, n)
  <2>1. told \in Seq(Messages) /\ Told(batch, n) = told /\ Len(told) = n
    BY <1>0, <1>2 DEF Told
  <2>2. part = MessageLines(told)
    BY <1>0, <1>2, RecordsAre
  <2> HIDE DEF told, part
  <2>3. MessageLines(told) \in Seq(Lines)
    BY <2>1, MessageLinesGrow
  <2>4. /\ MessagesOf(all \o part) = MessagesOf(all) \o told /\ all \o part \in Seq(Lines)
        /\ Clean(all \o part) => FoldLines(all \o part).accounting = Over(old, told)
        /\ Clean(all) /\ all # <<>> => Clean(all \o part)
    BY <2>1, <2>2, MessagesWritten
  <2>5. MessagesOf(part) = told
    <3>1. <<>> \in Seq(Lines) /\ <<>> \o part = part
      BY <2>2, <2>3
    <3>2. MessagesOf(<<>> \o part) = MessagesOf(<<>>) \o told
      BY <2>1, <2>2, <3>1, MessagesWritten
    <3> HIDE DEF Messages
    <3> QED
      BY <2>1, <3>1, <3>2, CarriedAppend
  <2>6. StopOf(part) = None
    <3>1. part # <<>> => Last(part) = MessageLine(told[Len(told)]) /\ told[Len(told)] \in Messages
      <4> SUFFICES ASSUME part # <<>>
                   PROVE  Last(part) = MessageLine(told[Len(told)]) /\ told[Len(told)] \in Messages
        OBVIOUS
      <4>1. Len(told) \in 1 .. Len(told)
        BY <1>0, <2>1, <2>2 DEF MessageLines
      <4>2. Len(part) = Len(told) /\ part[Len(told)] = MessageLine(told[Len(told)])
        BY <2>2, <4>1 DEF MessageLines
      <4> HIDE DEF Messages
      <4> QED
        BY <2>1, <4>1, <4>2 DEF Last
    <3>2. part # <<>> => Last(part).type = "message"
      BY <3>1, MessageLineType
    <3> QED
      BY <3>2 DEF StopOf
  <2>7. Clean(all \o part) => Clean(all)
    BY <2>2, <2>3, CleanBefore
  <2> QED
    BY <1>2, <2>1, <2>2, <2>3, <2>4, <2>5, <2>6, <2>7 DEF part, PartFacts
<1>3. CASE n = Len(batch) + 1
  <2> DEFINE carried == MessageLines(batch)
  <2>1. part = Append(carried, last) /\ Told(batch, n) = batch /\ ~(n <= Len(batch))
    BY <1>0, <1>3, RecordsAre DEF Told
  <2>2. carried \in Seq(Lines)
    BY MessageLinesGrow
  <2> HIDE DEF part, carried, last
  <2>3. part \in Seq(Lines) /\ all \o part = Append(all \o carried, last) /\ all \o carried \in Seq(Lines)
        /\ all \o part \in Seq(Lines) /\ (all # <<>> => all \o carried # <<>>)
    <3> HIDE DEF Lines
    <3> QED
      BY <1>1, <2>1, <2>2
  <2>4. /\ MessagesOf(all \o carried) = MessagesOf(all) \o batch
        /\ Clean(all \o carried) => FoldLines(all \o carried).accounting = Over(old, batch)
        /\ Clean(all) /\ all # <<>> => Clean(all \o carried)
    BY MessagesWritten DEF carried
  <2>5. MessagesOf(carried) = batch
    <3>1. <<>> \in Seq(Lines) /\ <<>> \o carried = carried
      BY <2>2
    <3>2. MessagesOf(<<>> \o carried) = MessagesOf(<<>>) \o batch
      BY <3>1, MessagesWritten DEF carried
    <3>3. <<>> \o batch = batch
      OBVIOUS
    <3> QED
      BY <3>1, <3>2, <3>3, CarriedAppend
  <2>6. MessagesOf(part) = batch /\ MessagesOf(all \o part) = MessagesOf(all) \o batch
    BY <1>1, <2>1, <2>2, <2>3, <2>4, <2>5, CarriedAppend DEF Carry
  <2>7. StopOf(part) = accounting.stop
    <3>1. part # <<>> /\ Last(part) = last
      <4> HIDE DEF Lines
      <4> QED
        BY <1>1, <2>1, <2>2 DEF Last
    <3> QED
      BY <1>1, <3>1 DEF StopOf
  <2>8. Clean(all \o part) =>
          /\ Clean(all)
          /\ FoldLines(all \o part).accounting = Absorb(Over(old, batch), accounting)
    <3> SUFFICES ASSUME Clean(all \o part)
                 PROVE  /\ Clean(all)
                        /\ FoldLines(all \o part).accounting = Absorb(Over(old, batch), accounting)
      OBVIOUS
    <3>1. Clean(all)
      BY <2>3, CleanBefore
    <3>2. Clean(all \o carried)
      BY <1>1, <2>3, CleanAppend
    <3>3. FoldLines(all \o part).accounting = Absorb(FoldLines(all \o carried).accounting, accounting)
      BY <1>1, <2>3, ReplayAppend
    <3> QED
      BY <2>4, <3>1, <3>2, <3>3
  <2>9. Clean(all) /\ all # <<>> => Clean(all \o part)
    BY <1>1, <2>3, <2>4, CleanAppend
  <2> QED
    BY <2>1, <2>3, <2>6, <2>7, <2>8, <2>9 DEF part, PartFacts
<1> QED
  BY <1>0, <1>2, <1>3

\* Whatever of a turn reached the file, the stop read back is none or the turn's own.
LEMMA PartStops ==
  ASSUME NEW all \in Seq(Lines), NEW batch \in Seq(Messages), NEW accounting \in Accountings,
         NEW n \in 0 .. Len(batch) + 1, NEW before,
         accounting.stop = None <=> batch = <<>>,
         FoldLines(all).accounting.stop \in {None, before},
         Clean(all \o SubSeq(Records(batch, accounting), 1, n))
  PROVE  LET part == SubSeq(Records(batch, accounting), 1, n)
         IN  FoldLines(all \o part).accounting.stop
               \in {None, IF MessagesOf(part) = <<>> THEN before ELSE StopOf(part)}
<1> DEFINE part == SubSeq(Records(batch, accounting), 1, n)
           old == FoldLines(all).accounting
           new == FoldLines(all \o part).accounting
<1>1. /\ MessagesOf(part) = Told(batch, n)
      /\ StopOf(part) = IF n <= Len(batch) THEN None ELSE accounting.stop
      /\ new = IF n <= Len(batch) THEN Over(old, Told(batch, n))
               ELSE Absorb(Over(old, batch), accounting)
  <2>1. PartFacts(all, batch, accounting, n)
    BY PartWritten
  <2> QED
    BY <2>1, Zenon DEF PartFacts
<1>2. old \in Accountings /\ old.stop \in {None, before}
  BY ReplayIs DEF Replays
<1> HIDE DEF part, old, new
<1>3. \A some : Over(old, some).stop = IF some = <<>> THEN old.stop ELSE None
  BY <1>2 DEF Over, Accountings
<1>4. ~(n <= Len(batch)) => Told(batch, n) = batch
  BY DEF Told
<1> DEFINE after == IF MessagesOf(part) = <<>> THEN before ELSE StopOf(part)
<1>5. CASE n <= Len(batch)
  <2>1. new.stop \in {None, after}
    BY <1>1, <1>2, <1>3, <1>5
  <2> QED
    BY <2>1 DEF new, part
<1>6. CASE ~(n <= Len(batch))
  <2>1. new.stop = IF accounting.stop # None THEN accounting.stop ELSE Over(old, batch).stop
    BY <1>1, <1>6 DEF Absorb
  <2>2. new.stop \in {None, after}
    BY <1>1, <1>2, <1>3, <1>4, <1>6, <2>1
  <2> QED
    BY <2>2 DEF new, part
<1> QED
  BY <1>5, <1>6

-----------------------------------------------------------------------------
(* The inductive invariant. *)

\* The lines a resume parses: a last one without its newline is among them if whole.
Parsed == IF open # None /\ open.how = "whole" THEN Append(lines, open.line) ELSE lines

Sessions == [messages : Seq(Messages), accounting : Accountings]

TypeInv ==
  /\ alone \in Processes \cup {None} /\ exists \in BOOLEAN
  /\ lines \in Seq(Lines) /\ open \in [how : Tears, line : Lines] \cup {None}
  /\ session \in [Processes -> Sessions \cup {None}] /\ refused \in Refusals \cup {None}
  /\ written \in Seq(Messages) /\ lost \in BOOLEAN /\ lastStop \in Stops \cup {None}

\* Before its creation there is nothing of a file, and nobody holds it.
CreationInv ==
  ~exists => /\ lines = <<>> /\ open = None /\ written = <<>> /\ ~lost
             /\ \A p \in Processes : session[p] = None

\* What parses is what was written, and what whoever is alone with it holds.
ReadInv ==
  Clean(Parsed) =>
    /\ written = MessagesOf(Parsed) /\ ~lost
    /\ FoldLines(Parsed).accounting.stop \in {None, lastStop}
    /\ \A p \in Processes :
         session[p] # None /\ alone = p =>
           session[p] = [messages   |-> FoldLines(Parsed).messages,
                         accounting |-> FoldLines(Parsed).accounting]

\* A transcript resume takes for its shape.
Shaped(messages) ==
  messages # <<>> => Resumable(messages) /\ Alternating(messages) /\ Opens(messages)

\* A file whose writes are whole parses, into a transcript resume takes.
SharedInv ==
  alone = None =>
    /\ open = None
    /\ exists => lines # <<>> /\ Clean(lines) /\ Shaped(MessagesOf(lines))

Inv == TypeInv /\ CreationInv /\ ReadInv /\ SharedInv

\* Turns follow turns: a batch that opens on a prompt goes behind whatever resume takes.
LEMMA BatchJoins ==
  ASSUME NEW messages \in Seq(Messages), Shaped(messages),
         NEW batch \in Seq(Messages), OpensOnPrompt(batch),
         batch # <<>> => Resumable(batch) /\ Alternating(batch)
  PROVE  Shaped(messages \o batch)
<1> DEFINE both == messages \o batch
           held == Len(messages)
           more == Len(batch)
<1>1. /\ held \in Nat /\ more \in Nat /\ both \in Seq(Messages) /\ Len(both) = held + more
      /\ \A i \in 1 .. held : both[i] = messages[i]
      /\ \A i \in held + 1 .. held + more : both[i] = batch[i - held]
      /\ (messages = <<>> <=> held = 0) /\ (batch = <<>> <=> more = 0)
      /\ (both = <<>> <=> held + more = 0)
      /\ \A i \in 1 .. held : messages[i].role \in Roles
  <2>1. \A message \in Messages : message.role \in Roles
    BY DEF Messages
  <2> HIDE DEF Messages
  <2> QED
    BY <2>1
<1> HIDE DEF both, held, more, Messages
<1>2. CASE batch = <<>>
  <2>1. messages \o <<>> = messages
    OBVIOUS
  <2>2. messages \o batch = messages
    BY <1>2, <2>1
  <2> QED
    BY <2>2
<1>3. CASE batch # <<>>
  <2>1. /\ batch[1].role = "user" /\ AsksOnly(batch[1])
        /\ Resumable(batch) /\ Alternating(batch) /\ more > 0
    BY <1>1, <1>3 DEF OpensOnPrompt
  <2>2. both # <<>> /\ both[Len(both)] = batch[Len(batch)]
    BY <1>1, <2>1 DEF more
  <2>3. Resumable(both)
    BY <2>1, <2>2 DEF Resumable, Settled
  <2>4. Opens(both)
    <3>1. CASE messages = <<>>
      <4>1. both[1] = batch[1]
        BY <1>1, <2>1, <3>1
      <4> QED
        BY <2>1, <4>1 DEF Opens
    <3>2. CASE messages # <<>>
      <4>1. both[1] = messages[1] /\ Opens(messages)
        BY <1>1, <3>2 DEF Shaped
      <4> QED
        BY <3>2, <4>1 DEF Opens
    <3> QED
      BY <3>1, <3>2
  <2>5. ASSUME NEW i \in 1 .. Len(both) - 1 PROVE Joins(both[i], both[i + 1])
    <3>0. i \in Nat /\ i >= 1 /\ i + 1 <= held + more
      BY <1>1
    <3>1. CASE i < held
      <4>1. both[i] = messages[i] /\ both[i + 1] = messages[i + 1] /\ i \in 1 .. Len(messages) - 1
        BY <1>1, <3>0, <3>1 DEF held
      <4>2. Alternating(messages)
        BY <1>1, <3>0, <3>1 DEF Shaped
      <4> QED
        BY <4>1, <4>2 DEF Alternating
    <3>2. CASE i = held
      <4>1. both[i] = messages[Len(messages)] /\ both[i + 1] = batch[1]
        BY <1>1, <3>0, <3>2 DEF held
      <4>2. messages # <<>> /\ Resumable(messages) /\ messages[i].role \in Roles
        BY <1>1, <3>0, <3>2 DEF Shaped
      <4>3. both[i].role = "assistant" \/ (AnswersOnly(both[i]) /\ both[i].role \in Roles)
        BY <4>1, <4>2, <3>2 DEF Resumable, Settled, held
      <4> QED
        BY <2>1, <4>1, <4>3 DEF Joins, Roles
    <3>3. CASE i > held
      <4>1. both[i] = batch[i - held] /\ both[i + 1] = batch[(i - held) + 1]
            /\ i - held \in 1 .. Len(batch) - 1
        BY <1>1, <3>0, <3>3 DEF more
      <4> QED
        BY <2>1, <4>1 DEF Alternating
    <3> QED
      BY <1>1, <3>0, <3>1, <3>2, <3>3
  <2>6. Alternating(both)
    BY <2>5 DEF Alternating
  <2> QED
    BY <2>3, <2>4, <2>6 DEF Shaped, both
<1> QED
  BY <1>2, <1>3

-----------------------------------------------------------------------------
(* What a resume is handed. *)

\* A file resume takes parses, and the session is its replay.
LEMMA LoadIs ==
  ASSUME TypeInv, Load.error = None
  PROVE  /\ Clean(Parsed) /\ Parsed \in Seq(Lines)
         /\ Load.messages = FoldLines(Parsed).messages
         /\ Load.accounting = FoldLines(Parsed).accounting
<1>1. Parsed \in Seq(Lines) /\ None \notin Refusals
  BY AbsentAssumption DEF Parsed, TypeInv
<1>2. FoldLines(Parsed) \in Replays /\ (FoldLines(Parsed).error = None => Clean(Parsed))
  BY <1>1, ReplayIs
<1> DEFINE replayed == Fold(lines, open)
           replay == FoldLines(Parsed)
<1>3. replayed = IF Parsed = <<>> THEN [replay EXCEPT !.error = "missing_header"] ELSE replay
  BY DEF Fold, Parsed
<1> HIDE DEF replayed, replay
<1>4. /\ replayed \in Replays /\ replayed.messages = replay.messages
      /\ replayed.accounting = replay.accounting
      /\ replayed.error = None => replay.error = None
  BY <1>1, <1>2, <1>3 DEF replay, Replays, Refusals
<1>5. Load = replayed /\ replayed.error = None
  <2>1. \A refusal \in {"io", "unresumable", "disordered"} :
          [replayed EXCEPT !.error = refusal].error # None
    BY <1>1, <1>4 DEF Replays, Refusals
  <2>2. Load \in {replayed} \cup
          {[replayed EXCEPT !.error = refusal] : refusal \in {"io", "unresumable", "disordered"}}
    BY DEF Load, Resumed, replayed
  <2>3. Load = replayed
    BY <2>1, <2>2
  <2> QED
    BY <2>3
<1> QED
  BY <1>1, <1>2, <1>4, <1>5 DEF replay

\* A whole file of shaped messages is one resume takes.
LEMMA LoadTakes ==
  ASSUME TypeInv, open = None, lines # <<>>, Clean(lines), Shaped(MessagesOf(lines))
  PROVE  Load.error = None
<1>1. lines \in Seq(Lines)
  BY DEF TypeInv
<1>2. Fold(lines, open) = FoldLines(lines)
  BY DEF Fold
<1>3. FoldLines(lines).error = None /\ FoldLines(lines).messages = MessagesOf(lines)
  BY <1>1, ReplayIs
<1> DEFINE messages == MessagesOf(lines)
           replayed == FoldLines(lines)
<1> HIDE DEF messages, replayed
<1>4. messages # <<>> => Resumable(messages) /\ Alternating(messages) /\ Opens(messages)
  BY DEF Shaped, messages
<1>5. Load = Resumed(lines, open)
  BY DEF Load
<1>6. Load = replayed
  BY <1>2, <1>3, <1>4, <1>5 DEF Resumed, messages, replayed
<1> QED
  BY <1>3, <1>6 DEF replayed

-----------------------------------------------------------------------------
(* Each step. *)

LEMMA InitInv == Init => Inv
<1> SUFFICES ASSUME Init PROVE Inv
  OBVIOUS
<1>1. TypeInv /\ Parsed = <<>>
  <2>1. <<>> \in Seq(Lines) /\ <<>> \in Seq(Messages)
    OBVIOUS
  <2> HIDE DEF Messages, Lines
  <2> QED
    BY <2>1 DEF Init, TypeInv, Parsed
<1>2. CreationInv
  BY DEF Init, CreationInv
<1>3. ReadInv
  <2>1. FoldLines(<<>>).accounting.stop = None /\ MessagesOf(<<>>) = <<>>
    BY FoldAppend, CarriedAppend, ReplayedIs DEF NoAccounting
  <2>2. ~lost /\ written = <<>> /\ \A p \in Processes : session[p] = None
    BY DEF Init
  <2> QED
    BY <1>1, <2>1, <2>2 DEF ReadInv
<1>4. SharedInv
  BY DEF Init, SharedInv
<1> QED
  BY <1>1, <1>2, <1>3, <1>4 DEF Inv

\* A line glued to a torn one never parses.
LEMMA GluedIsNoLine ==
  ASSUME TypeInv, open # None, NEW added \in Seq(Lines), added # <<>>, NEW more \in Seq(Lines)
  PROVE  /\ Glued(added) \in Seq(Lines)
         /\ ~Clean((lines \o Glued(added)) \o more)
<1>1. Garbled \in Lines
  BY DEF Lines
<1>2. Glued(added) = <<Garbled>> \o Tail(added)
  BY DEF Glued
<1> HIDE DEF Lines, Garbled
<1>3. Tail(added) \in Seq(Lines) /\ <<Garbled>> \in Seq(Lines)
  BY <1>1
<1>4. Glued(added) \in Seq(Lines) /\ 1 \in DOMAIN Glued(added) /\ Glued(added)[1] = Garbled
  BY <1>1, <1>2, <1>3
<1>5. lines \in Seq(Lines)
  BY DEF TypeInv
<1>6. lines \o Glued(added) \in Seq(Lines)
  BY <1>4, <1>5
<1>7. ~Clean(lines \o Glued(added))
  BY <1>4, <1>5, CleanBefore
<1> QED
  BY <1>4, <1>6, <1>7, CleanBefore

\* The lines of an append, and the accounting among them.
LEMMA AddedIs ==
  ASSUME NEW batch \in Batches, NEW observed \in Usages \cup {None}, NEW withheld \in 0 .. 1,
         NEW stop \in Stops
  PROVE  LET accounting == AccountingOf(batch, observed, withheld, stop)
         IN  /\ batch \in Seq(Messages) /\ accounting \in Accountings
             /\ accounting.stop = None <=> batch = <<>>
             /\ Records(batch, accounting) \in Seq(Lines)
             /\ Records(batch, accounting) # <<>>
             /\ Len(Records(batch, accounting)) = Len(batch) + 1
<1> DEFINE accounting == AccountingOf(batch, observed, withheld, stop)
<1>1. batch \in Seq(Messages)
  BY BatchesAssumption
<1>2. accounting \in Accountings /\ (accounting.stop = None <=> batch = <<>>)
  BY AbsentAssumption DEF AccountingOf, Accountings
<1> HIDE DEF accounting
<1>3. /\ Records(batch, accounting) \in Seq(Lines)
      /\ Len(Records(batch, accounting)) = Len(batch) + 1
  BY <1>1, <1>2, RecordsAre
<1>4. Len(batch) \in Nat
  BY <1>1
<1>5. Records(batch, accounting) # <<>>
  BY <1>3, <1>4
<1> QED
  BY <1>1, <1>2, <1>3, <1>5 DEF accounting

\* What the file holds once the first n lines of a turn are behind it.
ReadFacts(batch, accounting, n, now) ==
  LET part == SubSeq(Records(batch, accounting), 1, n)
  IN  /\ Clean(lines) /\ ~lost
      /\ written \o MessagesOf(part) = MessagesOf(now)
      /\ FoldLines(now).accounting.stop
           \in {None, IF MessagesOf(part) = <<>> THEN lastStop ELSE StopOf(part)}

LEMMA ReadOn ==
  ASSUME TypeInv, ReadInv, open = None,
         NEW batch \in Seq(Messages), NEW accounting \in Accountings,
         accounting.stop = None <=> batch = <<>>,
         NEW n \in 0 .. Len(batch) + 1, NEW now,
         now = lines \o SubSeq(Records(batch, accounting), 1, n), Clean(now)
  PROVE  ReadFacts(batch, accounting, n, now)
<1> DEFINE part == SubSeq(Records(batch, accounting), 1, n)
<1>1. lines \in Seq(Lines) /\ Parsed = lines
  BY DEF TypeInv, Parsed
<1>2. /\ MessagesOf(now) = MessagesOf(lines) \o Told(batch, n)
      /\ MessagesOf(part) = Told(batch, n) /\ Clean(lines)
  <2>1. PartFacts(lines, batch, accounting, n)
    BY <1>1, PartWritten
  <2> QED
    BY <2>1, Zenon DEF PartFacts
<1>3. /\ written = MessagesOf(lines) /\ ~lost
      /\ FoldLines(lines).accounting.stop \in {None, lastStop}
  BY <1>1, <1>2 DEF ReadInv
<1>4. FoldLines(now).accounting.stop
        \in {None, IF MessagesOf(part) = <<>> THEN lastStop ELSE StopOf(part)}
  BY <1>1, <1>3, PartStops
<1> QED
  BY <1>2, <1>3, <1>4 DEF ReadFacts

\* AppendTurn: the session keeps in memory what its lines replay to.
LEMMA AppendKeeps ==
  ASSUME Inv, NEW p \in Present, alone' = alone, AppendTurn(p)
  PROVE  Inv'
<1>0. /\ lines \in Seq(Lines) /\ p \in Processes /\ None \notin Processes
      /\ alone \in {None, p} /\ session[p] # None
      /\ session \in [Processes -> Sessions \cup {None}] /\ session[p] \in Sessions
      /\ written \in Seq(Messages)
  BY AbsentAssumption DEF Inv, TypeInv, Present, AppendTurn
<1>1. PICK batch \in Callers, observed \in Usages \cup {None}, withheld \in 0 .. 1, stop \in Stops :
        LET accounting == AccountingOf(batch, observed, withheld, stop)
            added      == Records(batch, accounting)
        IN  /\ Accepts(session[p].messages, batch)
            /\ WriteAll(added)
            /\ session' = [session EXCEPT ![p].messages = @ \o batch,
                                          ![p].accounting = Absorb(@, accounting)]
            /\ lost' = (lost \/ open # None)
            /\ Tells(added, added)
  BY DEF AppendTurn
<1> DEFINE accounting == AccountingOf(batch, observed, withheld, stop)
           added      == Records(batch, accounting)
           held       == [messages   |-> session[p].messages \o batch,
                          accounting |-> Absorb(session[p].accounting, accounting)]
<1>2. /\ batch \in Seq(Messages) /\ accounting \in Accountings
      /\ accounting.stop = None <=> batch = <<>>
      /\ added \in Seq(Lines) /\ added # <<>> /\ Len(added) = Len(batch) + 1
      /\ alone = None => OpensOnPrompt(batch)
  BY AddedIs DEF Callers
<1>3. /\ lines' = lines \o Glued(added) /\ open' = None
      /\ written' = written \o MessagesOf(Glued(added))
      /\ lost' = (lost \/ open # None)
      /\ lastStop' = IF MessagesOf(added) = <<>> THEN lastStop ELSE StopOf(added)
      /\ batch # <<>> => Resumable(batch) /\ Alternating(batch)
      /\ exists' = exists /\ refused' = refused /\ alone' = alone
  BY <1>1 DEF WriteAll, Tells, Accepts, AppendTurn
<1>4. session' = [session EXCEPT ![p] = held] /\ held \in Sessions
  <2>1. session' = [session EXCEPT ![p].messages = @ \o batch,
                                   ![p].accounting = Absorb(@, accounting)]
    BY <1>1
  <2>2. Absorb(session[p].accounting, accounting) \in Accountings
    BY <1>0, <1>2, AbsorbType DEF Sessions
  <2>3. session[p].messages \o batch \in Seq(Messages)
    BY <1>0, <1>2 DEF Sessions
  <2> HIDE DEF Messages, accounting, held
  <2>4. [session[p] EXCEPT !.messages = @ \o batch, !.accounting = Absorb(@, accounting)] = held
    <3> DEFINE messages == session[p].messages \o batch
               absorbed == Absorb(session[p].accounting, accounting)
    <3> HIDE DEF messages, absorbed
    <3>1. session[p] \in [messages : Seq(Messages), accounting : Accountings]
      BY <1>0 DEF Sessions
    <3>2. [session[p] EXCEPT !.messages = messages, !.accounting = absorbed]
            = [messages |-> messages, accounting |-> absorbed]
      <4> DEFINE two == [session[p] EXCEPT !.messages = messages, !.accounting = absorbed]
      <4>1. two = [session[p] EXCEPT !.messages = messages, !.accounting = absorbed]
        OBVIOUS
      <4> HIDE DEF two
      <4>2. two = [messages |-> messages, accounting |-> absorbed]
        BY <3>1, <4>1, SessionExcept
      <4> QED
        BY <4>1, <4>2, Zenon
    <3> QED
      BY <3>2 DEF messages, absorbed, held
  <2>5. session' = [session EXCEPT ![p] =
                     [session[p] EXCEPT !.messages = @ \o batch, !.accounting = Absorb(@, accounting)]]
    BY <1>0, <2>1
  <2> QED
    BY <2>2, <2>3, <2>4, <2>5 DEF Sessions, held
<1> HIDE DEF accounting, added, held
<1>5. Parsed' = lines'
  BY <1>3 DEF Parsed
<1>6. Glued(added) \in Seq(Lines) /\ lines' \in Seq(Lines)
  <2>1. Glued(added) \in Seq(Lines)
    <3>1. CASE open = None
      BY <1>2, <3>1 DEF Glued
    <3>2. CASE open # None
      <4>1. <<>> \in Seq(Lines) /\ TypeInv
        BY DEF Inv
      <4> QED
        BY <1>2, <3>2, <4>1, GluedIsNoLine
    <3> QED
      BY <3>1, <3>2
  <2> QED
    BY <1>0, <1>3, <2>1
<1>7. TypeInv'
  <2>1. MessagesOf(Glued(added)) \in Seq(Messages)
    BY <1>6, MessagesOfType
  <2>2. written' \in Seq(Messages)
    BY <1>0, <1>3, <2>1
  <2>3. StopOf(added) \in Stops \cup {None}
    <3>1. added = SubSeq(added, 1, Len(batch) + 1) /\ Len(batch) \in Nat
      BY <1>2, RecordsAre DEF added
    <3>2. StopOf(added) = accounting.stop
      <4> DEFINE n == Len(batch) + 1
      <4>1. n \in 0 .. Len(batch) + 1 /\ ~(n <= Len(batch))
        BY <3>1
      <4>2. PartFacts(lines, batch, accounting, n)
        BY <1>0, <1>2, <4>1, PartWritten
      <4>3. StopOf(SubSeq(added, 1, n)) = accounting.stop
        BY <4>1, <4>2, Zenon DEF PartFacts, added
      <4> QED
        BY <3>1, <4>3, Zenon
    <3> QED
      BY <1>2, <3>2 DEF Accountings
  <2>4. lost' \in BOOLEAN /\ lastStop' \in Stops \cup {None}
    BY <1>3, <2>3 DEF Inv, TypeInv
  <2>5. session' \in [Processes -> Sessions \cup {None}]
    BY <1>0, <1>4
  <2>6. open' \in [how : Tears, line : Lines] \cup {None}
    BY <1>3
  <2> QED
    BY <1>3, <1>6, <2>2, <2>4, <2>5, <2>6 DEF Inv, TypeInv
<1>8. exists
  BY <1>0 DEF Inv, CreationInv
<1>9. CreationInv'
  BY <1>3, <1>8 DEF CreationInv
<1>10. open = None =>
         /\ lines' = lines \o SubSeq(added, 1, Len(batch) + 1)
         /\ SubSeq(added, 1, Len(batch) + 1) = added
         /\ written' = written \o MessagesOf(added)
         /\ Len(batch) + 1 \in 0 .. Len(batch) + 1 /\ ~(Len(batch) + 1 <= Len(batch))
  <2>1. SubSeq(added, 1, Len(batch) + 1) = added /\ Len(batch) \in Nat
    BY <1>2, RecordsAre DEF added
  <2>2. open = None => lines' = lines \o added /\ written' = written \o MessagesOf(added)
    BY <1>3, Zenon DEF Glued
  <2>3. open = None => lines' = lines \o SubSeq(added, 1, Len(batch) + 1)
    BY <2>1, <2>2, Zenon
  <2>4. Len(batch) + 1 \in 0 .. Len(batch) + 1 /\ ~(Len(batch) + 1 <= Len(batch))
    BY <2>1
  <2> QED
    BY <2>1, <2>2, <2>3, <2>4, Zenon
<1> DEFINE n == Len(batch) + 1
<1>11. open = None => PartFacts(lines, batch, accounting, n) /\ Told(batch, n) = batch
                       /\ lines' = lines \o SubSeq(Records(batch, accounting), 1, n)
                       /\ ~(n <= Len(batch))
  <2>1. open = None => PartFacts(lines, batch, accounting, n)
    BY <1>0, <1>2, <1>10, PartWritten
  <2>2. open = None => Told(batch, n) = batch /\ ~(n <= Len(batch))
    BY <1>10, Zenon DEF Told
  <2>3. open = None => lines' = lines \o SubSeq(Records(batch, accounting), 1, n)
    BY <1>10, Zenon DEF added
  <2> QED
    BY <2>1, <2>2, <2>3, Zenon
<1>12. ReadInv'
  <2> SUFFICES ASSUME Clean(lines')
               PROVE  /\ written' = MessagesOf(lines') /\ ~lost'
                      /\ FoldLines(lines').accounting.stop \in {None, lastStop'}
                      /\ \A q \in Processes :
                           session'[q] # None /\ alone' = q =>
                             session'[q] = [messages   |-> FoldLines(lines').messages,
                                            accounting |-> FoldLines(lines').accounting]
    BY <1>5 DEF ReadInv
  <2>1. open = None
    <3> SUFFICES ASSUME open # None PROVE FALSE
      OBVIOUS
    <3>1. <<>> \in Seq(Lines) /\ TypeInv /\ (lines \o Glued(added)) \o <<>> = lines \o Glued(added)
      <4>1. lines' \o <<>> = lines'
        BY <1>6
      <4> QED
        BY <1>3, <4>1 DEF Inv
    <3>2. ~Clean((lines \o Glued(added)) \o <<>>)
      BY <1>2, <3>1, GluedIsNoLine
    <3> QED
      BY <1>3, <3>1, <3>2
  <2>2. /\ Clean(lines) /\ ~lost /\ written' = MessagesOf(lines')
        /\ FoldLines(lines').accounting.stop \in {None, lastStop'}
    <3>1. TypeInv /\ ReadInv
      BY DEF Inv
    <3>2. lines' = lines \o SubSeq(Records(batch, accounting), 1, Len(batch) + 1)
      BY <1>10, <2>1 DEF added
    <3>3. /\ Clean(lines) /\ ~lost
          /\ written \o MessagesOf(SubSeq(added, 1, Len(batch) + 1)) = MessagesOf(lines')
          /\ FoldLines(lines').accounting.stop
               \in {None, IF MessagesOf(SubSeq(added, 1, Len(batch) + 1)) = <<>> THEN lastStop
                          ELSE StopOf(SubSeq(added, 1, Len(batch) + 1))}
      <4> DEFINE now == lines'
      <4>1. Clean(now) /\ now = lines \o SubSeq(Records(batch, accounting), 1, n)
            /\ n \in 0 .. Len(batch) + 1
        BY <1>10, <2>1, <3>2, Zenon
      <4> HIDE DEF now, n
      <4>2. ReadFacts(batch, accounting, n, now)
        BY <1>2, <2>1, <3>1, <4>1, ReadOn
      <4> QED
        BY <4>2, Zenon DEF ReadFacts, added, n, now
    <3> QED
      BY <1>3, <1>10, <2>1, <3>3
  <2>3. ~lost'
    BY <1>3, <2>1, <2>2
  <2>4. ASSUME NEW q \in Processes, alone' = q
        PROVE  session'[q] = [messages   |-> FoldLines(lines').messages,
                              accounting |-> FoldLines(lines').accounting]
    <3>1. q = p /\ session'[q] = held
      BY <1>0, <1>3, <1>4, <2>4
    <3>2. session[p] = [messages   |-> FoldLines(lines).messages,
                        accounting |-> FoldLines(lines).accounting]
      <4>1. Parsed = lines
        BY <2>1 DEF Parsed
      <4> QED
        BY <1>0, <1>3, <2>2, <2>4, <3>1, <4>1 DEF Inv, ReadInv
    <3>3. FoldLines(lines).messages = MessagesOf(lines) /\ FoldLines(lines).accounting \in Accountings
      BY <1>0, <2>2, ReplayIs DEF Replays
    <3>4. FoldLines(lines').messages = MessagesOf(lines')
      BY <1>6, ReplayIs
    <3>5. /\ MessagesOf(lines') = MessagesOf(lines) \o batch
          /\ FoldLines(lines').accounting = Absorb(Over(FoldLines(lines).accounting, batch), accounting)
      <4> HIDE DEF n
      <4> QED
        BY <1>11, <2>1, Zenon DEF PartFacts
    <3>6. Absorb(Over(FoldLines(lines).accounting, batch), accounting)
            = Absorb(FoldLines(lines).accounting, accounting)
      <4> DEFINE old == FoldLines(lines).accounting
      <4>1. old \in Accountings
        BY <3>3
      <4> HIDE DEF old
      <4>2. Absorb(Over(old, batch), accounting) = Absorb(old, accounting)
        BY <1>2, <4>1 DEF Absorb, Over, Accountings
      <4> QED
        BY <4>2 DEF old
    <3> QED
      BY <3>1, <3>2, <3>3, <3>4, <3>5, <3>6 DEF held
  <2> QED
    BY <2>2, <2>3, <2>4
<1>13. SharedInv'
  <2> SUFFICES ASSUME alone = None
               PROVE  lines' # <<>> /\ Clean(lines') /\ Shaped(MessagesOf(lines'))
    BY <1>3 DEF SharedInv
  <2>1. open = None /\ lines # <<>> /\ Clean(lines) /\ Shaped(MessagesOf(lines))
    BY <1>8 DEF Inv, SharedInv
  <2>2. lines' # <<>>
    <3> HIDE DEF Lines
    <3> QED
      BY <1>0, <1>6, <1>3, <2>1
  <2>3. Clean(lines') /\ MessagesOf(lines') = MessagesOf(lines) \o batch
    <3> HIDE DEF n
    <3> QED
      BY <1>11, <2>1, Zenon DEF PartFacts
  <2>4. Shaped(MessagesOf(lines) \o batch)
    BY <1>0, <1>2, <1>3, <2>1, MessagesOfType, BatchJoins
  <2> QED
    BY <2>2, <2>3, <2>4
<1> QED
  BY <1>7, <1>9, <1>12, <1>13 DEF Inv

\* TearAppend: what reached the file is what a resume is told of.
LEMMA TearKeeps ==
  ASSUME Inv, NEW p \in Present, alone' = alone, TearAppend(p)
  PROVE  Inv'
<1>0. /\ lines \in Seq(Lines) /\ p \in Processes /\ None \notin Processes
      /\ alone \in {None, p} /\ session[p] # None
      /\ session \in [Processes -> Sessions \cup {None}]
      /\ written \in Seq(Messages) /\ TypeInv /\ ReadInv
  BY AbsentAssumption DEF Inv, TypeInv, Present, TearAppend
<1>1. PICK batch \in Batches, withheld \in 0 .. 1, stop \in Stops, how \in MayTear :
        LET accounting == AccountingOf(batch, None, withheld, stop)
            added      == Records(batch, accounting)
        IN  \E count \in 0 .. Len(batch) :
              /\ Accepts(session[p].messages, batch)
              /\ WriteTorn(added, count, how)
              /\ Tells(added, SubSeq(added, 1, IF how = "whole" THEN count + 1 ELSE count))
  BY DEF TearAppend
<1> DEFINE accounting == AccountingOf(batch, None, withheld, stop)
           added      == Records(batch, accounting)
<1>2. PICK count \in 0 .. Len(batch) :
        /\ WriteTorn(added, count, how)
        /\ Tells(added, SubSeq(added, 1, IF how = "whole" THEN count + 1 ELSE count))
  BY <1>1
<1>3. /\ batch \in Seq(Messages) /\ accounting \in Accountings
      /\ accounting.stop = None <=> batch = <<>>
      /\ added \in Seq(Lines) /\ added # <<>> /\ Len(added) = Len(batch) + 1
  BY AddedIs
<1> DEFINE n == IF how = "whole" THEN count + 1 ELSE count
           front == SubSeq(added, 1, count)
           part == SubSeq(added, 1, n)
           next == added[count + 1]
           all == IF count = 0 THEN <<>> ELSE Glued(front)
<1> HIDE DEF accounting, added
<1>4. /\ Len(batch) \in Nat /\ count \in Nat /\ count <= Len(batch) /\ count + 1 \in 1 .. Len(added)
      /\ n \in 0 .. Len(batch) + 1 /\ next \in Lines /\ front \in Seq(Lines)
      /\ SubSeq(added, 1, count + 1) = Append(front, next)
      /\ count = 0 => front = <<>>
      /\ count # 0 => front # <<>>
  <2>1. Len(batch) \in Nat /\ count \in Nat /\ count <= Len(batch) /\ count + 1 \in 1 .. Len(added)
    BY <1>3
  <2> HIDE DEF Lines
  <2>2. next \in Lines /\ front \in Seq(Lines) /\ Len(front) = count
    BY <1>3, <2>1
  <2>3. SubSeq(added, 1, count + 1) = Append(front, next)
    BY <1>3, <2>1
  <2>4. n \in 0 .. Len(batch) + 1
    BY <2>1
  <2> HIDE DEF front, n, next
  <2>5. front = <<>> <=> Len(front) = 0
    BY <2>2
  <2>6. count = 0 <=> front = <<>>
    BY <2>2, <2>5
  <2> QED
    BY <2>1, <2>2, <2>3, <2>4, <2>6, Zenon DEF front, next
<1>5. /\ how \in Tears /\ alone # None
      /\ open # None => count > 0
      /\ lines' = lines \o all
      /\ open' = IF how = "clean" THEN None ELSE [how |-> how, line |-> next]
      /\ written' = written \o (IF count = 0 THEN <<>> ELSE MessagesOf(Glued(front)))
                            \o (IF how = "whole" THEN MessagesOf(<<next>>) ELSE <<>>)
      /\ lastStop' = IF MessagesOf(part) = <<>> THEN lastStop ELSE StopOf(part)
  BY <1>2 DEF WriteTorn, Tells, MayTear
<1>6. /\ exists' = exists /\ refused' = refused /\ lost' = lost /\ alone' = alone
      /\ session' = [session EXCEPT ![p] = None]
  BY DEF TearAppend
<1>7. how # "clean" => /\ open' \in [how : Tears, line : Lines] /\ open' # None
                       /\ open'.how = how /\ open'.line = next
  <2>1. [how |-> how, line |-> next] \in [how : Tears, line : Lines]
    BY <1>4, <1>5
  <2>2. [how |-> how, line |-> next] # None
    BY <2>1, AbsentAssumption
  <2> QED
    BY <1>5, <2>1, <2>2
<1> HIDE DEF front, next, part, n
<1>8. Parsed' = IF how = "whole" THEN Append(lines', next) ELSE lines'
  BY <1>5, <1>7 DEF Parsed
<1>9. open = None => all = front /\ (IF count = 0 THEN <<>> ELSE MessagesOf(Glued(front))) = MessagesOf(front)
  BY <1>4, CarriedAppend, Zenon DEF Glued
<1>10. all \in Seq(Lines) /\ lines' \in Seq(Lines) /\ Parsed' \in Seq(Lines)
  <2>1. all \in Seq(Lines)
    <3>1. CASE open = None
      BY <1>4, <1>9, <3>1
    <3>2. CASE open # None
      <4>1. <<>> \in Seq(Lines) /\ front # <<>>
        BY <1>4, <1>5, <3>2
      <4> QED
        BY <1>0, <1>4, <3>2, <4>1, GluedIsNoLine
    <3> QED
      BY <3>1, <3>2
  <2> HIDE DEF all, Lines
  <2>2. lines' \in Seq(Lines)
    BY <1>0, <1>5, <2>1
  <2> QED
    BY <1>4, <1>8, <2>1, <2>2
<1>11. TypeInv'
  <2>1. written' \in Seq(Messages)
    <3> DEFINE first == IF count = 0 THEN <<>> ELSE MessagesOf(Glued(front))
               second == IF how = "whole" THEN MessagesOf(<<next>>) ELSE <<>>
    <3>1. first \in Seq(Messages)
      BY <1>10, MessagesOfType
    <3>2. second \in Seq(Messages)
      <4>1. <<next>> \in Seq(Lines)
        BY <1>4
      <4>2. MessagesOf(<<next>>) \in Seq(Messages)
        BY <4>1, MessagesOfType
      <4>3. <<>> \in Seq(Messages)
        OBVIOUS
      <4> QED
        BY <4>2, <4>3, Zenon
    <3> HIDE DEF first, second
    <3>3. written' = (written \o first) \o second
      BY <1>5 DEF first, second
    <3> HIDE DEF Messages
    <3> QED
      BY <1>0, <3>1, <3>2, <3>3
  <2>2. lastStop' \in Stops \cup {None}
    <3>1. PartFacts(lines, batch, accounting, n)
      BY <1>0, <1>3, <1>4, PartWritten
    <3>2. StopOf(part) = IF n <= Len(batch) THEN None ELSE accounting.stop
      BY <3>1, Zenon DEF PartFacts, part, added
    <3>3. StopOf(part) \in Stops \cup {None}
      BY <1>3, <3>2 DEF Accountings
    <3> QED
      BY <1>0, <1>5, <3>3 DEF TypeInv
  <2>3. session' \in [Processes -> Sessions \cup {None}]
    BY <1>0, <1>6
  <2>4. open' \in [how : Tears, line : Lines] \cup {None}
    BY <1>5, <1>7
  <2> QED
    BY <1>0, <1>6, <1>10, <2>1, <2>2, <2>3, <2>4 DEF TypeInv
<1>12. CreationInv'
  <2>1. exists
    BY <1>0 DEF Inv, CreationInv
  <2> QED
    BY <1>6, <2>1 DEF CreationInv
<1>13. SharedInv'
  BY <1>5, <1>6 DEF SharedInv
<1>14. ASSUME Clean(Parsed')
       PROVE  /\ written' = MessagesOf(Parsed') /\ ~lost'
              /\ FoldLines(Parsed').accounting.stop \in {None, lastStop'}
  <2>1. open = None
    <3> SUFFICES ASSUME open # None PROVE FALSE
      OBVIOUS
    <3>1. front # <<>> /\ all = Glued(front)
      BY <1>4, <1>5
    <3>2. <<>> \in Seq(Lines) /\ <<next>> \in Seq(Lines)
      BY <1>4
    <3>3. Parsed' = lines' \o <<>> \/ Parsed' = lines' \o <<next>>
      <4> HIDE DEF Lines, all
      <4> QED
        BY <1>4, <1>8, <1>10
    <3> HIDE DEF all
    <3>4. ~Clean((lines \o Glued(front)) \o <<>>) /\ ~Clean((lines \o Glued(front)) \o <<next>>)
      BY <1>0, <1>4, <3>1, <3>2, GluedIsNoLine
    <3>5. lines' = lines \o Glued(front)
      BY <1>5, <3>1, Zenon
    <3> QED
      BY <1>14, <3>3, <3>4, <3>5, Zenon
  <2> DEFINE now == Parsed'
             brought == MessagesOf(part)
  <2>2. now = lines \o part
    <3>1. CASE how = "whole"
      <4>1. part = Append(front, next)
        BY <1>4, <3>1 DEF part, n, front
      <4>2. Append(lines \o front, next) = lines \o Append(front, next)
        <5>1. lines \in Seq(Lines) /\ front \in Seq(Lines) /\ next \in Lines
          BY <1>0, <1>4
        <5>2. Together(lines, front, next)
          BY <5>1, PutTogether
        <5> QED
          BY <5>2, Zenon DEF Together
      <4>3. lines' = lines \o front
        BY <1>5, <1>9, <2>1, Zenon
      <4> QED
        BY <1>8, <3>1, <4>1, <4>2, <4>3, Zenon
    <3>2. CASE how # "whole"
      BY <1>5, <1>8, <1>9, <2>1, <3>2, Zenon DEF part, n, front
    <3> QED
      BY <3>1, <3>2
  <2>3. written' = written \o brought
    <3>1. MessagesOf(front) \in Seq(Messages) /\ <<>> \in Seq(Lines) /\ MessagesOf(<<>>) = <<>>
      BY <1>4, MessagesOfType, CarriedAppend
    <3>2. CASE how = "whole"
      <4>1. part = Append(front, next)
        BY <1>4, <3>2 DEF part, n, front
      <4>2. brought = Carry(MessagesOf(front), next)
        BY <1>4, <4>1, CarriedAppend
      <4>3. MessagesOf(<<next>>) = Carry(<<>>, next)
        <5>1. Append(<<>>, next) = <<next>>
          OBVIOUS
        <5> QED
          BY <1>4, <3>1, <5>1, CarriedAppend
      <4>4. next.type = "message" => next.message \in Messages
        BY <1>4, LineKinds
      <4>5. written' = (written \o MessagesOf(front)) \o Carry(<<>>, next)
        BY <1>5, <1>9, <2>1, <3>2, <4>3, Zenon
      <4> DEFINE sofar == MessagesOf(front)
      <4> HIDE DEF sofar, Messages
      <4>6. sofar \in Seq(Messages)
        BY <3>1 DEF sofar
      <4>7. CASE next.type = "message"
        <5>1. Carry(<<>>, next) = <<next.message>> /\ Carry(sofar, next) = Append(sofar, next.message)
          BY <4>7 DEF Carry
        <5>2. (written \o sofar) \o <<next.message>> = written \o Append(sofar, next.message)
          <6>1. Together(written, sofar, next.message)
            BY <1>0, <4>4, <4>6, <4>7, PutTogether
          <6> QED
            BY <6>1, Zenon DEF Together
        <5> QED
          BY <4>2, <4>5, <5>1, <5>2, Zenon DEF sofar
      <4>8. CASE next.type # "message"
        <5>1. Carry(<<>>, next) = <<>> /\ Carry(sofar, next) = sofar
          BY <4>8 DEF Carry
        <5>2. (written \o sofar) \o <<>> = written \o sofar
          BY <1>0, <4>6
        <5> QED
          BY <4>2, <4>5, <5>1, <5>2, Zenon DEF sofar
      <4> QED
        BY <4>7, <4>8
    <3>3. CASE how # "whole"
      <4>1. written' = (written \o MessagesOf(front)) \o <<>>
        BY <1>5, <1>9, <2>1, <3>3, Zenon
      <4>2. (written \o MessagesOf(front)) \o <<>> = written \o MessagesOf(front)
        <5> DEFINE sofar == MessagesOf(front)
        <5>1. sofar \in Seq(Messages)
          BY <3>1
        <5> HIDE DEF sofar, Messages
        <5>2. (written \o sofar) \o <<>> = written \o sofar
          BY <1>0, <5>1
        <5> QED
          BY <5>2 DEF sofar
      <4>3. part = front
        BY <3>3 DEF part, n, front
      <4> QED
        BY <4>1, <4>2, <4>3, Zenon
    <3> QED
      BY <3>2, <3>3
  <2>4. now = lines \o SubSeq(Records(batch, accounting), 1, n) /\ Clean(now)
    BY <1>14, <2>2, Zenon DEF part, added
  <2> HIDE DEF now
  <2>5. ReadFacts(batch, accounting, n, now)
    BY <1>0, <1>3, <1>4, <2>1, <2>4, ReadOn
  <2>6. part = SubSeq(Records(batch, accounting), 1, n)
    BY DEF part, added
  <2> QED
    BY <1>5, <1>6, <2>3, <2>5, <2>6, Zenon DEF ReadFacts, now
<1>15. ReadInv'
  <2>1. \A q \in Processes : alone' = q => session'[q] = None
    BY <1>0, <1>6
  <2> QED
    BY <1>14, <2>1 DEF ReadInv
<1> QED
  BY <1>11, <1>12, <1>13, <1>15 DEF Inv

\* Create: whole, the file replays to the empty session its creator holds; torn, to
\* nothing, or to the empty conversation.
LEMMA CreateKeeps ==
  ASSUME Inv, NEW p \in Present, alone' = alone, Create(p)
  PROVE  Inv'
<1>0. /\ lines = <<>> /\ open = None /\ written = <<>> /\ ~lost
      /\ \A q \in Processes : session[q] = None
      /\ p \in Processes /\ None \notin Processes /\ alone \in {None, p} /\ TypeInv
      /\ session \in [Processes -> Sessions \cup {None}]
  BY AbsentAssumption DEF Inv, TypeInv, CreationInv, Present, Create
<1>1. /\ exists' = TRUE /\ refused' = refused /\ lost' = lost /\ lastStop' = lastStop
      /\ alone' = alone
  BY DEF Create
<1>2. /\ HeaderLine \in Lines /\ HeaderLine.type = "header" /\ HeaderLine # Garbled
      /\ <<HeaderLine>> \in Seq(Lines) /\ Clean(<<HeaderLine>>)
  <2>1. HeaderLine \in Lines /\ HeaderLine.type = "header"
    BY DEF Lines, HeaderLine
  <2>2. HeaderLine # Garbled
    BY <2>1, LineKinds
  <2>3. <<HeaderLine>> \in Seq(Lines) /\ Append(<<>>, HeaderLine) = <<HeaderLine>>
        /\ <<>> \in Seq(Lines) /\ Clean(<<>>)
    BY <2>1 DEF Clean
  <2> HIDE DEF HeaderLine
  <2>4. Clean(<<HeaderLine>>)
    BY <2>1, <2>2, <2>3, CleanAppend
  <2> QED
    BY <2>1, <2>2, <2>3, <2>4
<1>3. /\ MessagesOf(<<HeaderLine>>) = <<>> /\ FoldLines(<<HeaderLine>>).messages = <<>>
      /\ FoldLines(<<HeaderLine>>).accounting = NoAccounting
      /\ FoldLines(<<>>).accounting = NoAccounting /\ MessagesOf(<<>>) = <<>>
  <2>1. Append(<<>>, HeaderLine) = <<HeaderLine>> /\ <<>> \in Seq(Lines)
    OBVIOUS
  <2> HIDE DEF HeaderLine
  <2>2. MessagesOf(<<HeaderLine>>) = <<>> /\ MessagesOf(<<>>) = <<>>
    BY <1>2, <2>1, CarriedAppend DEF Carry
  <2>3. FoldLines(<<>>).accounting = NoAccounting
    BY FoldAppend, ReplayedIs
  <2>4. FoldLines(<<HeaderLine>>).accounting = FoldLines(<<>>).accounting
    BY <1>2, <2>1, ReplayAppend
  <2>5. FoldLines(<<HeaderLine>>).messages = MessagesOf(<<HeaderLine>>)
    BY <1>2, ReplayIs
  <2> QED
    BY <2>2, <2>3, <2>4, <2>5
<1>4. <<>> \in Seq(Messages) /\ <<>> \in Seq(Lines)
  OBVIOUS
<1>5. NoAccounting.stop = None /\ NoAccounting \in Accountings
  BY ReplayedIs DEF NoAccounting, Replays
<1> HIDE DEF HeaderLine, NoAccounting
<1>6. CASE WriteAll(<<HeaderLine>>)
           /\ session' = [session EXCEPT ![p] = [messages |-> <<>>, accounting |-> NoAccounting]]
  <2>1. lines' = <<HeaderLine>> /\ open' = None /\ written' = <<>>
    <3>1. /\ lines' = lines \o Glued(<<HeaderLine>>) /\ open' = None
          /\ written' = written \o MessagesOf(Glued(<<HeaderLine>>))
      BY <1>6 DEF WriteAll
    <3>2. Glued(<<HeaderLine>>) = <<HeaderLine>>
      BY <1>0 DEF Glued
    <3>3. <<>> \o <<HeaderLine>> = <<HeaderLine>> /\ <<>> \o <<>> = <<>>
      OBVIOUS
    <3> QED
      BY <1>0, <1>3, <3>1, <3>2, <3>3, Zenon
  <2>2. Parsed' = <<HeaderLine>>
    BY <2>1 DEF Parsed
  <2>3. [messages |-> <<>>, accounting |-> NoAccounting] \in Sessions
    BY <1>4, <1>5 DEF Sessions
  <2>4. TypeInv'
    <3>1. session' \in [Processes -> Sessions \cup {None}]
      BY <1>0, <1>6, <2>3
    <3> QED
      BY <1>0, <1>1, <1>2, <1>4, <2>1, <3>1 DEF TypeInv
  <2>5. \A q \in Processes : session'[q] # None /\ alone' = q =>
          session'[q] = [messages |-> <<>>, accounting |-> NoAccounting]
    BY <1>0, <1>1, <1>6
  <2>6. ReadInv'
    BY <1>0, <1>1, <1>3, <1>5, <2>1, <2>2, <2>5 DEF ReadInv
  <2>7. SharedInv'
    <3>1. <<HeaderLine>> # <<>>
      OBVIOUS
    <3> QED
      BY <1>2, <1>3, <2>1, <3>1 DEF SharedInv, Shaped
  <2>8. CreationInv'
    BY <1>1 DEF CreationInv
  <2> QED
    BY <2>4, <2>6, <2>7, <2>8 DEF Inv
<1>7. ASSUME NEW how \in MayTear \ {"clean"}, WriteTorn(<<HeaderLine>>, 0, how), session' = session
      PROVE  Inv'
  <2>1. how \in Tears /\ how # "clean" /\ alone # None
    BY <1>7 DEF MayTear
  <2>2. /\ lines' = <<>> /\ open' = [how |-> how, line |-> HeaderLine] /\ written' = <<>>
    <3> DEFINE added == <<HeaderLine>>
    <3>1. added[0 + 1] = HeaderLine /\ <<added[0 + 1]>> = <<HeaderLine>>
      OBVIOUS
    <3>2. /\ lines' = lines \o <<>>
          /\ open' = [how |-> how, line |-> added[0 + 1]]
          /\ written' = written \o <<>>
                     \o (IF how = "whole" THEN MessagesOf(<<added[0 + 1]>>) ELSE <<>>)
      BY <1>7, <2>1 DEF WriteTorn
    <3>3. <<>> \o <<>> = <<>>
      OBVIOUS
    <3> HIDE DEF added
    <3> QED
      BY <1>0, <1>3, <3>1, <3>2, <3>3, Zenon
  <2>3. open' \in [how : Tears, line : Lines] /\ open' # None
        /\ open'.how = how /\ open'.line = HeaderLine
    <3>1. [how |-> how, line |-> HeaderLine] \in [how : Tears, line : Lines]
      BY <1>2, <2>1
    <3>2. [how |-> how, line |-> HeaderLine] # None
      BY <3>1, AbsentAssumption
    <3> QED
      BY <2>2, <3>1, <3>2
  <2>4. Parsed' = IF how = "whole" THEN <<HeaderLine>> ELSE <<>>
    <3>1. Append(<<>>, HeaderLine) = <<HeaderLine>>
      OBVIOUS
    <3> QED
      BY <2>2, <2>3, <3>1 DEF Parsed
  <2>5. TypeInv'
    BY <1>0, <1>1, <1>4, <1>7, <2>2, <2>3 DEF TypeInv
  <2>6. ReadInv'
    <3>1. FoldLines(Parsed').accounting.stop = None /\ MessagesOf(Parsed') = <<>>
      BY <1>3, <1>5, <2>4
    <3>2. \A q \in Processes : session'[q] = None
      BY <1>0, <1>7
    <3> QED
      BY <1>0, <1>1, <2>2, <3>1, <3>2 DEF ReadInv
  <2>7. SharedInv' /\ CreationInv'
    BY <1>1, <2>1 DEF SharedInv, CreationInv
  <2> QED
    BY <2>5, <2>6, <2>7 DEF Inv
<1> QED
  BY <1>6, <1>7 DEF Create

\* Resume: what is loaded is what the file replays to.
LEMMA ResumeKeeps ==
  ASSUME Inv, NEW p \in Present, alone' = alone, Resume(p)
  PROVE  Inv'
<1>0. /\ exists /\ p \in Processes /\ None \notin Processes /\ alone \in {None, p} /\ TypeInv
      /\ session \in [Processes -> Sessions \cup {None}]
  BY AbsentAssumption DEF Inv, TypeInv, Present, Resume
<1>1. /\ refused' = Load.error
      /\ session' = IF Load.error # None THEN session
                    ELSE [session EXCEPT ![p] = [messages |-> Load.messages,
                                                 accounting |-> Load.accounting]]
      /\ exists' = exists /\ lines' = lines /\ open' = open /\ written' = written
      /\ lost' = lost /\ lastStop' = lastStop /\ alone' = alone
  BY DEF Resume
<1>2. Parsed' = Parsed
  BY <1>1 DEF Parsed
<1>3. Load.error \in Refusals \cup {None}
  <2>1. Parsed \in Seq(Lines)
    BY <1>0 DEF Parsed, TypeInv
  <2> DEFINE replay == FoldLines(Parsed)
             replayed == Fold(lines, open)
  <2>2. replay \in Replays
    BY <2>1, ReplayIs
  <2>3. replayed = IF Parsed = <<>> THEN [replay EXCEPT !.error = "missing_header"] ELSE replay
    BY DEF Fold, Parsed
  <2> HIDE DEF replay, replayed
  <2>4. replayed \in Replays
    BY <2>2, <2>3 DEF Replays, Refusals
  <2>5. Load \in {replayed} \cup
          {[replayed EXCEPT !.error = refusal] : refusal \in {"io", "unresumable", "disordered"}}
    BY DEF Load, Resumed, replayed
  <2> QED
    BY <2>4, <2>5 DEF Replays, Refusals
<1>4. Load.error = None =>
        /\ Clean(Parsed) /\ Load.messages = FoldLines(Parsed).messages
        /\ Load.accounting = FoldLines(Parsed).accounting /\ FoldLines(Parsed) \in Replays
  BY <1>0, LoadIs, ReplayIs
<1>5. TypeInv'
  <2>1. Load.error = None => [messages |-> Load.messages, accounting |-> Load.accounting] \in Sessions
    BY <1>4 DEF Replays, Sessions
  <2>2. session' \in [Processes -> Sessions \cup {None}]
    BY <1>0, <1>1, <2>1
  <2> QED
    BY <1>0, <1>1, <1>3, <2>2 DEF TypeInv
<1>6. ReadInv'
  <2> SUFFICES ASSUME Clean(Parsed)
               PROVE  \A q \in Processes : session'[q] # None /\ alone = q =>
                        session'[q] = [messages   |-> FoldLines(Parsed).messages,
                                       accounting |-> FoldLines(Parsed).accounting]
    BY <1>1, <1>2 DEF Inv, ReadInv
  <2>1. CASE Load.error # None
    BY <1>1, <2>1 DEF Inv, ReadInv
  <2>2. CASE Load.error = None
    BY <1>0, <1>1, <1>4, <2>2
  <2> QED
    BY <2>1, <2>2
<1>7. CreationInv' /\ SharedInv'
  BY <1>0, <1>1 DEF Inv, CreationInv, SharedInv
<1> QED
  BY <1>5, <1>6, <1>7 DEF Inv

LEMMA LeaveKeeps ==
  ASSUME Inv, NEW p \in Present, alone' = alone, Leave(p)
  PROVE  Inv'
<1>1. /\ session' = [session EXCEPT ![p] = None]
      /\ exists' = exists /\ lines' = lines /\ open' = open /\ written' = written
      /\ lost' = lost /\ lastStop' = lastStop /\ alone' = alone /\ refused' = refused
  BY DEF Leave
<1>2. Parsed' = Parsed
  BY <1>1 DEF Parsed
<1>3. TypeInv'
  BY <1>1 DEF Inv, TypeInv
<1>4. \A q \in Processes : session'[q] = session[q] \/ session'[q] = None
  BY <1>1 DEF Inv, TypeInv
<1>5. ReadInv'
  BY <1>1, <1>2, <1>4 DEF Inv, ReadInv
<1>6. CreationInv' /\ SharedInv'
  BY <1>1, <1>4 DEF Inv, CreationInv, SharedInv
<1> QED
  BY <1>3, <1>5, <1>6 DEF Inv

LEMMA StepKeeps == Inv /\ [Next]_vars => Inv'
<1> SUFFICES ASSUME Inv, [Next]_vars PROVE Inv'
  OBVIOUS
<1>1. CASE UNCHANGED vars
  <2>1. Parsed' = Parsed
    BY <1>1 DEF vars, Parsed
  <2> QED
    BY <1>1, <2>1 DEF vars, Inv, TypeInv, CreationInv, ReadInv, SharedInv
<1>2. ASSUME NEW p \in Present, alone' = alone,
             Create(p) \/ Resume(p) \/ AppendTurn(p) \/ TearAppend(p) \/ Leave(p)
      PROVE  Inv'
  BY <1>2, CreateKeeps, ResumeKeeps, AppendKeeps, TearKeeps, LeaveKeeps
<1> QED
  BY <1>1, <1>2 DEF Next

-----------------------------------------------------------------------------
(* The theorems. *)

\* What parses of a file is what was written into it, and what whoever holds it alone
\* has in memory: record.rs replays what append wrote.
THEOREM StoreInvariant == Spec => []Inv
<1> QED
  BY InitInv, StepKeeps, PTL DEF Spec

\* "A resumed session and a continued one agree" (Accounting::absorb).
THEOREM ResumedAgrees == Spec => []ResumedAgreesWithContinued
<1>1. Inv => ResumedAgreesWithContinued
  BY LoadIs DEF Inv, ReadInv, ResumedAgreesWithContinued
<1> QED
  BY <1>1, StoreInvariant, PTL

\* A resume reads every message that is whole in the file, and refuses a transcript
\* that lost an acknowledged line.
THEOREM ResumeReadsAll == Spec => []ResumeReadsAllWritten
<1>1. Inv => ResumeReadsAllWritten
  <2> SUFFICES ASSUME Inv, Load.error = None PROVE Load.messages = written /\ ~lost
    BY DEF ResumeReadsAllWritten
  <2>1. Clean(Parsed) /\ Parsed \in Seq(Lines) /\ Load.messages = FoldLines(Parsed).messages
    BY LoadIs DEF Inv
  <2>2. FoldLines(Parsed).messages = MessagesOf(Parsed)
    BY <2>1, ReplayIs
  <2> QED
    BY <2>1, <2>2 DEF Inv, ReadInv
<1> QED
  BY <1>1, StoreInvariant, PTL

\* A stop read back describes the turn the transcript ends on.
THEOREM StopIsTheLastTurns == Spec => []StopDescribesTheEnd
<1>1. Inv => StopDescribesTheEnd
  <2> SUFFICES ASSUME Inv, Load.error = None, Load.accounting.stop # None
               PROVE  Load.accounting.stop = lastStop
    BY DEF StopDescribesTheEnd
  <2>1. Clean(Parsed) /\ Load.accounting = FoldLines(Parsed).accounting
    BY LoadIs DEF Inv
  <2> QED
    BY <2>1 DEF Inv, ReadInv
<1> QED
  BY <1>1, StoreInvariant, PTL

\* Runs that append whole turns behind one another's back leave a file resume takes.
THEOREM ConcurrentRunsAreResumed == Spec => []ConcurrentRunsResume
<1>1. Inv => ConcurrentRunsResume
  BY LoadTakes DEF Inv, SharedInv, ConcurrentRunsResume
<1> QED
  BY <1>1, StoreInvariant, PTL
=============================================================================
