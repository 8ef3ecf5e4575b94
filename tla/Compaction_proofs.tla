-------------------------- MODULE Compaction_proofs --------------------------
(***************************************************************************)
(* Lemmas the other proofs share: induction up to a bound, what dropping   *)
(* elements leaves of a sequence of any length, and with them what a plan  *)
(* cuts and what drop_thinking leaves, for any conversation.               *)
(***************************************************************************)
EXTENDS Compaction, WellFoundedInduction, SequenceTheorems, TLAPS

(***************************************************************************)
(* Induction over the naturals, and the least element it amounts to,       *)
(* stated of sets so that a proof may cite them.                           *)
(***************************************************************************)

\* A set of naturals that is not empty has a least element.
LEMMA LeastElement ==
  ASSUME NEW S, S \subseteq Nat, S # {}
  PROVE  \E least \in S : \A n \in S : least <= n
<1>1. PICK least \in S : \A n \in S : ~ (<<n, least>> \in OpToRel(<, Nat))
  BY WFMin, NatLessThanWellFounded
<1>2. ASSUME NEW n \in S PROVE least <= n
  <2>1. n \in Nat /\ least \in Nat
    OBVIOUS
  <2>2. ~ (n < least)
    BY <1>1, <2>1 DEF OpToRel
  <2> QED
    BY <2>1, <2>2
<1> QED
  BY <1>2

\* A set of integers bounded above that is not empty has a greatest element.
LEMMA GreatestElement ==
  ASSUME NEW S, NEW bound \in Int, S \subseteq Int, S # {}, \A n \in S : n <= bound
  PROVE  \E greatest \in S : \A n \in S : n <= greatest
<1> DEFINE Below == {bound - n : n \in S}
<1>1. Below \subseteq Nat /\ Below # {}
  <2>1. \A n \in S : n \in Int /\ n <= bound
    OBVIOUS
  <2>2. \A n \in S : bound - n \in Nat
    BY <2>1
  <2>3. PICK n \in S : TRUE
    OBVIOUS
  <2>4. bound - n \in Below
    BY <2>3
  <2> QED
    BY <2>2, <2>4
<1>2. PICK least \in Below : \A m \in Below : least <= m
  BY <1>1, LeastElement
<1>3. PICK greatest \in S : least = bound - greatest
  OBVIOUS
<1>4. ASSUME NEW n \in S PROVE n <= greatest
  <2>1. least <= bound - n
    BY <1>2
  <2>2. n \in Int /\ greatest \in Int
    OBVIOUS
  <2> QED
    BY <2>1, <2>2, <1>3
<1> QED
  BY <1>4

\* A set that holds 0 and the successor of each natural it holds, up to a bound,
\* holds all naturals up to that bound.
LEMMA InductionUpTo ==
  ASSUME NEW bound \in Nat, NEW S,
         0 \in S,
         \A n \in Nat : n \in S /\ n < bound => n + 1 \in S
  PROVE  0 .. bound \subseteq S
<1> DEFINE Missing == {n \in 0 .. bound : n \notin S}
<1> SUFFICES ASSUME Missing # {} PROVE FALSE
  OBVIOUS
<1>1. PICK least \in Missing : \A n \in Missing : least <= n
  <2>1. Missing \subseteq Nat
    OBVIOUS
  <2> QED
    BY <2>1, LeastElement
<1>2. least \in Nat /\ least <= bound /\ least # 0 /\ least \notin S
  OBVIOUS
<1>3. least - 1 \notin Missing
  BY <1>1, <1>2
<1>4. least - 1 \in Nat /\ least - 1 \in S /\ least - 1 < bound
  BY <1>2, <1>3
<1>5. (least - 1) + 1 \in S
  BY <1>4
<1> QED
  BY <1>2, <1>5

\* What holds of no elements, and of one more wherever it holds, holds of every sequence.
LEMMA ElementByElement ==
  ASSUME NEW T, NEW S,
         <<>> \in S,
         \A seq \in Seq(T), last \in T : seq \in S => Append(seq, last) \in S
  PROVE  Seq(T) \subseteq S
<1> SUFFICES ASSUME NEW seq \in Seq(T) PROVE seq \in S
  OBVIOUS
<1> DEFINE U == {n \in Nat : n <= Len(seq) => SubSeq(seq, 1, n) \in S}
<1>0. Len(seq) \in Nat
  OBVIOUS
<1>1. 0 \in U
  <2>1. SubSeq(seq, 1, 0) = <<>>
    OBVIOUS
  <2> QED
    BY <2>1
<1>2. ASSUME NEW n \in Nat, n \in U, n < Len(seq) PROVE n + 1 \in U
  <2>1. SubSeq(seq, 1, n) \in Seq(T) /\ seq[n + 1] \in T
    BY <1>2
  <2>2. SubSeq(seq, 1, n + 1) = Append(SubSeq(seq, 1, n), seq[n + 1])
    BY <1>2
  <2>3. SubSeq(seq, 1, n) \in S
    BY <1>0, <1>2
  <2> DEFINE front == SubSeq(seq, 1, n)
             last == seq[n + 1]
  <2>4. front \in Seq(T) /\ last \in T /\ front \in S
    BY <2>1, <2>3
  <2> HIDE DEF front, last
  <2>5. Append(front, last) \in S
    BY <2>4
  <2>6. SubSeq(seq, 1, n + 1) \in S
    BY <2>2, <2>5 DEF front, last
  <2> QED
    BY <2>6
<1>3. 0 .. Len(seq) \subseteq U
  <2> HIDE DEF U
  <2> QED
    BY <1>0, <1>1, <1>2, InductionUpTo
<1>4. Len(seq) \in U
  <2> HIDE DEF U
  <2> QED
    BY <1>0, <1>3
<1>5. SubSeq(seq, 1, Len(seq)) \in S
  BY <1>0, <1>4
<1>6. SubSeq(seq, 1, Len(seq)) = seq
  OBVIOUS
<1> HIDE DEF U
<1> QED
  BY <1>5, <1>6, Zenon

-----------------------------------------------------------------------------
(* Picked. *)

\* One step of the walk along seq, from what it has kept so far.
Walk(seq, positions, sofar, n) ==
  IF n \in positions THEN Append(sofar, seq[n]) ELSE sofar

\* The walk Picked takes, as a function of how far it has come.
IsWalk(f, seq, positions, length) ==
  f = [n \in 0 .. length |->
         IF n = 0 THEN <<>> ELSE IF n \in positions THEN Append(f[n - 1], seq[n]) ELSE f[n - 1]]

\* There is such a walk along any sequence, up to any length.
LEMMA WalkExists ==
  ASSUME NEW seq, NEW positions, NEW length \in Nat
  PROVE  \E f : IsWalk(f, seq, positions, length)
<1> DEFINE S == {n \in Nat : \E f : IsWalk(f, seq, positions, n)}
<1>1. 0 \in S
  <2> DEFINE f == [n \in 0 .. 0 |-> <<>>]
  <2>1. IsWalk(f, seq, positions, 0)
    BY DEF IsWalk
  <2> QED
    BY <2>1
<1>2. ASSUME NEW n \in Nat, n \in S PROVE n + 1 \in S
  <2>1. PICK f : IsWalk(f, seq, positions, n)
    BY <1>2
  <2> DEFINE g == [m \in 0 .. n + 1 |-> IF m <= n THEN f[m] ELSE Walk(seq, positions, f[n], m)]
             step(m) == IF m = 0 THEN <<>>
                        ELSE IF m \in positions THEN Append(g[m - 1], seq[m]) ELSE g[m - 1]
  <2>2. ASSUME NEW m \in 0 .. n + 1 PROVE g[m] = step(m)
    <3>1. CASE m = 0
      <4>1. g[m] = f[m]
        BY <3>1
      <4>2. f[m] = <<>>
        BY <2>1, <3>1 DEF IsWalk
      <4> QED
        BY <4>1, <4>2, <3>1
    <3>2. CASE m # 0 /\ m <= n
      <4>1. m - 1 \in 0 .. n + 1 /\ m - 1 <= n /\ m \in 0 .. n
        BY <3>2
      <4>2. g[m] = f[m] /\ g[m - 1] = f[m - 1]
        BY <3>2, <4>1
      <4>3. f[m] = IF m \in positions THEN Append(f[m - 1], seq[m]) ELSE f[m - 1]
        BY <2>1, <3>2, <4>1 DEF IsWalk
      <4> QED
        BY <4>2, <4>3, <3>2
    <3>3. CASE m = n + 1
      <4>1. g[m] = Walk(seq, positions, f[n], m)
        BY <3>3
      <4>2. m - 1 = n /\ g[m - 1] = f[n]
        BY <3>3
      <4> QED
        BY <4>1, <4>2, <3>3 DEF Walk
    <3> QED
      BY <3>1, <3>2, <3>3
  <2>3. IsWalk(g, seq, positions, n + 1)
    <3>1. g = [m \in 0 .. n + 1 |-> step(m)]
      BY <2>2
    <3> QED
      BY <3>1 DEF IsWalk
  <2> QED
    BY <2>3
<1>3. 0 .. length \subseteq S
  <2> HIDE DEF S
  <2> QED
    BY <1>1, <1>2, InductionUpTo
<1> QED
  BY <1>3

\* What a walk has kept at any point is a sequence of elements of seq at the
\* given positions.
LEMMA WalkType ==
  ASSUME NEW T, NEW seq \in Seq(T), NEW positions, NEW f, IsWalk(f, seq, positions, Len(seq)),
         NEW U, \A i \in DOMAIN seq : i \in positions => seq[i] \in U
  PROVE  f[Len(seq)] \in Seq(U)
<1> DEFINE S == {n \in Nat : n <= Len(seq) => f[n] \in Seq(U)}
<1>0. Len(seq) \in Nat /\ DOMAIN seq = 1 .. Len(seq)
  OBVIOUS
<1>1. 0 \in S
  <2>1. f[0] = <<>>
    BY <1>0 DEF IsWalk
  <2>2. f[0] \in Seq(U)
    BY <2>1
  <2> QED
    BY <2>2
<1>2. ASSUME NEW n \in Nat, n \in S, n < Len(seq) PROVE n + 1 \in S
  <2>1. n + 1 \in 0 .. Len(seq) /\ n + 1 # 0 /\ (n + 1) - 1 = n /\ n + 1 \in DOMAIN seq
    BY <1>0, <1>2
  <2>2. f[n + 1] = IF n + 1 \in positions THEN Append(f[n], seq[n + 1]) ELSE f[n]
    BY <2>1 DEF IsWalk
  <2>3. f[n] \in Seq(U)
    BY <1>2
  <2>4. f[n + 1] \in Seq(U)
    BY <2>1, <2>2, <2>3
  <2> QED
    BY <2>4
<1>3. 0 .. Len(seq) \subseteq S
  <2> HIDE DEF S
  <2> QED
    BY <1>0, <1>1, <1>2, InductionUpTo
<1> QED
  BY <1>0, <1>3

\* Vec::retain keeps elements of the sequence it is given, and only ones at the
\* positions it keeps.
LEMMA PickedType ==
  ASSUME NEW T, NEW seq \in Seq(T), NEW positions,
         NEW U, \A i \in DOMAIN seq : i \in positions => seq[i] \in U
  PROVE  Picked(seq, positions) \in Seq(U)
<1>0. Len(seq) \in Nat /\ DOMAIN seq = 1 .. Len(seq)
  OBVIOUS
<1>1. CASE DOMAIN seq \subseteq positions
  <2>1. Picked(seq, positions) = seq
    BY <1>1 DEF Picked
  <2>2. \A i \in 1 .. Len(seq) : seq[i] \in U
    BY <1>0, <1>1
  <2> QED
    BY <2>1, <2>2, <1>0, IsASeq
<1>2. CASE ~ (DOMAIN seq \subseteq positions)
  <2> DEFINE walk == CHOOSE f : IsWalk(f, seq, positions, Len(seq))
  <2>1. IsWalk(walk, seq, positions, Len(seq))
    BY <1>0, WalkExists
  <2>2. Picked(seq, positions) = walk[Len(seq)]
    BY <1>2 DEF Picked, IsWalk
  <2>3. walk[Len(seq)] \in Seq(U)
    <3> HIDE DEF walk
    <3> QED
      BY <2>1, WalkType
  <2> QED
    BY <2>2, <2>3
<1> QED
  BY <1>1, <1>2

-----------------------------------------------------------------------------
(* What is kept, element by element. *)

\* The values of a sequence.
Elements(seq) == {seq[i] : i \in DOMAIN seq}

\* One more element.
LEMMA AppendElements ==
  ASSUME NEW T, NEW seq \in Seq(T), NEW last \in T
  PROVE  /\ Append(seq, last) \in Seq(T)
         /\ Elements(Append(seq, last)) = Elements(seq) \cup {last}
<1> DEFINE longer == Append(seq, last)
<1>1. /\ longer \in Seq(T) /\ DOMAIN longer = DOMAIN seq \cup {Len(seq) + 1}
      /\ \A i \in DOMAIN seq : longer[i] = seq[i]
      /\ longer[Len(seq) + 1] = last
  OBVIOUS
<1> HIDE DEF longer
<1>2. Elements(longer) = Elements(seq) \cup {last}
  BY <1>1 DEF Elements
<1> QED
  BY <1>1, <1>2 DEF longer

\* What a walk has kept at any point is what stands at the given positions up to there.
LEMMA WalkElements ==
  ASSUME NEW T, NEW seq \in Seq(T), NEW positions, NEW f, IsWalk(f, seq, positions, Len(seq))
  PROVE  /\ f[Len(seq)] \in Seq(T)
         /\ Elements(f[Len(seq)]) = {seq[i] : i \in DOMAIN seq \cap positions}
<1> DEFINE Right(n) == /\ f[n] \in Seq(T)
                       /\ Elements(f[n]) = {seq[i] : i \in (1 .. n) \cap positions}
           S == {n \in Nat : n <= Len(seq) => Right(n)}
<1>0. Len(seq) \in Nat /\ DOMAIN seq = 1 .. Len(seq)
  OBVIOUS
<1>1. 0 \in S
  <2>1. f[0] = <<>>
    BY <1>0 DEF IsWalk
  <2>2. Right(0)
    BY <2>1 DEF Elements
  <2> QED
    BY <2>2
<1>2. ASSUME NEW n \in Nat, n \in S, n < Len(seq) PROVE n + 1 \in S
  <2>1. n + 1 \in 0 .. Len(seq) /\ n + 1 # 0 /\ (n + 1) - 1 = n /\ n + 1 \in DOMAIN seq
    BY <1>0, <1>2
  <2>2. f[n + 1] = IF n + 1 \in positions THEN Append(f[n], seq[n + 1]) ELSE f[n]
    BY <2>1 DEF IsWalk
  <2>3. Right(n)
    BY <1>2
  <2>4. 1 .. n + 1 = (1 .. n) \cup {n + 1}
    OBVIOUS
  <2>5. ASSUME n + 1 \in positions PROVE Right(n + 1)
    <3>1. f[n + 1] = Append(f[n], seq[n + 1]) /\ seq[n + 1] \in T
      BY <2>1, <2>2, <2>5
    <3>2. f[n + 1] \in Seq(T) /\ Elements(f[n + 1]) = Elements(f[n]) \cup {seq[n + 1]}
      <4> DEFINE sofar == f[n]
      <4>1. sofar \in Seq(T)
        BY <2>3
      <4> HIDE DEF sofar
      <4> QED
        BY <3>1, <4>1, AppendElements DEF sofar
    <3>3. {seq[i] : i \in (1 .. n + 1) \cap positions}
             = {seq[i] : i \in (1 .. n) \cap positions} \cup {seq[n + 1]}
      BY <2>4, <2>5
    <3> QED
      BY <2>3, <3>2, <3>3
  <2>6. ASSUME n + 1 \notin positions PROVE Right(n + 1)
    <3>1. (1 .. n + 1) \cap positions = (1 .. n) \cap positions
      BY <2>4, <2>6
    <3> QED
      BY <2>2, <2>3, <2>6, <3>1
  <2> HIDE DEF Right
  <2> QED
    BY <2>5, <2>6
<1>3. 0 .. Len(seq) \subseteq S
  <2> HIDE DEF S
  <2> QED
    BY <1>0, <1>1, <1>2, InductionUpTo
<1>4. Right(Len(seq))
  <2>1. Len(seq) \in S
    <3> HIDE DEF S
    <3> QED
      BY <1>0, <1>3
  <2> HIDE DEF Right
  <2> QED
    BY <2>1
<1> QED
  BY <1>0, <1>4

\* Vec::retain keeps exactly what stands at the positions it keeps.
LEMMA PickedElements ==
  ASSUME NEW T, NEW seq \in Seq(T), NEW positions
  PROVE  /\ Picked(seq, positions) \in Seq(T)
         /\ Elements(Picked(seq, positions)) = {seq[i] : i \in DOMAIN seq \cap positions}
<1>1. CASE DOMAIN seq \subseteq positions
  <2>1. Picked(seq, positions) = seq
    BY <1>1 DEF Picked
  <2>2. DOMAIN seq \cap positions = DOMAIN seq
    BY <1>1
  <2> QED
    BY <2>1, <2>2 DEF Elements
<1>2. CASE ~ (DOMAIN seq \subseteq positions)
  <2> DEFINE walk == CHOOSE f : IsWalk(f, seq, positions, Len(seq))
  <2>1. IsWalk(walk, seq, positions, Len(seq))
    <3>1. Len(seq) \in Nat
      OBVIOUS
    <3> QED
      BY <3>1, WalkExists
  <2>2. Picked(seq, positions) = walk[Len(seq)]
    BY <1>2 DEF Picked, IsWalk
  <2> HIDE DEF walk
  <2>3. /\ walk[Len(seq)] \in Seq(T)
        /\ Elements(walk[Len(seq)]) = {seq[i] : i \in DOMAIN seq \cap positions}
    BY <2>1, WalkElements
  <2> QED
    BY <2>2, <2>3, Zenon
<1> QED
  BY <1>1, <1>2

-----------------------------------------------------------------------------
(* What is kept, by its place. *)

\* Dropping elements makes no sequence longer.
LEMMA PickedLength ==
  ASSUME NEW T, NEW seq \in Seq(T), NEW positions
  PROVE  Len(Picked(seq, positions)) <= Len(seq)
<1>0. Len(seq) \in Nat /\ DOMAIN seq = 1 .. Len(seq)
  OBVIOUS
<1>1. CASE DOMAIN seq \subseteq positions
  BY <1>0, <1>1 DEF Picked
<1>2. CASE ~ (DOMAIN seq \subseteq positions)
  <2> DEFINE walk == CHOOSE f : IsWalk(f, seq, positions, Len(seq))
  <2>1. IsWalk(walk, seq, positions, Len(seq))
    BY <1>0, WalkExists
  <2>2. Picked(seq, positions) = walk[Len(seq)]
    BY <1>2 DEF Picked, IsWalk
  <2> HIDE DEF walk
  <2> DEFINE S == {n \in Nat : n <= Len(seq) => walk[n] \in Seq(T) /\ Len(walk[n]) <= n}
  <2>3. 0 \in S
    <3>1. walk[0] = <<>>
      BY <1>0, <2>1 DEF IsWalk
    <3>2. walk[0] \in Seq(T) /\ Len(walk[0]) <= 0
      BY <3>1
    <3> QED
      BY <3>2
  <2>4. ASSUME NEW n \in Nat, n \in S, n < Len(seq) PROVE n + 1 \in S
    <3>1. n + 1 \in 0 .. Len(seq) /\ n + 1 # 0 /\ (n + 1) - 1 = n /\ n + 1 \in DOMAIN seq
      BY <1>0, <2>4
    <3>2. walk[n + 1] = IF n + 1 \in positions THEN Append(walk[n], seq[n + 1]) ELSE walk[n]
      BY <2>1, <3>1 DEF IsWalk
    <3>3. walk[n] \in Seq(T) /\ Len(walk[n]) <= n
      BY <1>0, <2>4
    <3>4. Append(walk[n], seq[n + 1]) \in Seq(T)
            /\ Len(Append(walk[n], seq[n + 1])) = Len(walk[n]) + 1
      BY <3>1, <3>3
    <3>5. walk[n + 1] \in Seq(T) /\ Len(walk[n + 1]) <= n + 1
      BY <3>2, <3>3, <3>4
    <3> QED
      BY <3>5
  <2>5. 0 .. Len(seq) \subseteq S
    <3> HIDE DEF S
    <3> QED
      BY <1>0, <2>3, <2>4, InductionUpTo
  <2> QED
    BY <1>0, <2>2, <2>5
<1> QED
  BY <1>1, <1>2

\* Two naturals neither of which exceeds the other.
LEMMA NeitherExceeds ==
  ASSUME NEW a \in Nat, NEW b \in Nat, a <= b, b <= a
  PROVE  a = b
OBVIOUS

\* What is kept of a sequence whose front alone is kept is that front.
LEMMA PickedFront ==
  ASSUME NEW T, NEW seq \in Seq(T), NEW positions, NEW size \in 0 .. Len(seq),
         \A i \in DOMAIN seq : i \in positions <=> i <= size
  PROVE  Picked(seq, positions) = SubSeq(seq, 1, size)
<1>0. Len(seq) \in Nat /\ DOMAIN seq = 1 .. Len(seq) /\ size \in Nat /\ size <= Len(seq)
  OBVIOUS
<1>1. CASE DOMAIN seq \subseteq positions
  <2>1. size = Len(seq)
    <3>1. Len(seq) # 0 => Len(seq) \in DOMAIN seq
      BY <1>0
    <3>2. Len(seq) # 0 => Len(seq) <= size
      BY <1>1, <3>1
    <3>3. Len(seq) <= size
      BY <1>0, <3>2
    <3> QED
      BY <1>0, <3>3, NeitherExceeds
  <2> QED
    BY <1>1, <2>1, SubSeqFull DEF Picked
<1>2. CASE ~ (DOMAIN seq \subseteq positions)
  <2> DEFINE walk == CHOOSE f : IsWalk(f, seq, positions, Len(seq))
             front(n) == SubSeq(seq, 1, IF n <= size THEN n ELSE size)
  <2>1. IsWalk(walk, seq, positions, Len(seq))
    BY <1>0, WalkExists
  <2>2. Picked(seq, positions) = walk[Len(seq)]
    BY <1>2 DEF Picked, IsWalk
  <2> HIDE DEF walk
  <2> DEFINE S == {n \in Nat : n <= Len(seq) => walk[n] = front(n)}
  <2>3. 0 \in S
    <3>1. walk[0] = <<>>
      BY <1>0, <2>1 DEF IsWalk
    <3>2. SubSeq(seq, 1, 0) = <<>>
      BY <1>0, SubSeqEmpty
    <3>3. (IF 0 <= size THEN 0 ELSE size) = 0
      BY <1>0
    <3>4. front(0) = <<>>
      BY <3>2, <3>3
    <3> QED
      BY <3>1, <3>4
  <2>4. ASSUME NEW n \in Nat, n \in S, n < Len(seq) PROVE n + 1 \in S
    <3>1. n + 1 \in 0 .. Len(seq) /\ n + 1 # 0 /\ (n + 1) - 1 = n /\ n + 1 \in DOMAIN seq
      BY <1>0, <2>4
    <3>2. walk[n + 1] = IF n + 1 \in positions THEN Append(walk[n], seq[n + 1]) ELSE walk[n]
      BY <2>1, <3>1 DEF IsWalk
    <3>3. walk[n] = front(n)
      BY <1>0, <2>4
    <3>4. CASE n + 1 <= size
      <4> DEFINE shorter == SubSeq(seq, 1, n)
                 longer == SubSeq(seq, 1, n + 1)
      <4>1. /\ shorter \in Seq(T) /\ Len(shorter) = n
            /\ longer \in Seq(T) /\ Len(longer) = n + 1
            /\ \A i \in 1 .. n : shorter[i] = seq[i]
            /\ \A i \in 1 .. n + 1 : longer[i] = seq[i]
        BY <1>0, <2>4
      <4>2. walk[n + 1] = Append(shorter, seq[n + 1])
        BY <1>0, <3>1, <3>2, <3>3, <3>4
      <4>3. Append(shorter, seq[n + 1]) = longer
        <5>1. seq[n + 1] \in T
          BY <3>1
        <5> HIDE DEF shorter, longer
        <5> DEFINE appended == Append(shorter, seq[n + 1])
        <5>2. /\ appended \in Seq(T) /\ Len(appended) = n + 1
              /\ \A i \in 1 .. n + 1 : appended[i] = seq[i]
          BY <4>1, <5>1
        <5> HIDE DEF appended
        <5>3. appended = longer
          BY <4>1, <5>2, SeqEqual
        <5> QED
          BY <5>3 DEF appended
      <4>4. front(n + 1) = longer
        BY <3>4
      <4> HIDE DEF front, shorter, longer
      <4> QED
        BY <3>1, <4>2, <4>3, <4>4
    <3>5. CASE ~ (n + 1 <= size)
      <4>1. walk[n + 1] = walk[n] /\ front(n + 1) = front(n)
        <5>1. n <= size => n = size
          BY <1>0, <3>5
        <5> QED
          BY <1>0, <3>1, <3>2, <3>5, <5>1
      <4> HIDE DEF front
      <4> QED
        BY <3>1, <3>3, <4>1
    <3> QED
      BY <3>4, <3>5
  <2>5. 0 .. Len(seq) \subseteq S
    <3> HIDE DEF S
    <3> QED
      BY <1>0, <2>3, <2>4, InductionUpTo
  <2>6. front(Len(seq)) = SubSeq(seq, 1, size)
    <3>1. CASE Len(seq) <= size
      <4>1. Len(seq) = size
        BY <1>0, <3>1, NeitherExceeds
      <4> QED
        BY <4>1
    <3>2. CASE ~ (Len(seq) <= size)
      BY <3>2
    <3> QED
      BY <3>1, <3>2
  <2> HIDE DEF front
  <2> QED
    BY <1>0, <2>2, <2>5, <2>6
<1> QED
  BY <1>1, <1>2

\* And of one whose back alone is kept, that back.
LEMMA PickedBack ==
  ASSUME NEW T, NEW front \in Seq(T), NEW back \in Seq(T), NEW positions,
         \A i \in DOMAIN (front \o back) : i \in positions <=> i > Len(front)
  PROVE  Picked(front \o back, positions) = back
<1> DEFINE seq == front \o back
           size == Len(front)
<1>0. /\ seq \in Seq(T) /\ size \in Nat /\ Len(back) \in Nat /\ Len(seq) = size + Len(back)
      /\ DOMAIN seq = 1 .. size + Len(back)
      /\ \A i \in 1 .. Len(back) : seq[size + i] = back[i]
  OBVIOUS
<1> HIDE DEF seq, size
<1>1. CASE DOMAIN seq \subseteq positions
  <2>1. size = 0
    <3>1. size # 0 => 1 \in DOMAIN seq /\ ~ (1 > size)
      BY <1>0
    <3> QED
      BY <1>1, <3>1 DEF seq, size
  <2>2. front = <<>>
    BY <2>1 DEF size
  <2>3. seq = back
    BY <2>2 DEF seq
  <2> QED
    BY <1>1, <2>3 DEF Picked, seq
<1>2. CASE ~ (DOMAIN seq \subseteq positions)
  <2> DEFINE walk == CHOOSE f : IsWalk(f, seq, positions, Len(seq))
  <2>1. IsWalk(walk, seq, positions, Len(seq))
    <3>1. Len(seq) \in Nat
      BY <1>0
    <3> QED
      BY <3>1, WalkExists
  <2>2. Picked(seq, positions) = walk[Len(seq)]
    BY <1>2 DEF Picked, IsWalk
  <2> HIDE DEF walk
  <2>3. ASSUME NEW n \in Nat, n < Len(seq)
        PROVE  walk[n + 1] = IF n + 1 > size THEN Append(walk[n], seq[n + 1]) ELSE walk[n]
    <3>1. n + 1 \in 0 .. Len(seq) /\ n + 1 # 0 /\ (n + 1) - 1 = n /\ n + 1 \in DOMAIN seq
      BY <1>0, <2>3
    <3>2. walk[n + 1] = IF n + 1 \in positions THEN Append(walk[n], seq[n + 1]) ELSE walk[n]
      BY <2>1, <3>1 DEF IsWalk
    <3>3. n + 1 \in positions <=> n + 1 > size
      BY <3>1 DEF seq, size
    <3> QED
      BY <3>2, <3>3
  <2> DEFINE S == {n \in Nat : n <= size => walk[n] = <<>>}
  <2>4. 0 .. size \subseteq S
    <3>1. 0 \in S
      BY <1>0, <2>1 DEF IsWalk
    <3>2. ASSUME NEW n \in Nat, n \in S, n < size PROVE n + 1 \in S
      <4>1. n < Len(seq) /\ ~ (n + 1 > size) /\ walk[n] = <<>>
        BY <1>0, <3>2
      <4> QED
        BY <2>3, <4>1
    <3> HIDE DEF S
    <3> QED
      BY <1>0, <3>1, <3>2, InductionUpTo
  <2>5. walk[size] = <<>>
    BY <1>0, <2>4
  <2> DEFINE R == {n \in Nat : n <= Len(back) => walk[size + n] = SubSeq(back, 1, n)}
  <2>6. 0 .. Len(back) \subseteq R
    <3>1. 0 \in R
      <4>1. SubSeq(back, 1, 0) = <<>> /\ size + 0 = size
        BY <1>0, SubSeqEmpty
      <4> QED
        BY <2>5, <4>1
    <3>2. ASSUME NEW n \in Nat, n \in R, n < Len(back) PROVE n + 1 \in R
      <4> DEFINE shorter == SubSeq(back, 1, n)
                 longer == SubSeq(back, 1, n + 1)
      <4>1. /\ shorter \in Seq(T) /\ Len(shorter) = n
            /\ longer \in Seq(T) /\ Len(longer) = n + 1
            /\ \A i \in 1 .. n : shorter[i] = back[i]
            /\ \A i \in 1 .. n + 1 : longer[i] = back[i]
            /\ back[n + 1] \in T
        BY <1>0, <3>2
      <4>2. walk[size + n] = shorter
        BY <1>0, <3>2
      <4> HIDE DEF shorter, longer
      <4>3. walk[size + (n + 1)] = Append(shorter, back[n + 1])
        <5>1. size + n \in Nat /\ size + n < Len(seq) /\ (size + n) + 1 > size
              /\ (size + n) + 1 = size + (n + 1) /\ n + 1 \in 1 .. Len(back)
          BY <1>0, <3>2
        <5>2. walk[(size + n) + 1] = Append(walk[size + n], seq[(size + n) + 1])
          BY <2>3, <5>1
        <5>3. seq[(size + n) + 1] = back[n + 1]
          BY <1>0, <5>1
        <5> QED
          BY <4>2, <5>1, <5>2, <5>3
      <4> DEFINE appended == Append(shorter, back[n + 1])
      <4>4. /\ appended \in Seq(T) /\ Len(appended) = n + 1
            /\ \A i \in 1 .. n + 1 : appended[i] = back[i]
        <5>1. /\ appended \in Seq(T) /\ Len(appended) = Len(shorter) + 1
              /\ \A i \in 1 .. Len(shorter) : appended[i] = shorter[i]
              /\ appended[Len(shorter) + 1] = back[n + 1]
          BY <4>1, AppendProperties
        <5> HIDE DEF appended
        <5> QED
          BY <4>1, <5>1
      <4> HIDE DEF appended
      <4>5. appended = longer
        BY <4>1, <4>4, SeqEqual
      <4>6. walk[size + (n + 1)] = longer
        BY <4>3, <4>5 DEF appended
      <4> QED
        BY <4>6 DEF longer
    <3> HIDE DEF R
    <3> QED
      BY <1>0, <3>1, <3>2, InductionUpTo
  <2>7. walk[Len(seq)] = SubSeq(back, 1, Len(back))
    BY <1>0, <2>6
  <2> QED
    BY <2>2, <2>7, SubSeqFull DEF seq
<1> QED
  BY <1>1, <1>2

-----------------------------------------------------------------------------
(* Messages. *)

\* A message that loses its reasoning is a message of the same role with none in it.
LEMMA RetainReasonless ==
  ASSUME NEW message \in Messages
  PROVE  LET less == Retain(message, NotThinking)
         IN  /\ less \in Messages /\ less.role = message.role
             /\ AllBlocks(less, NotThinking)
<1> DEFINE kept == {i \in DOMAIN message.content : NotThinking(message.content[i])}
           Plain == {block \in Blocks : NotThinking(block)}
<1>1. message.content \in Seq(Blocks)
  BY DEF Messages
<1>2. \A i \in DOMAIN message.content : i \in kept => message.content[i] \in Plain
  BY <1>1
<1>3. Picked(message.content, kept) \in Seq(Plain)
  <2> HIDE DEF kept, Plain
  <2> QED
    BY <1>1, <1>2, PickedType
<1>4. Retain(message, NotThinking) = [message EXCEPT !.content = Picked(message.content, kept)]
  BY DEF Retain
<1> DEFINE picked == Picked(message.content, kept)
           less == [message EXCEPT !.content = picked]
<1>5. less \in Messages /\ less.role = message.role /\ less.content = picked
  <2>1. picked \in Seq(Blocks)
    BY <1>3
  <2> HIDE DEF picked
  <2> QED
    BY <2>1 DEF Messages
<1>6. \A i \in DOMAIN picked : NotThinking(picked[i])
  <2>1. picked \in Seq(Plain)
    BY <1>3
  <2> HIDE DEF picked
  <2> QED
    BY <2>1
<1>7. AllBlocks(less, NotThinking)
  BY <1>5, <1>6 DEF AllBlocks
<1> QED
  BY <1>4, <1>5, <1>7

\* The messages a turn may hand back: none is empty, none holds reasoning.
Reasonless ==
  {message \in Messages : HasContent(message) /\ AllBlocks(message, NotThinking)}

\* Dropping reasoning leaves messages, none of them empty and none holding any
\* reasoning (drop_thinking).
LEMMA DropThinkingReasonless ==
  ASSUME NEW messages \in Seq(Messages)
  PROVE  DropThinking(messages) \in Seq(Reasonless)
<1> DEFINE less == [i \in DOMAIN messages |-> Retain(messages[i], NotThinking)]
           Plain == {message \in Messages : AllBlocks(message, NotThinking)}
<1>1. ASSUME NEW i \in DOMAIN messages PROVE Retain(messages[i], NotThinking) \in Plain
  <2>1. messages[i] \in Messages
    OBVIOUS
  <2> QED
    BY <2>1, RetainReasonless
<1>2. less \in Seq(Plain)
  <2>1. DOMAIN messages = 1 .. Len(messages) /\ Len(messages) \in Nat
    OBVIOUS
  <2>2. less = [i \in 1 .. Len(messages) |-> less[i]]
    BY <2>1
  <2>3. \A i \in 1 .. Len(messages) : less[i] \in Plain
    BY <1>1, <2>1
  <2> HIDE DEF less, Plain
  <2> QED
    BY <2>1, <2>2, <2>3, IsASeq
<1> DEFINE kept == {i \in DOMAIN less : HasContent(less[i])}
<1>3. \A i \in DOMAIN less : i \in kept => less[i] \in Reasonless
  <2>1. \A i \in DOMAIN less : less[i] \in Plain
    <3> HIDE DEF less, Plain
    <3> QED
      BY <1>2
  <2> HIDE DEF less
  <2> QED
    BY <2>1 DEF Reasonless
<1>4. Picked(less, kept) \in Seq(Reasonless)
  <2> HIDE DEF less, kept, Plain
  <2> QED
    BY <1>2, <1>3, PickedType
<1>5. DropThinking(messages) = Picked(less, kept)
  BY DEF DropThinking, WithContent
<1> QED
  BY <1>4, <1>5

\* In particular they are messages.
LEMMA DropThinkingType ==
  ASSUME NEW messages \in Seq(Messages)
  PROVE  DropThinking(messages) \in Seq(Messages)
<1>1. Reasonless \subseteq Messages
  BY DEF Reasonless
<1>2. DropThinking(messages) \in Seq(Reasonless)
  BY DropThinkingReasonless
<1> HIDE DEF Reasonless
<1> QED
  BY <1>1, <1>2, SeqMonotonic

\* The blocks a test keeps are the ones that pass it, and a message that all of
\* pass stays as it is.
LEMMA RetainElements ==
  ASSUME NEW message \in Messages
  PROVE  LET less == Retain(message, NotThinking)
         IN  /\ Elements(less.content)
                  = {block \in Elements(message.content) : NotThinking(block)}
             /\ AllBlocks(message, NotThinking) => less = message
<1> DEFINE content == message.content
           kept == {i \in DOMAIN content : NotThinking(content[i])}
           less == [message EXCEPT !.content = Picked(content, kept)]
<1>1. content \in Seq(Blocks) /\ DOMAIN message = {"role", "content"}
  BY DEF Messages
<1>2. Retain(message, NotThinking) = less /\ less.content = Picked(content, kept)
  BY <1>1 DEF Retain
<1>3. Elements(Picked(content, kept)) = {content[i] : i \in DOMAIN content \cap kept}
  <2> HIDE DEF content, kept
  <2> QED
    BY <1>1, PickedElements
<1>4. {content[i] : i \in DOMAIN content \cap kept}
        = {block \in Elements(content) : NotThinking(block)}
  <2> HIDE DEF content
  <2> QED
    BY DEF Elements
<1>5. ASSUME AllBlocks(message, NotThinking) PROVE less = message
  <2>1. DOMAIN content \subseteq kept
    BY <1>5 DEF AllBlocks
  <2>2. Picked(content, kept) = content
    BY <2>1 DEF Picked
  <2> QED
    BY <1>1, <2>2 DEF Messages
<1> QED
  BY <1>2, <1>3, <1>4, <1>5

\* The blocks of a message of one kind.
Of(message, Test(_)) == {block \in Elements(message.content) : Test(block)}

\* The calls and the answers of a message, by its blocks.
LEMMA IdsOfElements ==
  ASSUME NEW message
  PROVE  /\ CallsOf(message) = {block.id : block \in Of(message, IsUse)}
         /\ AnswersIn(message) = {block.id : block \in Of(message, IsResult)}
BY DEF CallsOf, AnswersIn, Of, Elements

\* Losing its reasoning costs a message none of its calls and none of its answers, and
\* leaves it empty only if there was nothing else in it.
LEMMA RetainKeepsIds ==
  ASSUME NEW message \in Messages
  PROVE  LET less == Retain(message, NotThinking)
         IN  /\ CallsOf(less) = CallsOf(message) /\ AnswersIn(less) = AnswersIn(message)
             /\ Of(less, IsResult) = Of(message, IsResult)
             /\ HasContent(less) <=> SomeBlock(message, NotThinking)
<1> DEFINE less == Retain(message, NotThinking)
<1>1. /\ Elements(less.content) = {block \in Elements(message.content) : NotThinking(block)}
      /\ less \in Messages
  BY RetainElements, RetainReasonless
<1> HIDE DEF less
<1>2. \A block \in Elements(message.content) : IsUse(block) \/ IsResult(block) => NotThinking(block)
  BY DEF IsUse, IsResult, NotThinking, IsThinking
<1>3. Of(less, IsResult) = Of(message, IsResult) /\ Of(less, IsUse) = Of(message, IsUse)
  BY <1>1, <1>2 DEF Of
<1>4. CallsOf(less) = CallsOf(message) /\ AnswersIn(less) = AnswersIn(message)
  BY <1>3, IdsOfElements
<1>5. HasContent(less) <=> SomeBlock(message, NotThinking)
  <2>1. less.content \in Seq(Blocks)
    BY <1>1 DEF Messages
  <2>2. HasContent(less) <=> Elements(less.content) # {}
    <3> DEFINE content == less.content
    <3>1. content \in Seq(Blocks)
      BY <2>1
    <3> HIDE DEF content
    <3>2. content # <<>> => 1 \in DOMAIN content
      BY <3>1
    <3>3. content = <<>> => DOMAIN content = {}
      BY <3>1
    <3> QED
      BY <3>2, <3>3 DEF HasContent, Elements, content
  <2>3. SomeBlock(message, NotThinking)
          <=> \E block \in Elements(message.content) : NotThinking(block)
    BY DEF SomeBlock, Elements
  <2> QED
    BY <1>1, <2>2, <2>3
<1> QED
  BY <1>3, <1>4, <1>5 DEF less

\* What is left of a sequence of messages is what is left of those that have anything
\* left, and of all of them, at their places, if all have.
LEMMA DropThinkingElements ==
  ASSUME NEW messages \in Seq(Messages)
  PROVE  /\ Elements(DropThinking(messages))
              = {Retain(message, NotThinking) :
                   message \in {m \in Elements(messages) : SomeBlock(m, NotThinking)}}
         /\ (\A i \in DOMAIN messages : SomeBlock(messages[i], NotThinking)) =>
              DropThinking(messages) = [i \in DOMAIN messages |-> Retain(messages[i], NotThinking)]
<1> DEFINE less == [i \in DOMAIN messages |-> Retain(messages[i], NotThinking)]
           kept == {i \in DOMAIN less : HasContent(less[i])}
<1>1. DropThinking(messages) = Picked(less, kept)
  BY DEF DropThinking, WithContent
<1>2. ASSUME NEW i \in DOMAIN messages
      PROVE  /\ Retain(messages[i], NotThinking) \in Messages
             /\ HasContent(Retain(messages[i], NotThinking))
                  <=> SomeBlock(messages[i], NotThinking)
  <2>1. messages[i] \in Messages
    OBVIOUS
  <2> QED
    BY <2>1, RetainReasonless, RetainKeepsIds
<1>3. /\ DOMAIN less = DOMAIN messages
      /\ \A i \in DOMAIN messages : less[i] = Retain(messages[i], NotThinking)
  OBVIOUS
<1>4. less \in Seq(Messages)
  <2>1. DOMAIN messages = 1 .. Len(messages) /\ Len(messages) \in Nat
    OBVIOUS
  <2>2. less = [i \in 1 .. Len(messages) |-> less[i]]
    BY <2>1
  <2>3. \A i \in 1 .. Len(messages) : less[i] \in Messages
    BY <1>2, <2>1
  <2> HIDE DEF less
  <2> QED
    BY <2>1, <2>2, <2>3, IsASeq
<1> HIDE DEF less
<1>5. Elements(Picked(less, kept)) = {less[i] : i \in DOMAIN less \cap kept}
  <2> HIDE DEF kept
  <2> QED
    BY <1>4, PickedElements
<1>6. {less[i] : i \in DOMAIN less \cap kept}
        = {Retain(message, NotThinking) :
             message \in {m \in Elements(messages) : SomeBlock(m, NotThinking)}}
  BY <1>2, <1>3 DEF Elements
<1>7. ASSUME \A i \in DOMAIN messages : SomeBlock(messages[i], NotThinking)
      PROVE  DropThinking(messages) = less
  <2>1. DOMAIN less \subseteq kept
    BY <1>2, <1>3, <1>7
  <2> QED
    BY <1>1, <2>1 DEF Picked
<1> QED
  BY <1>1, <1>5, <1>6, <1>7 DEF less

\* Messages with no reasoning among them, and something in each, lose nothing.
LEMMA NothingToDrop ==
  ASSUME NEW messages \in Seq(Reasonless)
  PROVE  messages \in Seq(Messages) /\ DropThinking(messages) = messages
<1>1. ASSUME NEW i \in DOMAIN messages
      PROVE  SomeBlock(messages[i], NotThinking) /\ Retain(messages[i], NotThinking) = messages[i]
  <2>1. messages[i] \in Messages /\ HasContent(messages[i]) /\ AllBlocks(messages[i], NotThinking)
    BY DEF Reasonless
  <2>2. messages[i].content \in Seq(Blocks) /\ messages[i].content # <<>>
    BY <2>1 DEF HasContent, Messages
  <2>3. 1 \in DOMAIN messages[i].content
    BY <2>2
  <2> QED
    BY <2>1, <2>3, RetainElements DEF SomeBlock, AllBlocks
<1>2. messages \in Seq(Messages)
  <2>1. Reasonless \subseteq Messages
    BY DEF Reasonless
  <2> HIDE DEF Reasonless
  <2> QED
    BY <2>1
<1>3. DropThinking(messages) = [i \in DOMAIN messages |-> Retain(messages[i], NotThinking)]
  BY <1>1, <1>2, DropThinkingElements
<1>4. messages = [i \in DOMAIN messages |-> messages[i]]
  BY <1>2
<1> QED
  BY <1>1, <1>2, <1>3, <1>4

\* Reasoning that has been dropped is not dropped again.
LEMMA DropThinkingAgain ==
  ASSUME NEW messages \in Seq(Messages)
  PROVE  DropThinking(DropThinking(messages)) = DropThinking(messages)
BY DropThinkingReasonless, NothingToDrop

-----------------------------------------------------------------------------
(* Where a cut may be put. *)

\* The greatest and the least cut the two scans look for are there to be found.
LEMMA LegalCutsBounded ==
  ASSUME NEW history \in Seq(Messages), NEW lo \in Int, NEW hi \in Int
  PROVE  /\ LegalCuts(history, lo, hi) \subseteq {c \in lo .. hi : OpensARequest(history, c)}
         /\ LegalCuts(history, lo, hi) # {} =>
              /\ \E c \in LegalCuts(history, lo, hi) :
                   \A d \in LegalCuts(history, lo, hi) : c <= d
              /\ \E c \in LegalCuts(history, lo, hi) :
                   \A d \in LegalCuts(history, lo, hi) : d <= c
<1> DEFINE cuts == LegalCuts(history, lo, hi)
<1>1. cuts = {c \in lo .. hi : OpensARequest(history, c)}
  BY DEF LegalCuts
<1>2. cuts \subseteq Nat
  BY <1>1 DEF OpensARequest
<1>3. cuts \subseteq Int /\ \A c \in cuts : c <= hi
  BY <1>1
<1>4. ASSUME cuts # {} PROVE \E c \in cuts : \A d \in cuts : c <= d
  <2> HIDE DEF cuts
  <2> QED
    BY <1>2, <1>4, LeastElement
<1>5. ASSUME cuts # {} PROVE \E c \in cuts : \A d \in cuts : d <= c
  <2> HIDE DEF cuts
  <2> QED
    BY <1>3, <1>5, GreatestElement
<1> QED
  BY <1>1, <1>4, <1>5

\* The messages plan_cut aims at lie within the history.
LEMMA TargetType ==
  ASSUME NEW history \in Seq(Messages), NEW produced \in Nat,
         NEW keepRecent \in Nat \cup {None}, NEW floor \in Nat
  PROVE  /\ Target(history, produced, keepRecent, floor) \in Nat
         /\ floor < Len(history) => Target(history, produced, keepRecent, floor) >= floor
<1>1. Len(history) \in Nat
  OBVIOUS
<1>2. /\ ClampedFloor(history, floor) \in Nat
      /\ floor < Len(history) => ClampedFloor(history, floor) = floor
  BY <1>1 DEF ClampedFloor
<1>3. CASE keepRecent = None
  BY <1>2, <1>3 DEF Target
<1>4. CASE keepRecent \in Nat /\ keepRecent # None
  <2>1. SaturatingSub(Len(history) + produced, keepRecent) \in Nat
    BY <1>1, <1>4 DEF SaturatingSub
  <2>2. AtMost(SaturatingSub(Len(history) + produced, keepRecent), Len(history)) \in Nat
    BY <1>1, <2>1 DEF AtMost
  <2> QED
    BY <1>2, <1>4, <2>2 DEF Target, AtLeast
<1> QED
  BY <1>3, <1>4

\* A planned cut names a user turn with something of its own in it, past the first
\* message and short of the end (opens_a_request).
LEMMA PlanCutLegal ==
  ASSUME NEW history \in Seq(Messages), NEW produced \in Nat,
         NEW keepRecent \in Nat \cup {None}, NEW floor \in Nat,
         PlanCut(history, produced, keepRecent, floor) # None
  PROVE  /\ PlanCut(history, produced, keepRecent, floor) \in Nat
         /\ OpensARequest(history, PlanCut(history, produced, keepRecent, floor))
<1> DEFINE target == Target(history, produced, keepRecent, floor)
           later == LegalCuts(history, target, Len(history) - 1)
           sooner == LegalCuts(history, 1, target - 1)
           planned == PlanCut(history, produced, keepRecent, floor)
<1>1. target \in Nat /\ Len(history) \in Nat
  <2>1. target \in Nat
    BY TargetType
  <2>2. Len(history) \in Nat
    OBVIOUS
  <2> QED
    BY <2>1, <2>2
<1>2. CASE target # 0 /\ later # {}
  <2>1. planned = CHOOSE c \in later : \A d \in later : c <= d
    BY <1>2 DEF PlanCut
  <2>2. \E c \in later : \A d \in later : c <= d
    <3> HIDE DEF target
    <3> QED
      BY <1>1, <1>2, LegalCutsBounded
  <2>3. planned \in later
    <3> HIDE DEF later, planned
    <3> QED
      BY <2>1, <2>2
  <2>4. planned \in Nat /\ OpensARequest(history, planned)
    <3> HIDE DEF planned, target
    <3> QED
      BY <2>3, <1>1 DEF LegalCuts
  <2> QED
    BY <2>4
<1>3. CASE target # 0 /\ later = {} /\ sooner # {}
  <2>1. planned = CHOOSE c \in sooner : \A d \in sooner : d <= c
    BY <1>3 DEF PlanCut
  <2>2. \E c \in sooner : \A d \in sooner : d <= c
    <3> HIDE DEF target
    <3> QED
      BY <1>1, <1>3, LegalCutsBounded
  <2>3. planned \in sooner
    <3> HIDE DEF sooner, planned
    <3> QED
      BY <2>1, <2>2
  <2>4. planned \in Nat /\ OpensARequest(history, planned)
    <3> HIDE DEF planned, target
    <3> QED
      BY <2>3, <1>1 DEF LegalCuts
  <2> QED
    BY <2>4
<1>4. CASE target = 0 \/ (later = {} /\ sooner = {})
  BY <1>4 DEF PlanCut
<1> QED
  BY <1>2, <1>3, <1>4

\* A floor that is a legal cut is always planned for, and never given up: the
\* cut is found at it or past it.
LEMMA PlanCutHoldsFloor ==
  ASSUME NEW history \in Seq(Messages), NEW produced \in Nat,
         NEW keepRecent \in Nat \cup {None}, NEW floor \in Nat,
         OpensARequest(history, floor)
  PROVE  LET planned == PlanCut(history, produced, keepRecent, floor)
         IN  planned \in Nat /\ planned >= floor /\ OpensARequest(history, planned)
<1> DEFINE target == Target(history, produced, keepRecent, floor)
           later == LegalCuts(history, target, Len(history) - 1)
           sooner == LegalCuts(history, 1, target - 1)
           planned == PlanCut(history, produced, keepRecent, floor)
<1>1. Len(history) \in Nat /\ floor > 0 /\ floor < Len(history)
  BY DEF OpensARequest
<1>2. target \in Nat /\ target >= floor /\ target # 0
  <2>1. target \in Nat
    BY TargetType
  <2>2. floor < Len(history) => target >= floor
    BY TargetType
  <2> HIDE DEF target
  <2> QED
    BY <2>1, <2>2, <1>1
<1>3. CASE later # {}
  <2>1. planned = CHOOSE c \in later : \A d \in later : c <= d
    BY <1>2, <1>3 DEF PlanCut
  <2>2. \E c \in later : \A d \in later : c <= d
    <3> HIDE DEF target
    <3> QED
      BY <1>1, <1>2, <1>3, LegalCutsBounded
  <2>3. planned \in later
    <3> HIDE DEF later, planned
    <3> QED
      BY <2>1, <2>2
  <2>4. planned \in Nat /\ planned >= floor /\ OpensARequest(history, planned)
    <3> HIDE DEF planned, target
    <3> QED
      BY <2>3, <1>1, <1>2 DEF LegalCuts
  <2> QED
    BY <2>4
<1>4. CASE later = {}
  <2>1. floor \in sooner
    <3>1. floor \notin later
      BY <1>4
    <3>2. floor < target
      <4> HIDE DEF target
      <4> QED
        BY <3>1, <1>1, <1>2 DEF LegalCuts
    <3> HIDE DEF target
    <3> QED
      BY <3>2, <1>1, <1>2 DEF LegalCuts
  <2>2. planned = CHOOSE c \in sooner : \A d \in sooner : d <= c
    BY <1>2, <1>4, <2>1 DEF PlanCut
  <2>3. \E c \in sooner : \A d \in sooner : d <= c
    <3> HIDE DEF target
    <3> QED
      BY <1>1, <1>2, <2>1, LegalCutsBounded
  <2>4. planned \in sooner /\ \A d \in sooner : d <= planned
    <3> HIDE DEF sooner, planned
    <3> QED
      BY <2>2, <2>3
  <2>5. planned >= floor
    BY <2>1, <2>4
  <2>6. planned \in Nat /\ OpensARequest(history, planned)
    <3> HIDE DEF planned, target
    <3> QED
      BY <2>4, <1>1, <1>2 DEF LegalCuts
  <2> QED
    BY <2>5, <2>6
<1> QED
  BY <1>3, <1>4
=============================================================================
