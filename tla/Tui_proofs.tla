----------------------------- MODULE Tui_proofs -----------------------------
(***************************************************************************)
(* The audit trail of a drawn run, for any number of keys, records and     *)
(* failures: held in memory while the screen is up, and delivered after.   *)
(* And the account of its end, on whatever still takes a line.             *)
(***************************************************************************)
EXTENDS Tui, TLAPS

InOrder(n) == [i \in 1 .. n |-> i]

\* The records that left memory.
Arrived == ToSet(stderr) \cup swallowed

\* Every record is in one place: held, taken, or gone to stderr; those held are the ones
\* before the release, in order, and nothing came before them.
HoldInv ==
  /\ emitted \in Nat /\ heldUpTo \in 0 .. emitted
  /\ stderr \in Seq(Nat) /\ OnlyHeldOvertaken
  /\ held # NotHeld =>
       held = InOrder(emitted) /\ taken = NotHeld /\ Arrived = {} /\ heldUpTo = 0
  /\ taken # NotHeld =>
       held = NotHeld /\ taken = InOrder(heldUpTo) /\ Arrived = heldUpTo + 1 .. emitted
  /\ held = NotHeld /\ taken = NotHeld => Arrived = 1 .. emitted

\* The hold is in force from before the screen until after it, unless stderr was
\* redirected, when there never is one; nothing audits before the hold.
DriverInv ==
  /\ pc \in {"hold", "enter"} => tool # "running"
  /\ pc = "hold" => emitted = 0
  /\ pc = "release" <=> taken # NotHeld
  /\ pc \in {"hold", "reprint", "tell", "returned", "exited"} => held = NotHeld
  /\ pc \in {"enter", "turn", "wrap", "account", "leave", "take"} => (held = NotHeld <=> Redirected)
  /\ Redirected => held = NotHeld /\ heldUpTo = 0
  /\ screen => pc \in {"turn", "wrap", "account", "leave"}

\* What is swallowed was written to a stderr that died.
LossInv == StderrLives => swallowed = {}

TrailInv == HoldInv /\ DriverInv /\ LossInv

-----------------------------------------------------------------------------
(* Sequences *)

LEMMA ToSetConcat ==
  ASSUME NEW s \in Seq(Nat), NEW t \in Seq(Nat)
  PROVE  ToSet(s \o t) = ToSet(s) \cup ToSet(t)
<1>1. ASSUME NEW x \in ToSet(s \o t)
      PROVE  x \in ToSet(s) \cup ToSet(t)
  <2>1. PICK i \in DOMAIN (s \o t) : x = (s \o t)[i]
    BY DEF ToSet
  <2>2. CASE i <= Len(s)
    BY <2>1, <2>2 DEF ToSet
  <2>3. CASE i > Len(s)
    <3>1. i - Len(s) \in DOMAIN t /\ x = t[i - Len(s)]
      BY <2>1, <2>3
    <3>. QED BY <3>1 DEF ToSet
  <2>. QED BY <2>1, <2>2, <2>3
<1>2. ASSUME NEW x \in ToSet(s)
      PROVE  x \in ToSet(s \o t)
  <2>1. PICK i \in DOMAIN s : x = s[i]
    BY DEF ToSet
  <2>2. i \in DOMAIN (s \o t) /\ x = (s \o t)[i]
    BY <2>1
  <2>. QED BY <2>2 DEF ToSet
<1>3. ASSUME NEW x \in ToSet(t)
      PROVE  x \in ToSet(s \o t)
  <2>1. PICK i \in DOMAIN t : x = t[i]
    BY DEF ToSet
  <2>2. Len(s) + i \in DOMAIN (s \o t) /\ x = (s \o t)[Len(s) + i]
    BY <2>1
  <2>. QED BY <2>2 DEF ToSet
<1>. QED BY <1>1, <1>2, <1>3

\* What HELD holds: the records so far, and with the next the records so far again.
LEMMA InOrderFacts ==
  ASSUME NEW n \in Nat
  PROVE  /\ InOrder(n) \in Seq(Nat) /\ Len(InOrder(n)) = n
         /\ ToSet(InOrder(n)) = 1 .. n
         /\ Append(InOrder(n), n + 1) = InOrder(n + 1)
         /\ InOrder(n) # NotHeld
<1>1. InOrder(n) \in Seq(Nat) /\ Len(InOrder(n)) = n
  BY DEF InOrder
<1>2. ToSet(InOrder(n)) = 1 .. n
  BY <1>1 DEF InOrder, ToSet
<1>3. Append(InOrder(n), n + 1) = InOrder(n + 1)
  BY <1>1 DEF InOrder
<1>. QED BY <1>1, <1>2, <1>3, NotHeldAssumption

-----------------------------------------------------------------------------
(* The hold *)

\* Writing behind what arrived keeps the order, if what is written comes in order and
\* either is later than all of it, or was held while all of it was emitted.
LEMMA WrittenKeepsOrder ==
  ASSUME stderr \in Seq(Nat), OnlyHeldOvertaken, heldUpTo \in Nat, NEW added \in Seq(Nat),
         \A i, j \in DOMAIN added : i < j => added[i] < added[j],
         \/ \A x \in ToSet(stderr), y \in ToSet(added) : x < y
         \/ \A x \in ToSet(stderr), y \in ToSet(added) : y <= heldUpTo /\ x > heldUpTo,
         stderr' = stderr \o added, heldUpTo' = heldUpTo
  PROVE  stderr' \in Seq(Nat) /\ OnlyHeldOvertaken'
<1>1. stderr' \in Seq(Nat)
  OBVIOUS
<1>2. ASSUME NEW i \in DOMAIN stderr', NEW j \in DOMAIN stderr', i < j
      PROVE  stderr'[i] < stderr'[j] \/ (stderr'[j] <= heldUpTo /\ stderr'[i] > heldUpTo)
  <2>1. CASE j <= Len(stderr)
    <3>1. /\ i \in DOMAIN stderr /\ j \in DOMAIN stderr
          /\ stderr'[i] = stderr[i] /\ stderr'[j] = stderr[j]
      BY <1>2, <2>1
    <3>. QED BY <1>2, <3>1 DEF OnlyHeldOvertaken
  <2>2. CASE i <= Len(stderr) /\ j > Len(stderr)
    <3>1. /\ i \in DOMAIN stderr /\ stderr'[i] = stderr[i]
          /\ j - Len(stderr) \in DOMAIN added /\ stderr'[j] = added[j - Len(stderr)]
      BY <1>2, <2>2
    <3>2. stderr'[i] \in ToSet(stderr) /\ stderr'[j] \in ToSet(added)
      BY <3>1 DEF ToSet
    <3>. QED BY <3>2
  <2>3. CASE i > Len(stderr)
    <3>1. /\ i - Len(stderr) \in DOMAIN added /\ stderr'[i] = added[i - Len(stderr)]
          /\ j - Len(stderr) \in DOMAIN added /\ stderr'[j] = added[j - Len(stderr)]
          /\ i - Len(stderr) < j - Len(stderr)
      BY <1>2, <2>3
    <3>. QED BY <3>1
  <2>. QED BY <1>2, <2>1, <2>2, <2>3
<1>. QED BY <1>1, <1>2 DEF OnlyHeldOvertaken

LEMMA EmitKeepsHold ==
  ASSUME HoldInv, NEW reaches \in BOOLEAN, Emit(reaches)
  PROVE  HoldInv'
<1>1. emitted' = emitted + 1 /\ emitted \in Nat /\ heldUpTo \in 0 .. emitted
      /\ taken' = taken /\ heldUpTo' = heldUpTo
  BY DEF Emit, HoldInv
<1>2. CASE held # NotHeld
  <2>1. held' = InOrder(emitted') /\ held' # NotHeld /\ UNCHANGED <<stderr, swallowed>>
    <3>1. held' = Append(InOrder(emitted), emitted + 1) /\ UNCHANGED <<stderr, swallowed>>
      BY <1>2 DEF Emit, HoldInv
    <3>2. held' = InOrder(emitted + 1) /\ InOrder(emitted + 1) # NotHeld
      BY <1>1, <3>1, InOrderFacts
    <3>. QED BY <1>1, <3>1, <3>2
  <2>2. stderr' \in Seq(Nat) /\ OnlyHeldOvertaken' /\ Arrived' = Arrived
    BY <1>1, <2>1 DEF HoldInv, Arrived, OnlyHeldOvertaken
  <2>3. taken = NotHeld /\ Arrived = {} /\ heldUpTo = 0
    BY <1>2 DEF HoldInv
  <2>. QED BY <1>1, <2>1, <2>2, <2>3 DEF HoldInv
<1>3. CASE held = NotHeld
  <2>. DEFINE record == emitted + 1
  <2>1. Written(<<record>>, reaches) /\ held' = NotHeld
    BY <1>3 DEF Emit
  <2>2. Arrived = IF taken # NotHeld THEN heldUpTo + 1 .. emitted ELSE 1 .. emitted
    BY <1>3 DEF HoldInv
  <2>3. <<record>> \in Seq(Nat) /\ ToSet(<<record>>) = {record}
    BY <1>1 DEF ToSet
  <2>4. stderr' \in Seq(Nat) /\ OnlyHeldOvertaken' /\ Arrived' = Arrived \cup {record}
    <3>1. CASE reaches
      <4>1. stderr' = stderr \o <<record>> /\ swallowed' = swallowed
        BY <2>1, <3>1 DEF Written
      <4>2. \A x \in ToSet(stderr), y \in ToSet(<<record>>) : x < y
        BY <1>1, <2>2, <2>3 DEF Arrived
      <4>3. \A i, j \in DOMAIN <<record>> : i < j => <<record>>[i] < <<record>>[j]
        OBVIOUS
      <4>4. stderr \in Seq(Nat) /\ OnlyHeldOvertaken /\ heldUpTo \in Nat
        BY <1>1 DEF HoldInv
      <4>5. stderr' \in Seq(Nat) /\ OnlyHeldOvertaken'
        BY <1>1, <2>3, <4>1, <4>2, <4>3, <4>4, WrittenKeepsOrder
      <4>6. ToSet(stderr') = ToSet(stderr) \cup {record}
        BY <2>3, <4>1, ToSetConcat DEF HoldInv
      <4>. QED BY <4>1, <4>5, <4>6 DEF Arrived
    <3>2. CASE ~reaches
      <4>1. swallowed' = swallowed \cup {record} /\ stderr' = stderr
        BY <2>1, <2>3, <3>2 DEF Written
      <4>. QED BY <1>1, <4>1 DEF HoldInv, Arrived, OnlyHeldOvertaken
    <3>. QED BY <3>1, <3>2
  <2>5. Arrived' = IF taken' # NotHeld THEN heldUpTo' + 1 .. emitted' ELSE 1 .. emitted'
    BY <1>1, <2>2, <2>4
  <2>. QED BY <1>1, <1>3, <2>1, <2>4, <2>5 DEF HoldInv
<1>. QED BY <1>2, <1>3

\* A record behind others leaves a hold in force, and none where there was none.
LEMMA HeldStays ==
  ASSUME TrailInv, NEW reaches \in BOOLEAN, Emit(reaches)
  PROVE  held' = NotHeld <=> held = NotHeld
<1>1. CASE held = NotHeld
  BY <1>1 DEF Emit
<1>2. CASE held # NotHeld
  <2>1. emitted \in Nat /\ emitted + 1 \in Nat /\ held' = Append(InOrder(emitted), emitted + 1)
    BY <1>2 DEF TrailInv, HoldInv, Emit
  <2>2. held' = InOrder(emitted + 1)
    BY <2>1, InOrderFacts
  <2>3. InOrder(emitted + 1) # NotHeld
    BY <2>1, InOrderFacts
  <2>. QED BY <1>2, <2>2, <2>3
<1>. QED BY <1>1, <1>2

\* A release finds every record in memory if there was a hold, and none if not.
LEMMA TakeKeepsHold ==
  ASSUME HoldInv, taken = NotHeld, held = NotHeld => heldUpTo = 0, Take
  PROVE  HoldInv' /\ taken' # NotHeld
<1>1. /\ emitted \in Nat /\ stderr \in Seq(Nat) /\ held' = NotHeld
      /\ UNCHANGED <<emitted, stderr, swallowed>> /\ Arrived' = Arrived
  BY DEF Take, HoldInv, Arrived
<1>2. CASE held # NotHeld
  <2>1. taken' = InOrder(emitted) /\ heldUpTo' = emitted /\ Arrived = {}
    BY <1>2 DEF Take, HoldInv
  <2>2. taken' # NotHeld
    BY <1>1, <2>1, InOrderFacts
  <2>3. stderr = <<>>
    <3>1. ASSUME stderr # <<>>
          PROVE  stderr[1] \in ToSet(stderr)
      BY <1>1, <3>1 DEF ToSet
    <3>. QED BY <2>1, <3>1 DEF Arrived
  <2>4. OnlyHeldOvertaken'
    BY <1>1, <2>3 DEF OnlyHeldOvertaken
  <2>5. Arrived' = heldUpTo' + 1 .. emitted'
    BY <1>1, <2>1
  <2>. QED BY <1>1, <2>1, <2>2, <2>4, <2>5 DEF HoldInv
<1>3. CASE held = NotHeld
  <2>1. taken' = <<>> /\ heldUpTo' = heldUpTo /\ heldUpTo = 0 /\ Arrived = 1 .. emitted
    BY <1>3 DEF Take, HoldInv
  <2>2. <<>> = InOrder(0)
    BY DEF InOrder
  <2>3. taken' # NotHeld
    BY <2>1, <2>2, InOrderFacts
  <2>4. OnlyHeldOvertaken'
    BY <1>1, <2>1 DEF OnlyHeldOvertaken, HoldInv
  <2>. QED BY <1>1, <2>1, <2>2, <2>3, <2>4 DEF HoldInv
<1>. QED BY <1>2, <1>3

LEMMA WriteTakenKeepsHold ==
  ASSUME HoldInv, NEW reaches \in BOOLEAN, WriteTaken(reaches)
  PROVE  HoldInv' /\ held' = NotHeld
<1>1. /\ taken = InOrder(heldUpTo) /\ Arrived = heldUpTo + 1 .. emitted /\ held' = NotHeld
      /\ taken' = NotHeld /\ UNCHANGED <<emitted, heldUpTo>>
      /\ emitted \in Nat /\ heldUpTo \in 0 .. emitted
  BY DEF WriteTaken, HoldInv
<1>2. /\ taken \in Seq(Nat) /\ ToSet(taken) = 1 .. heldUpTo
      /\ \A i, j \in DOMAIN taken : i < j => taken[i] < taken[j]
  <2>1. heldUpTo \in Nat
    BY <1>1
  <2>2. taken \in Seq(Nat) /\ ToSet(taken) = 1 .. heldUpTo
    BY <1>1, <2>1, InOrderFacts
  <2>3. \A i, j \in DOMAIN taken : i < j => taken[i] < taken[j]
    BY <1>1, <2>1 DEF InOrder
  <2>. QED BY <2>2, <2>3
<1>3. stderr' \in Seq(Nat) /\ OnlyHeldOvertaken' /\ Arrived' = Arrived \cup 1 .. heldUpTo
  <2>1. CASE reaches
    <3>1. stderr' = stderr \o taken /\ swallowed' = swallowed
      BY <2>1 DEF WriteTaken, Written
    <3>2. \A x \in ToSet(stderr), y \in ToSet(taken) : y <= heldUpTo /\ x > heldUpTo
      BY <1>1, <1>2 DEF Arrived
    <3>3. stderr \in Seq(Nat) /\ OnlyHeldOvertaken /\ heldUpTo \in Nat
      BY <1>1 DEF HoldInv
    <3>4. stderr' \in Seq(Nat) /\ OnlyHeldOvertaken'
      BY <1>1, <1>2, <3>1, <3>2, <3>3, WrittenKeepsOrder
    <3>5. ToSet(stderr') = ToSet(stderr) \cup 1 .. heldUpTo
      BY <1>2, <3>1, ToSetConcat DEF HoldInv
    <3>. QED BY <3>1, <3>4, <3>5 DEF Arrived
  <2>2. CASE ~reaches
    <3>1. swallowed' = swallowed \cup 1 .. heldUpTo /\ stderr' = stderr
      BY <1>2, <2>2 DEF WriteTaken, Written
    <3>. QED BY <1>1, <3>1 DEF HoldInv, Arrived, OnlyHeldOvertaken
  <2>. QED BY <2>1, <2>2
<1>4. Arrived' = 1 .. emitted'
  BY <1>1, <1>3
<1>. QED BY <1>1, <1>3, <1>4 DEF HoldInv
-----------------------------------------------------------------------------
(* The driver *)

\* A step that leaves the trail alone leaves it as it was; a stderr may die meanwhile.
LEMMA UntouchedKeeps ==
  ASSUME HoldInv, LossInv, UNCHANGED holdVars, UNCHANGED errOn, hung \subseteq hung'
  PROVE  HoldInv' /\ LossInv'
<1>1. HoldInv'
  BY DEF HoldInv, holdVars, Arrived, OnlyHeldOvertaken
<1>2. StderrLives' => StderrLives
  BY DEF StderrLives
<1>. QED BY <1>1, <1>2 DEF LossInv, holdVars

\* A write that does not reach stderr meets one that is dead, or the screen above it.
LEMMA WrittenLoses ==
  ASSUME LossInv, UNCHANGED <<errOn, hung>>, NEW records, Written(records, Reaches),
         errOn = "screen" => ~screen
  PROVE  LossInv'
BY DEF LossInv, Written, Reaches, StderrLives

\* The threads and the operator move neither the driver nor the trail.
LEMMA KeysKeep ==
  ASSUME TrailInv, KeysNext \/ HangUp, UNCHANGED runVars
  PROVE  TrailInv'
<1>1. hung \subseteq hung'
  BY DEF KeysNext, HangUp, Type, ReaderSteps, ReaderPolls, ReaderAsks, ReaderFails,
         WatcherWakes, WatcherFails, terminal
<1>2. UNCHANGED holdVars /\ UNCHANGED <<pc, errOn, screen, tool>>
  BY DEF runVars, drawn, calls
<1>3. HoldInv' /\ LossInv'
  BY <1>1, <1>2, UntouchedKeeps DEF TrailInv
<1>4. DriverInv'
  BY <1>2 DEF TrailInv, DriverInv, holdVars, Redirected
<1>. QED BY <1>3, <1>4 DEF TrailInv

\* The hold, before anything audits.
LEMMA TakesHoldKeeps ==
  ASSUME TrailInv, TakesHold
  PROVE  TrailInv'
<1>1. /\ pc = "hold" /\ pc' = "enter" /\ emitted = 0 /\ held = NotHeld /\ taken = NotHeld
      /\ tool # "running" /\ ~screen /\ UNCHANGED <<hung, errOn, screen, tool>>
  BY DEF TakesHold, TrailInv, DriverInv, keysVars, terminal, drawn, calls
<1>2. CASE Redirected
  <2>1. UNCHANGED holdVars
    BY <1>2 DEF TakesHold
  <2>2. HoldInv' /\ LossInv'
    BY <1>1, <2>1, UntouchedKeeps DEF TrailInv
  <2>3. DriverInv'
    BY <1>1, <1>2, <2>1 DEF TrailInv, DriverInv, holdVars, Redirected
  <2>. QED BY <2>2, <2>3 DEF TrailInv
<1>3. CASE ~Redirected
  <2>1. held' = <<>> /\ UNCHANGED <<taken, emitted, stderr, swallowed, heldUpTo>>
    BY <1>3 DEF TakesHold, Hold
  <2>2. <<>> = InOrder(0) /\ <<>> # NotHeld
    <3>1. <<>> = InOrder(0)
      BY DEF InOrder
    <3>2. <<>> \in Seq(Nat)
      OBVIOUS
    <3>. QED BY <3>1, <3>2, NotHeldAssumption
  <2>3. Arrived = {} /\ heldUpTo = 0 /\ Arrived' = Arrived
    BY <1>1, <2>1 DEF TrailInv, HoldInv, Arrived
  <2>4. HoldInv'
    BY <1>1, <2>1, <2>2, <2>3 DEF TrailInv, HoldInv, OnlyHeldOvertaken
  <2>5. DriverInv' /\ LossInv'
    BY <1>1, <1>3, <2>1, <2>2 DEF TrailInv, DriverInv, LossInv, Redirected, StderrLives
  <2>. QED BY <2>4, <2>5 DEF TrailInv
<1>. QED BY <1>2, <1>3

\* A record of a tool's thread, whatever the driver is doing meanwhile.
LEMMA ToolEmitsKeeps ==
  ASSUME TrailInv, ToolEmits
  PROVE  TrailInv'
<1>1. /\ tool = "running" /\ Emit(Reaches) /\ pc \notin {"hold", "enter"}
      /\ UNCHANGED <<hung, pc, errOn, screen, tool, taken, heldUpTo>>
  BY DEF ToolEmits, TrailInv, DriverInv, keysVars, terminal, drawn, calls, Emit
<1>2. HoldInv'
  BY <1>1, EmitKeepsHold DEF TrailInv, Reaches
<1>3. held' = NotHeld <=> held = NotHeld
  <2>1. Reaches \in BOOLEAN
    BY DEF Reaches
  <2>. QED BY <1>1, <2>1, HeldStays
<1>4. DriverInv'
  BY <1>1, <1>3 DEF TrailInv, DriverInv, Redirected
<1>5. LossInv'
  <2>1. CASE held # NotHeld
    BY <1>1, <2>1 DEF TrailInv, Emit, LossInv, StderrLives
  <2>2. CASE held = NotHeld
    <3>1. errOn = "screen" => ~screen
      BY <2>2 DEF TrailInv, DriverInv, Redirected
    <3>2. Written(<<emitted + 1>>, Reaches)
      BY <1>1, <2>2 DEF Emit
    <3>. QED BY <1>1, <3>1, <3>2, WrittenLoses DEF TrailInv
  <2>. QED BY <2>1, <2>2
<1>. QED BY <1>2, <1>4, <1>5 DEF TrailInv

LEMMA TakesTrailKeeps ==
  ASSUME TrailInv, TakesTrail
  PROVE  TrailInv'
<1>1. /\ pc = "take" /\ pc' = "release" /\ Take /\ held' = NotHeld
      /\ taken = NotHeld /\ (held = NotHeld <=> Redirected) /\ ~screen
      /\ UNCHANGED <<hung, errOn, screen, tool, stderr, swallowed>>
  BY DEF TakesTrail, TrailInv, DriverInv, keysVars, terminal, drawn, calls, Take
<1>2. held = NotHeld => heldUpTo = 0 /\ heldUpTo' = 0
  BY <1>1 DEF TrailInv, DriverInv, Take
<1>3. HoldInv' /\ taken' # NotHeld
  BY <1>1, <1>2, TakeKeepsHold DEF TrailInv
<1>4. DriverInv' /\ LossInv'
  BY <1>1, <1>2, <1>3 DEF TrailInv, DriverInv, LossInv, Redirected, StderrLives
<1>. QED BY <1>3, <1>4 DEF TrailInv

\* The screen is down by then, so that only a stderr that died swallows what was held.
LEMMA WritesTrailKeeps ==
  ASSUME TrailInv, WritesTrail
  PROVE  TrailInv'
<1>1. /\ pc = "release" /\ pc' \in {"reprint", "returned"} /\ WriteTaken(Reaches) /\ ~screen
      /\ UNCHANGED <<hung, errOn, screen, tool, heldUpTo>> /\ taken' = NotHeld
  BY DEF WritesTrail, TrailInv, DriverInv, keysVars, terminal, drawn, calls, WriteTaken
<1>2. HoldInv' /\ held' = NotHeld
  BY <1>1, WriteTakenKeepsHold DEF TrailInv, Reaches
<1>3. LossInv'
  BY <1>1, WrittenLoses DEF TrailInv, WriteTaken
<1>4. DriverInv'
  BY <1>1, <1>2 DEF TrailInv, DriverInv, Redirected
<1>. QED BY <1>2, <1>3, <1>4 DEF TrailInv

\* All the other steps of the driver: where they go the trail is as they found it.
LEMMA DriverKeeps ==
  ASSUME TrailInv,
         \/ Enters \/ Paints \/ Allows \/ Settles \/ TurnEnds \/ TurnStops \/ WrapEnds
         \/ WrapStops \/ Accounts \/ LeavesScreen \/ Reprints \/ Tells \/ Exits \/ Panics
         \/ ToolEnds
  PROVE  TrailInv'
<1>1. UNCHANGED holdVars /\ UNCHANGED errOn /\ hung' = hung
  <2>1. CASE Enters
    BY <2>1 DEF Enters, Listen, keysVars, terminal
  <2>2. CASE Paints
    BY <2>2 DEF Paints, keysVars, terminal
  <2>3. CASE Allows
    BY <2>3 DEF Allows, keysVars, terminal
  <2>4. CASE Settles
    BY <2>4 DEF Settles, keysVars, terminal
  <2>5. CASE TurnEnds
    BY <2>5 DEF TurnEnds, Unheard, keysVars, terminal
  <2>6. CASE TurnStops
    BY <2>6 DEF TurnStops, Unheard
  <2>7. CASE WrapEnds
    BY <2>7 DEF WrapEnds, Unheard
  <2>8. CASE WrapStops
    BY <2>8 DEF WrapStops, Unheard
  <2>9. CASE Accounts
    BY <2>9 DEF Accounts, keysVars, terminal
  <2>10. CASE LeavesScreen
    BY <2>10 DEF LeavesScreen, keysVars, terminal
  <2>11. CASE Reprints
    BY <2>11 DEF Reprints, keysVars, terminal
  <2>12. CASE Tells
    BY <2>12 DEF Tells, keysVars, terminal
  <2>13. CASE Exits
    BY <2>13 DEF Exits, keysVars, terminal
  <2>14. CASE Panics
    BY <2>14 DEF Panics, Unheard
  <2>15. CASE ToolEnds
    BY <2>15 DEF ToolEnds, keysVars, terminal
  <2>. QED BY <2>1, <2>2, <2>3, <2>4, <2>5, <2>6, <2>7, <2>8, <2>9, <2>10, <2>11, <2>12,
              <2>13, <2>14, <2>15
<1>2. HoldInv' /\ LossInv'
  BY <1>1, UntouchedKeeps DEF TrailInv
<1>3. DriverInv'
  <2>. USE <1>1 DEF TrailInv, DriverInv, holdVars, Redirected
  <2>1. CASE Enters
    BY <2>1 DEF Enters, drawn, calls
  <2>2. CASE Paints
    BY <2>2 DEF Paints, calls
  <2>3. CASE Allows
    BY <2>3 DEF Allows, drawn
  <2>4. CASE Settles
    BY <2>4, NoneAssumption DEF Settles
  <2>5. CASE TurnEnds \/ TurnStops
    BY <2>5 DEF TurnEnds, TurnStops, drawn, calls
  <2>6. CASE WrapEnds \/ WrapStops
    BY <2>6 DEF WrapEnds, WrapStops, drawn, calls
  <2>7. CASE Accounts \/ LeavesScreen
    BY <2>7 DEF Accounts, LeavesScreen, drawn, calls
  <2>8. CASE Reprints \/ Tells \/ Exits
    BY <2>8 DEF Reprints, Tells, Exits, drawn, calls
  <2>9. CASE Panics
    BY <2>9 DEF Panics, Driving, calls
  <2>10. CASE ToolEnds
    BY <2>10 DEF ToolEnds, drawn
  <2>. QED BY <2>1, <2>2, <2>3, <2>4, <2>5, <2>6, <2>7, <2>8, <2>9, <2>10
<1>. QED BY <1>2, <1>3 DEF TrailInv

-----------------------------------------------------------------------------
(* The theorems *)

\* The invariant of a drawn run's trail: where each record is, and when a hold is in force.
THEOREM TrailInvariant == Spec => []TrailInv
<1>1. Init => TrailInv
  <2>. SUFFICES ASSUME Init PROVE TrailInv
    OBVIOUS
  <2>1. HoldInv
    <3>1. Arrived = {} /\ stderr \in Seq(Nat) /\ OnlyHeldOvertaken
      BY DEF Init, HoldInit, Arrived, ToSet, OnlyHeldOvertaken
    <3>. QED BY <3>1 DEF Init, HoldInit, HoldInv
  <2>2. DriverInv /\ LossInv
    BY NoneAssumption DEF Init, HoldInit, DriverInv, LossInv, Redirected
  <2>. QED BY <2>1, <2>2 DEF TrailInv
<1>2. TrailInv /\ [Next]_vars => TrailInv'
  <2>. SUFFICES ASSUME TrailInv, [Next]_vars PROVE TrailInv'
    OBVIOUS
  <2>1. CASE UNCHANGED vars
    <3>1. UNCHANGED runVars /\ UNCHANGED hung
      BY <2>1 DEF vars, keysVars, terminal
    <3>2. UNCHANGED holdVars /\ UNCHANGED <<pc, errOn, screen, tool>>
      BY <3>1 DEF runVars, drawn, calls
    <3>3. HoldInv' /\ LossInv'
      BY <3>1, <3>2, UntouchedKeeps DEF TrailInv
    <3>. QED BY <3>2, <3>3 DEF TrailInv, DriverInv, holdVars, Redirected
  <2>2. CASE (KeysNext \/ HangUp) /\ UNCHANGED runVars
    BY <2>2, KeysKeep
  <2>3. CASE ToolEmits
    BY <2>3, ToolEmitsKeeps
  <2>4. CASE TakesHold \/ TakesTrail \/ WritesTrail
    BY <2>4, TakesHoldKeeps, TakesTrailKeeps, WritesTrailKeeps
  <2>5. CASE \/ Enters \/ Paints \/ Allows \/ Settles \/ TurnEnds \/ TurnStops \/ WrapEnds
             \/ WrapStops \/ Accounts \/ LeavesScreen \/ Reprints \/ Tells \/ Exits \/ Panics
             \/ ToolEnds
    BY <2>5, DriverKeeps
  <2>. QED BY <2>1, <2>2, <2>3, <2>4, <2>5 DEF Next, Task
<1>. QED BY <1>1, <1>2, PTL DEF Spec

\* The trail of a drawn run is delivered: nothing under the screen or to a stderr that
\* lives is swallowed, nothing is written twice, a record is overtaken only while held,
\* and from the reprint on memory holds none (logging/src/lib.rs, tui.rs drive).
THEOREM TrailIsDelivered == Spec => []TrailDelivered
<1>1. TrailInv => TrailDelivered
  <2>. SUFFICES ASSUME TrailInv PROVE TrailDelivered
    OBVIOUS
  <2>1. IsInjective(stderr)
    <3>1. ASSUME NEW i \in DOMAIN stderr, NEW j \in DOMAIN stderr, i < j
          PROVE  stderr[i] # stderr[j]
      <4>1. stderr[i] \in Nat /\ stderr[j] \in Nat /\ heldUpTo \in Nat
        BY DEF TrailInv, HoldInv
      <4>. QED BY <3>1, <4>1 DEF TrailInv, HoldInv, OnlyHeldOvertaken
    <3>2. DOMAIN stderr \subseteq Nat
      BY DEF TrailInv, HoldInv
    <3>. QED BY <3>1, <3>2 DEF IsInjective
  <2>2. ASSUME Redirected \/ pc \in {"reprint", "tell", "returned", "exited"}
        PROVE  InMemory = {}
    <3>1. held = NotHeld /\ (taken # NotHeld => heldUpTo = 0)
      BY <2>2 DEF TrailInv, DriverInv
    <3>2. Arrived = 1 .. emitted
      BY <3>1 DEF TrailInv, HoldInv
    <3>. QED BY <3>2 DEF InMemory, Arrived
  <2>. QED BY <2>1, <2>2 DEF TrailDelivered, TrailInv, HoldInv, LossInv
<1>. QED BY <1>1, TrailInvariant, PTL

-----------------------------------------------------------------------------
(***************************************************************************)
(* The account                                                             *)
(***************************************************************************)

\* What is noted as the run goes, none of it about its end.
Notes == {"approved", "settled", "asking", "unanswered"}
Lines == Notes \cup Causes

\* How the driven futures may have ended, and by whom they were stopped.
Outcomes ==
  [how : {"stopped", "stopped_wrapping"}, by : {"pressed", "gone"}, unfinished : {None}, truncated : BOOLEAN]
    \cup [how : {"finished", "failed"}, by : {None},
          unfinished : {None, "summarised", "discarded", "cut_short"}, truncated : BOOLEAN]

\* A stop that was seen was pressed, or follows a hangup.
SeenInv ==
  /\ seen \in [stop : BOOLEAN, gone : BOOLEAN]
  /\ seen.gone => HungUp

\* The pane knows of the call under way, until the account is given; only a stop of the
\* turn itself leaves one.
CallsInv ==
  /\ tool \in {None, "running", "ended"} /\ running \in BOOLEAN
  /\ pc \in {"hold", "enter", "turn", "wrap", "account"} => (tool # None <=> running)
  /\ pc \in {"hold", "enter", "wrap"} => tool = None
  /\ pc = "account" => driven.how = "stopped" \/ tool = None

\* Up to the account nothing is said of the end.
UntoldInv ==
  /\ pc \in {"hold", "enter", "turn", "wrap"} => driven = None
  /\ pc \in {"hold", "enter", "turn", "wrap", "account"} => said \subseteq Notes
  /\ pc = "account" =>
       /\ driven \in Outcomes
       /\ driven.by = "pressed" => seen.stop
       /\ driven.by = "gone" => seen.gone /\ ~seen.stop

\* From it on, what is said of the end, the code and what was stored agree.
AgreedInv ==
  pc \in {"leave", "take", "release", "reprint", "tell", "returned", "exited"} /\ driven # None =>
    /\ said \subseteq Lines
    /\ "gone" \in said => HungUp /\ ~seen.stop /\ code \in {3, 1}
    /\ code = 3 => "gone" \in said
    /\ "pressed" \in said => seen.stop /\ code \in {2, 1}
    /\ tool # None <=> "still_running" \in said
    /\ code = 0 => said \cap Causes = {}
    /\ stored = "hung_up" => code = 3
    /\ stored = "answered" => code = 0 \/ said \cap Causes = {"truncated"}

\* The reprint has all of the account or went nowhere; stderr is told what it missed.
SaidInv ==
  /\ pc \in {"tell", "returned", "exited"} /\ driven # None =>
       printed = {} \/ printed = {"transcript"} \cup said
  /\ pc \in {"returned", "exited"} /\ driven # None =>
       /\ said \subseteq printed \/ said \subseteq told \/ ~StderrLives
       /\ errOn = "screen" => printed \cap told = {}

PlaceInv ==
  pc \in {"hold", "enter", "turn", "wrap", "account", "leave", "take", "release", "reprint", "tell",
          "returned", "exited"}

AccountInv == PlaceInv /\ SeenInv /\ CallsInv /\ UntoldInv /\ AgreedInv /\ SaidInv

-----------------------------------------------------------------------------

\* The threads tell what they saw: a gone terminal hung up.
LEMMA KeysSee ==
  ASSUME SeenInv, KeysNext
  PROVE  SeenInv' /\ hung \subseteq hung'
<1>. USE DEF SeenInv, HungUp
<1>1. CASE \E event \in Events : Type(event)
  BY <1>1 DEF Type, threads
<1>2. CASE HangUp
  BY <1>2 DEF HangUp, threads
<1>3. CASE ReaderPolls
  BY <1>3 DEF ReaderPolls, Gone, terminal
<1>4. CASE ReaderAsks
  <2>1. UNCHANGED hung /\ (UNCHANGED seen \/ \E event : Pressed(event))
    BY <1>4 DEF ReaderAsks, HandsOut, Spins
  <2>. QED BY <2>1 DEF Pressed
<1>5. CASE ReaderFails \/ WatcherFails
  BY <1>5 DEF ReaderFails, WatcherFails, terminal
<1>6. CASE WatcherWakes
  BY <1>6 DEF WatcherWakes, Gone, terminal
<1>. QED BY <1>1, <1>2, <1>3, <1>4, <1>5, <1>6 DEF KeysNext, ReaderSteps

\* While they do nothing is said yet; a terminal may hang up at any time.
LEMMA KeysAccount ==
  ASSUME AccountInv, \/ Listening /\ KeysNext
                     \/ HangUp,
         UNCHANGED runVars
  PROVE  AccountInv'
<1>1. UNCHANGED <<pc, errOn, tool, running, driven, code, stored, said, printed, told>>
  BY DEF runVars, calls, outcome, account
<1>2. CASE Listening /\ KeysNext
  <2>1. SeenInv' /\ pc \in {"turn", "wrap"}
    BY <1>2, KeysSee DEF AccountInv, Listening, Driving
  <2>. QED BY <1>1, <2>1 DEF AccountInv, PlaceInv, CallsInv, UntoldInv, AgreedInv, SaidInv
<1>3. CASE HangUp
  <2>1. UNCHANGED seen /\ (HungUp => HungUp') /\ (StderrLives' => StderrLives)
    BY <1>1, <1>3 DEF HangUp, threads, HungUp, StderrLives
  <2>2. SeenInv'
    BY <2>1 DEF AccountInv, SeenInv
  <2>3. AgreedInv'
    BY <1>1, <2>1 DEF AccountInv, AgreedInv
  <2>4. SaidInv'
    BY <1>1, <2>1 DEF AccountInv, SaidInv
  <2>. QED BY <1>1, <2>1, <2>2, <2>3, <2>4 DEF AccountInv, PlaceInv, CallsInv, UntoldInv
<1>. QED BY <1>2, <1>3

\* A stop is only ever seen as one of the two, and as a hangup only with no key pressed.
LEMMA StopIsSeen ==
  ASSUME StopSeen # None
  PROVE  /\ StopSeen \in {"pressed", "gone"}
         /\ StopSeen = "pressed" => seen.stop
         /\ StopSeen = "gone" => seen.gone /\ ~seen.stop
BY DEF StopSeen

\* How the turn ends, and what is under way then.
LEMMA EndsAccount ==
  ASSUME AccountInv, TurnEnds \/ TurnStops \/ WrapEnds \/ WrapStops
  PROVE  AccountInv'
<1>. USE DEF AccountInv, CallsInv, UntoldInv
<1>1. /\ UNCHANGED <<hung, seen, tool, running, code, stored, printed, told>>
      /\ pc \in {"turn", "wrap"} /\ pc' \in {"wrap", "account"} /\ said' \subseteq Notes
  <2>0. said \subseteq Notes
    <3>1. pc \in {"turn", "wrap"}
      BY DEF TurnEnds, TurnStops, WrapEnds, WrapStops, CutOff
    <3>. QED BY <3>1
  <2>1. CASE TurnEnds
    BY <2>0, <2>1 DEF TurnEnds, Unheard, keysVars, terminal, threads, calls, account, Note, Notes
  <2>2. CASE TurnStops
    BY <2>0, <2>2 DEF TurnStops, CutOff, Unheard, calls, account
  <2>3. CASE WrapEnds
    <3>1. said' = said \/ said' = said \cup {"unanswered"}
      BY <2>3 DEF WrapEnds, Note
    <3>2. /\ UNCHANGED <<hung, seen, tool, running, code, stored, printed, told>>
          /\ pc = "wrap" /\ pc' = "account"
      BY <2>3 DEF WrapEnds, Unheard, calls
    <3>. QED BY <2>0, <3>1, <3>2 DEF Notes
  <2>4. CASE WrapStops
    BY <2>0, <2>4 DEF WrapStops, Unheard, calls, account
  <2>. QED BY <2>1, <2>2, <2>3, <2>4
<1>2. SeenInv' /\ PlaceInv' /\ AgreedInv' /\ SaidInv'
  BY <1>1 DEF SeenInv, HungUp, PlaceInv, AgreedInv, SaidInv
<1>3. pc' = "wrap" => driven' = None /\ tool = None
  BY DEF TurnEnds, TurnStops, WrapEnds, WrapStops
<1>4. pc' = "account" => /\ driven' \in Outcomes
                         /\ driven'.how = "stopped" \/ tool = None
                         /\ driven'.by = "pressed" => seen.stop
                         /\ driven'.by = "gone" => seen.gone /\ ~seen.stop
  <2>1. CASE TurnEnds
    <3>. SUFFICES ASSUME pc' = "account"
                  PROVE  /\ driven' \in [how : {"finished", "failed"}, by : {None},
                              unfinished : {None, "summarised", "discarded", "cut_short"},
                              truncated : BOOLEAN]
                         /\ tool = None
      BY NoneAssumption DEF Outcomes
    <3>1. tool = None /\ \/ driven' = Failed
                         \/ driven' \in [how : {"finished"}, by : {None},
                                         unfinished : {None, "cut_short"}, truncated : BOOLEAN]
      BY <2>1 DEF TurnEnds
    <3>2. CASE driven' = Failed
      BY <3>1, <3>2 DEF Failed
    <3>3. CASE driven' # Failed
      BY <3>1, <3>3
    <3>. QED BY <3>2, <3>3
  <2>2. CASE TurnStops
    BY <2>2, StopIsSeen DEF TurnStops, CutOff, Outcomes
  <2>3. CASE WrapEnds
    BY <2>3, NoneAssumption DEF WrapEnds, Finished, Outcomes
  <2>4. CASE WrapStops
    BY <2>4, StopIsSeen DEF WrapStops, CutOff, Outcomes
  <2>. QED BY <2>1, <2>2, <2>3, <2>4
<1>5. CallsInv'
  BY <1>1, <1>3, <1>4
<1>6. UntoldInv'
  BY <1>1, <1>3, <1>4
<1>. QED BY <1>2, <1>5, <1>6

\* The account agrees with how the turn ended, whether or not it was saved.
LEMMA AccountsAccount ==
  ASSUME AccountInv, Accounts
  PROVE  AccountInv'
<1>1. /\ pc = "account" /\ pc' = "leave" /\ said' = said \cup SaidOf /\ running' = FALSE
      /\ \/ code' = CodeOf /\ stored' \in {StoredOf, None}
         \/ code' = 1 /\ stored' = None
      /\ UNCHANGED <<hung, seen, tool, driven>>
  BY DEF Accounts, keysVars, terminal, threads
<1>2. /\ said \subseteq Notes /\ driven \in Outcomes /\ (tool # None <=> running)
      /\ driven.how = "stopped" \/ tool = None
      /\ driven.by = "pressed" => seen.stop
      /\ driven.by = "gone" => seen.gone /\ ~seen.stop /\ HungUp
  BY <1>1 DEF AccountInv, UntoldInv, CallsInv, SeenInv
<1>3. HungUp' = HungUp
  BY <1>1 DEF HungUp
<1>4. AgreedInv'
  <2>. USE NoneAssumption DEF AgreedInv, Lines, Notes, Causes, StopCode
  <2>1. CASE driven.how = "stopped"
    <3>1. /\ driven.by \in {"pressed", "gone"} /\ CodeOf = StopCode(driven.by)
          /\ SaidOf = {driven.by} \cup (IF running THEN {"still_running"} ELSE {})
          /\ StoredOf = IF driven.by = "pressed" THEN "interrupted" ELSE "hung_up"
      BY <1>2, <2>1 DEF Outcomes, CodeOf, SaidOf, StoredOf
    <3>2. CASE driven.by = "pressed"
      BY <1>1, <1>2, <1>3, <3>1, <3>2
    <3>3. CASE driven.by = "gone"
      BY <1>1, <1>2, <1>3, <3>1, <3>3
    <3>. QED BY <3>1, <3>2, <3>3
  <2>2. CASE driven.how = "stopped_wrapping"
    <3>1. /\ driven.by \in {"pressed", "gone"} /\ CodeOf = StopCode(driven.by)
          /\ SaidOf = {driven.by} \cup EndingSaid("cut_short", driven.truncated)
          /\ StoredOf = "round_limit"
      BY <1>2, <2>2 DEF Outcomes, CodeOf, SaidOf, StoredOf
    <3>2. EndingSaid("cut_short", driven.truncated) \subseteq {"cut_short", "truncated"}
      BY DEF EndingSaid
    <3>3. /\ said' \subseteq Lines /\ "still_running" \notin said'
          /\ "gone" \in said' <=> driven.by = "gone"
          /\ "pressed" \in said' <=> driven.by = "pressed"
      BY <1>1, <1>2, <3>1, <3>2
    <3>4. code' \in {StopCode(driven.by), 1} /\ stored' \in {"round_limit", None}
      BY <1>1, <3>1
    <3>. QED BY <1>1, <1>2, <1>3, <2>2, <3>1, <3>3, <3>4
  <2>3. CASE driven.how = "finished"
    <3>1. /\ driven.unfinished \in {None, "summarised", "discarded", "cut_short"}
          /\ driven.truncated \in BOOLEAN
          /\ CodeOf = EndingCode(driven.unfinished, driven.truncated)
          /\ SaidOf = EndingSaid(driven.unfinished, driven.truncated)
          /\ StoredOf = CASE driven.unfinished = None -> "answered"
                         [] driven.unfinished = "summarised" -> "summarised"
                         [] OTHER -> "round_limit"
      BY <1>2, <2>3 DEF Outcomes, CodeOf, SaidOf, StoredOf
    <3>2. CASE driven.unfinished = None
      BY <1>1, <1>2, <1>3, <2>3, <3>1, <3>2 DEF EndingCode, EndingSaid
    <3>3. CASE driven.unfinished # None
      <4>1. CodeOf = 2 /\ StoredOf \in {"summarised", "round_limit"}
        BY <3>1, <3>3 DEF EndingCode
      <4>2. SaidOf \subseteq {"summarised", "discarded", "cut_short", "truncated"}
        BY <3>1 DEF EndingSaid
      <4>. QED BY <1>1, <1>2, <1>3, <2>3, <4>1, <4>2
    <3>. QED BY <3>2, <3>3
  <2>4. CASE driven.how = "failed"
    <3>1. CodeOf = 1 /\ SaidOf = {} /\ StoredOf = None
      BY <2>4 DEF CodeOf, SaidOf, StoredOf
    <3>. QED BY <1>1, <1>2, <1>3, <2>4, <3>1
  <2>. QED BY <1>2, <2>1, <2>2, <2>3, <2>4 DEF Outcomes
<1>5. SeenInv' /\ PlaceInv' /\ CallsInv' /\ UntoldInv' /\ SaidInv'
  BY <1>1, <1>3 DEF AccountInv, SeenInv, PlaceInv, CallsInv, UntoldInv, SaidInv
<1>. QED BY <1>4, <1>5 DEF AccountInv

\* What stdout did not take, stderr is told, and on one terminal nothing twice.
LEMMA TellsAccount ==
  ASSUME AccountInv, Reprints \/ Tells \/ Exits
  PROVE  AccountInv'
<1>1. /\ UNCHANGED <<hung, seen, errOn, tool, running, driven, code, stored, said>>
      /\ pc \in {"reprint", "tell", "returned"} /\ pc' \in {"tell", "returned", "exited"}
  BY DEF Reprints, Tells, Exits, keysVars, terminal, threads, calls, outcome
<1>2. SeenInv' /\ PlaceInv' /\ CallsInv' /\ UntoldInv' /\ AgreedInv'
  BY <1>1 DEF AccountInv, SeenInv, HungUp, PlaceInv, CallsInv, UntoldInv, AgreedInv
<1>3. SaidInv'
  <2>. SUFFICES ASSUME driven # None PROVE SaidInv'
    BY <1>1 DEF SaidInv
  <2>1. said \subseteq Lines /\ StderrLives' = StderrLives
    BY <1>1 DEF AccountInv, AgreedInv, StderrLives
  <2>2. CASE Reprints
    BY <1>1, <2>2 DEF Reprints, SaidInv
  <2>3. CASE Tells
    <3>1. printed' = printed /\ (printed = {} \/ printed = {"transcript"} \cup said)
      BY <2>3 DEF Tells, AccountInv, SaidInv
    <3>2. said \subseteq printed \/ said \subseteq told' \/ ~StderrLives
      BY <2>3, <3>1 DEF Tells, TellsStderr
    <3>3. errOn = "screen" => printed \cap told' = {}
      BY <2>1, <2>3, <3>1 DEF Tells, TellsStderr, Redirected, Lines, Notes, Causes
    <3>. QED BY <1>1, <2>1, <3>1, <3>2, <3>3 DEF SaidInv
  <2>4. CASE Exits
    <3>1. pc = "returned" /\ printed' = printed /\ told \subseteq told' /\ told' \subseteq told \cup {"error"}
      BY <2>4 DEF Exits
    <3>2. printed = {} \/ printed = {"transcript"} \cup said
      BY <3>1 DEF AccountInv, SaidInv
    <3>3. "error" \notin printed
      BY <2>1, <3>2 DEF Lines, Notes, Causes
    <3>. QED BY <1>1, <2>1, <3>1, <3>2, <3>3 DEF AccountInv, SaidInv
  <2>. QED BY <2>2, <2>3, <2>4
<1>. QED BY <1>2, <1>3 DEF AccountInv

\* The other steps: up to the turn's end nothing is said of it, and none unsays anything.
LEMMA RunAccount ==
  ASSUME AccountInv,
         \/ TakesHold \/ Enters \/ Paints \/ Allows \/ Settles \/ LeavesScreen \/ TakesTrail
         \/ WritesTrail \/ Panics \/ ToolEmits \/ ToolEnds
  PROVE  AccountInv'
<1>. USE NoneAssumption DEF AccountInv, PlaceInv, SeenInv, HungUp, CallsInv, UntoldInv, AgreedInv, SaidInv
<1>1. CASE TakesHold
  BY <1>1 DEF TakesHold, keysVars, terminal, threads, calls, outcome, account
<1>2. CASE Enters
  BY <1>2 DEF Enters, Listen, keysVars, terminal, threads, calls, account
<1>3. CASE Paints
  BY <1>3 DEF Paints, Driving, keysVars, terminal, threads, calls, outcome, account
<1>4. CASE Allows
  BY <1>4 DEF Allows, keysVars, terminal, threads, outcome, account
<1>5. CASE Settles
  BY <1>5 DEF Settles, RunningSettled, Note, Notes, keysVars, terminal, threads, outcome
<1>6. CASE LeavesScreen \/ TakesTrail
  BY <1>6 DEF LeavesScreen, TakesTrail, keysVars, terminal, threads, calls, outcome, account
<1>7. CASE WritesTrail
  BY <1>7 DEF WritesTrail, keysVars, terminal, threads, calls, outcome, account
<1>8. CASE Panics
  BY <1>8 DEF Panics, Driving, Unheard, calls, account
<1>9. CASE ToolEmits
  BY <1>9 DEF ToolEmits, StderrLives, keysVars, terminal, threads, calls, outcome, account
<1>10. CASE ToolEnds
  BY <1>10 DEF ToolEnds, StderrLives, keysVars, terminal, threads, outcome, account
<1>. QED BY <1>1, <1>2, <1>3, <1>4, <1>5, <1>6, <1>7, <1>8, <1>9, <1>10

\* The account of every state of a drawn run.
LEMMA AccountInvariant == Spec => []AccountInv
<1>1. Init => AccountInv
  <2>. SUFFICES ASSUME Init PROVE AccountInv
    OBVIOUS
  <2>1. SeenInv
    BY DEF Init, KeysInit, SeenInv
  <2>2. said \subseteq Notes
    BY DEF Init, Notes
  <2>3. CallsInv
    BY DEF Init, CallsInv
  <2>. QED BY <2>1, <2>2, <2>3 DEF Init, AccountInv, PlaceInv, UntoldInv, AgreedInv, SaidInv
<1>2. AccountInv /\ [Next]_vars => AccountInv'
  <2>1. ASSUME AccountInv, UNCHANGED vars PROVE AccountInv'
    BY <2>1 DEF vars, keysVars, terminal, threads, runVars, calls, outcome, account,
         AccountInv, PlaceInv, SeenInv, CallsInv, UntoldInv, AgreedInv, SaidInv, HungUp, StderrLives
  <2>. QED BY <2>1, KeysAccount, EndsAccount, AccountsAccount, TellsAccount, RunAccount DEF Next, Task
<1>. QED BY <1>1, <1>2, PTL DEF Spec

\* What a drawn run says of its end is true, agrees with its code and with what was stored,
\* puts a keypress before a hangup, names the call that goes on unseen, and is said on a
\* stream that lives, once per terminal (tui.rs drive, accounted, given_back; Keys::stop).
THEOREM AccountIsTold == Spec => []AccountTold
<1>1. AccountInv => AccountTold
  BY DEF AccountInv, AgreedInv, SaidInv, AccountTold
<1>. QED BY <1>1, AccountInvariant, PTL
=============================================================================
