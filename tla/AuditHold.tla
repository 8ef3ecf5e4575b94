------------------------------ MODULE AuditHold ------------------------------
(***************************************************************************)
(* sandbx-logging: the audit trail on its way to stderr, and the hold a    *)
(* drawn turn takes on it.                                                 *)
(*                                                                         *)
(* A record is written under the lock of HELD, either behind the others    *)
(* held or onto stderr.  A released hold is taken under that lock and      *)
(* written outside it, so a thread still running can come first.           *)
(***************************************************************************)
EXTENDS Naturals, Sequences, SequencesExt

CONSTANTS
  NotHeld,
  MaxRecords    \* bound: records emitted in a run

ASSUME NotHeldAssumption == NotHeld \notin Seq(Nat)

VARIABLES
  held,         \* HELD: the records held, or NotHeld
  taken,        \* what a guard being dropped has taken and not yet written, or NotHeld
  emitted,      \* records are numbered as they are emitted
  stderr,       \* the records that reached it
  swallowed,    \* the records written where nobody will read them
  heldUpTo      \* ghost: the last record emitted before the hold was released

holdVars == <<held, taken, emitted, stderr, swallowed, heldUpTo>>

HoldInit ==
  /\ held = NotHeld /\ taken = NotHeld /\ emitted = 0
  /\ stderr = <<>> /\ swallowed = {} /\ heldUpTo = 0

\* A write to stderr, which may be covered by the screen or gone.
Written(records, reaches) ==
  IF reaches
    THEN stderr' = stderr \o records /\ UNCHANGED swallowed
    ELSE swallowed' = swallowed \cup ToSet(records) /\ UNCHANGED stderr

\* Audit::write.
Emit(reaches) ==
  /\ emitted < MaxRecords
  /\ emitted' = emitted + 1
  /\ IF held # NotHeld
       THEN held' = Append(held, emitted + 1) /\ UNCHANGED <<stderr, swallowed>>
       ELSE Written(<<emitted + 1>>, reaches) /\ UNCHANGED held
  /\ UNCHANGED <<taken, heldUpTo>>

\* hold().
Hold ==
  /\ held' = <<>>
  /\ UNCHANGED <<taken, emitted, stderr, swallowed, heldUpTo>>

\* Mutant: the hold is copied out and left in force.
TakeKeeping ==
  /\ taken' = IF held = NotHeld THEN <<>> ELSE held
  /\ heldUpTo' = IF held = NotHeld THEN heldUpTo ELSE emitted
  /\ UNCHANGED <<held, emitted, stderr, swallowed>>

\* Held::drop, up to the unlock and from it.
Take ==
  /\ taken' = IF held = NotHeld THEN <<>> ELSE held
  /\ held' = NotHeld
  /\ heldUpTo' = IF held = NotHeld THEN heldUpTo ELSE emitted
  /\ UNCHANGED <<emitted, stderr, swallowed>>

WriteTaken(reaches) ==
  /\ taken # NotHeld
  /\ Written(taken, reaches)
  /\ taken' = NotHeld
  /\ UNCHANGED <<held, emitted, heldUpTo>>

\* What a signal now would lose: the records nothing but memory holds.
InMemory == (1 .. emitted) \ (ToSet(stderr) \cup swallowed)

\* A record overtaken was still in memory when the one before it was emitted.
OnlyHeldOvertaken ==
  \A i, j \in DOMAIN stderr : i < j =>
    stderr[i] < stderr[j] \/ (stderr[j] <= heldUpTo /\ stderr[i] > heldUpTo)
=============================================================================
