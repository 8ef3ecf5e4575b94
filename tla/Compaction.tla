----------------------------- MODULE Compaction -----------------------------
(***************************************************************************)
(* sandbx-compact: withholding the oldest history from a request that has  *)
(* outgrown a token budget.                                                *)
(*                                                                         *)
(* A cut is a count of leading history messages left out of a request.     *)
(* Rust's zero-based history[cut] is history[cut + 1] here.  An absent     *)
(* value (Option::None) is the constant None.                              *)
(***************************************************************************)
EXTENDS Messages

ASSUME NoneAssumption == None \notin Nat

-----------------------------------------------------------------------------
(* Token accounting. *)

Counter(c) == IF c = None THEN 0 ELSE c

\* The sum of the three counters an observation may report, taken in u64, so
\* that three saturated u32 counters do not wrap.
PromptTokens(usage) == Counter(usage.input) + Counter(usage.read) + Counter(usage.write)

OverBudget(observed, budget) == observed # None /\ PromptTokens(observed) > budget

-----------------------------------------------------------------------------
(* The cut. *)

OpensARequest(history, cut) ==
  /\ 0 < cut
  /\ cut < Len(history)
  /\ history[cut + 1].role = "user"
  /\ SomeBlock(history[cut + 1], NotResult)

\* The legal cuts in lo .. hi.
LegalCuts(history, lo, hi) == {c \in lo .. hi : OpensARequest(history, c)}

\* Mutant: the carried floor is not held.
NoFloorHeld(history, floor) == 0

\* A floor at or past the end names no message.
ClampedFloor(history, floor) == IF floor >= Len(history) THEN 0 ELSE floor

AtMost(a, b) == IF a <= b THEN a ELSE b
AtLeast(a, b) == IF a >= b THEN a ELSE b

\* usize::saturating_sub
SaturatingSub(a, b) == IF a >= b THEN a - b ELSE 0

\* Where the cut is aimed: at the floor within budget (keepRecent = None), else
\* at keepRecent messages from the end of the request, never short of the floor.
Target(history, produced, keepRecent, floor) ==
  IF keepRecent = None
    THEN ClampedFloor(history, floor)
    ELSE AtLeast(AtMost(SaturatingSub(Len(history) + produced, keepRecent), Len(history)),
                 ClampedFloor(history, floor))

PlanCut(history, produced, keepRecent, floor) ==
  LET target == Target(history, produced, keepRecent, floor)
      later  == LegalCuts(history, target, Len(history) - 1)
      sooner == LegalCuts(history, 1, target - 1)
  IN  CASE target = 0 -> None
        [] target # 0 /\ later # {} ->
             CHOOSE c \in later : \A d \in later : c <= d
        [] target # 0 /\ later = {} /\ sooner # {} ->
             CHOOSE c \in sooner : \A d \in sooner : d <= c
        [] OTHER -> None

\* Mutant: results whose calls were cut stay.
WindowKeepingOrphans(history, cut) == SubSeq(history, cut + 1, Len(history))

\* What a request carries of history once its oldest cut messages are withheld:
\* the first message kept loses the results whose calls went with them.
Window(history, cut) ==
  LET kept == SubSeq(history, cut + 1, Len(history))
  IN  IF cut > 0 /\ kept # <<>>
        THEN [kept EXCEPT ![1] = Retain(@, NotResult)]
        ELSE kept
=============================================================================
