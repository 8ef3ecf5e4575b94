------------------------------- MODULE Bridge -------------------------------
(***************************************************************************)
(* sandbx-session-bridge: between the transcript, which stores every       *)
(* message separately, and the request, which carries each run of user     *)
(* messages as one.  Two index spaces meet here: a withheld count crosses  *)
(* into the request's with the merge and back with Unmerged.               *)
(*                                                                         *)
(* Indices are the code's zero-based ones; a sequence is entered at        *)
(* index + 1.                                                              *)
(***************************************************************************)
EXTENDS Compaction, SequencesExt

\* Mutant: user messages are not merged.
MergeNextNever(merged, message, withheld) ==
  [history  |-> Append(merged.history, message),
   opens    |-> Append(merged.opens, merged.length),
   withheld |-> IF merged.length = withheld THEN Len(merged.history) ELSE merged.withheld,
   length   |-> merged.length + 1]

\* Adding one message to the merge so far: onto the user message it follows, or
\* as one of its own.  `opens` keeps, for each merged message, the stored index
\* of its first part that is not all results.
MergeNext(merged, message, withheld) ==
  LET onto == /\ message.role = "user"
              /\ merged.history # <<>> /\ Last(merged.history).role = "user"
      last == Len(merged.history)
  IN  [history |-> IF onto THEN [merged.history EXCEPT ![last].content = @ \o message.content]
                           ELSE Append(merged.history, message),
       opens   |-> IF ~onto THEN Append(merged.opens, merged.length)
                   ELSE IF AllBlocks(Last(merged.history), IsResult)
                     THEN [merged.opens EXCEPT ![last] = merged.length]
                     ELSE merged.opens,
       withheld |-> IF merged.length = withheld THEN (IF onto THEN last - 1 ELSE last)
                                                ELSE merged.withheld,
       length  |-> merged.length + 1]

NothingMerged(withheld) ==
  [history |-> <<>>, opens |-> <<>>, withheld |-> withheld, length |-> 0]

\* A recursive function rather than FoldLeft, so that proofs can reach inside it.
MergeUserRuns(history, withheld) ==
  LET upTo[n \in 0 .. Len(history)] ==
        IF n = 0 THEN NothingMerged(withheld)
                 ELSE MergeNext(upTo[n - 1], history[n], withheld)
  IN  upTo[Len(history)]

\* Mutant: the request's count stored as it is.
UnmergedNot(merged, withheld) == withheld

\* A turn's withheld count in the transcript's index space.
Unmerged(merged, withheld) ==
  CASE withheld = 0 /\ merged.opens # <<>> -> 0
    [] withheld # 0 /\ withheld < Len(merged.opens) -> merged.opens[withheld + 1]
    [] withheld >= Len(merged.opens) -> merged.length + (withheld - Len(merged.opens))

\* stored_messages: reasoning is not stored, nor a message it leaves empty.
StoredMessages(sent) == DropThinking(sent)
=============================================================================
