----------------------------- MODULE ConsentGate -----------------------------
(***************************************************************************)
(* sandbx-cli's gate for one run: argv is the ceiling, and under           *)
(* `--approve call` the operator narrows it, one question per call, on the *)
(* controlling terminal.                                                   *)
(*                                                                         *)
(* The operator types whenever they like.  A line waits in the kernel's    *)
(* queue, and one read may move several into the reader's buffer, so an    *)
(* answer can be older than the question it would be read for; the gate    *)
(* drains both before it asks.                                             *)
(***************************************************************************)
EXTENDS Naturals, Sequences, SequencesExt

CONSTANTS
  Tools,        \* the built-in tools
  Risky,        \* those that do more than read
  Approved,     \* the risky ones --allow-tool approved
  MaxCalls,     \* bound: calls the model makes
  MaxTyped      \* bound: lines the operator types

Texts == {"yes", "no", "all", "typo", "not_utf8"}

VARIABLES
  asks,         \* whether --approve call opened a terminal for this run
  pc,           \* "idle", "drain", "question", "read"
  call,         \* the call being decided: its number and its tool
  queue,        \* lines in the kernel's queue
  buffer,       \* lines the reader has taken and not returned
  typed,        \* how many lines were typed
  blanket,      \* the tools an "all" approved
  decisions     \* what was decided, and by what

vars == <<asks, pc, call, queue, buffer, typed, blanket, decisions>>

NoCall == [number |-> 0, tool |-> "none"]

\* Nobody's line: a decision argv, the risk or the blanket made.
NoLine == [text |-> "none", during |-> 0]

Init ==
  /\ asks \in BOOLEAN
  /\ pc = "idle" /\ call = NoCall
  /\ queue = <<>> /\ buffer = <<>> /\ typed = 0
  /\ blanket = {} /\ decisions = <<>>

Approves(tool) == tool \notin Risky \/ tool \in Approved

Decide(number, tool, verdict, why, line) ==
  /\ decisions' = Append(decisions, [number |-> number, tool |-> tool, verdict |-> verdict,
                                     why |-> why, line |-> line])
  /\ pc' = "idle"

Settle(verdict, why, line) == Decide(call.number, call.tool, verdict, why, line)

\* A line remembers the call whose question was up, or about to be, when it was
\* typed: 0 for one typed before that call's drain.
TypeLine ==
  /\ typed < MaxTyped
  /\ typed' = typed + 1
  /\ \E text \in Texts :
       queue' = Append(queue, [text |-> text,
                               during |-> IF pc \in {"question", "read"} THEN call.number ELSE 0])
  /\ UNCHANGED <<asks, pc, call, buffer, blanket, decisions>>

\* answer_calls asks about nothing once the gate has aborted.
Aborted == decisions # <<>> /\ Last(decisions).verdict = "abort"

\* ArgvGate::approve, as far as it needs no operator.
Approve ==
  /\ pc = "idle" /\ ~Aborted /\ Len(decisions) < MaxCalls
  /\ \E tool \in Tools :
       LET number == Len(decisions) + 1
       IN  /\ call' = [number |-> number, tool |-> tool]
           /\ \/ ~Approves(tool) /\ Decide(number, tool, "deny", "argv", NoLine)
              \/ Approves(tool) /\ tool \notin Risky /\ Decide(number, tool, "allow", "reads", NoLine)
              \/ Approves(tool) /\ tool \in Risky /\ ~asks
                   /\ Decide(number, tool, "allow", "argv", NoLine)
              \/ Approves(tool) /\ tool \in Risky /\ asks /\ pc' = "drain" /\ UNCHANGED decisions
  /\ UNCHANGED <<asks, queue, buffer, typed, blanket>>

\* Mutant: what the reader has already taken stays.
DrainQueueOnly ==
  /\ pc = "drain"
  /\ queue' = <<>>
  /\ IF call.tool \in blanket
       THEN Settle("allow", "blanket", NoLine)
       ELSE pc' = "question" /\ UNCHANGED decisions
  /\ UNCHANGED <<asks, call, buffer, typed, blanket>>

\* Terminal::ask: both layers go, or the turn ends; then the blanket.
Drain ==
  /\ pc = "drain"
  /\ queue' = <<>> /\ buffer' = <<>>
  /\ IF call.tool \in blanket
       THEN Settle("allow", "blanket", NoLine)
       ELSE pc' = "question" /\ UNCHANGED decisions
  /\ UNCHANGED <<asks, call, typed, blanket>>

DrainFails ==
  /\ pc = "drain"
  /\ Settle("abort", "uncleared", NoLine)
  /\ UNCHANGED <<asks, call, queue, buffer, typed, blanket>>

\* Consent::ask: the question is written out before anything is read.
Question ==
  /\ pc = "question"
  /\ pc' = "read"
  /\ UNCHANGED <<asks, call, queue, buffer, typed, blanket, decisions>>

\* The device is gone: the write fails, or the read finds the end of input.
TerminalGone ==
  /\ pc = "question" \/ (pc = "read" /\ buffer = <<>>)
  /\ Settle("abort", "closed", NoLine)
  /\ UNCHANGED <<asks, call, queue, buffer, typed, blanket>>

FillBuffer ==
  /\ pc = "read" /\ buffer = <<>>
  /\ \E taken \in 1 .. Len(queue) :
       /\ buffer' = SubSeq(queue, 1, taken)
       /\ queue' = SubSeq(queue, taken + 1, Len(queue))
  /\ UNCHANGED <<asks, pc, call, typed, blanket, decisions>>

\* A line that is no answer, or not text, is consumed and the question asked again.
ReadLine ==
  /\ pc = "read" /\ buffer # <<>>
  /\ buffer' = Tail(buffer)
  /\ LET line == Head(buffer)
     IN  \/ /\ line.text = "yes"
            /\ Settle("allow", "answer", line) /\ UNCHANGED blanket
         \/ /\ line.text = "no"
            /\ Settle("deny", "answer", line) /\ UNCHANGED blanket
         \/ /\ line.text = "all"
            /\ Settle("allow", "answer", line) /\ blanket' = blanket \cup {call.tool}
         \/ /\ line.text \in {"typo", "not_utf8"}
            /\ pc' = "question" /\ UNCHANGED <<blanket, decisions>>
  /\ UNCHANGED <<asks, call, queue, typed>>

\* The model asks for no more.
Rest == pc = "idle" /\ UNCHANGED vars

Next ==
  \/ TypeLine \/ Approve \/ Drain \/ DrainFails \/ Question \/ TerminalGone \/ FillBuffer \/ ReadLine
  \/ Rest

Spec == Init /\ [][Next]_vars

-----------------------------------------------------------------------------
(* Properties. *)

\* A call that does more than read runs under --approve call only on an answer
\* typed for that very call, or on an "all" typed for an earlier call of the same
\* tool; a line typed before the call's question was being put, or left over from
\* an earlier question, decides nothing (Terminal::discard_typeahead).
ConsentIsForThisCall ==
  \A i \in DOMAIN decisions :
    LET decided == decisions[i]
    IN  /\ decided.why = "answer" => decided.line.during = decided.number
        /\ decided.verdict = "allow" /\ decided.tool \in Risky =>
             /\ decided.tool \in Approved
             /\ asks => \/ decided.line.text \in {"yes", "all"}
                        \/ \E j \in 1 .. i - 1 : /\ decisions[j].tool = decided.tool
                                                 /\ decisions[j].line.text = "all"
                                                 /\ decisions[j].line.during = j

=============================================================================
