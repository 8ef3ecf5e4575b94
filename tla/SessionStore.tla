---------------------------- MODULE SessionStore ----------------------------
(***************************************************************************)
(* sandbx-session-store: one transcript file, the processes that hold a    *)
(* session over it, and the writes that tear.                              *)
(*                                                                         *)
(* The file is append-only JSON lines: a header, then for each turn its    *)
(* messages and one accounting line, all in a single O_APPEND write.       *)
(* A write that tears (a full disk, a crash) leaves some whole lines and   *)
(* perhaps an unterminated last one; whoever writes next glues its first   *)
(* line to that, since append neither truncates nor terminates it.         *)
(*                                                                         *)
(* The owner and mode checks of vet.rs are not modelled: a file here is    *)
(* the operator's own.                                                     *)
(***************************************************************************)
EXTENDS Messages, SequencesExt

CONSTANTS
  Processes,    \* who may hold the session
  Batches,      \* the turns' messages a caller may append, refused ones included
  Usages,       \* measured figures
  Tears,        \* how a write may tear: subset of {"clean", "cut", "split", "whole"}
  MaxLines      \* bound: no append begins on a longer file

\* A tear falls between two lines ("clean") or leaves an unterminated last line:
\* a piece no parser takes ("cut"), a piece ending inside a character ("split"),
\* or a whole record short of its newline ("whole").
HeaderLine == [type |-> "header"]
MessageLine(message) == [type |-> "message", message |-> message]
TurnLine(accounting) == [type |-> "turn", accounting |-> accounting]
Garbled == [type |-> "garbled"]

Stops == {"answered", "round_limit"}
Refusals == {"malformed", "missing_header", "io", "unresumable", "disordered"}
Accountings == [observed : Usages \cup {None}, withheld : Nat, stop : Stops \cup {None}]
Lines == {HeaderLine, Garbled} \cup [type : {"message"}, message : Messages]
           \cup [type : {"turn"}, accounting : Accountings]

ASSUME BatchesAssumption == Batches \subseteq Seq(Messages)
ASSUME TearsAssumption == Tears \subseteq {"clean", "cut", "split", "whole"}

\* What is absent is no stop, no refusal, no process and no torn line.
ASSUME AbsentAssumption ==
  /\ None \notin Stops \cup Refusals /\ None \notin Processes
  /\ None \notin [how : Tears, line : Lines]

NoAccounting == [observed |-> None, withheld |-> 0, stop |-> None]

VARIABLES
  alone,        \* the one process there is, whose writes may tear; or None: any of
                \* them takes steps, and every write is whole
  exists,       \* the file has been created
  lines,        \* its newline-terminated lines
  open,         \* its unterminated last line: [how, line], or None
  session,      \* what each process holds of it, or None
  refused,      \* the last resume's refusal, None when it succeeded
  written,      \* ghost: every message whose line is whole in the file, in order
  lost,         \* ghost: an append that returned Ok had a line glued to a torn one
  lastStop      \* ghost: how the last turn that wrote messages ended, None if unsaid

vars == <<alone, exists, lines, open, session, refused, written, lost, lastStop>>

-----------------------------------------------------------------------------
(* record.rs: replaying a file. *)

\* Mutant: an earlier turn's stop outlives the later one's.
AbsorbFirstStop(old, new) ==
  [observed |-> IF new.observed # None THEN new.observed ELSE old.observed,
   withheld |-> new.withheld,
   stop     |-> IF old.stop # None THEN old.stop ELSE new.stop]

Absorb(old, new) ==
  [observed |-> IF new.observed # None THEN new.observed ELSE old.observed,
   withheld |-> new.withheld,
   stop     |-> IF new.stop # None THEN new.stop ELSE old.stop]

Replayed == [messages |-> <<>>, accounting |-> NoAccounting, read |-> 0, error |-> None]

\* Mutant: a message leaves the stop before it standing.
FoldLineKeepingStop(replayed, line) ==
  LET next == [replayed EXCEPT !.read = @ + 1]
  IN  CASE replayed.error # None -> replayed
        [] replayed.error = None /\ line = Garbled -> [next EXCEPT !.error = "malformed"]
        [] replayed.error = None /\ line # Garbled /\ replayed.read = 0 ->
             [next EXCEPT !.error = IF line.type = "header" THEN None ELSE "missing_header"]
        [] OTHER ->
             CASE line.type = "message" -> [next EXCEPT !.messages = Append(@, line.message)]
               [] line.type = "turn" -> [next EXCEPT !.accounting = Absorb(@, line.accounting)]
               [] line.type = "header" -> next

FoldLine(replayed, line) ==
  LET next == [replayed EXCEPT !.read = @ + 1]
  IN  CASE replayed.error # None -> replayed
        [] replayed.error = None /\ line = Garbled -> [next EXCEPT !.error = "malformed"]
        [] replayed.error = None /\ line # Garbled /\ replayed.read = 0 ->
             [next EXCEPT !.error = IF line.type = "header" THEN None ELSE "missing_header"]
        [] OTHER ->
             CASE line.type = "message" ->
                    [next EXCEPT !.messages = Append(@, line.message), !.accounting.stop = None]
               [] line.type = "turn" -> [next EXCEPT !.accounting = Absorb(@, line.accounting)]
               [] line.type = "header" -> next

\* A recursive function rather than FoldLeft, so that proofs can reach inside it.
FoldLines(all) ==
  LET upTo[n \in 0 .. Len(all)] ==
        IF n = 0 THEN Replayed ELSE FoldLine(upTo[n - 1], all[n])
  IN  upTo[Len(all)]

\* Mutant: a last line without its newline is dropped unread.
FoldDroppingUnterminated(all, end) ==
  LET last == FoldLines(all)
  IN  IF all = <<>> THEN [last EXCEPT !.error = "missing_header"] ELSE last

\* A last line without its newline is dropped if it does not parse, and read if
\* it does.
Fold(all, end) ==
  LET parsed == IF end # None /\ end.how = "whole" THEN Append(all, end.line) ELSE all
      last   == FoldLines(parsed)
  IN  IF parsed = <<>> THEN [last EXCEPT !.error = "missing_header"] ELSE last

\* SessionStore::resume, from the text to a session or a refusal.
Resumed(all, end) ==
  LET replayed == Fold(all, end)
      messages == replayed.messages
  IN  CASE end # None /\ end.how = "split" -> [replayed EXCEPT !.error = "io"]
        [] replayed.error # None -> replayed
        [] messages # <<>> /\ ~Resumable(messages) -> [replayed EXCEPT !.error = "unresumable"]
        [] messages # <<>> /\ Resumable(messages) /\ ~(Alternating(messages) /\ Opens(messages)) ->
             [replayed EXCEPT !.error = "disordered"]
        [] OTHER -> replayed

Load == Resumed(lines, open)

-----------------------------------------------------------------------------
(* Writing. *)

\* What the file's lines become when `added` is written behind an unterminated
\* line: the first line added is glued to it.
Glued(added) == IF open = None THEN added ELSE <<Garbled>> \o Tail(added)

\* The messages a sequence of lines carries.
MessagesOf(some) ==
  LET upTo[n \in 0 .. Len(some)] ==
        IF n = 0 THEN <<>>
        ELSE IF some[n].type = "message" THEN Append(upTo[n - 1], some[n].message)
        ELSE upTo[n - 1]
  IN  upTo[Len(some)]

StopOf(some) ==
  IF some # <<>> /\ Last(some).type = "turn" THEN Last(some).accounting.stop ELSE None

\* write_all, whole.
WriteAll(added) ==
  /\ lines' = lines \o Glued(added)
  /\ open' = None
  /\ written' = written \o MessagesOf(Glued(added))

\* write_all, torn: `count` whole lines and perhaps some of the next one.
WriteTorn(added, count, how) ==
  LET whole == SubSeq(added, 1, count)
  IN  /\ count < Len(added)
      /\ how = "clean" => count > 0
      /\ open # None => count > 0     \* a bound: one piece is not torn twice
      /\ lines' = lines \o (IF count = 0 THEN <<>> ELSE Glued(whole))
      /\ open' = IF how = "clean" THEN None ELSE [how |-> how, line |-> added[count + 1]]
      /\ written' = written \o (IF count = 0 THEN <<>> ELSE MessagesOf(Glued(whole)))
                            \o (IF how = "whole" THEN MessagesOf(<<added[count + 1]>>) ELSE <<>>)

Init ==
  /\ alone \in Processes \cup {None}
  /\ exists = FALSE /\ lines = <<>> /\ open = None
  /\ session = [p \in Processes |-> None] /\ refused = None
  /\ written = <<>> /\ lost = FALSE /\ lastStop = None

MayTear == IF alone = None THEN {} ELSE Tears

Create(p) ==
  /\ ~exists /\ exists' = TRUE
  /\ \/ /\ WriteAll(<<HeaderLine>>)
        /\ session' = [session EXCEPT ![p] = [messages |-> <<>>, accounting |-> NoAccounting]]
     \/ \E how \in MayTear \ {"clean"} : WriteTorn(<<HeaderLine>>, 0, how) /\ UNCHANGED session
  /\ UNCHANGED <<refused, lost, lastStop>>

Resume(p) ==
  /\ exists /\ session[p] = None
  /\ refused' = Load.error
  /\ session' = IF Load.error # None THEN session
                ELSE [session EXCEPT ![p] = [messages |-> Load.messages,
                                             accounting |-> Load.accounting]]
  /\ UNCHANGED <<exists, lines, open, written, lost, lastStop>>

Accepts(stored, batch) ==
  batch # <<>> => Resumable(batch) /\ Alternating(batch) /\ Follows(stored, batch)

AccountingOf(batch, observed, withheld, stop) ==
  [observed |-> observed, withheld |-> withheld, stop |-> IF batch # <<>> THEN stop ELSE None]

Records(batch, accounting) ==
  [i \in 1 .. Len(batch) |-> MessageLine(batch[i])] \o <<TurnLine(accounting)>>

\* The ghosts behind a write of `added` of which `whole` lines reached the file.
Tells(added, whole) ==
  lastStop' = IF MessagesOf(whole) = <<>> THEN lastStop ELSE StopOf(whole)

\* A batch as agent-run and tui make them: a turn from its prompt on.
OpensOnPrompt(batch) == batch = <<>> \/ (batch[1].role = "user" /\ AsksOnly(batch[1]))

\* Two processes are two runs of these commands; a caller alone appends what it likes.
Callers == {batch \in Batches : alone = None => OpensOnPrompt(batch)}

AppendTurn(p) ==
  /\ session[p] # None /\ Len(lines) <= MaxLines
  /\ \E batch \in Callers, observed \in Usages \cup {None}, withheld \in 0 .. 1, stop \in Stops :
       LET accounting == AccountingOf(batch, observed, withheld, stop)
           added      == Records(batch, accounting)
       IN  /\ Accepts(session[p].messages, batch)
           /\ WriteAll(added)
           /\ session' = [session EXCEPT ![p].messages = @ \o batch,
                                         ![p].accounting = Absorb(@, accounting)]
           /\ lost' = (lost \/ open # None)
           /\ Tells(added, added)
  /\ UNCHANGED <<exists, refused>>

\* The write fails or the process dies in it: the session goes with the process.
TearAppend(p) ==
  /\ session[p] # None /\ Len(lines) <= MaxLines
  /\ \E batch \in Batches, withheld \in 0 .. 1, stop \in Stops, how \in MayTear :
       LET accounting == AccountingOf(batch, None, withheld, stop)
           added      == Records(batch, accounting)
       IN  \E count \in 0 .. Len(batch) :
             /\ Accepts(session[p].messages, batch)
             /\ WriteTorn(added, count, how)
             /\ Tells(added, SubSeq(added, 1, IF how = "whole" THEN count + 1 ELSE count))
  /\ session' = [session EXCEPT ![p] = None]
  /\ UNCHANGED <<exists, refused, lost>>

Leave(p) ==
  /\ session[p] # None
  /\ session' = [session EXCEPT ![p] = None]
  /\ UNCHANGED <<exists, lines, open, refused, written, lost, lastStop>>

Present == IF alone = None THEN Processes ELSE {alone}

Next ==
  /\ UNCHANGED alone
  /\ \E p \in Present : Create(p) \/ Resume(p) \/ AppendTurn(p) \/ TearAppend(p) \/ Leave(p)

Spec == Init /\ [][Next]_vars

-----------------------------------------------------------------------------
(* Properties. *)

\* "A resumed session and a continued one agree" (Accounting::absorb): whoever
\* alone holds the file has in memory what a resume would read back.
ResumedAgreesWithContinued ==
  \A p \in Processes :
    session[p] # None /\ alone = p /\ Load.error = None =>
        [messages |-> Load.messages, accounting |-> Load.accounting] = session[p]

\* A resume hands out every message that is whole in the file, in the order it
\* was written, and no other; and a transcript that lost a line append had
\* acknowledged is refused rather than read around it.
ResumeReadsAllWritten == Load.error = None => Load.messages = written /\ ~lost

\* A stop read back is the end of the turn whose messages the transcript ends on,
\* and of no earlier one ("a stop describes the messages before its line").
StopDescribesTheEnd ==
  Load.error = None /\ Load.accounting.stop # None => Load.accounting.stop = lastStop

\* Two runs over one transcript, each appending whole turns that open on a prompt,
\* leave a file that every later resume takes.
ConcurrentRunsResume == alone = None /\ exists => Load.error = None

\* What the store says of a torn append: dropping its partial line "restores the
\* last consistent state", so it never costs the conversation.
TornAppendResumes ==
  exists /\ Garbled \notin ToSet(lines) /\ lines # <<>> => Load.error = None

\* What the store says of an append it took: "append writing a shape resume
\* refuses is a session nothing can undo", so it checks resume's conditions.
TakenAppendResumes ==
  [][\A p \in Processes : session[p] # None /\ session'[p] # None /\ lines' # lines
       => Resumed(lines', open').error = None]_vars
=============================================================================
