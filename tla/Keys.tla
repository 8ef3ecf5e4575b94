-------------------------------- MODULE Keys --------------------------------
(***************************************************************************)
(* sandbx-tui-input: the two threads that listen to the terminal a turn    *)
(* is drawn on, and what they leave for the turn to see.                   *)
(*                                                                         *)
(* The reader asks the descriptors whether they hung up before each call   *)
(* into crossterm, which on a hung-up terminal never returns; the watcher  *)
(* covers a hangup that lands while the reader is in there.  crossterm     *)
(* parses all it reads and hands out one event per call.                   *)
(***************************************************************************)
EXTENDS Naturals, Sequences

CONSTANTS
  None,
  MaxKeys       \* bound: keys typed and not yet handed out

\* The descriptor keys are read from and the one the turn is drawn on, which a
\* redirected standard input makes two.
Devices == {"tty", "out"}

\* ctrl-c or escape; any other key, a resize, a paste.
Events == {"stop", "other"}

VARIABLES
  tty,          \* typed, and still in the kernel
  parsed,       \* read and parsed by crossterm, and not yet handed out
  hung,         \* the descriptors that hung up
  reader,       \* where the reading thread is, None when no terminal was found
  buffered,     \* the reader's: crossterm may still hold an event
  watcher,      \* where the watching thread is
  seen          \* the channel's one value: what has been seen so far, sticky

terminal == <<tty, parsed, hung>>
threads == <<reader, buffered, watcher, seen>>
keysVars == <<terminal, threads>>

KeysInit ==
  /\ tty = <<>> /\ parsed = <<>> /\ hung = {}
  /\ reader = None /\ buffered = TRUE /\ watcher = None
  /\ seen = [stop |-> FALSE, gone |-> FALSE]

-----------------------------------------------------------------------------
(* The operator and the terminal. *)

Type(event) ==
  /\ "tty" \notin hung /\ Len(tty) + Len(parsed) < MaxKeys
  /\ tty' = Append(tty, event)
  /\ UNCHANGED <<parsed, hung, threads>>

HangUp ==
  /\ \E device \in Devices : device \notin hung /\ hung' = hung \cup {device}
  /\ UNCHANGED <<tty, parsed, threads>>

-----------------------------------------------------------------------------
(* The reader and the watcher. *)

\* Keys::listen; without a terminal to read, no thread starts and the channel closes.
Listen ==
  /\ \/ reader' = "gate" /\ watcher' = "waiting"
     \/ UNCHANGED <<reader, watcher>>
  /\ buffered' = TRUE
  /\ UNCHANGED <<terminal, seen>>

Gone == seen' = [seen EXCEPT !.gone = TRUE]

HungUp == hung # {}

\* A poll that asks for input, and waits for it once crossterm is known to be empty.
ReaderPolls ==
  /\ reader = "gate"
  /\ \/ HungUp /\ Gone /\ reader' = "ended"
     \/ ~HungUp /\ (buffered \/ tty # <<>>) /\ reader' = "crossterm" /\ UNCHANGED seen
  /\ UNCHANGED <<terminal, buffered, watcher>>

\* Mutant: the event handed out is taken for the only one.
BufferedAfterNone(event) == FALSE

\* One read may carry a key behind others, and a call hands out one event.
BufferedAfter(event) == event # None

Pressed(event) == seen' = [seen EXCEPT !.stop = @ \/ event = "stop"]

\* event::poll, then event::read: what crossterm holds, or else what it now reads.
HandsOut ==
  LET held == IF parsed # <<>> THEN parsed ELSE tty
  IN  /\ parsed' = IF held = <<>> THEN <<>> ELSE Tail(held)
      /\ tty' = IF parsed # <<>> THEN tty ELSE <<>>
      /\ buffered' = BufferedAfter(IF held = <<>> THEN None ELSE Head(held))
      /\ IF held = <<>> THEN UNCHANGED seen ELSE Pressed(Head(held))
      /\ reader' = "gate"

\* A hangup since the poll: crossterm reads nothing, over and over.
Spins ==
  /\ parsed = <<>> /\ "tty" \in hung
  /\ reader' = "spinning"
  /\ UNCHANGED <<tty, parsed, buffered, seen>>

ReaderAsks ==
  /\ reader = "crossterm"
  /\ \/ ~(parsed = <<>> /\ "tty" \in hung) /\ HandsOut
     \/ Spins
  /\ UNCHANGED <<hung, watcher>>

\* Mutant: the watcher asks for input, as the reader's poll does, and takes its
\* waking for the end.
WatcherWakesOnKeys ==
  /\ watcher = "waiting"
  /\ HungUp \/ tty # <<>>
  /\ watcher' = "ended"
  /\ IF HungUp THEN Gone ELSE UNCHANGED seen
  /\ UNCHANGED <<terminal, reader, buffered>>

\* A poll that asks for nothing, so that only a hangup ends it.
WatcherWakes ==
  /\ watcher = "waiting"
  /\ HungUp /\ Gone /\ watcher' = "ended"
  /\ UNCHANGED <<terminal, reader, buffered>>

\* An error that is not a resize's ends the thread it reaches, without a word.
ReaderFails ==
  /\ reader \in {"gate", "crossterm"} /\ reader' = "failed"
  /\ UNCHANGED <<terminal, buffered, watcher, seen>>

WatcherFails ==
  /\ watcher = "waiting" /\ watcher' = "failed"
  /\ UNCHANGED <<terminal, reader, buffered, seen>>

\* Once the turn is over nothing the threads read is looked at: they are not followed,
\* and no property asks where they are.
Unheard ==
  /\ tty' = <<>> /\ parsed' = <<>> /\ buffered' = TRUE
  /\ reader' = None /\ watcher' = None
  /\ UNCHANGED <<hung, seen>>

ReaderSteps == ReaderPolls \/ ReaderAsks

KeysNext ==
  \/ \E event \in Events : Type(event)
  \/ HangUp \/ ReaderSteps \/ ReaderFails \/ WatcherWakes \/ WatcherFails

\* Mutant: a hangup is told before the key pressed ahead of it.
StopSeenGoneFirst == IF seen.gone THEN "gone" ELSE IF seen.stop THEN "pressed" ELSE None

\* What Keys::stop resolves to, None while it waits: the keypress first, since no
\* key can arrive after a hangup.
StopSeen == IF seen.stop THEN "pressed" ELSE IF seen.gone THEN "gone" ELSE None
=============================================================================
