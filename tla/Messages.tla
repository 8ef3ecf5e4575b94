------------------------------ MODULE Messages ------------------------------
(***************************************************************************)
(* The conversation vocabulary shared by the request side (sandbx-prompt)  *)
(* and the stored side (sandbx-session-message): roles, content blocks and *)
(* messages, and the shape rules sandbx-session-store applies to a         *)
(* sequence of them (shape.rs).                                            *)
(*                                                                         *)
(* Text, tool arguments and tool output are abstracted away: what the      *)
(* rules of the Messages API tell apart is the role of a message, the kind *)
(* of each block, and which call a result answers.                         *)
(***************************************************************************)
EXTENDS Integers, Sequences, Picking

CONSTANTS
  CallIds,      \* the vendor's ids of tool calls
  ToolNames,    \* the names a model may put in a tool call
  None          \* an absent value (Option::None), of the modules over this vocabulary

Roles == {"user", "assistant"}

TextBlock == [kind |-> "text"]
UseBlock(id, name) == [kind |-> "use", id |-> id, name |-> name]
ResultBlock(id, error) == [kind |-> "result", id |-> id, error |-> error]

(***************************************************************************)
(* A reasoning block carries what it was produced against: the number of   *)
(* history messages the request that elicited it had withheld.  The code   *)
(* keeps no such field; the block's signature, checked by the provider,    *)
(* plays its part.                                                         *)
(***************************************************************************)
ThinkingBlock(against) == [kind |-> "thinking", against |-> against]

Blocks == {TextBlock}
            \cup [kind : {"use"}, id : CallIds, name : ToolNames]
            \cup [kind : {"result"}, id : CallIds, error : BOOLEAN]
            \cup [kind : {"thinking"}, against : Nat]

Messages == [role : Roles, content : Seq(Blocks)]

User(content) == [role |-> "user", content |-> content]
Assistant(content) == [role |-> "assistant", content |-> content]

IsUse(block) == block.kind = "use"
IsResult(block) == block.kind = "result"
IsThinking(block) == block.kind = "thinking"

NotResult(block) == ~IsResult(block)
NotThinking(block) == ~IsThinking(block)

AllBlocks(message, Test(_)) == \A i \in DOMAIN message.content : Test(message.content[i])
SomeBlock(message, Test(_)) == \E i \in DOMAIN message.content : Test(message.content[i])

HasContent(message) == message.content # <<>>

\* The blocks of a message that pass a test, and the messages that have any.
Retain(message, Test(_)) ==
  [message EXCEPT !.content = Picked(@, {i \in DOMAIN @ : Test(@[i])})]

WithContent(messages) == Picked(messages, {i \in DOMAIN messages : HasContent(messages[i])})

\* Every reasoning block dropped, and any message left with nothing else in it.
DropThinking(messages) ==
  WithContent([i \in DOMAIN messages |-> Retain(messages[i], NotThinking)])

-----------------------------------------------------------------------------
(* shape.rs: which orders of messages a transcript may hold. *)

\* A turn of nothing but answers to tool calls.
AnswersOnly(message) == HasContent(message) /\ AllBlocks(message, IsResult)

\* A turn that answers no tool call.
AsksOnly(message) == HasContent(message) /\ AllBlocks(message, NotResult)

\* Mutant: roles must alternate strictly.
JoinsStrictly(earlier, later) == earlier.role # later.role

Joins(earlier, later) ==
  \/ earlier.role # later.role
  \/ earlier.role = "user" /\ AnswersOnly(earlier) /\ AsksOnly(later)

Alternating(messages) ==
  \A i \in 1 .. Len(messages) - 1 : Joins(messages[i], messages[i + 1])

Opens(messages) == messages = <<>> \/ messages[1].role # "assistant"

Follows(stored, batch) ==
  CASE stored = <<>> -> Opens(batch)
    [] stored # <<>> /\ batch = <<>> -> TRUE
    [] OTHER -> Joins(stored[Len(stored)], batch[1])

Settled(messages) == messages # <<>> /\ messages[Len(messages)].role = "assistant"

Resumable(messages) ==
  \/ Settled(messages)
  \/ messages # <<>> /\ AnswersOnly(messages[Len(messages)])

-----------------------------------------------------------------------------
(* What the Messages API takes, as the doc comments of sandbx-compact,     *)
(* shape.rs and agent_wrapup.rs state it.                                  *)

CallsOf(message) ==
  {message.content[i].id : i \in {j \in DOMAIN message.content : IsUse(message.content[j])}}

AnswersIn(message) ==
  {message.content[i].id : i \in {j \in DOMAIN message.content : IsResult(message.content[j])}}

\* Results stand ahead of the prose they share a message with.
ResultsFirst(message) ==
  \A i, j \in DOMAIN message.content :
    IsResult(message.content[j]) /\ i < j => IsResult(message.content[i])

\* A request opens on a user turn, alternates, ends on a user turn, sends no
\* empty message, and answers every call it replays, and nothing else, in the
\* message right after it.
AcceptedByApi(request) ==
  /\ request # <<>>
  /\ request[1].role = "user"
  /\ request[Len(request)].role = "user"
  /\ \A i \in DOMAIN request : HasContent(request[i]) /\ ResultsFirst(request[i])
  /\ \A i \in 1 .. Len(request) - 1 : request[i].role # request[i + 1].role
  /\ AnswersIn(request[1]) = {}
  /\ \A i \in 1 .. Len(request) - 1 :
       AnswersIn(request[i + 1]) = CallsOf(request[i])
=============================================================================
