------------------------- MODULE Conversation_proofs -------------------------
(***************************************************************************)
(* Any number of runs over one stored session: what the transcript holds   *)
(* between them, what its stop says, and what every request carries of it. *)
(***************************************************************************)
EXTENDS Conversation, Compaction_proofs

-----------------------------------------------------------------------------
(* Messages in order. *)

\* Each message and the next are a pair of R.
InOrder(messages, R) ==
  \A i \in 1 .. Len(messages) - 1 : <<messages[i], messages[i + 1]>> \in R

\* Two sequences in order, and in order where they meet, are in order together.
LEMMA InOrderConcat ==
  ASSUME NEW T, NEW earlier \in Seq(T), NEW later \in Seq(T), NEW R,
         InOrder(earlier, R), InOrder(later, R),
         earlier # <<>> /\ later # <<>> => <<earlier[Len(earlier)], later[1]>> \in R
  PROVE  InOrder(earlier \o later, R)
<1> DEFINE both == earlier \o later
           n == Len(earlier)
           m == Len(later)
<1>1. /\ n \in Nat /\ m \in Nat /\ Len(both) = n + m
      /\ \A i \in 1 .. n : both[i] = earlier[i]
      /\ \A i \in n + 1 .. n + m : both[i] = later[i - n]
      /\ (n # 0 => earlier # <<>>) /\ (m # 0 => later # <<>>)
  OBVIOUS
<1> HIDE DEF both
<1>2. ASSUME NEW i \in 1 .. Len(both) - 1 PROVE <<both[i], both[i + 1]>> \in R
  <2> HIDE DEF n, m
  <2>1. CASE i < n
    <3>1. i \in 1 .. n - 1 /\ i \in 1 .. n /\ i + 1 \in 1 .. n
      BY <1>1, <2>1
    <3>2. <<earlier[i], earlier[i + 1]>> \in R
      BY <3>1 DEF InOrder, n
    <3> QED
      BY <1>1, <3>1, <3>2
  <2>2. CASE i = n
    <3>1. i \in 1 .. n /\ i + 1 \in n + 1 .. n + m /\ (i + 1) - n = 1 /\ n # 0 /\ m # 0
      BY <1>1, <2>2
    <3>2. both[i] = earlier[n] /\ both[i + 1] = later[1]
      BY <1>1, <2>2, <3>1
    <3> QED
      BY <1>1, <3>1, <3>2 DEF n
  <2>3. CASE i > n
    <3>1. /\ i \in n + 1 .. n + m /\ i + 1 \in n + 1 .. n + m /\ i - n \in 1 .. m - 1
          /\ (i + 1) - n = (i - n) + 1
      BY <1>1, <2>3
    <3>2. <<later[i - n], later[(i - n) + 1]>> \in R
      BY <3>1 DEF InOrder, m
    <3>3. both[i] = later[i - n] /\ both[i + 1] = later[(i + 1) - n]
      BY <1>1, <3>1
    <3> QED
      BY <3>1, <3>2, <3>3
  <2> QED
    BY <1>1, <2>1, <2>2, <2>3
<1> QED
  BY <1>2 DEF InOrder, both

\* The roles alternate, and each message answers the calls of the one before it.
Turns ==
  {pair \in Messages \X Messages :
     pair[1].role # pair[2].role /\ AnswersIn(pair[2]) = CallsOf(pair[1])}

\* The same of a transcript, where a prompt may follow the answers of a turn that was cut.
Flow ==
  {pair \in Messages \X Messages :
     Joins(pair[1], pair[2]) /\ AnswersIn(pair[2]) = CallsOf(pair[1])}

\* What a turn adds to a transcript: replies and calls, and answers.
Said ==
  {message \in Reasonless :
     \/ message.role = "assistant" /\ AsksOnly(message)
     \/ message.role = "user" /\ AnswersOnly(message) /\ CallsOf(message) = {}}

InTranscript == Said \cup {Ask}

\* What a turn may keep: whole rounds, and perhaps a reply after them.
Kept(messages) ==
  /\ messages \in Seq(Said) /\ InOrder(messages, Turns)
  /\ messages # <<>> => messages[1].role = "assistant" /\ CallsOf(messages[Len(messages)]) = {}

\* Whole rounds alone.
Rounds(messages) == Kept(messages) /\ ~Settled(messages)

\* A transcript, or its end from a prompt on.
Thread(messages) ==
  /\ messages \in Seq(InTranscript) /\ InOrder(messages, Flow)
  /\ messages # <<>> /\ messages[1] = Ask /\ CallsOf(messages[Len(messages)]) = {}

\* A message has a first block, which is a result or is not.
LEMMA OnlyOneKind ==
  ASSUME NEW message \in Messages
  PROVE  ~ (AsksOnly(message) /\ AnswersOnly(message))
<1>1. message.content \in Seq(Blocks)
  BY DEF Messages
<1>2. message.content # <<>> => 1 \in DOMAIN message.content
  BY <1>1
<1> QED
  BY <1>2 DEF AsksOnly, AnswersOnly, HasContent, AllBlocks, NotResult

\* The messages a run adds are of the vocabulary.
LEMMA Vocabulary ==
  /\ Say \in Said /\ Say.role = "assistant" /\ CallsOf(Say) = {}
  /\ Ask \in Reasonless /\ Ask.role = "user" /\ CallsOf(Ask) = {} /\ AnswersIn(Ask) = {}
  /\ AsksOnly(Ask) /\ ~AnswersOnly(Ask)
<1>1. TextBlock \in Blocks /\ TextBlock.kind = "text"
  BY DEF Blocks, TextBlock
<1>2. <<TextBlock>> \in Seq(Blocks) /\ <<TextBlock>> # <<>> /\ DOMAIN <<TextBlock>> = {1}
      /\ <<TextBlock>>[1] = TextBlock
  BY <1>1
<1>3. Say.content = <<TextBlock>> /\ Ask.content = <<TextBlock>> /\ Say \in Messages /\ Ask \in Messages
      /\ Say.role = "assistant" /\ Ask.role = "user"
  BY <1>2 DEF Say, Ask, Assistant, User, Messages, Roles
<1> QED
  BY <1>1, <1>2, <1>3 DEF Said, Reasonless, HasContent, AllBlocks, NotThinking, IsThinking, CallsOf, IsUse,
     AsksOnly, AnswersOnly, AnswersIn, NotResult, IsResult

LEMMA Kinds ==
  /\ Said \subseteq InTranscript /\ InTranscript \subseteq Reasonless /\ Reasonless \subseteq Messages
  /\ \A message \in InTranscript :
       \/ message.role = "assistant" /\ AsksOnly(message) /\ AnswersIn(message) = {}
       \/ message.role = "user" /\ AnswersOnly(message) /\ ~AsksOnly(message) /\ CallsOf(message) = {}
       \/ message = Ask
<1>1. Reasonless \subseteq Messages /\ Said \subseteq Reasonless
  BY DEF Reasonless, Said
<1>2. ASSUME NEW message \in Said
      PROVE  \/ message.role = "assistant" /\ AsksOnly(message) /\ AnswersIn(message) = {}
             \/ message.role = "user" /\ AnswersOnly(message) /\ ~AsksOnly(message)
                  /\ CallsOf(message) = {}
  <2>1. message \in Messages
    BY <1>1, <1>2
  <2> QED
    BY <1>2, <2>1, OnlyOneKind DEF Said, AsksOnly, AllBlocks, AnswersIn, NotResult, IsResult
<1> QED
  BY <1>1, <1>2, Vocabulary DEF InTranscript

\* Sequences of the narrower kinds are sequences of the wider.
LEMMA Widened ==
  /\ Seq(Said) \subseteq Seq(InTranscript) /\ Seq(Said) \subseteq Seq(Reasonless)
  /\ Seq(InTranscript) \subseteq Seq(Reasonless) /\ Seq(InTranscript) \subseteq Seq(Messages)
<1>1. Said \subseteq InTranscript /\ InTranscript \subseteq Reasonless /\ Reasonless \subseteq Messages
  BY Kinds
<1> HIDE DEF InTranscript, Said, Reasonless, Messages
<1> QED
  BY <1>1

LEMMA TurnsFlow == Turns \subseteq Flow
BY DEF Turns, Flow, Joins

\* A round is a call and the message that answers it.
LEMMA RoundIsWhole ==
  ASSUME NEW name \in ToolNames, Unused # {}
  PROVE  Rounds(Round(name))
<1> DEFINE id == CHOOSE c \in Unused : TRUE
           answer == ResultBlock(id, FALSE)
           asks == Assistant(<<UseBlock(id, name)>>)
           answers == User(<<answer>>)
<1>1. id \in CallIds
  BY DEF Unused
<1> HIDE DEF id
<1>2. /\ UseBlock(id, name) \in Blocks /\ UseBlock(id, name).kind = "use" /\ UseBlock(id, name).id = id
      /\ answer \in Blocks /\ answer.kind = "result" /\ answer.id = id
  BY <1>1 DEF Blocks, UseBlock, ResultBlock
<1> HIDE DEF answer
<1>3. /\ asks \in Messages /\ asks.role = "assistant" /\ AsksOnly(asks) /\ AllBlocks(asks, NotThinking)
      /\ CallsOf(asks) = {id}
  <2>1. asks.content = <<UseBlock(id, name)>> /\ asks.role = "assistant" /\ asks \in Messages
    BY <1>2 DEF Assistant, Messages, Roles
  <2>2. DOMAIN asks.content = {1} /\ asks.content[1] = UseBlock(id, name) /\ asks.content # <<>>
    BY <2>1
  <2> HIDE DEF asks
  <2> QED
    BY <1>2, <2>1, <2>2 DEF HasContent, AllBlocks, NotThinking, IsThinking, CallsOf, IsUse, AsksOnly,
       NotResult, IsResult
<1>4. /\ answers \in Messages /\ answers.role = "user" /\ AnswersOnly(answers)
      /\ AllBlocks(answers, NotThinking) /\ CallsOf(answers) = {} /\ AnswersIn(answers) = {id}
  <2>1. answers.content = <<answer>> /\ answers.role = "user" /\ answers \in Messages
    BY <1>2 DEF User, Messages, Roles
  <2>2. DOMAIN answers.content = {1} /\ answers.content[1] = answer
        /\ answers.content # <<>>
    BY <2>1
  <2> HIDE DEF answers
  <2> QED
    BY <1>2, <2>1, <2>2 DEF HasContent, AllBlocks, NotThinking, IsThinking, CallsOf, IsUse, AnswersIn,
       IsResult, AnswersOnly
<1>5. Round(name) = <<asks, answers>>
  BY DEF Round, id, answer
<1>6. asks \in Said /\ answers \in Said
  BY <1>3, <1>4 DEF Said, Reasonless, AsksOnly, AnswersOnly
<1> HIDE DEF asks, answers
<1> DEFINE round == <<asks, answers>>
<1>7. /\ round \in Seq(Said) /\ Len(round) = 2 /\ round # <<>>
      /\ round[1] = asks /\ round[2] = answers
  BY <1>6
<1> HIDE DEF round
<1>8. <<asks, answers>> \in Turns
  BY <1>3, <1>4 DEF Turns
<1>9. InOrder(round, Turns)
  <2>1. ASSUME NEW i \in 1 .. Len(round) - 1 PROVE i = 1 /\ i + 1 = 2
    BY <1>7, <2>1
  <2> QED
    BY <1>7, <1>8, <2>1 DEF InOrder
<1>10. ~Settled(round)
  BY <1>4, <1>7 DEF Settled
<1> QED
  BY <1>3, <1>4, <1>5, <1>7, <1>9, <1>10 DEF Rounds, Kept, round

\* A reply alone is something a turn may keep.
LEMMA ReplyIsKept == Kept(<<Say>>) /\ Settled(<<Say>>)
<1> DEFINE reply == <<Say>>
<1>1. /\ reply \in Seq(Said) /\ Len(reply) = 1 /\ reply[1] = Say /\ reply # <<>>
  BY Vocabulary
<1> HIDE DEF reply
<1>2. InOrder(reply, Turns) /\ Settled(reply)
  BY <1>1, Vocabulary DEF InOrder, Settled
<1> QED
  BY <1>1, <1>2, Vocabulary DEF Kept, reply

\* Nothing is whole rounds.
LEMMA NothingIsRounds == Rounds(<<>>)
BY DEF Rounds, Kept, InOrder, Settled

\* How whole rounds end, and how what may follow them begins.
LEMMA WhereRoundsMeet ==
  ASSUME NEW rounds, NEW more, Rounds(rounds), Kept(more), rounds # <<>>, more # <<>>
  PROVE  <<rounds[Len(rounds)], more[1]>> \in Turns /\ rounds[Len(rounds)].role = "user"
<1> DEFINE last == rounds[Len(rounds)]
<1>1. last \in Said /\ more[1] \in Said
  <2>1. rounds \in Seq(Said) /\ more \in Seq(Said)
    BY DEF Rounds, Kept
  <2> HIDE DEF Said
  <2> QED
    BY <2>1
<1>2. last.role # "assistant" /\ CallsOf(last) = {} /\ more[1].role = "assistant"
  BY DEF Rounds, Kept, Settled
<1>3. last \in Messages /\ more[1] \in Messages /\ AnswersIn(more[1]) = {} /\ last.role = "user"
  BY <1>1, <1>2, Kinds, Vocabulary
<1> QED
  BY <1>2, <1>3 DEF Turns

\* What comes after whole rounds settles whether the whole is settled.
LEMMA RoundsGoOn ==
  ASSUME NEW rounds, NEW more, Rounds(rounds), Kept(more)
  PROVE  /\ Kept(rounds \o more)
         /\ more # <<>> => (Settled(rounds \o more) <=> Settled(more))
         /\ more = <<>> => rounds \o more = rounds
<1> DEFINE both == rounds \o more
           n == Len(rounds)
           m == Len(more)
<1>1. rounds \in Seq(Said) /\ more \in Seq(Said)
  BY DEF Rounds, Kept
<1> HIDE DEF Said
<1>2. InOrder(both, Turns)
  BY <1>1, WhereRoundsMeet, InOrderConcat DEF Rounds, Kept
<1>3. /\ both \in Seq(Said) /\ Len(both) = n + m /\ n \in Nat /\ m \in Nat
      /\ (rounds = <<>> <=> n = 0) /\ (more = <<>> <=> m = 0) /\ (both = <<>> <=> n + m = 0)
      /\ (n # 0 => both[1] = rounds[1]) /\ (n = 0 => both = more) /\ (m = 0 => both = rounds)
      /\ (m # 0 => both[n + m] = more[m])
  BY <1>1
<1> HIDE DEF both, n, m
<1>4. both # <<>> => both[1].role = "assistant"
  BY <1>3 DEF Rounds, Kept
<1>5. both # <<>> => CallsOf(both[Len(both)]) = {}
  BY <1>3 DEF Rounds, Kept, n, m
<1>6. more # <<>> => (Settled(both) <=> Settled(more))
  BY <1>3 DEF Settled, m
<1> QED
  BY <1>2, <1>3, <1>4, <1>5, <1>6 DEF Kept, both

-----------------------------------------------------------------------------
(* Merging runs of user messages. *)

\* The merge, as a function of how many messages it has taken.
IsMerge(f, history, withheld, length) ==
  f = [n \in 0 .. length |->
         IF n = 0 THEN NothingMerged(withheld) ELSE MergeNext(f[n - 1], history[n], withheld)]

LEMMA MergeExists ==
  ASSUME NEW history, NEW withheld, NEW length \in Nat
  PROVE  \E f : IsMerge(f, history, withheld, length)
<1> DEFINE S == {n \in Nat : \E f : IsMerge(f, history, withheld, n)}
<1>1. 0 \in S
  <2> DEFINE f == [n \in 0 .. 0 |-> NothingMerged(withheld)]
  <2>1. IsMerge(f, history, withheld, 0)
    BY DEF IsMerge
  <2> QED
    BY <2>1
<1>2. ASSUME NEW n \in Nat, n \in S PROVE n + 1 \in S
  <2>1. PICK f : IsMerge(f, history, withheld, n)
    BY <1>2
  <2> DEFINE g == [m \in 0 .. n + 1 |-> IF m <= n THEN f[m] ELSE MergeNext(f[n], history[m], withheld)]
             step(m) == IF m = 0 THEN NothingMerged(withheld)
                                 ELSE MergeNext(g[m - 1], history[m], withheld)
  <2>2. ASSUME NEW m \in 0 .. n + 1 PROVE g[m] = step(m)
    <3>1. CASE m = 0
      <4>1. g[m] = f[m]
        BY <3>1
      <4>2. f[m] = NothingMerged(withheld)
        BY <2>1, <3>1 DEF IsMerge
      <4> QED
        BY <4>1, <4>2, <3>1
    <3>2. CASE m # 0 /\ m <= n
      <4>1. m - 1 \in 0 .. n + 1 /\ m - 1 <= n /\ m \in 0 .. n
        BY <3>2
      <4>2. g[m] = f[m] /\ g[m - 1] = f[m - 1]
        BY <3>2, <4>1
      <4>3. f[m] = MergeNext(f[m - 1], history[m], withheld)
        BY <2>1, <3>2, <4>1 DEF IsMerge
      <4> QED
        BY <4>2, <4>3, <3>2
    <3>3. CASE m = n + 1
      <4>1. g[m] = MergeNext(f[n], history[m], withheld)
        BY <3>3
      <4>2. m - 1 = n /\ g[m - 1] = f[n]
        BY <3>3
      <4> QED
        BY <4>1, <4>2, <3>3
    <3> QED
      BY <3>1, <3>2, <3>3
  <2>3. IsMerge(g, history, withheld, n + 1)
    <3>1. g = [m \in 0 .. n + 1 |-> step(m)]
      BY <2>2
    <3> QED
      BY <3>1 DEF IsMerge
  <2> QED
    BY <2>3
<1>3. 0 .. length \subseteq S
  <2> HIDE DEF S
  <2> QED
    BY <1>1, <1>2, InductionUpTo
<1> QED
  BY <1>3

\* MergeUserRuns is the end of such a merge.
LEMMA MergeEnds ==
  ASSUME NEW history, Len(history) \in Nat, NEW withheld
  PROVE  \E f : /\ IsMerge(f, history, withheld, Len(history))
                /\ MergeUserRuns(history, withheld) = f[Len(history)]
<1> DEFINE upTo == CHOOSE f : IsMerge(f, history, withheld, Len(history))
<1>1. IsMerge(upTo, history, withheld, Len(history))
  BY MergeExists
<1>2. MergeUserRuns(history, withheld) = upTo[Len(history)]
  BY DEF MergeUserRuns, IsMerge
<1> QED
  BY <1>1, <1>2

LEMMA MergeUnfolds ==
  ASSUME NEW history, Len(history) \in Nat, NEW withheld, NEW f,
         IsMerge(f, history, withheld, Len(history))
  PROVE  /\ f[0] = NothingMerged(withheld)
         /\ \A n \in Nat : n < Len(history) =>
              f[n + 1] = MergeNext(f[n], history[n + 1], withheld)
<1>1. f[0] = NothingMerged(withheld)
  BY DEF IsMerge
<1>2. ASSUME NEW n \in Nat, n < Len(history)
      PROVE  f[n + 1] = MergeNext(f[n], history[n + 1], withheld)
  <2>1. n + 1 \in 0 .. Len(history) /\ n + 1 # 0 /\ (n + 1) - 1 = n
    BY <1>2
  <2> QED
    BY <2>1 DEF IsMerge
<1> QED
  BY <1>1, <1>2

\* A merge of a transcript, or of its end from a prompt on.
Merging(f, history, withheld) ==
  /\ history \in Seq(InTranscript) /\ InOrder(history, Flow)
  /\ IsMerge(f, history, withheld, Len(history))

\* Where a message is merged onto the one before it: a prompt onto the answers of a
\* turn that was cut, and nothing else in a transcript.
Onto(history, n) == n > 0 /\ history[n].role = "user" /\ history[n + 1].role = "user"

\* The message of the request that the n-th of the transcript is in, once it is merged.
Joint(history, n) ==
  IF Onto(history, n - 1)
    THEN [history[n - 1] EXCEPT !.content = @ \o history[n].content]
    ELSE history[n]

LEMMA OntoIsAsking ==
  ASSUME NEW history \in Seq(InTranscript), InOrder(history, Flow),
         NEW n \in Nat, n < Len(history), Onto(history, n)
  PROVE  /\ history[n + 1] = Ask /\ AnswersOnly(history[n]) /\ history[n] # Ask
         /\ history[n] \in InTranscript /\ CallsOf(history[n]) = {}
<1>1. n \in 1 .. Len(history) - 1 /\ n \in 1 .. Len(history) /\ n + 1 \in 1 .. Len(history)
  BY DEF Onto
<1>2. history[n] \in InTranscript /\ history[n + 1] \in InTranscript
  <2> HIDE DEF InTranscript
  <2> QED
    BY <1>1
<1>3. Joins(history[n], history[n + 1])
  BY <1>1 DEF InOrder, Flow
<1>4. AnswersOnly(history[n]) /\ AsksOnly(history[n + 1])
  BY <1>3 DEF Joins, Onto
<1> QED
  BY <1>2, <1>4, Kinds, Vocabulary DEF Onto

\* What a request may send: content without reasoning, any results ahead of the prose, and
\* calls of the model's only.
Sendable ==
  {message \in Messages :
     /\ HasContent(message) /\ ResultsFirst(message) /\ AllBlocks(message, NotThinking)
     /\ message.role = "user" => CallsOf(message) = {}}

LEMMA InTranscriptSends ==
  ASSUME NEW message \in InTranscript
  PROVE  message \in Sendable
<1>1. message \in Reasonless /\ (AsksOnly(message) \/ AnswersOnly(message))
  BY Kinds, Vocabulary
<1>2. message.role = "user" => CallsOf(message) = {}
  BY Kinds, Vocabulary
<1>3. HasContent(message) /\ ResultsFirst(message)
  BY <1>1 DEF AsksOnly, AnswersOnly, AllBlocks, ResultsFirst, NotResult
<1>4. message \in Messages /\ AllBlocks(message, NotThinking)
  BY <1>1 DEF Reasonless
<1> QED
  BY <1>2, <1>3, <1>4 DEF Sendable

\* The elements of two sequences in a row.
LEMMA InARow ==
  ASSUME NEW T, NEW front \in Seq(T), NEW back \in Seq(T)
  PROVE  LET both == front \o back
             n    == Len(front)
             m    == Len(back)
         IN  /\ both \in Seq(T) /\ n \in Nat /\ m \in Nat /\ Len(both) = n + m
             /\ DOMAIN both = 1 .. n + m /\ DOMAIN front = 1 .. n /\ DOMAIN back = 1 .. m
             /\ n # 0 <=> front # <<>>
             /\ \A i \in 1 .. n : both[i] = front[i]
             /\ \A i \in n + 1 .. n + m : both[i] = back[i - n]
OBVIOUS

\* A message followed by a prompt, as one.
LEMMA AnswersThenAsk ==
  ASSUME NEW answers \in InTranscript, AnswersOnly(answers), answers.role = "user",
         CallsOf(answers) = {}
  PROVE  LET both == [answers EXCEPT !.content = @ \o Ask.content]
         IN  /\ both \in Sendable /\ both.role = "user"
             /\ CallsOf(both) = {} /\ AnswersIn(both) = AnswersIn(answers)
             /\ Retain(both, NotResult) = Ask /\ SomeBlock(both, NotResult)
<1> DEFINE both == [answers EXCEPT !.content = @ \o Ask.content]
           front == answers.content
           back == Ask.content
<1>1. /\ answers \in Messages /\ Ask \in Messages /\ answers.role = "user" /\ Ask.role = "user"
      /\ front \in Seq(Blocks) /\ back \in Seq(Blocks) /\ Len(back) = 1 /\ back[1] = TextBlock
      /\ front # <<>>
  BY Kinds, Vocabulary DEF Messages, Ask, User, AnswersOnly, HasContent
<1>2. both.content = front \o back /\ both.role = "user"
  BY <1>1 DEF Messages
<1> DEFINE n == Len(front)
           content == front \o back
<1>3. /\ content \in Seq(Blocks) /\ n \in Nat /\ n # 0 /\ Len(content) = n + 1
      /\ DOMAIN content = 1 .. n + 1 /\ DOMAIN front = 1 .. n
      /\ \A i \in 1 .. n : content[i] = front[i]
      /\ content[n + 1] = TextBlock
  <2> DEFINE m == Len(back)
  <2>1. /\ content \in Seq(Blocks) /\ n \in Nat /\ m \in Nat /\ Len(content) = n + m
        /\ DOMAIN content = 1 .. n + m /\ DOMAIN front = 1 .. n
        /\ n # 0 <=> front # <<>>
        /\ \A i \in 1 .. n : content[i] = front[i]
        /\ \A i \in n + 1 .. n + m : content[i] = back[i - n]
    <3>1. front \in Seq(Blocks) /\ back \in Seq(Blocks)
      BY <1>1
    <3> HIDE DEF front, back
    <3> QED
      BY <3>1, InARow
  <2>2. m = 1 /\ back[1] = TextBlock /\ n # 0
    BY <1>1, <2>1
  <2> HIDE DEF Blocks, content, n, m, back, TextBlock
  <2>3. n + 1 \in n + 1 .. n + m /\ (n + 1) - n = 1
    BY <2>1, <2>2
  <2> QED
    BY <2>1, <2>2, <2>3
<1>4. \A i \in 1 .. n : IsResult(front[i])
  BY <1>3 DEF AnswersOnly, AllBlocks
<1>5. ~IsResult(TextBlock) /\ ~IsUse(TextBlock)
  BY DEF TextBlock, IsResult, IsUse
<1>6. both \in Messages
  BY <1>1, <1>2, <1>3 DEF Messages
<1>7. both = [role |-> "user", content |-> content]
  <2> HIDE DEF both, front, back
  <2> QED
    BY <1>2, <1>6 DEF Messages
<1> HIDE DEF content, front, back, n, both, TextBlock, IsResult
<1>8. HasContent(both) /\ ResultsFirst(both)
  <2>1. content # <<>>
    BY <1>3
  <2>2. ASSUME NEW i \in 1 .. n + 1, NEW j \in 1 .. n + 1, IsResult(content[j]), i < j
        PROVE  IsResult(content[i])
    <3>1. i \in 1 .. n
      BY <1>3, <2>2
    <3> QED
      BY <1>3, <1>4, <3>1
  <2> QED
    BY <1>2, <1>3, <2>1, <2>2 DEF HasContent, ResultsFirst, content
<1>9. CallsOf(both) = {}
  <2>1. ASSUME NEW i \in 1 .. n + 1 PROVE ~IsUse(content[i])
    <3>1. CASE i = n + 1
      BY <1>3, <1>5, <3>1
    <3>2. CASE i \in 1 .. n
      BY <1>3, <1>4, <3>2 DEF IsUse, IsResult
    <3> QED
      BY <1>3, <3>1, <3>2
  <2> QED
    BY <1>7, <1>3, <2>1 DEF CallsOf
<1>10. AnswersIn(both) = AnswersIn(answers)
  <2>1. ASSUME NEW i \in 1 .. n + 1 PROVE IsResult(content[i]) <=> i \in 1 .. n
    <3>1. CASE i = n + 1
      <4>1. i \notin 1 .. n
        BY <1>3, <3>1
      <4> QED
        BY <1>3, <1>5, <3>1, <4>1
    <3>2. CASE i \in 1 .. n
      BY <1>3, <1>4, <3>2
    <3> QED
      BY <1>3, <3>1, <3>2
  <2>2. 1 .. n \subseteq 1 .. n + 1
    BY <1>3
  <2>3. AnswersIn(both) = {content[i].id : i \in 1 .. n}
    BY <1>7, <1>3, <2>1, <2>2 DEF AnswersIn
  <2>4. AnswersIn(answers) = {front[i].id : i \in 1 .. n}
    BY <1>3, <1>4 DEF AnswersIn, front
  <2> QED
    BY <1>3, <2>3, <2>4
<1>11. Retain(both, NotResult) = Ask
  <2> DEFINE positions == {i \in DOMAIN content : NotResult(content[i])}
  <2>1. \A i \in DOMAIN content : i \in positions <=> i > n
    <3>1. ASSUME NEW i \in 1 .. n + 1 PROVE NotResult(content[i]) <=> i > n
      <4>1. CASE i = n + 1
        <5>1. i > n
          BY <1>3, <4>1
        <5> QED
          BY <1>3, <1>5, <4>1, <5>1 DEF NotResult
      <4>2. CASE i \in 1 .. n
        <5>1. ~(i > n)
          BY <1>3, <4>2
        <5> QED
          BY <1>3, <1>4, <4>2, <5>1 DEF NotResult
      <4> QED
        BY <1>3, <4>1, <4>2
    <3> QED
      BY <1>3, <3>1
  <2>2. Picked(content, positions) = back
    <3> HIDE DEF positions
    <3>1. front \in Seq(Blocks) /\ back \in Seq(Blocks)
      BY <1>1
    <3>2. \A i \in DOMAIN (front \o back) : i \in positions <=> i > Len(front)
      BY <2>1 DEF content, n
    <3> QED
      BY <3>1, <3>2, PickedBack DEF content
  <2>3. Retain(both, NotResult) = [both EXCEPT !.content = Picked(content, positions)]
    BY <1>7 DEF Retain
  <2>4. Retain(both, NotResult) = [role |-> "user", content |-> back]
    BY <1>7, <2>2, <2>3
  <2> QED
    BY <2>4 DEF back, Ask, User
<1>12. AllBlocks(both, NotThinking)
  <2>1. ASSUME NEW i \in 1 .. n + 1 PROVE NotThinking(content[i])
    <3>1. CASE i = n + 1
      BY <1>3, <3>1 DEF TextBlock, NotThinking, IsThinking
    <3>2. CASE i \in 1 .. n
      BY <1>3, <1>4, <3>2 DEF IsResult, NotThinking, IsThinking
    <3> QED
      BY <1>3, <3>1, <3>2
  <2> QED
    BY <1>7, <1>3, <2>1 DEF AllBlocks
<1>13. SomeBlock(both, NotResult)
  <2>1. n + 1 \in DOMAIN content /\ NotResult(content[n + 1])
    <3>1. n + 1 \in 1 .. n + 1
      BY <1>3
    <3> QED
      BY <1>3, <1>5, <3>1 DEF NotResult
  <2> QED
    BY <1>7, <2>1 DEF SomeBlock
<1> QED
  BY <1>2, <1>6, <1>8, <1>9, <1>10, <1>11, <1>12, <1>13 DEF Sendable, both

LEMMA RetainsAsk == Retain(Ask, NotResult) = Ask /\ SomeBlock(Ask, NotResult)
<1>1. /\ Ask = [role |-> "user", content |-> <<TextBlock>>]
      /\ DOMAIN Ask.content = {1} /\ Ask.content[1] = TextBlock
  BY DEF Ask, User
<1>2. NotResult(TextBlock)
  BY DEF TextBlock, NotResult, IsResult
<1>3. {i \in DOMAIN Ask.content : NotResult(Ask.content[i])} = DOMAIN Ask.content
  BY <1>1, <1>2
<1>4. Picked(Ask.content, DOMAIN Ask.content) = Ask.content
  BY DEF Picked
<1> QED
  BY <1>1, <1>2, <1>3, <1>4 DEF Retain, SomeBlock

\* What the joint message is: of the role and with the calls of the message taken, with the
\* answers ahead of a prompt, and nothing but the prompt without them.
LEMMA JointIs ==
  ASSUME NEW history \in Seq(InTranscript), InOrder(history, Flow), NEW n \in 1 .. Len(history)
  PROVE  LET joint == Joint(history, n)
         IN  /\ history[n] \in InTranscript
             /\ joint \in Sendable /\ joint.role = history[n].role
             /\ CallsOf(joint) = CallsOf(history[n])
             /\ Onto(history, n - 1) => AnswersIn(joint) = AnswersIn(history[n - 1])
             /\ ~Onto(history, n - 1) => joint = history[n]
             /\ history[n] = Ask => Retain(joint, NotResult) = Ask /\ SomeBlock(joint, NotResult)
             /\ history[n] # Ask => joint = history[n]
<1>1. history[n] \in InTranscript /\ Len(history) \in Nat
  <2> HIDE DEF InTranscript
  <2> QED
    OBVIOUS
<1>2. CASE Onto(history, n - 1)
  <2>1. n - 1 \in Nat /\ n - 1 < Len(history) /\ (n - 1) + 1 = n
    BY <1>1, <1>2 DEF Onto
  <2>2. /\ history[n] = Ask /\ AnswersOnly(history[n - 1]) /\ history[n - 1] \in InTranscript
        /\ CallsOf(history[n - 1]) = {}
    <3>1. /\ history[(n - 1) + 1] = Ask /\ AnswersOnly(history[n - 1])
          /\ history[n - 1] \in InTranscript /\ CallsOf(history[n - 1]) = {}
      BY <1>2, <2>1, OntoIsAsking
    <3> QED
      BY <2>1, <3>1
  <2>3. history[n - 1].role = "user"
    BY <1>2 DEF Onto
  <2>4. Joint(history, n) = [history[n - 1] EXCEPT !.content = @ \o Ask.content]
    BY <1>2, <2>2 DEF Joint
  <2> DEFINE answers == history[n - 1]
  <2>5. LET both == [answers EXCEPT !.content = @ \o Ask.content]
        IN  /\ both \in Sendable /\ both.role = "user"
            /\ CallsOf(both) = {} /\ AnswersIn(both) = AnswersIn(answers)
            /\ Retain(both, NotResult) = Ask /\ SomeBlock(both, NotResult)
    <3>1. answers \in InTranscript /\ AnswersOnly(answers) /\ answers.role = "user"
          /\ CallsOf(answers) = {}
      BY <2>2, <2>3
    <3> HIDE DEF answers
    <3> QED
      BY <3>1, AnswersThenAsk
  <2> QED
    BY <1>1, <1>2, <2>2, <2>4, <2>5, Vocabulary
<1>3. CASE ~Onto(history, n - 1)
  <2>1. Joint(history, n) = history[n]
    BY <1>3 DEF Joint
  <2>2. Joint(history, n) \in Sendable
    BY <1>1, <2>1, InTranscriptSends
  <2>3. history[n] = Ask => Retain(history[n], NotResult) = Ask /\ SomeBlock(history[n], NotResult)
    BY RetainsAsk
  <2> QED
    BY <1>1, <1>3, <2>1, <2>2, <2>3
<1> QED
  BY <1>2, <1>3

\* A message that something is merged onto has nothing merged into it.
LEMMA OntoIsAlone ==
  ASSUME NEW history \in Seq(InTranscript), InOrder(history, Flow), NEW n \in Nat,
         n < Len(history), Onto(history, n)
  PROVE  Joint(history, n) = history[n] /\ AnswersOnly(history[n]) /\ history[n] # Ask
<1>1. AnswersOnly(history[n]) /\ history[n] # Ask /\ n \in 1 .. Len(history)
  BY OntoIsAsking DEF Onto
<1> QED
  BY <1>1, JointIs

\* How many messages the request has of the first n.
Size(f, n) == Len(f[n].history)

\* A merge after n messages: a request in order, one way back for each of its messages, and
\* at its end the message just taken.
Shape(f, history, n) ==
  /\ f[n].length = n
  /\ f[n].history \in Seq(Sendable) /\ InOrder(f[n].history, Turns)
  /\ f[n].opens \in Seq(Nat) /\ Len(f[n].opens) = Size(f, n)
  /\ n = 0 => f[n].history = <<>>
  /\ n > 0 => f[n].history # <<>> /\ f[n].history[Size(f, n)] = Joint(history, n)

\* What taking one more message does.
Taken(f, history, withheld, n) ==
  /\ f[n + 1].length = n + 1
  /\ f[n + 1].history =
       IF Onto(history, n) THEN [f[n].history EXCEPT ![Size(f, n)] = Joint(history, n + 1)]
                           ELSE Append(f[n].history, Joint(history, n + 1))
  /\ f[n + 1].opens = IF Onto(history, n) THEN [f[n].opens EXCEPT ![Size(f, n)] = n]
                                          ELSE Append(f[n].opens, n)
  /\ f[n + 1].withheld = IF n # withheld THEN f[n].withheld
                         ELSE IF Onto(history, n) THEN Size(f, n) - 1 ELSE Size(f, n)

LEMMA MergeStep ==
  ASSUME NEW history, NEW withheld, NEW f, Merging(f, history, withheld),
         NEW n \in Nat, n < Len(history), Shape(f, history, n)
  PROVE  Taken(f, history, withheld, n)
<1> DEFINE message == history[n + 1]
           last == Size(f, n)
           onto == /\ message.role = "user"
                   /\ f[n].history # <<>> /\ Last(f[n].history).role = "user"
<1>1. history \in Seq(InTranscript) /\ InOrder(history, Flow) /\ Len(history) \in Nat
  BY DEF Merging
<1>2. f[n + 1] = MergeNext(f[n], history[n + 1], withheld)
  BY <1>1, MergeUnfolds DEF Merging
<1>3. f[n].length = n
  BY DEF Shape
<1>4. n > 0 => f[n].history # <<>> /\ Last(f[n].history) = Joint(history, n)
  BY DEF Shape, Last, Size
<1>5. n > 0 => Joint(history, n).role = history[n].role
  BY <1>1, JointIs
<1>6. onto <=> Onto(history, n)
  BY <1>4, <1>5 DEF Onto, Shape
<1>7. Onto(history, n) =>
        /\ Last(f[n].history) = history[n] /\ f[n].history[last] = history[n]
        /\ AllBlocks(Last(f[n].history), IsResult)
        /\ Joint(history, n + 1) = [history[n] EXCEPT !.content = @ \o message.content]
  <2> SUFFICES ASSUME Onto(history, n)
               PROVE  /\ Last(f[n].history) = history[n] /\ f[n].history[last] = history[n]
                      /\ AllBlocks(Last(f[n].history), IsResult)
                      /\ Joint(history, n + 1) = [history[n] EXCEPT !.content = @ \o message.content]
    OBVIOUS
  <2>1. n > 0 /\ (n + 1) - 1 = n
    BY DEF Onto
  <2>2. Last(f[n].history) = history[n] /\ AnswersOnly(history[n])
    BY <1>1, <1>4, <2>1, OntoIsAlone
  <2>3. Last(f[n].history) = f[n].history[last]
    BY DEF Last, Size
  <2>4. Joint(history, n + 1) = [history[n] EXCEPT !.content = @ \o message.content]
    BY <2>1 DEF Joint
  <2> QED
    BY <2>2, <2>3, <2>4 DEF AnswersOnly
<1>8. ~Onto(history, n) => Joint(history, n + 1) = message
  <2>1. (n + 1) - 1 = n
    OBVIOUS
  <2> QED
    BY <2>1 DEF Joint
<1> HIDE DEF onto, message, last
<1>9. MergeNext(f[n], message, withheld)
       = [history |-> IF onto THEN [f[n].history EXCEPT ![last].content = @ \o message.content]
                              ELSE Append(f[n].history, message),
          opens   |-> IF ~onto THEN Append(f[n].opens, f[n].length)
                      ELSE IF AllBlocks(Last(f[n].history), IsResult)
                        THEN [f[n].opens EXCEPT ![last] = f[n].length]
                        ELSE f[n].opens,
          withheld |-> IF f[n].length = withheld THEN (IF onto THEN last - 1 ELSE last)
                                                 ELSE f[n].withheld,
          length  |-> f[n].length + 1]
  BY DEF MergeNext, onto, last, Size
<1>10. f[n + 1] = MergeNext(f[n], message, withheld)
  BY <1>2 DEF message
<1>11. CASE Onto(history, n)
  <2>1. [f[n].history EXCEPT ![last].content = @ \o message.content]
          = [f[n].history EXCEPT ![last] = Joint(history, n + 1)]
    BY <1>7, <1>11
  <2>2. /\ f[n + 1].history = [f[n].history EXCEPT ![last] = Joint(history, n + 1)]
        /\ f[n + 1].opens = [f[n].opens EXCEPT ![last] = n]
        /\ f[n + 1].withheld = IF n # withheld THEN f[n].withheld ELSE last - 1
        /\ f[n + 1].length = n + 1
    BY <1>3, <1>6, <1>7, <1>9, <1>10, <1>11, <2>1
  <2> QED
    BY <1>11, <2>2 DEF last, Taken
<1>12. CASE ~Onto(history, n)
  <2>1. /\ f[n + 1].history = Append(f[n].history, Joint(history, n + 1))
        /\ f[n + 1].opens = Append(f[n].opens, n)
        /\ f[n + 1].withheld = IF n # withheld THEN f[n].withheld ELSE last
        /\ f[n + 1].length = n + 1
    BY <1>3, <1>6, <1>8, <1>9, <1>10, <1>12, SMTT(30)
  <2> QED
    BY <1>12, <2>1 DEF last, Taken
<1> QED
  BY <1>11, <1>12

\* A message appended to a request in order, or put in place of its last.
LEMMA AppendInOrder ==
  ASSUME NEW T, NEW messages \in Seq(T), NEW message \in T, NEW R, InOrder(messages, R),
         messages # <<>> => <<messages[Len(messages)], message>> \in R
  PROVE  /\ Append(messages, message) \in Seq(T) /\ InOrder(Append(messages, message), R)
         /\ Len(Append(messages, message)) = Len(messages) + 1
         /\ Append(messages, message)[Len(messages) + 1] = message
         /\ \A i \in 1 .. Len(messages) : Append(messages, message)[i] = messages[i]
<1> DEFINE longer == Append(messages, message)
           n == Len(messages)
<1>1. /\ longer \in Seq(T) /\ n \in Nat /\ Len(longer) = n + 1 /\ longer[n + 1] = message
      /\ \A i \in 1 .. n : longer[i] = messages[i]
      /\ n # 0 => messages # <<>>
  OBVIOUS
<1> HIDE DEF longer
<1>2. ASSUME NEW i \in 1 .. Len(longer) - 1 PROVE <<longer[i], longer[i + 1]>> \in R
  <2> HIDE DEF n
  <2>1. CASE i < n
    <3>1. i \in 1 .. n - 1 /\ i \in 1 .. n /\ i + 1 \in 1 .. n
      BY <1>1, <2>1
    <3>2. <<messages[i], messages[i + 1]>> \in R
      BY <3>1 DEF InOrder, n
    <3> QED
      BY <1>1, <3>1, <3>2
  <2>2. CASE i = n
    <3>1. i \in 1 .. n /\ n # 0
      BY <1>1, <2>2
    <3>2. <<messages[n], message>> \in R
      BY <1>1, <3>1 DEF n
    <3> QED
      BY <1>1, <2>2, <3>1, <3>2
  <2> QED
    BY <1>1, <2>1, <2>2
<1> QED
  BY <1>1, <1>2 DEF InOrder, longer

LEMMA LastInOrder ==
  ASSUME NEW T, NEW R, NEW messages \in Seq(T), NEW message \in T,
         messages # <<>>, InOrder(messages, R),
         {other \in T : <<other, messages[Len(messages)]>> \in R}
           \subseteq {other \in T : <<other, message>> \in R},
         NEW changed, changed = [messages EXCEPT ![Len(messages)] = message]
  PROVE  /\ changed \in Seq(T) /\ InOrder(changed, R) /\ Len(changed) = Len(messages)
         /\ Len(messages) \in 1 .. Len(messages)
         /\ changed[Len(messages)] = message
         /\ \A i \in 1 .. Len(messages) - 1 : changed[i] = messages[i]
<1> DEFINE n == Len(messages)
<1>1. /\ changed \in Seq(T) /\ n \in Nat /\ n # 0 /\ Len(changed) = n /\ changed[n] = message
      /\ \A i \in 1 .. n - 1 : changed[i] = messages[i]
      /\ \A i \in 1 .. n : messages[i] \in T
  OBVIOUS
<1>2. ASSUME NEW i \in 1 .. n - 1 PROVE <<changed[i], changed[i + 1]>> \in R
  <2>0. <<messages[i], messages[i + 1]>> \in R
    BY DEF InOrder
  <2> HIDE DEF n
  <2>1. CASE i + 1 < n
    <3>1. i \in 1 .. n - 1 /\ i + 1 \in 1 .. n - 1
      BY <1>1, <2>1
    <3> QED
      BY <1>1, <2>0, <3>1
  <2>2. CASE i + 1 = n
    <3>1. i \in 1 .. n - 1 /\ i \in 1 .. n
      BY <1>1, <2>2
    <3>2. messages[i] \in T /\ <<messages[i], messages[n]>> \in R
      BY <1>1, <2>0, <2>2, <3>1
    <3>3. <<messages[i], message>> \in R
      BY <3>2 DEF n
    <3> QED
      BY <1>1, <2>2, <3>1, <3>3
  <2> QED
    BY <1>1, <2>1, <2>2
<1>3. n \in 1 .. n
  <2> HIDE DEF n
  <2> QED
    BY <1>1
<1> QED
  BY <1>1, <1>2, <1>3, Zenon DEF InOrder

\* A merge has its shape after every message.
LEMMA MergeShape ==
  ASSUME NEW history, NEW withheld, NEW f, Merging(f, history, withheld)
  PROVE  \A n \in 0 .. Len(history) : Shape(f, history, n)
<1> DEFINE S == {n \in Nat : n <= Len(history) => Shape(f, history, n)}
<1>0. history \in Seq(InTranscript) /\ InOrder(history, Flow) /\ Len(history) \in Nat
  BY DEF Merging
<1>1. 0 \in S
  <2>1. f[0] = NothingMerged(withheld)
    BY <1>0, MergeUnfolds DEF Merging
  <2>2. Shape(f, history, 0)
    BY <2>1 DEF Shape, NothingMerged, InOrder, Size
  <2> QED
    BY <2>2
<1>2. ASSUME NEW n \in Nat, n \in S, n < Len(history) PROVE n + 1 \in S
  <2> DEFINE old == f[n].history
             last == Size(f, n)
             joint == Joint(history, n + 1)
  <2>1. Shape(f, history, n) /\ n + 1 \in Nat /\ n + 1 \in 1 .. Len(history) /\ (n + 1) - 1 = n
    BY <1>0, <1>2
  <2>2. /\ old \in Seq(Sendable) /\ InOrder(old, Turns) /\ last = Len(old) /\ last \in Nat
        /\ f[n].opens \in Seq(Nat) /\ Len(f[n].opens) = last
        /\ n > 0 => old # <<>> /\ old[last] = Joint(history, n)
        /\ n = 0 => old = <<>>
    BY <2>1 DEF Shape, Size
  <2>3. /\ f[n + 1].length = n + 1
        /\ f[n + 1].history = IF Onto(history, n) THEN [old EXCEPT ![last] = joint]
                                                  ELSE Append(old, joint)
        /\ f[n + 1].opens = IF Onto(history, n) THEN [f[n].opens EXCEPT ![last] = n]
                                                ELSE Append(f[n].opens, n)
    <3>1. Taken(f, history, withheld, n)
      BY <1>2, <2>1, MergeStep
    <3> QED
      BY <3>1 DEF Taken
  <2>4. /\ joint \in Sendable /\ joint.role = history[n + 1].role
        /\ Onto(history, n) => AnswersIn(joint) = AnswersIn(history[n])
        /\ ~Onto(history, n) => joint = history[n + 1]
    <3>1. LET j == Joint(history, n + 1)
          IN  /\ j \in Sendable /\ j.role = history[n + 1].role
              /\ Onto(history, (n + 1) - 1) => AnswersIn(j) = AnswersIn(history[(n + 1) - 1])
              /\ ~Onto(history, (n + 1) - 1) => j = history[n + 1]
      BY <1>0, <2>1, JointIs
    <3> QED
      BY <2>1, <3>1
  <2>5. n > 0 => /\ n \in 1 .. Len(history) - 1
                 /\ Joint(history, n) \in Sendable /\ Joint(history, n).role = history[n].role
                 /\ CallsOf(Joint(history, n)) = CallsOf(history[n])
    BY <1>0, <1>2, JointIs
  <2> HIDE DEF old, last, joint
  <2>6. CASE Onto(history, n)
    <3>1. Joint(history, n) = history[n] /\ n > 0
      BY <1>0, <1>2, <2>6, OntoIsAlone DEF Onto
    <3>2. history[n].role = "user" /\ history[n + 1].role = "user"
      BY <2>6 DEF Onto
    <3>3. ASSUME NEW other \in Sendable, <<other, old[Len(old)]>> \in Turns
          PROVE  <<other, joint>> \in Turns
      <4>1. old[Len(old)] = history[n] /\ joint \in Messages
        BY <2>2, <2>4, <3>1 DEF Sendable
      <4> QED
        BY <2>4, <2>6, <3>2, <3>3, <4>1 DEF Turns
    <3>4. /\ [old EXCEPT ![last] = joint] \in Seq(Sendable) /\ InOrder([old EXCEPT ![last] = joint], Turns)
          /\ Len([old EXCEPT ![last] = joint]) = last /\ last \in 1 .. last
          /\ [old EXCEPT ![last] = joint][last] = joint
      <4>1. old # <<>>
        BY <2>2, <3>1
      <4>3. {other \in Sendable : <<other, old[Len(old)]>> \in Turns}
              \subseteq {other \in Sendable : <<other, joint>> \in Turns}
        BY <3>3
      <4> DEFINE changed == [old EXCEPT ![Len(old)] = joint]
      <4>2. /\ changed \in Seq(Sendable) /\ InOrder(changed, Turns) /\ Len(changed) = Len(old)
            /\ Len(old) \in 1 .. Len(old) /\ changed[Len(old)] = joint
        <5>1. changed = [old EXCEPT ![Len(old)] = joint]
          OBVIOUS
        <5>2. old \in Seq(Sendable) /\ joint \in Sendable /\ InOrder(old, Turns)
          BY <2>2, <2>4
        <5> HIDE DEF changed
        <5>3. changed \in Seq(Sendable) /\ InOrder(changed, Turns)
          BY <4>1, <4>3, <5>1, <5>2, LastInOrder
        <5>4. Len(changed) = Len(old) /\ Len(old) \in 1 .. Len(old) /\ changed[Len(old)] = joint
          BY <4>1, <4>3, <5>1, <5>2, LastInOrder
        <5> QED
          BY <5>3, <5>4
      <4> QED
        BY <2>2, <4>2
    <3>5. [f[n].opens EXCEPT ![last] = n] \in Seq(Nat) /\ Len([f[n].opens EXCEPT ![last] = n]) = last
      BY <1>2, <2>2, <3>4
    <3>6. f[n + 1].history # <<>> /\ Size(f, n + 1) = last
      <4>1. last # 0
        BY <3>4
      <4> QED
        BY <2>3, <2>6, <3>4, <4>1 DEF Size
    <3>7. /\ f[n + 1].history = [old EXCEPT ![last] = joint]
          /\ f[n + 1].opens = [f[n].opens EXCEPT ![last] = n] /\ n + 1 # 0
      BY <2>1, <2>3, <2>6
    <3>8. Shape(f, history, n + 1)
      BY <2>3, <3>4, <3>5, <3>6, <3>7 DEF Shape, joint
    <3> QED
      BY <2>1, <3>8
  <2>7. CASE ~Onto(history, n)
    <3>1. old # <<>> => <<old[Len(old)], joint>> \in Turns
      <4> SUFFICES ASSUME n > 0 PROVE <<Joint(history, n), joint>> \in Turns
        BY <1>2, <2>2
      <4>1. <<history[n], history[n + 1]>> \in Flow
        BY <1>0, <2>5 DEF InOrder
      <4>2. history[n].role # history[n + 1].role
        BY <2>7, <4>1 DEF Flow, Joins, Onto, Messages, Roles
      <4>3. Joint(history, n) \in Messages /\ joint \in Messages
        BY <2>4, <2>5 DEF Sendable
      <4> QED
        BY <2>4, <2>5, <2>7, <4>1, <4>2, <4>3 DEF Turns, Flow
    <3>2. /\ Append(old, joint) \in Seq(Sendable) /\ InOrder(Append(old, joint), Turns)
          /\ Len(Append(old, joint)) = last + 1 /\ Append(old, joint)[last + 1] = joint
      BY <2>2, <2>4, <3>1, AppendInOrder
    <3>3. Append(f[n].opens, n) \in Seq(Nat) /\ Len(Append(f[n].opens, n)) = last + 1
      BY <1>2, <2>2
    <3>4. f[n + 1].history # <<>> /\ Size(f, n + 1) = last + 1
      <4>1. last + 1 # 0
        BY <2>2
      <4> QED
        BY <2>3, <2>7, <3>2, <4>1, SMTT(30) DEF Size
    <3>5. /\ f[n + 1].history = Append(old, joint) /\ f[n + 1].opens = Append(f[n].opens, n)
          /\ n + 1 # 0
      BY <2>1, <2>3, <2>7
    <3>6. Shape(f, history, n + 1)
      BY <2>3, <3>2, <3>3, <3>4, <3>5 DEF Shape, joint
    <3> QED
      BY <2>1, <3>6
  <2> QED
    BY <2>6, <2>7
<1>3. 0 .. Len(history) \subseteq S
  <2> HIDE DEF S
  <2> QED
    BY <1>0, <1>1, <1>2, InductionUpTo
<1> QED
  BY <1>0, <1>3

\* The request grows by one message, or by none where one is merged.
LEMMA SizeGrows ==
  ASSUME NEW history, NEW withheld, NEW f, Merging(f, history, withheld), NEW n \in 0 .. Len(history)
  PROVE  /\ Size(f, n) \in Nat /\ (n = 0 => Size(f, n) = 0) /\ (n > 0 => Size(f, n) > 0)
         /\ n < Len(history) =>
              /\ Taken(f, history, withheld, n)
              /\ Onto(history, n) => Size(f, n + 1) = Size(f, n) /\ Size(f, n) > 0
              /\ ~Onto(history, n) => Size(f, n + 1) = Size(f, n) + 1
<1>1. Shape(f, history, n) /\ n \in Nat
  BY MergeShape DEF Merging
<1>2. /\ f[n].history \in Seq(Sendable) /\ Size(f, n) = Len(f[n].history)
      /\ (n = 0 => f[n].history = <<>>) /\ (n > 0 => f[n].history # <<>>)
  BY <1>1 DEF Shape, Size
<1>3. Size(f, n) \in Nat /\ (n = 0 => Size(f, n) = 0) /\ (n > 0 => Size(f, n) > 0)
  <2> DEFINE so == f[n].history
  <2>1. so \in Seq(Sendable) /\ Size(f, n) = Len(so) /\ (n = 0 => so = <<>>) /\ (n > 0 => so # <<>>)
    BY <1>2
  <2> HIDE DEF so
  <2> QED
    BY <2>1
<1>4. n < Len(history) => Taken(f, history, withheld, n)
  BY <1>1, MergeStep
<1>5. ASSUME n < Len(history), Onto(history, n)
      PROVE  Size(f, n + 1) = Size(f, n) /\ n > 0
  BY <1>2, <1>4, <1>5 DEF Size, Taken, Onto
<1>6. ASSUME n < Len(history), ~Onto(history, n)
      PROVE  Size(f, n + 1) = Size(f, n) + 1
  <2>1. f[n + 1].history = Append(f[n].history, Joint(history, n + 1))
    BY <1>4, <1>6 DEF Taken
  <2>2. Joint(history, n + 1) \in Sendable
    <3>1. n + 1 \in 1 .. Len(history) /\ history \in Seq(InTranscript) /\ InOrder(history, Flow)
      BY <1>1, <1>6 DEF Merging
    <3> QED
      BY <3>1, JointIs
  <2> DEFINE so == f[n].history
             joint == Joint(history, n + 1)
  <2>3. so \in Seq(Sendable) /\ joint \in Sendable
    BY <1>2, <2>2
  <2>4. Len(Append(so, joint)) = Len(so) + 1
    <3> HIDE DEF so, joint
    <3> QED
      BY <2>3
  <2> QED
    BY <2>1, <2>4 DEF Size
<1> QED
  BY <1>3, <1>4, <1>5, <1>6

LEMMA SizeMonotone ==
  ASSUME NEW history, NEW withheld, NEW f, Merging(f, history, withheld),
         NEW earlier \in 0 .. Len(history), NEW later \in 0 .. Len(history), earlier <= later
  PROVE  Size(f, earlier) <= Size(f, later)
<1> DEFINE S == {d \in Nat : earlier + d <= Len(history) => Size(f, earlier) <= Size(f, earlier + d)}
<1>0. Len(history) \in Nat /\ earlier \in Nat /\ later \in Nat
  BY DEF Merging
<1>1. 0 \in S
  <2>1. Size(f, earlier) \in Nat /\ earlier + 0 = earlier
    BY <1>0, SizeGrows
  <2> QED
    BY <2>1
<1>2. ASSUME NEW d \in Nat, d \in S, d < Len(history) PROVE d + 1 \in S
  <2> SUFFICES ASSUME earlier + (d + 1) <= Len(history)
               PROVE  Size(f, earlier) <= Size(f, earlier + (d + 1))
    OBVIOUS
  <2> DEFINE n == earlier + d
  <2>1. n \in 0 .. Len(history) /\ n < Len(history) /\ earlier + (d + 1) = n + 1
    BY <1>0, <1>2
  <2>2. Size(f, earlier) <= Size(f, n)
    BY <1>2, <2>1
  <2> HIDE DEF n
  <2>3. Size(f, n) \in Nat /\ (Size(f, n + 1) = Size(f, n) \/ Size(f, n + 1) = Size(f, n) + 1)
    BY <2>1, SizeGrows
  <2>4. Size(f, earlier) \in Nat
    BY SizeGrows
  <2> QED
    BY <2>1, <2>2, <2>3, <2>4
<1>3. 0 .. Len(history) \subseteq S
  <2> HIDE DEF S
  <2> QED
    BY <1>0, <1>1, <1>2, InductionUpTo
<1>4. later - earlier \in 0 .. Len(history) /\ earlier + (later - earlier) = later /\ later <= Len(history)
  BY <1>0
<1>5. later - earlier \in S
  <2> HIDE DEF S
  <2> QED
    BY <1>3, <1>4
<1> QED
  BY <1>4, <1>5

\* The way back leads to a message of the transcript that is in it, and is the last of those.
Origin(f, history, n) ==
  \A k \in 1 .. Size(f, n) :
    /\ f[n].opens[k] \in 0 .. n - 1 /\ Size(f, f[n].opens[k] + 1) = k
    /\ f[n].history[k] = Joint(history, f[n].opens[k] + 1)

LEMMA MergeOrigins ==
  ASSUME NEW history, NEW withheld, NEW f, Merging(f, history, withheld)
  PROVE  \A n \in 0 .. Len(history) : Origin(f, history, n)
<1> DEFINE S == {n \in Nat : n <= Len(history) => Origin(f, history, n)}
<1>0. Len(history) \in Nat
  BY DEF Merging
<1>1. 0 \in S
  <2>1. Size(f, 0) = 0
    BY <1>0, SizeGrows
  <2>2. Origin(f, history, 0)
    BY <2>1 DEF Origin
  <2> QED
    BY <2>2
<1>2. ASSUME NEW n \in Nat, n \in S, n < Len(history) PROVE n + 1 \in S
  <2> DEFINE old == f[n].history
             ways == f[n].opens
             last == Size(f, n)
             joint == Joint(history, n + 1)
  <2>1. Origin(f, history, n) /\ n \in 0 .. Len(history) /\ n + 1 \in Nat
    BY <1>0, <1>2
  <2>2. Taken(f, history, withheld, n) /\ Shape(f, history, n) /\ last \in Nat
    BY <1>2, <2>1, SizeGrows, MergeShape
  <2>3. /\ old \in Seq(Sendable) /\ ways \in Seq(Nat) /\ Len(old) = last /\ Len(ways) = last
    BY <2>2 DEF Shape, Size
  <2>4. joint \in Sendable
    <3>1. n + 1 \in 1 .. Len(history) /\ history \in Seq(InTranscript) /\ InOrder(history, Flow)
      BY <1>0, <1>2 DEF Merging
    <3> QED
      BY <3>1, JointIs
  <2>5. ASSUME NEW k \in 1 .. last
        PROVE  /\ ways[k] \in 0 .. n - 1 /\ Size(f, ways[k] + 1) = k
               /\ old[k] = Joint(history, ways[k] + 1) /\ ways[k] \in 0 .. (n + 1) - 1
    <3>1. /\ ways[k] \in 0 .. n - 1 /\ Size(f, ways[k] + 1) = k /\ old[k] = Joint(history, ways[k] + 1)
      BY <2>1 DEF Origin
    <3> HIDE DEF ways, old, last
    <3> QED
      BY <1>2, <3>1
  <2>6. n \in 0 .. (n + 1) - 1
    BY <1>2
  <2>7. CASE Onto(history, n)
    <3>1. /\ f[n + 1].history = [old EXCEPT ![last] = joint]
          /\ f[n + 1].opens = [ways EXCEPT ![last] = n] /\ Size(f, n + 1) = last /\ last > 0
      <4>1. Size(f, n + 1) = Size(f, n) /\ Size(f, n) > 0
        BY <1>2, <2>1, <2>7, SizeGrows
      <4> QED
        BY <2>2, <2>7, <4>1 DEF Taken
    <3> HIDE DEF old, ways, last, joint
    <3>2. ASSUME NEW k \in 1 .. last, k # last
          PROVE  [old EXCEPT ![last] = joint][k] = old[k] /\ [ways EXCEPT ![last] = n][k] = ways[k]
      BY <2>3, <3>2
    <3>3. [old EXCEPT ![last] = joint][last] = joint /\ [ways EXCEPT ![last] = n][last] = n
      BY <2>2, <2>3, <3>1
    <3>4. ASSUME NEW k \in 1 .. Size(f, n + 1)
          PROVE  /\ f[n + 1].opens[k] \in 0 .. (n + 1) - 1 /\ Size(f, f[n + 1].opens[k] + 1) = k
                 /\ f[n + 1].history[k] = Joint(history, f[n + 1].opens[k] + 1)
      <4>1. k \in 1 .. last
        BY <3>1
      <4>2. CASE k = last
        <5>1. f[n + 1].opens[k] = n /\ f[n + 1].history[k] = joint
          BY <3>1, <3>3, <4>2
        <5> QED
          BY <2>6, <3>1, <4>2, <5>1 DEF joint
      <4>3. CASE k # last
        <5>1. f[n + 1].opens[k] = ways[k] /\ f[n + 1].history[k] = old[k]
          BY <3>1, <3>2, <4>1, <4>3
        <5> QED
          BY <2>5, <4>1, <5>1
      <4> QED
        BY <4>2, <4>3
    <3>5. Origin(f, history, n + 1)
      BY <3>4 DEF Origin
    <3> QED
      BY <2>1, <3>5
  <2>8. CASE ~Onto(history, n)
    <3>1. /\ f[n + 1].history = Append(old, joint)
          /\ f[n + 1].opens = Append(ways, n) /\ Size(f, n + 1) = last + 1
      <4>1. Size(f, n + 1) = Size(f, n) + 1
        BY <1>2, <2>1, <2>8, SizeGrows
      <4> QED
        BY <2>2, <2>8, <4>1 DEF Taken
    <3> HIDE DEF old, ways, last, joint
    <3>2. ASSUME NEW k \in 1 .. last
          PROVE  Append(old, joint)[k] = old[k] /\ Append(ways, n)[k] = ways[k]
      BY <1>2, <2>3, <2>4, <3>2
    <3>3. Append(old, joint)[last + 1] = joint /\ Append(ways, n)[last + 1] = n
      BY <1>2, <2>3, <2>4
    <3>4. ASSUME NEW k \in 1 .. Size(f, n + 1)
          PROVE  /\ f[n + 1].opens[k] \in 0 .. (n + 1) - 1 /\ Size(f, f[n + 1].opens[k] + 1) = k
                 /\ f[n + 1].history[k] = Joint(history, f[n + 1].opens[k] + 1)
      <4>1. k \in 1 .. last \/ k = last + 1
        BY <2>2, <3>1
      <4>2. CASE k = last + 1
        <5>1. f[n + 1].opens[k] = n /\ f[n + 1].history[k] = joint
          BY <3>1, <3>3, <4>2
        <5> QED
          BY <2>6, <3>1, <4>2, <5>1 DEF joint
      <4>3. CASE k \in 1 .. last
        <5>1. f[n + 1].opens[k] = ways[k] /\ f[n + 1].history[k] = old[k]
          BY <3>1, <3>2, <4>3
        <5> QED
          BY <2>5, <4>3, <5>1
      <4> QED
        BY <4>1, <4>2, <4>3
    <3>5. Origin(f, history, n + 1)
      BY <3>4 DEF Origin
    <3> QED
      BY <2>1, <3>5
  <2> QED
    BY <2>7, <2>8
<1>3. 0 .. Len(history) \subseteq S
  <2> HIDE DEF S
  <2> QED
    BY <1>0, <1>1, <1>2, InductionUpTo
<1> QED
  BY <1>0, <1>3

\* A prompt is not merged onto, so its place in the request is settled, and with it a
\* withheld count that names it.
Stays(f, history, withheld, i, n) ==
  /\ n > i => Size(f, n) > Size(f, i)
  /\ f[n].history[Size(f, i)] = Joint(history, i)
  /\ withheld = i - 1 => f[n].withheld = Size(f, i) - 1

LEMMA AskStays ==
  ASSUME NEW history, NEW withheld, NEW f, Merging(f, history, withheld),
         NEW i \in 1 .. Len(history), history[i] = Ask
  PROVE  \A n \in i .. Len(history) : Stays(f, history, withheld, i, n)
<1> DEFINE S == {d \in Nat : i + d <= Len(history) => Stays(f, history, withheld, i, i + d)}
<1>0. /\ Len(history) \in Nat /\ i \in Nat /\ i > 0 /\ i <= Len(history)
      /\ history \in Seq(InTranscript) /\ InOrder(history, Flow)
  BY DEF Merging
<1>a. Size(f, i) \in Nat /\ Size(f, i) > 0
  BY <1>0, SizeGrows
<1>1. 0 \in S
  <2>1. f[i].history[Size(f, i)] = Joint(history, i)
    <3>1. Shape(f, history, i)
      BY <1>0, MergeShape
    <3> QED
      BY <1>0, <3>1 DEF Shape
  <2>2. ASSUME withheld = i - 1 PROVE f[i].withheld = Size(f, i) - 1
    <3>1. i - 1 \in 0 .. Len(history) /\ i - 1 < Len(history) /\ (i - 1) + 1 = i
      BY <1>0
    <3> DEFINE m == i - 1
    <3>2. /\ Taken(f, history, withheld, m) /\ Size(f, m) \in Nat
          /\ Onto(history, m) => Size(f, m + 1) = Size(f, m)
          /\ ~Onto(history, m) => Size(f, m + 1) = Size(f, m) + 1
      <4> HIDE DEF m
      <4>1. m \in 0 .. Len(history) /\ m < Len(history)
        BY <3>1 DEF m
      <4> QED
        BY <4>1, SizeGrows
    <3>3. m + 1 = i /\ m = withheld
      BY <2>2, <3>1
    <3> HIDE DEF m
    <3>4. f[i].withheld = IF Onto(history, m) THEN Size(f, m) - 1 ELSE Size(f, m)
      BY <3>2, <3>3 DEF Taken
    <3>5. CASE Onto(history, m)
      BY <3>2, <3>3, <3>4, <3>5
    <3>6. CASE ~Onto(history, m)
      BY <3>2, <3>3, <3>4, <3>6
    <3> QED
      BY <3>5, <3>6
  <2>3. i + 0 = i /\ ~(i > i)
    BY <1>0
  <2>4. Stays(f, history, withheld, i, i + 0)
    BY <2>1, <2>2, <2>3 DEF Stays
  <2> QED
    BY <2>4
<1>2. ASSUME NEW d \in Nat, d \in S, d < Len(history) PROVE d + 1 \in S
  <2> DEFINE n == i + d
             old == f[n].history
             last == Size(f, n)
             joint == Joint(history, n + 1)
  <2> SUFFICES ASSUME n < Len(history)
               PROVE  Stays(f, history, withheld, i, n + 1)
    <3>1. i + (d + 1) = n + 1 /\ (i + (d + 1) <= Len(history) => n < Len(history))
      BY <1>0, <1>2
    <3> HIDE DEF n
    <3> QED
      BY <1>2, <3>1
  <2>1. Stays(f, history, withheld, i, n) /\ n \in Nat /\ n \in 0 .. Len(history)
        /\ n + 1 > i /\ (n = i \/ n > i) /\ n # i - 1 /\ n \in i .. Len(history)
    BY <1>0, <1>2
  <2> HIDE DEF n
  <2>2. Taken(f, history, withheld, n) /\ Shape(f, history, n)
    BY <2>1, SizeGrows, MergeShape
  <2>3. /\ last \in Nat
        /\ Onto(history, n) => Size(f, n + 1) = last
        /\ ~Onto(history, n) => Size(f, n + 1) = last + 1
    <3>1. last \in Nat
      BY <2>1, SizeGrows
    <3>2. Onto(history, n) => Size(f, n + 1) = last
      BY <2>1, SizeGrows
    <3>3. ~Onto(history, n) => Size(f, n + 1) = last + 1
      BY <2>1, SizeGrows
    <3> QED
      BY <3>1, <3>2, <3>3
  <2>4. old \in Seq(Sendable) /\ last = Len(old)
    BY <2>2 DEF Shape, Size
  <2>5. withheld = i - 1 => f[n + 1].withheld = Size(f, i) - 1
    <3> SUFFICES ASSUME withheld = i - 1 PROVE f[n + 1].withheld = Size(f, i) - 1
      OBVIOUS
    <3>1. n # withheld
      BY <2>1
    <3>2. f[n + 1].withheld = f[n].withheld
      BY <2>2, <3>1 DEF Taken
    <3> QED
      BY <2>1, <3>2 DEF Stays
  <2>6. CASE Onto(history, n)
    <3>1. n > i
      <4>1. n # i
        BY <1>0, <2>1, <2>6, OntoIsAlone
      <4> QED
        BY <2>1, <4>1
    <3>2. Size(f, n) > Size(f, i) /\ Size(f, n + 1) > Size(f, i)
      BY <2>1, <2>3, <2>6, <3>1 DEF Stays
    <3>3. f[n + 1].history = [old EXCEPT ![last] = joint]
      BY <2>2, <2>6 DEF Taken
    <3>4. f[n + 1].history[Size(f, i)] = old[Size(f, i)]
      <4>1. Size(f, i) \in 1 .. last /\ Size(f, i) # last
        BY <1>a, <2>3, <3>2
      <4>2. Size(f, i) \in DOMAIN old
        BY <2>4, <4>1
      <4> HIDE DEF old, last, joint
      <4> QED
        BY <3>3, <4>1, <4>2
    <3> QED
      BY <2>1, <2>5, <3>2, <3>4 DEF Stays
  <2>7. CASE ~Onto(history, n)
    <3>1. Size(f, i) <= last
      BY <1>a, <2>1, <2>3 DEF Stays
    <3>2. Size(f, n + 1) > Size(f, i)
      BY <1>a, <2>3, <2>7, <3>1
    <3>3. f[n + 1].history = Append(old, joint)
      BY <2>2, <2>7 DEF Taken
    <3>4. f[n + 1].history[Size(f, i)] = old[Size(f, i)]
      <4>1. Size(f, i) \in 1 .. last
        BY <1>a, <2>3, <3>1
      <4>2. joint \in Sendable
        <5>1. n + 1 \in 1 .. Len(history)
          BY <1>0, <2>1
        <5> QED
          BY <1>0, <5>1, JointIs
      <4> HIDE DEF old, last, joint
      <4>3. Append(old, joint)[Size(f, i)] = old[Size(f, i)]
        BY <2>4, <4>1, <4>2
      <4> QED
        BY <3>3, <4>3
    <3> QED
      BY <2>1, <2>5, <3>2, <3>4 DEF Stays
  <2> QED
    BY <2>6, <2>7
<1>3. 0 .. Len(history) \subseteq S
  <2> HIDE DEF S
  <2> QED
    BY <1>0, <1>1, <1>2, InductionUpTo
<1>4. ASSUME NEW n \in i .. Len(history) PROVE Stays(f, history, withheld, i, n)
  <2>1. n - i \in 0 .. Len(history) /\ i + (n - i) = n /\ n <= Len(history)
    BY <1>0
  <2>2. n - i \in S
    <3> HIDE DEF S
    <3> QED
      BY <1>3, <2>1
  <2> QED
    BY <2>1, <2>2
<1> QED
  BY <1>4

\* What is left of a transcript once the messages before a prompt are left out.
From(history, index) == SubSeq(history, index + 1, Len(history))

LEMMA FromIs ==
  ASSUME NEW T, NEW history \in Seq(T), NEW index \in 0 .. Len(history) - 1
  PROVE  LET rest == From(history, index)
         IN  /\ rest \in Seq(T) /\ Len(rest) = Len(history) - index
             /\ Len(rest) > 0 /\ Len(history) \in Nat
             /\ \A n \in 1 .. Len(rest) : rest[n] = history[index + n]
<1>1. Len(history) \in Nat /\ index \in Nat /\ index < Len(history)
  OBVIOUS
<1> DEFINE rest == From(history, index)
<1>2. rest \in Seq(T) /\ Len(rest) = Len(history) - index /\ Len(rest) > 0
  BY <1>1 DEF From
<1>3. ASSUME NEW n \in 1 .. Len(rest) PROVE rest[n] = history[index + n]
  <2>1. n \in 1 .. Len(history) - index
    BY <1>2
  <2> QED
    BY <1>1, <2>1 DEF From
<1> QED
  BY <1>1, <1>2, <1>3

LEMMA FromInOrder ==
  ASSUME NEW T, NEW history \in Seq(T), NEW index \in 0 .. Len(history) - 1, NEW R,
         InOrder(history, R)
  PROVE  InOrder(From(history, index), R)
<1> DEFINE rest == From(history, index)
<1>1. /\ rest \in Seq(T) /\ Len(rest) = Len(history) - index /\ Len(rest) > 0
      /\ Len(history) \in Nat /\ index \in Nat
      /\ \A n \in 1 .. Len(rest) : rest[n] = history[index + n]
  BY FromIs
<1> HIDE DEF rest
<1>2. ASSUME NEW i \in 1 .. Len(rest) - 1 PROVE <<rest[i], rest[i + 1]>> \in R
  <2>1. /\ i \in 1 .. Len(rest) /\ i + 1 \in 1 .. Len(rest) /\ index + (i + 1) = (index + i) + 1
        /\ index + i \in 1 .. Len(history) - 1
    BY <1>1
  <2>2. <<history[index + i], history[(index + i) + 1]>> \in R
    BY <2>1 DEF InOrder
  <2>3. rest[i] = history[index + i] /\ rest[i + 1] = history[(index + i) + 1]
    BY <1>1, <2>1
  <2> QED
    BY <2>2, <2>3
<1> QED
  BY <1>2 DEF InOrder, rest

\* Two merges, of a transcript and of what follows a prompt in it, go alike from there on.
Alike(f, g, index, n) ==
  LET cut == Size(f, index + 1) - 1
  IN  /\ Size(f, index + n) = cut + Size(g, n) /\ Size(g, n) > 0
      /\ g[n].history[1] = Ask
      /\ \A j \in 2 .. Size(g, n) : f[index + n].history[cut + j] = g[n].history[j]

LEMMA MergesGoAlike ==
  ASSUME NEW history, NEW withheld, NEW f, Merging(f, history, withheld),
         NEW index \in 0 .. Len(history) - 1, history[index + 1] = Ask,
         NEW rest, rest = From(history, index),
         NEW carried, NEW g, Merging(g, rest, carried)
  PROVE  \A n \in 1 .. Len(rest) : Alike(f, g, index, n)
<1> DEFINE cut == Size(f, index + 1) - 1
           S == {d \in Nat : d < Len(rest) => Alike(f, g, index, d + 1)}
<1>0. /\ history \in Seq(InTranscript) /\ InOrder(history, Flow) /\ Len(history) \in Nat
      /\ index \in Nat
  BY DEF Merging
<1>1. /\ rest \in Seq(InTranscript) /\ InOrder(rest, Flow) /\ Len(rest) = Len(history) - index
      /\ Len(rest) \in Nat /\ Len(rest) > 0
      /\ \A n \in 1 .. Len(rest) : rest[n] = history[index + n]
  <2>1. \A n \in 1 .. Len(rest) : rest[n] = history[index + n]
    BY <1>0, FromIs
  <2>2. Len(rest) = Len(history) - index /\ Len(rest) > 0
    BY <1>0, FromIs
  <2>3. rest \in Seq(InTranscript) /\ InOrder(rest, Flow)
    BY DEF Merging
  <2> QED
    BY <1>0, <2>1, <2>2, <2>3
<1>2. Size(f, index + 1) \in Nat /\ Size(f, index + 1) > 0 /\ cut \in Nat /\ cut + 1 = Size(f, index + 1)
  <2>1. index + 1 \in 0 .. Len(history) /\ index + 1 > 0
    BY <1>0, <1>1
  <2>2. Size(f, index + 1) \in Nat /\ Size(f, index + 1) > 0
    BY <2>1, SizeGrows
  <2> QED
    BY <2>2
<1>3. rest[1] = Ask /\ 1 \in 1 .. Len(rest)
  BY <1>1
<1>4. Size(g, 1) = 1 /\ g[1].history[1] = Ask
  <2>1. 0 \in 0 .. Len(rest) /\ 0 < Len(rest) /\ 1 \in 0 .. Len(rest)
    BY <1>1
  <2>2. ~Onto(rest, 0)
    BY DEF Onto
  <2>3. Size(g, 0) = 0 /\ Size(g, 0 + 1) = Size(g, 0) + 1
    BY <2>1, <2>2, SizeGrows
  <2>4. Size(g, 1) = 1
    BY <2>3
  <2>5. Shape(g, rest, 1)
    BY <2>1, MergeShape
  <2>6. Joint(rest, 1) = rest[1]
    <3>1. ~Onto(rest, 1 - 1)
      BY DEF Onto
    <3> QED
      BY <3>1 DEF Joint
  <2> QED
    BY <1>3, <2>4, <2>5, <2>6 DEF Shape
<1>5. 0 \in S
  <2>1. Alike(f, g, index, 0 + 1)
    <3>1. \A j \in 2 .. Size(g, 1) : FALSE
      BY <1>4
    <3> QED
      BY <1>2, <1>4, <3>1 DEF Alike
  <2> QED
    BY <2>1
<1>6. ASSUME NEW d \in Nat, d \in S, d < Len(rest) PROVE d + 1 \in S
  <2> DEFINE n == d + 1
             m == index + n
             old == f[m].history
             oldg == g[n].history
             joint == Joint(rest, n + 1)
             size == Size(g, n)
  <2> SUFFICES ASSUME n < Len(rest) PROVE Alike(f, g, index, n + 1)
    BY <1>6
  <2>1. /\ n \in 1 .. Len(rest) /\ n + 1 \in 1 .. Len(rest) /\ n \in 0 .. Len(rest) /\ n \in Nat
        /\ m \in 0 .. Len(history) /\ m < Len(history) /\ index + (n + 1) = m + 1 /\ m > 0 /\ n > 0
        /\ m \in Nat /\ m + 1 \in 1 .. Len(history) /\ Alike(f, g, index, n)
        /\ (m + 1) - 1 = m /\ (n + 1) - 1 = n
    BY <1>0, <1>1, <1>6
  <2> HIDE DEF n
  <2>2. rest[n] = history[m] /\ rest[n + 1] = history[m + 1]
    BY <1>1, <2>1
  <2> HIDE DEF m
  <2>3. (Onto(rest, n) <=> Onto(history, m)) /\ Joint(history, m + 1) = joint
    BY <2>1, <2>2 DEF Onto, Joint
  <2>4. Taken(f, history, withheld, m) /\ Taken(g, rest, carried, n)
    BY <2>1, SizeGrows
  <2>5. /\ old \in Seq(Sendable) /\ oldg \in Seq(Sendable) /\ Len(old) = Size(f, m)
        /\ Len(oldg) = size /\ size \in Nat
    <3>1. Shape(f, history, m) /\ Shape(g, rest, n)
      BY <2>1, MergeShape
    <3>2. size \in Nat
      BY <2>1, SizeGrows
    <3> QED
      BY <3>1, <3>2 DEF Shape, Size
  <2>6. joint \in Sendable
    BY <1>1, <2>1, JointIs
  <2>7. /\ Size(f, m) = cut + size /\ size > 0 /\ oldg[1] = Ask
        /\ \A j \in 2 .. size : old[cut + j] = oldg[j]
    BY <2>1 DEF Alike, m
  <2>8. CASE Onto(rest, n)
    <3>1. size > 1
      <4>1. n # 1
        BY <1>1, <1>3, <2>1, <2>8, OntoIsAlone
      <4>2. Stays(g, rest, carried, 1, n) /\ n > 1
        <5>1. n \in 1 .. Len(rest) /\ n > 1
          BY <2>1, <4>1
        <5> QED
          BY <1>3, <5>1, AskStays
      <4> QED
        BY <1>4, <4>2 DEF Stays
    <3>2. /\ f[m + 1].history = [old EXCEPT ![cut + size] = joint]
          /\ g[n + 1].history = [oldg EXCEPT ![size] = joint]
      BY <2>3, <2>4, <2>7, <2>8 DEF Taken
    <3>3. Size(g, n + 1) = size /\ Size(f, m + 1) = cut + size
      <4>1. Size(g, n + 1) = size
        BY <2>1, <2>8, SizeGrows
      <4>2. Size(f, m + 1) = Size(f, m)
        BY <2>1, <2>3, <2>8, SizeGrows
      <4> QED
        BY <2>7, <4>1, <4>2
    <3> HIDE DEF old, oldg, size, joint, cut
    <3>4. g[n + 1].history[1] = Ask
      <4>1. 1 \in DOMAIN oldg /\ 1 # size
        BY <2>5, <3>1
      <4> QED
        BY <2>7, <3>2, <4>1
    <3>5. ASSUME NEW j \in 2 .. size PROVE f[m + 1].history[cut + j] = g[n + 1].history[j]
      <4>1. j \in DOMAIN oldg /\ cut + j \in DOMAIN old
        BY <1>2, <2>5, <2>7
      <4>2. CASE j = size
        BY <3>2, <4>1, <4>2
      <4>3. CASE j # size
        <5>1. cut + j # cut + size
          BY <1>2, <2>5, <4>3
        <5>2. old[cut + j] = oldg[j]
          BY <2>7
        <5> QED
          BY <3>2, <4>1, <4>3, <5>1, <5>2
      <4> QED
        BY <4>2, <4>3
    <3> QED
      BY <2>1, <2>7, <3>3, <3>4, <3>5 DEF Alike, cut
  <2>9. CASE ~Onto(rest, n)
    <3>2. f[m + 1].history = Append(old, joint) /\ g[n + 1].history = Append(oldg, joint)
      BY <2>3, <2>4, <2>9 DEF Taken
    <3>3. Size(g, n + 1) = size + 1 /\ Size(f, m + 1) = cut + (size + 1)
      <4>1. Size(g, n + 1) = size + 1
        BY <2>1, <2>9, SizeGrows
      <4>2. Size(f, m + 1) = Size(f, m) + 1
        BY <2>1, <2>3, <2>9, SizeGrows
      <4> QED
        BY <1>2, <2>5, <2>7, <4>1, <4>2
    <3> HIDE DEF old, oldg, size, joint, cut
    <3>4. g[n + 1].history[1] = Ask
      <4>1. 1 \in 1 .. Len(oldg)
        BY <2>5, <2>7
      <4>2. Append(oldg, joint)[1] = oldg[1]
        BY <2>5, <2>6, <4>1
      <4> QED
        BY <2>7, <3>2, <4>2
    <3>5. ASSUME NEW j \in 2 .. size + 1 PROVE f[m + 1].history[cut + j] = g[n + 1].history[j]
      <4>1. CASE j = size + 1
        <5>1. Append(oldg, joint)[size + 1] = joint
          BY <2>5, <2>6
        <5>2. Append(old, joint)[(cut + size) + 1] = joint
          BY <2>5, <2>6, <2>7
        <5>3. cut + (size + 1) = (cut + size) + 1
          BY <1>2, <2>5
        <5> QED
          BY <3>2, <4>1, <5>1, <5>2, <5>3
      <4>2. CASE j # size + 1
        <5>1. j \in 2 .. size /\ j \in 1 .. Len(oldg) /\ cut + j \in 1 .. Len(old)
          BY <1>2, <2>5, <2>7, <4>2
        <5>2. Append(oldg, joint)[j] = oldg[j]
          BY <2>5, <2>6, <5>1
        <5>3. Append(old, joint)[cut + j] = old[cut + j]
          BY <2>5, <2>6, <5>1
        <5> QED
          BY <2>7, <3>2, <5>1, <5>2, <5>3
      <4> QED
        BY <4>1, <4>2
    <3>6. Size(g, n + 1) > 0 /\ index + (n + 1) = m + 1
      BY <2>1, <2>5, <3>3
    <3>7. \A j \in 2 .. Size(g, n + 1) : f[m + 1].history[cut + j] = g[n + 1].history[j]
      BY <3>3, <3>5
    <3> QED
      BY <3>3, <3>4, <3>6, <3>7 DEF Alike, cut
  <2> QED
    BY <2>8, <2>9
<1>7. 0 .. Len(rest) \subseteq S
  <2> HIDE DEF S
  <2> QED
    BY <1>1, <1>5, <1>6, InductionUpTo
<1>8. ASSUME NEW n \in 1 .. Len(rest) PROVE Alike(f, g, index, n)
  <2>1. n - 1 \in 0 .. Len(rest) /\ (n - 1) + 1 = n /\ n - 1 < Len(rest)
    BY <1>1
  <2>2. n - 1 \in S
    <3> HIDE DEF S
    <3> QED
      BY <1>7, <2>1
  <2> QED
    BY <2>1, <2>2
<1> QED
  BY <1>8

\* What a request keeps from a prompt on is the merge of what the transcript keeps from it on.
LEMMA WindowIsMerge ==
  ASSUME NEW history, NEW withheld, NEW f, Merging(f, history, withheld),
         NEW index \in 0 .. Len(history) - 1, history[index + 1] = Ask,
         NEW rest, rest = From(history, index),
         NEW carried, NEW g, Merging(g, rest, carried),
         NEW cut \in Nat, Size(f, index + 1) = cut + 1, cut = 0 => index = 0
  PROVE  Window(f[Len(history)].history, cut) = g[Len(rest)].history
<1> DEFINE whole == f[Len(history)].history
           part == g[Len(rest)].history
           size == Len(part)
           kept == SubSeq(whole, cut + 1, Len(whole))
<1>0. /\ history \in Seq(InTranscript) /\ InOrder(history, Flow) /\ Len(history) \in Nat
      /\ rest \in Seq(InTranscript) /\ index \in Nat /\ index + 1 \in 1 .. Len(history)
  BY DEF Merging
<1>1. Len(rest) = Len(history) - index /\ Len(rest) > 0
  BY <1>0, FromIs
<1>2. Alike(f, g, index, Len(rest))
  <2>1. Len(rest) \in 1 .. Len(rest)
    BY <1>0, <1>1
  <2> QED
    BY <2>1, MergesGoAlike
<1>3. /\ whole \in Seq(Sendable) /\ part \in Seq(Sendable)
      /\ Len(whole) = Size(f, Len(history)) /\ size = Size(g, Len(rest))
  <2>1. Shape(f, history, Len(history)) /\ Shape(g, rest, Len(rest))
    BY <1>0, <1>1, MergeShape
  <2> QED
    BY <2>1 DEF Shape, Size
<1>4. /\ Len(whole) = cut + size /\ size > 0 /\ size \in Nat /\ part[1] = Ask
      /\ \A j \in 2 .. size : whole[cut + j] = part[j]
  <2>1. index + Len(rest) = Len(history) /\ Size(f, index + 1) - 1 = cut
    BY <1>0, <1>1
  <2>2. /\ Size(f, Len(history)) = cut + Size(g, Len(rest)) /\ Size(g, Len(rest)) > 0
        /\ g[Len(rest)].history[1] = Ask
        /\ \A j \in 2 .. Size(g, Len(rest)) : f[Len(history)].history[cut + j] = g[Len(rest)].history[j]
    BY <1>2, <2>1 DEF Alike
  <2>3. size \in Nat
    BY <1>3
  <2> QED
    BY <1>3, <2>2, <2>3
<1>5. whole[cut + 1] = Joint(history, index + 1)
  <2>1. Stays(f, history, withheld, index + 1, Len(history))
    <3>1. Len(history) \in index + 1 .. Len(history)
      BY <1>0
    <3> QED
      BY <1>0, <3>1, AskStays
  <2> QED
    BY <2>1 DEF Stays
<1>6. Retain(whole[cut + 1], NotResult) = Ask
  BY <1>0, <1>5, JointIs
<1>7. cut = 0 => whole[cut + 1] = Ask
  <2>1. ~Onto(history, 0) /\ (0 + 1) - 1 = 0
    BY DEF Onto
  <2>2. Joint(history, 0 + 1) = history[0 + 1]
    BY <2>1 DEF Joint
  <2> QED
    BY <1>5, <2>2
<1> HIDE DEF whole, part
<1>8. /\ kept \in Seq(Sendable) /\ Len(kept) = size /\ kept # <<>>
      /\ \A j \in 1 .. size : kept[j] = whole[cut + j]
  <2>1. /\ kept \in Seq(Sendable) /\ Len(kept) = Len(whole) - cut
        /\ \A j \in 1 .. Len(kept) : kept[j] = whole[cut + j]
    <3>1. cut \in 0 .. Len(whole) - 1
      BY <1>4
    <3>2. LET rests == From(whole, cut)
          IN  /\ rests \in Seq(Sendable) /\ Len(rests) = Len(whole) - cut
              /\ \A j \in 1 .. Len(rests) : rests[j] = whole[cut + j]
      BY <1>3, <3>1, FromIs
    <3> QED
      BY <3>2 DEF From
  <2> HIDE DEF size, kept
  <2>2. Len(kept) = size /\ \A j \in 1 .. size : kept[j] = whole[cut + j]
    BY <1>4, <2>1
  <2>3. kept # <<>>
    BY <1>4, <2>1, <2>2
  <2> QED
    BY <2>1, <2>2, <2>3
<1>9. Window(whole, cut) = IF cut > 0 THEN [kept EXCEPT ![1] = Retain(@, NotResult)] ELSE kept
  BY <1>8 DEF Window
<1> HIDE DEF kept, size
<1>10. Ask \in Sendable
  BY Vocabulary, InTranscriptSends DEF InTranscript
<1>11. kept[1] = whole[cut + 1] /\ 1 \in 1 .. size /\ 1 \in DOMAIN kept
  BY <1>4, <1>8
<1> DEFINE window == Window(whole, cut)
<1>12. /\ window \in Seq(Sendable) /\ Len(window) = size /\ window[1] = Ask
       /\ \A j \in 2 .. size : window[j] = kept[j]
  <2>1. CASE cut = 0
    <3>1. window = kept
      BY <1>9, <2>1
    <3> QED
      BY <1>7, <1>8, <1>11, <2>1, <3>1
  <2>2. CASE cut > 0
    <3>1. window = [kept EXCEPT ![1] = Ask]
      BY <1>6, <1>9, <1>11, <2>2
    <3> HIDE DEF window
    <3>2. [kept EXCEPT ![1] = Ask] \in Seq(Sendable) /\ Len([kept EXCEPT ![1] = Ask]) = size
      BY <1>8, <1>10, <1>11
    <3>3. [kept EXCEPT ![1] = Ask][1] = Ask
      BY <1>11
    <3>4. ASSUME NEW j \in 2 .. size PROVE [kept EXCEPT ![1] = Ask][j] = kept[j]
      <4>1. j \in DOMAIN kept /\ j # 1
        BY <1>4, <1>8
      <4> QED
        BY <4>1
    <3> QED
      BY <3>1, <3>2, <3>3, <3>4
  <2> QED
    BY <2>1, <2>2
<1> HIDE DEF window
<1>13. ASSUME NEW j \in 1 .. size PROVE window[j] = part[j]
  <2>1. CASE j = 1
    BY <1>4, <1>12, <2>1
  <2>2. CASE j # 1
    <3>1. j \in 2 .. size
      BY <1>4, <2>2
    <3> QED
      BY <1>4, <1>8, <1>12, <3>1
  <2> QED
    BY <2>1, <2>2
<1>14. window = part
  <2>1. Len(window) = Len(part) /\ \A j \in 1 .. Len(window) : window[j] = part[j]
    BY <1>12, <1>13 DEF size
  <2> QED
    BY <1>3, <1>12, <2>1, SeqEqual
<1> QED
  BY <1>14 DEF window, whole, part

-----------------------------------------------------------------------------
(* What the merge of a run's transcript is. *)

\* A transcript with the prompt of a run at its end, or what follows a prompt in it.
Prompted(history) ==
  /\ history \in Seq(InTranscript) /\ InOrder(history, Flow)
  /\ history # <<>> /\ history[1] = Ask /\ history[Len(history)] = Ask

\* A withheld count that names a prompt, the first one included.
Anchored(history, count) == count \in 0 .. Len(history) - 1 /\ history[count + 1] = Ask

Legal(history, cut) == cut = 0 \/ OpensARequest(history, cut)

\* What a turn may be handed: it opens on the prompt alone, ends on one, and takes turns.
Requestable(history) ==
  /\ history \in Seq(Sendable) /\ history # <<>> /\ InOrder(history, Turns)
  /\ history[1] = Ask
  /\ history[Len(history)].role = "user" /\ CallsOf(history[Len(history)]) = {}

LEMMA PromptedMerges ==
  ASSUME NEW history, Prompted(history), NEW withheld
  PROVE  /\ Len(history) \in Nat /\ Len(history) > 0 /\ Len(history) \in 0 .. Len(history)
         /\ \E f : /\ Merging(f, history, withheld)
                   /\ MergeUserRuns(history, withheld) = f[Len(history)]
<1>1. Len(history) \in Nat /\ Len(history) > 0
  <2>1. history \in Seq(InTranscript) /\ history # <<>>
    BY DEF Prompted
  <2> QED
    BY <2>1
<1>2. PICK f : /\ IsMerge(f, history, withheld, Len(history))
               /\ MergeUserRuns(history, withheld) = f[Len(history)]
  BY <1>1, MergeEnds
<1>3. Merging(f, history, withheld)
  BY <1>2 DEF Merging, Prompted
<1> QED
  BY <1>1, <1>2, <1>3

\* The first message is a prompt nothing is merged into.
LEMMA FirstOfMerge ==
  ASSUME NEW history, Prompted(history), NEW withheld, NEW f, Merging(f, history, withheld)
  PROVE  Size(f, 1) = 1 /\ Joint(history, 1) = Ask
<1>1. Len(history) \in Nat /\ Len(history) > 0
  BY PromptedMerges
<1>2. ~Onto(history, 0) /\ ~Onto(history, 1 - 1)
  BY DEF Onto
<1>3. 0 \in 0 .. Len(history) /\ 0 < Len(history)
  BY <1>1
<1>4. Size(f, 0) = 0 /\ Size(f, 0 + 1) = Size(f, 0) + 1
  BY <1>2, <1>3, SizeGrows
<1>5. history[1] = Ask
  BY DEF Prompted
<1> QED
  BY <1>2, <1>4, <1>5 DEF Joint

LEMMA MergedRequest ==
  ASSUME NEW history, Prompted(history), NEW withheld
  PROVE  Requestable(MergeUserRuns(history, withheld).history)
<1> DEFINE N == Len(history)
<1>1. PICK f : Merging(f, history, withheld) /\ MergeUserRuns(history, withheld) = f[N]
  BY PromptedMerges
<1>2. N \in Nat /\ N > 0 /\ N \in 0 .. N /\ N \in 1 .. N /\ 1 \in 1 .. N
  BY PromptedMerges
<1>3. /\ history \in Seq(InTranscript) /\ InOrder(history, Flow)
      /\ history[1] = Ask /\ history[N] = Ask
  BY DEF Prompted
<1>4. Shape(f, history, N)
  BY <1>1, <1>2, MergeShape
<1>5. f[N].history[1] = Ask
  <2>1. Stays(f, history, withheld, 1, N)
    BY <1>1, <1>2, <1>3, AskStays
  <2> QED
    BY <1>1, <2>1, FirstOfMerge DEF Stays
<1>6. Joint(history, N).role = "user" /\ CallsOf(Joint(history, N)) = {}
  BY <1>2, <1>3, JointIs, Vocabulary
<1>7. f[N].history # <<>> /\ f[N].history[Len(f[N].history)] = Joint(history, N)
  BY <1>2, <1>4 DEF Shape, Size
<1> QED
  BY <1>1, <1>4, <1>5, <1>6, <1>7 DEF Requestable, Shape

\* A prompt of the transcript opens the message of the request that it is in.
LEMMA AskOpens ==
  ASSUME NEW history, Prompted(history), NEW withheld, NEW f, Merging(f, history, withheld),
         NEW index, Anchored(history, index), NEW cut \in Nat, Size(f, index + 1) = cut + 1
  PROVE  Legal(f[Len(history)].history, cut) /\ cut < Size(f, Len(history))
<1> DEFINE N == Len(history)
           whole == f[N].history
<1>1. N \in Nat /\ index + 1 \in 1 .. N /\ N \in index + 1 .. N /\ history[index + 1] = Ask
      /\ index + 1 \in 0 .. N /\ N \in 0 .. N /\ index + 1 <= N
  BY PromptedMerges DEF Anchored
<1>2. Stays(f, history, withheld, index + 1, N)
  BY <1>1, AskStays
<1>3. whole[cut + 1] = Joint(history, index + 1)
  BY <1>2 DEF Stays
<1>4. Joint(history, index + 1).role = "user" /\ SomeBlock(Joint(history, index + 1), NotResult)
  BY <1>1, JointIs, Vocabulary DEF Merging
<1>5. Size(f, index + 1) <= Size(f, N) /\ Size(f, N) \in Nat
  <2>1. Size(f, index + 1) <= Size(f, N)
    BY <1>1, SizeMonotone
  <2>2. Size(f, N) \in Nat
    BY <1>1, SizeGrows
  <2> QED
    BY <2>1, <2>2
<1>6. cut < Size(f, N)
  BY <1>5
<1> QED
  BY <1>3, <1>4, <1>6 DEF Legal, OpensARequest, Size

\* The withheld count crosses into the request as a cut that may be made there.
LEMMA WithheldCrosses ==
  ASSUME NEW history, Prompted(history), NEW withheld, Anchored(history, withheld),
         NEW f, Merging(f, history, withheld)
  PROVE  /\ f[Len(history)].withheld \in Nat
         /\ Size(f, withheld + 1) = f[Len(history)].withheld + 1
         /\ Legal(f[Len(history)].history, f[Len(history)].withheld)
<1> DEFINE N == Len(history)
<1>1. N \in Nat /\ withheld \in Nat /\ withheld + 1 \in 1 .. N /\ N \in withheld + 1 .. N
      /\ history[withheld + 1] = Ask
      /\ withheld + 1 \in 0 .. N /\ (withheld + 1) - 1 = withheld /\ withheld + 1 > 0
  BY PromptedMerges DEF Anchored
<1>2. Stays(f, history, withheld, withheld + 1, N)
  BY <1>1, AskStays
<1>3. f[N].withheld = Size(f, withheld + 1) - 1
  BY <1>1, <1>2 DEF Stays
<1>4. Size(f, withheld + 1) \in Nat /\ Size(f, withheld + 1) > 0
  BY <1>1, SizeGrows
<1>5. f[N].withheld \in Nat /\ Size(f, withheld + 1) = f[N].withheld + 1
  BY <1>3, <1>4
<1> QED
  BY <1>5, AskOpens

LEMMA MergedWithheld ==
  ASSUME NEW history, Prompted(history), NEW withheld, Anchored(history, withheld)
  PROVE  LET both == MergeUserRuns(history, withheld)
         IN  both.withheld \in Nat /\ Legal(both.history, both.withheld)
<1>1. PICK f : /\ Merging(f, history, withheld)
               /\ MergeUserRuns(history, withheld) = f[Len(history)]
  BY PromptedMerges
<1> QED
  BY <1>1, WithheldCrosses

\* A legal cut of the request leads back to a prompt of the transcript.
LEMMA CutLeadsBack ==
  ASSUME NEW history, Prompted(history), NEW withheld, NEW f, Merging(f, history, withheld),
         NEW cut \in Nat, Legal(f[Len(history)].history, cut)
  PROVE  LET back == Unmerged(f[Len(history)], cut)
         IN  /\ Anchored(history, back) /\ Size(f, back + 1) = cut + 1
             /\ cut = 0 => back = 0
<1> DEFINE N == Len(history)
           both == f[N]
           back == Unmerged(both, cut)
<1>1. /\ N \in Nat /\ N > 0 /\ N \in 0 .. N
      /\ history \in Seq(InTranscript) /\ InOrder(history, Flow) /\ history[1] = Ask
  BY PromptedMerges DEF Prompted
<1>2. Shape(f, history, N) /\ Origin(f, history, N) /\ Size(f, N) \in Nat /\ Size(f, N) > 0
  BY <1>1, MergeShape, MergeOrigins, SizeGrows
<1>3. Len(both.opens) = Size(f, N) /\ Len(both.history) = Size(f, N) /\ both.opens \in Seq(Nat)
  BY <1>2 DEF Shape, Size
<1>4. CASE cut = 0
  <2>1. both.opens # <<>>
    BY <1>2, <1>3
  <2>2. back = 0
    BY <1>2, <1>3, <1>4, <2>1 DEF Unmerged
  <2>3. Size(f, 0 + 1) = 1
    BY FirstOfMerge
  <2> QED
    BY <1>1, <1>4, <2>2, <2>3 DEF Anchored
<1>5. CASE cut # 0
  <2>1. OpensARequest(both.history, cut)
    BY <1>5 DEF Legal
  <2>2. cut < Size(f, N) /\ both.history[cut + 1].role = "user" /\ SomeBlock(both.history[cut + 1], NotResult)
    BY <1>3, <2>1 DEF OpensARequest
  <2>3. back = both.opens[cut + 1]
    BY <1>3, <1>5, <2>2 DEF Unmerged
  <2>4. cut + 1 \in 1 .. Size(f, N)
    BY <1>2, <2>2
  <2>5. /\ back \in 0 .. N - 1 /\ Size(f, back + 1) = cut + 1
        /\ both.history[cut + 1] = Joint(history, back + 1)
    BY <1>2, <2>3, <2>4 DEF Origin
  <2> HIDE DEF back, both
  <2>6. back + 1 \in 1 .. N
    BY <1>1, <2>5
  <2>7. history[back + 1] = Ask
    <3> SUFFICES ASSUME history[back + 1] # Ask PROVE FALSE
      OBVIOUS
    <3> DEFINE message == history[back + 1]
    <3>1. message \in InTranscript /\ Joint(history, back + 1) = message
      BY <1>1, <2>6, JointIs
    <3>2. message.role = "user" /\ SomeBlock(message, NotResult)
      BY <2>2, <2>5, <3>1
    <3>3. AnswersOnly(message)
      BY <3>1, <3>2, Kinds
    <3> QED
      BY <3>2, <3>3 DEF AnswersOnly, AllBlocks, SomeBlock, NotResult
  <2> QED
    BY <1>5, <2>5, <2>7 DEF Anchored, back, both
<1> QED
  BY <1>4, <1>5

\* And no earlier one than the cut came from.
LEMMA CutsKeepOrder ==
  ASSUME NEW history, Prompted(history), NEW withheld, NEW f, Merging(f, history, withheld),
         NEW floor, Anchored(history, floor), NEW back, Anchored(history, back),
         Size(f, back + 1) >= Size(f, floor + 1)
  PROVE  back >= floor
<1> DEFINE N == Len(history)
<1>1. /\ N \in Nat /\ back \in Nat /\ floor \in Nat /\ back + 1 \in 1 .. N /\ floor + 1 \in 1 .. N
      /\ history[back + 1] = Ask /\ history \in Seq(InTranscript) /\ InOrder(history, Flow)
  BY PromptedMerges DEF Anchored, Prompted
<1> SUFFICES ASSUME back < floor PROVE FALSE
  BY <1>1
<1>2. /\ back + 1 \in 0 .. N /\ back + 1 < N /\ back + 2 \in 0 .. N /\ floor + 1 \in 0 .. N
      /\ back + 2 <= floor + 1 /\ (back + 1) + 1 = back + 2 /\ back + 1 \in Nat
  BY <1>1
<1>3. ~Onto(history, back + 1)
  BY <1>1, <1>2, OntoIsAlone
<1>4. Size(f, back + 2) = Size(f, back + 1) + 1
  <2>1. Size(f, (back + 1) + 1) = Size(f, back + 1) + 1
    BY <1>2, <1>3, SizeGrows
  <2> QED
    BY <1>2, <2>1
<1>5. Size(f, back + 2) <= Size(f, floor + 1)
  BY <1>2, SizeMonotone
<1>6. Size(f, back + 1) \in Nat /\ Size(f, floor + 1) \in Nat
  BY <1>2, SizeGrows
<1> QED
  BY <1>4, <1>5, <1>6

\* A cut of the merged history and the count it is stored as leave the same messages, and
\* context once withheld stays so.
LEMMA CutIsTheSame ==
  ASSUME NEW history, Prompted(history), NEW withheld, Anchored(history, withheld),
         NEW cut \in Nat, Legal(MergeUserRuns(history, withheld).history, cut)
  PROVE  LET both == MergeUserRuns(history, withheld)
             back == Unmerged(both, cut)
         IN  /\ Anchored(history, back) /\ Prompted(From(history, back))
             /\ Window(both.history, cut) = MergeUserRuns(From(history, back), 0).history
             /\ cut >= both.withheld => back >= withheld
<1>1. PICK f : /\ Merging(f, history, withheld)
               /\ MergeUserRuns(history, withheld) = f[Len(history)]
  BY PromptedMerges
<1> DEFINE back == Unmerged(f[Len(history)], cut)
           rest == From(history, back)
<1>2. Anchored(history, back) /\ Size(f, back + 1) = cut + 1 /\ (cut = 0 => back = 0)
  BY <1>1, CutLeadsBack
<1>3. /\ f[Len(history)].withheld \in Nat
      /\ Size(f, withheld + 1) = f[Len(history)].withheld + 1
  BY <1>1, WithheldCrosses
<1> HIDE DEF back
<1>4. cut >= f[Len(history)].withheld => back >= withheld
  <2> SUFFICES ASSUME cut >= f[Len(history)].withheld PROVE back >= withheld
    OBVIOUS
  <2>1. Size(f, back + 1) >= Size(f, withheld + 1)
    BY <1>2, <1>3
  <2> QED
    BY <1>1, <1>2, <2>1, CutsKeepOrder
<1>5. /\ history \in Seq(InTranscript) /\ InOrder(history, Flow) /\ history[Len(history)] = Ask
      /\ back \in 0 .. Len(history) - 1 /\ history[back + 1] = Ask
  BY <1>2 DEF Prompted, Anchored
<1>6. Prompted(rest)
  <2>1. /\ rest \in Seq(InTranscript) /\ Len(rest) = Len(history) - back /\ Len(rest) > 0
        /\ Len(history) \in Nat
        /\ \A n \in 1 .. Len(rest) : rest[n] = history[back + n]
    BY <1>5, FromIs
  <2>2. InOrder(rest, Flow)
    BY <1>5, FromInOrder
  <2> HIDE DEF rest
  <2>3. 1 \in 1 .. Len(rest) /\ Len(rest) \in 1 .. Len(rest) /\ back + Len(rest) = Len(history)
        /\ rest # <<>>
    BY <1>5, <2>1
  <2> QED
    BY <1>5, <2>1, <2>2, <2>3 DEF Prompted
<1>7. PICK g : Merging(g, rest, 0) /\ MergeUserRuns(rest, 0) = g[Len(rest)]
  BY <1>6, PromptedMerges
<1>8. Window(f[Len(history)].history, cut) = g[Len(rest)].history
  <2>1. rest = From(history, back)
    OBVIOUS
  <2> HIDE DEF rest
  <2> QED
    BY <1>1, <1>2, <1>5, <1>7, <2>1, WindowIsMerge
<1> QED
  BY <1>1, <1>2, <1>4, <1>6, <1>7, <1>8 DEF back

-----------------------------------------------------------------------------
(* Requests: the merged history from a cut on, and what the turn added. *)

\* Answers open no request, so the rounds behind a history add no cut to it.
LEMMA RoundsOpenNothing ==
  ASSUME NEW history \in Seq(Sendable), NEW rounds, Rounds(rounds), NEW cut \in Nat
  PROVE  OpensARequest(history \o rounds, cut) <=> OpensARequest(history, cut)
<1> DEFINE both == history \o rounds
           n == Len(history)
           m == Len(rounds)
<1>1. Sendable \subseteq Messages /\ Said \subseteq Messages
  BY Kinds DEF Sendable
<1>2. history \in Seq(Messages) /\ rounds \in Seq(Messages) /\ rounds \in Seq(Said)
  <2>1. rounds \in Seq(Said)
    BY DEF Rounds, Kept
  <2> HIDE DEF Sendable, Said, Messages
  <2> QED
    BY <1>1, <2>1
<1>3. /\ n \in Nat /\ m \in Nat /\ Len(both) = n + m
      /\ \A i \in 1 .. n : both[i] = history[i]
      /\ \A i \in n + 1 .. n + m : both[i] \in Said
  <2> HIDE DEF Said, Messages
  <2>1. /\ n \in Nat /\ m \in Nat /\ Len(both) = n + m
        /\ \A i \in 1 .. n : both[i] = history[i]
        /\ \A i \in n + 1 .. n + m : both[i] = rounds[i - n]
    BY <1>2
  <2>2. ASSUME NEW i \in n + 1 .. n + m PROVE both[i] \in Said
    <3>1. i - n \in 1 .. m
      BY <2>1
    <3> QED
      BY <1>2, <2>1, <3>1
  <2> QED
    BY <2>1, <2>2
<1> HIDE DEF both, n, m
<1>4. ASSUME NEW i \in n + 1 .. n + m, both[i].role = "user" PROVE ~SomeBlock(both[i], NotResult)
  <2>1. both[i] \in Said
    BY <1>3
  <2>2. AnswersOnly(both[i])
    BY <1>4, <2>1, Vocabulary DEF Said
  <2> QED
    BY <2>2 DEF AnswersOnly, AllBlocks, SomeBlock, NotResult
<1>5. CASE cut < n
  <2>1. cut + 1 \in 1 .. n /\ cut < n + m
    BY <1>3, <1>5
  <2> QED
    BY <1>3, <1>5, <2>1 DEF OpensARequest, both, n
<1>6. CASE ~(cut < n)
  <2>1. ~OpensARequest(history, cut)
    BY <1>6 DEF OpensARequest, n
  <2>2. ASSUME OpensARequest(both, cut) PROVE FALSE
    <3>1. cut < n + m /\ both[cut + 1].role = "user" /\ SomeBlock(both[cut + 1], NotResult)
      BY <1>3, <2>2 DEF OpensARequest
    <3>2. cut + 1 \in n + 1 .. n + m
      BY <1>3, <1>6, <3>1
    <3> QED
      BY <1>4, <3>1, <3>2
  <2> QED
    BY <2>1, <2>2 DEF both
<1> QED
  BY <1>5, <1>6

\* What a request leaves out of a history it leaves out in front of what is behind it.
LEMMA WindowInFront ==
  ASSUME NEW history \in Seq(Messages), NEW behind \in Seq(Messages),
         NEW cut \in Nat, cut < Len(history)
  PROVE  Window(history \o behind, cut) = Window(history, cut) \o behind
<1> DEFINE both == history \o behind
           n == Len(history)
           m == Len(behind)
           long == SubSeq(both, cut + 1, Len(both))
           short == SubSeq(history, cut + 1, n)
<1>1. /\ n \in Nat /\ m \in Nat /\ both \in Seq(Messages) /\ Len(both) = n + m
      /\ \A i \in 1 .. n : both[i] = history[i]
      /\ \A i \in n + 1 .. n + m : both[i] = behind[i - n]
  BY InARow
<1> HIDE DEF Messages, both, n, m
<1>2. /\ long \in Seq(Messages) /\ Len(long) = (n + m) - cut
      /\ \A i \in 1 .. Len(long) : long[i] = both[cut + i]
  <2>1. cut \in 0 .. Len(both) - 1
    BY <1>1 DEF n
  <2>2. LET rest == From(both, cut)
        IN  /\ rest \in Seq(Messages) /\ Len(rest) = Len(both) - cut
            /\ \A i \in 1 .. Len(rest) : rest[i] = both[cut + i]
    BY <1>1, <2>1, FromIs, ZenonT(60)
  <2> QED
    BY <1>1, <2>2 DEF From
<1>3. /\ short \in Seq(Messages) /\ Len(short) = n - cut /\ Len(short) > 0
      /\ \A i \in 1 .. Len(short) : short[i] = history[cut + i]
  <2>1. cut \in 0 .. Len(history) - 1
    BY <1>1 DEF n
  <2>2. LET rest == From(history, cut)
        IN  /\ rest \in Seq(Messages) /\ Len(rest) = Len(history) - cut /\ Len(rest) > 0
            /\ \A i \in 1 .. Len(rest) : rest[i] = history[cut + i]
    BY <2>1, FromIs
  <2> QED
    BY <2>2 DEF From, n
<1> HIDE DEF long, short
<1>4. long # <<>> /\ short # <<>> /\ long[1] = short[1] /\ Len(long) = Len(short) + m
  <2>1. Len(long) = Len(short) + m /\ Len(long) > 0 /\ cut < n
    BY <1>1, <1>2, <1>3 DEF n
  <2>2. 1 \in 1 .. Len(long) /\ 1 \in 1 .. Len(short) /\ cut + 1 \in 1 .. n
    BY <1>1, <1>2, <1>3, <2>1
  <2> QED
    BY <1>1, <1>2, <1>3, <2>1, <2>2
<1>5. \A i \in 1 .. Len(short) : long[i] = short[i]
  <2>1. ASSUME NEW i \in 1 .. Len(short)
        PROVE  i \in 1 .. Len(long) /\ cut + i \in 1 .. n
    BY <1>1, <1>2, <1>3, <2>1
  <2> QED
    BY <1>1, <1>2, <1>3, <2>1
<1>6. \A i \in Len(short) + 1 .. Len(long) : long[i] = behind[i - Len(short)]
  <2>1. ASSUME NEW i \in Len(short) + 1 .. Len(long)
        PROVE  /\ i \in 1 .. Len(long) /\ cut + i \in n + 1 .. n + m
               /\ (cut + i) - n = i - Len(short)
    BY <1>1, <1>2, <1>3, <2>1
  <2>2. ASSUME NEW i \in Len(short) + 1 .. Len(long) PROVE long[i] = behind[i - Len(short)]
    <3>1. long[i] = both[cut + i] /\ both[cut + i] = behind[(cut + i) - n]
      BY <1>1, <1>2, <2>1
    <3> QED
      BY <2>1, <3>1
  <2> QED
    BY <2>2
<1> DEFINE first1 == Retain(short[1], NotResult)
           longer == [long EXCEPT ![1] = first1]
           shorter == [short EXCEPT ![1] = first1]
<1>7. Window(both, cut) = IF cut > 0 THEN longer ELSE long
  BY <1>4 DEF Window, long, longer
<1>8. Window(history, cut) = IF cut > 0 THEN shorter ELSE short
  BY <1>4 DEF Window, short, n
<1> HIDE DEF first1
<1>9. long = short \o behind
  <2> DEFINE row == short \o behind
  <2>1. /\ row \in Seq(Messages) /\ Len(row) = Len(short) + m
        /\ \A i \in 1 .. Len(short) : row[i] = short[i]
        /\ \A i \in Len(short) + 1 .. Len(short) + m : row[i] = behind[i - Len(short)]
    <3>1. short \in Seq(Messages) /\ behind \in Seq(Messages)
      BY <1>3
    <3> QED
      BY <3>1, InARow DEF m
  <2> HIDE DEF row
  <2>2. ASSUME NEW i \in 1 .. Len(long) PROVE long[i] = row[i]
    <3>1. i \in 1 .. Len(short) \/ i \in Len(short) + 1 .. Len(long)
      BY <1>3
    <3> QED
      BY <1>4, <1>5, <1>6, <2>1, <3>1
  <2>3. long = row
    BY <1>2, <1>4, <2>1, <2>2, SeqEqual
  <2> QED
    BY <2>3 DEF row
<1>10. longer = shorter \o behind
  <2>1. DOMAIN long = 1 .. Len(long) /\ DOMAIN short = 1 .. Len(short) /\ 1 \in 1 .. Len(short)
    BY <1>2, <1>3
  <2> DEFINE T == Messages \cup {first1}
             row == shorter \o behind
  <2>2. longer \in Seq(T) /\ shorter \in Seq(T) /\ behind \in Seq(T) /\ Len(shorter) = Len(short)
        /\ Len(longer) = Len(long)
    <3>1. Messages \subseteq T /\ first1 \in T
      OBVIOUS
    <3> HIDE DEF T
    <3>2. long \in Seq(T) /\ short \in Seq(T) /\ behind \in Seq(T)
      BY <1>2, <1>3, <3>1
    <3>3. longer \in Seq(T) /\ Len(longer) = Len(long)
      <4>1. Len(long) \in Nat
        BY <3>2
      <4>2. longer = [i \in 1 .. Len(long) |-> IF i = 1 THEN first1 ELSE long[i]]
        BY <2>1
      <4>3. \A i \in 1 .. Len(long) : long[i] \in T
        BY <3>2
      <4> HIDE DEF longer
      <4> QED
        BY <3>1, <4>1, <4>2, <4>3
    <3>4. shorter \in Seq(T) /\ Len(shorter) = Len(short)
      BY <2>1, <3>1, <3>2
    <3> QED
      BY <3>2, <3>3, <3>4
  <2>6. ASSUME NEW i \in 1 .. Len(long)
         PROVE  longer[i] = IF i = 1 THEN first1 ELSE long[i]
    BY <2>1
  <2>7. ASSUME NEW i \in 1 .. Len(short)
         PROVE  shorter[i] = IF i = 1 THEN first1 ELSE short[i]
    BY <2>1
  <2> HIDE DEF T, shorter, longer
  <2>3. /\ row \in Seq(T) /\ Len(row) = Len(short) + m
        /\ \A i \in 1 .. Len(short) : row[i] = shorter[i]
        /\ \A i \in Len(short) + 1 .. Len(short) + m : row[i] = behind[i - Len(short)]
    <3>1. shorter \in Seq(T) /\ behind \in Seq(T)
      BY <2>2
    <3>2. /\ row \in Seq(T) /\ Len(row) = Len(shorter) + m
          /\ \A i \in 1 .. Len(shorter) : row[i] = shorter[i]
          /\ \A i \in Len(shorter) + 1 .. Len(shorter) + m : row[i] = behind[i - Len(shorter)]
      BY <3>1, InARow DEF m
    <3>3. Len(shorter) = Len(short)
      BY <2>2
    <3> HIDE DEF row
    <3> QED
      BY <3>2, <3>3
  <2> HIDE DEF row
  <2>4. ASSUME NEW i \in 1 .. Len(long) PROVE longer[i] = row[i]
    <3>1. CASE i = 1
      <4>1. i \in 1 .. Len(short)
        BY <2>1, <3>1
      <4> QED
        BY <2>3, <2>6, <2>7, <3>1, <4>1
    <3>2. CASE i # 1 /\ i \in 1 .. Len(short)
      BY <1>5, <2>3, <2>6, <2>7, <3>2
    <3>3. CASE i \in Len(short) + 1 .. Len(long)
      <4>1. i # 1
        BY <1>3, <3>3
      <4>2. longer[i] = long[i]
        BY <2>6, <4>1
      <4> QED
        BY <1>4, <1>6, <2>3, <3>3, <4>2
    <3> QED
      BY <1>3, <3>1, <3>2, <3>3
  <2>5. longer = row
    BY <1>4, <2>2, <2>3, <2>4, SeqEqual
  <2> QED
    BY <2>5 DEF row
<1> QED
  BY <1>7, <1>8, <1>9, <1>10 DEF both

\* What a turn sends of a history taken up at a legal cut, with whole rounds behind it, is
\* a request the API takes.
LEMMA RequestTaken ==
  ASSUME NEW front, Requestable(front), NEW rounds, Rounds(rounds)
  PROVE  AcceptedByApi(front \o rounds)
<1> DEFINE request == front \o rounds
           n == Len(front)
           m == Len(rounds)
<1>1. front \in Seq(Sendable) /\ rounds \in Seq(Sendable) /\ rounds \in Seq(Said)
  <2>1. rounds \in Seq(Said) /\ front \in Seq(Sendable)
    BY DEF Rounds, Kept, Requestable
  <2>2. Said \subseteq Sendable
    BY Kinds, InTranscriptSends
  <2> HIDE DEF Said, Sendable
  <2> QED
    BY <2>1, <2>2
<1>2. /\ request \in Seq(Sendable) /\ n \in Nat /\ m \in Nat /\ Len(request) = n + m
      /\ n > 0 /\ request[1] = front[1]
      /\ m = 0 => request[n + m] = front[n]
      /\ m # 0 => request[n + m] = rounds[m] /\ rounds # <<>>
  <2>1. front # <<>>
    BY DEF Requestable
  <2> HIDE DEF Sendable, Said
  <2> QED
    BY <1>1, <2>1
<1>3. m # 0 => rounds[m].role = "user"
  <2>1. m # 0 => rounds[m] \in Said
    <3> HIDE DEF Said
    <3> QED
      BY <1>1, <1>2
  <2> QED
    BY <1>2, <2>1 DEF Rounds, Settled, Said
<1>4. InOrder(request, Turns)
  <2>1. ASSUME rounds # <<>> PROVE <<front[n], rounds[1]>> \in Turns
    <3>1. front[n] \in Sendable /\ rounds[1] \in Said
      <4> HIDE DEF Sendable, Said
      <4> QED
        BY <1>1, <1>2, <2>1
    <3>2. front[n].role = "user" /\ CallsOf(front[n]) = {} /\ rounds[1].role = "assistant"
      BY <2>1 DEF Requestable, Rounds, Kept
    <3>3. front[n] \in Messages /\ rounds[1] \in Messages /\ AnswersIn(rounds[1]) = {}
      BY <3>1, <3>2, Kinds, Vocabulary DEF Sendable
    <3> QED
      BY <3>2, <3>3 DEF Turns
  <2>2. InOrder(front, Turns) /\ InOrder(rounds, Turns)
    BY DEF Requestable, Rounds, Kept
  <2> HIDE DEF Turns, Sendable
  <2> QED
    BY <1>1, <2>1, <2>2, InOrderConcat
<1> HIDE DEF request, n, m
<1>5. request # <<>> /\ request[1].role = "user" /\ AnswersIn(request[1]) = {}
  <2>1. request[1] = Ask
    BY <1>2 DEF Requestable
  <2>2. request # <<>>
    BY <1>2
  <2> QED
    BY <2>1, <2>2, Vocabulary
<1>6. request[Len(request)].role = "user"
  <2>1. CASE m = 0
    BY <1>2, <2>1 DEF Requestable, n
  <2>2. CASE m # 0
    BY <1>2, <1>3, <2>2
  <2> QED
    BY <2>1, <2>2
<1>7. \A i \in DOMAIN request : HasContent(request[i]) /\ ResultsFirst(request[i])
  <2>1. \A i \in DOMAIN request : request[i] \in Sendable
    <3> HIDE DEF Sendable
    <3> QED
      BY <1>2
  <2> QED
    BY <2>1 DEF Sendable
<1>8. \A i \in 1 .. Len(request) - 1 :
        /\ request[i].role # request[i + 1].role
        /\ AnswersIn(request[i + 1]) = CallsOf(request[i])
  BY <1>4 DEF InOrder, Turns
<1> QED
  BY <1>5, <1>6, <1>7, <1>8 DEF AcceptedByApi, request

-----------------------------------------------------------------------------
(* The invariant. *)

Stops == {"answered", "summarised", "round_limit", "gate_aborted", "interrupted", "hung_up"}
Ends == {"answered", "summarised"}

Fields == {"history", "rounds", "produced", "observed", "usage", "measured", "cut", "floor",
           "streamedCut"}

Running == pc \in {"plan", "sent", "answering"}

\* A count of leading messages of the merged history that may be left out.
MayCut(count) == count \in Nat /\ Legal(merged.history, count)

\* A turn under way goes on from the merged history, behind it a turn it wraps up, and has
\* produced whole rounds.
TurnInv ==
  Running =>
    /\ DOMAIN turn = Fields /\ Rounds(turn.produced)
    /\ \E behind : Rounds(behind) /\ turn.history = merged.history \o behind
    /\ MayCut(turn.cut) /\ MayCut(turn.floor) /\ MayCut(turn.streamedCut)

\* Under a policy nothing withheld comes back, once the first request is planned.
HeldInv ==
  Running /\ policy # None =>
    /\ turn.floor >= merged.withheld
    /\ turn.cut >= merged.withheld \/ (pc = "plan" /\ turn.measured /\ turn.rounds # 0)

\* The turn a wrap-up follows has whole rounds too.
FirstInv == Wrapping => Rounds(first.messages) /\ MayCut(first.withheld)

\* What is about to be stored is whole, says how it ended, and counts up to a prompt.
OutcomeInv ==
  pc = "save" =>
    /\ Kept(outcome.messages) /\ outcome.stop \in Stops
    /\ outcome.messages # <<>> => (Settled(outcome.messages) <=> outcome.stop \in Ends)
    /\ IF outcome.lost THEN exit = 1 ELSE CodeTells(exit, outcome.stop)
    /\ Anchored(Whole, outcome.withheld)

\* So does, and is, what was stored.
StoredInv ==
  /\ stored = <<>> \/ Thread(stored)
  /\ stored # <<>> => /\ Resumable(stored)
                      /\ Settled(stored) <=> figures.stop \in Ends
                      /\ figures.stop # None
  /\ Anchored(Whole, figures.withheld)

\* The merge a run works on is of what is stored.
MergedInv == pc # "idle" => merged = MergeUserRuns(Whole, figures.withheld)

Inv ==
  /\ policy \in Policies
  /\ TurnInv /\ HeldInv /\ FirstInv /\ OutcomeInv /\ StoredInv /\ MergedInv

\* A prompt can follow what is stored, and the two are as a merge takes them.
LEMMA AskFollows ==
  ASSUME StoredInv
  PROVE  /\ stored \in Seq(InTranscript) /\ InOrder(stored, Flow)
         /\ stored # <<>> => <<stored[Len(stored)], Ask>> \in Flow
<1>1. stored \in Seq(InTranscript) /\ InOrder(stored, Flow)
  <2>1. CASE stored = <<>>
    BY <2>1 DEF InOrder
  <2>2. CASE Thread(stored)
    BY <2>2 DEF Thread
  <2> QED
    BY <2>1, <2>2 DEF StoredInv
<1>2. ASSUME stored # <<>> PROVE <<stored[Len(stored)], Ask>> \in Flow
  <2> DEFINE last == stored[Len(stored)]
  <2>1. last \in InTranscript
    <3> HIDE DEF InTranscript
    <3> QED
      BY <1>1, <1>2
  <2>2. CallsOf(last) = {} /\ Resumable(stored)
    BY <1>2 DEF StoredInv, Thread
  <2>3. last.role = "assistant" \/ AnswersOnly(last)
    BY <2>2 DEF Resumable, Settled
  <2> HIDE DEF last
  <2>4. last \in Messages /\ (last.role = "assistant" \/ last.role = "user")
    BY <2>1, Kinds, Vocabulary
  <2>5. Joins(last, Ask)
    BY <2>3, <2>4, Vocabulary DEF Joins
  <2>6. Ask \in Messages /\ AnswersIn(Ask) = {}
    BY Kinds, Vocabulary
  <2> QED
    BY <2>2, <2>4, <2>5, <2>6 DEF Flow, last
<1> QED
  BY <1>1, <1>2

LEMMA WholeIsPrompted == StoredInv => Prompted(Whole)
<1> SUFFICES ASSUME StoredInv PROVE Prompted(Whole)
  OBVIOUS
<1>1. /\ stored \in Seq(InTranscript) /\ InOrder(stored, Flow)
      /\ stored # <<>> => <<stored[Len(stored)], Ask>> \in Flow
  BY AskFollows
<1>2. Ask \in InTranscript
  BY DEF InTranscript
<1> HIDE DEF InTranscript, Flow
<1>3. /\ Whole \in Seq(InTranscript) /\ InOrder(Whole, Flow) /\ Len(Whole) = Len(stored) + 1
      /\ Whole[Len(stored) + 1] = Ask
      /\ \A i \in 1 .. Len(stored) : Whole[i] = stored[i]
  BY <1>1, <1>2, AppendInOrder DEF Whole
<1>4. Len(stored) \in Nat /\ (stored = <<>> <=> Len(stored) = 0)
  BY <1>1
<1>5. Whole[1] = Ask
  <2>1. CASE stored = <<>>
    BY <1>3, <1>4, <2>1
  <2>2. CASE stored # <<>>
    <3>1. 1 \in 1 .. Len(stored)
      BY <1>4, <2>2
    <3> QED
      BY <1>3, <2>2, <3>1 DEF StoredInv, Thread
  <2> QED
    BY <2>1, <2>2
<1>6. Whole # <<>>
  BY <1>3, <1>4
<1> QED
  BY <1>3, <1>5, <1>6 DEF Prompted

\* What a run works on: a request to begin with, and the counts that go with it.
LEMMA MergeOfRun ==
  ASSUME StoredInv, NEW both, both = MergeUserRuns(Whole, figures.withheld)
  PROVE  /\ Requestable(both.history)
         /\ both.withheld \in Nat /\ Legal(both.history, both.withheld)
         /\ both.history \in Seq(Sendable) /\ Len(both.history) > 0
<1>1. Prompted(Whole) /\ Anchored(Whole, figures.withheld)
  BY WholeIsPrompted DEF StoredInv
<1>2. Requestable(both.history)
  BY <1>1, MergedRequest
<1>3. both.withheld \in Nat /\ Legal(both.history, both.withheld)
  BY <1>1, MergedWithheld
<1>4. both.history \in Seq(Sendable) /\ both.history # <<>>
  BY <1>2 DEF Requestable
<1>5. Len(both.history) > 0
  <2> HIDE DEF Sendable
  <2> QED
    BY <1>4
<1> QED
  BY <1>2, <1>3, <1>4, <1>5

\* What a count that may be cut is stored as, and leaves of what is stored.
LEMMA CutOfRun ==
  ASSUME Inv, pc # "idle", NEW count, MayCut(count)
  PROVE  /\ Anchored(Whole, Unmerged(merged, count))
         /\ Requestable(Window(merged.history, count))
         /\ Window(merged.history, count)
              = MergeUserRuns(From(Whole, Unmerged(merged, count)), 0).history
         /\ count >= merged.withheld => Unmerged(merged, count) >= figures.withheld
<1>1. Prompted(Whole) /\ Anchored(Whole, figures.withheld)
  BY WholeIsPrompted DEF Inv, StoredInv
<1>2. merged = MergeUserRuns(Whole, figures.withheld) /\ count \in Nat /\ Legal(merged.history, count)
  BY DEF Inv, MergedInv, MayCut
<1>3. /\ Anchored(Whole, Unmerged(merged, count)) /\ Prompted(From(Whole, Unmerged(merged, count)))
      /\ Window(merged.history, count)
           = MergeUserRuns(From(Whole, Unmerged(merged, count)), 0).history
      /\ count >= merged.withheld => Unmerged(merged, count) >= figures.withheld
  BY <1>1, <1>2, CutIsTheSame
<1>4. Requestable(Window(merged.history, count))
  BY <1>3, MergedRequest
<1> QED
  BY <1>3, <1>4

LEMMA InitInv == Init => Inv
<1> SUFFICES ASSUME Init PROVE Inv
  OBVIOUS
<1>1. stored = <<>> /\ figures.withheld = 0 /\ pc = "idle" /\ first = None /\ policy \in Policies
  BY DEF Init, NoFigures
<1>2. Whole = <<Ask>>
  BY <1>1 DEF Whole
<1>3. Anchored(Whole, figures.withheld)
  BY <1>1, <1>2 DEF Anchored
<1> QED
  BY <1>1, <1>3 DEF Inv, TurnInv, HeldInv, FirstInv, OutcomeInv, StoredInv, MergedInv, Running, Wrapping

-----------------------------------------------------------------------------
(* What is stored. *)

Empty == outcome.messages = <<>>

\* The prompt before what a turn kept: handed over unless it kept nothing, and then
\* in an order that what is stored can be followed by.
LEMMA BatchFits ==
  ASSUME StoredInv, OutcomeInv, pc = "save"
  PROVE  /\ Ordered /\ Thread(Batch)
         /\ Takes <=> ~Empty
         /\ Takes => Resumable(Batch) /\ (Settled(Batch) <=> outcome.stop \in Ends)
<1> DEFINE kept == outcome.messages
           m == Len(kept)
           prompt == <<Ask>>
<1>1. kept \in Seq(Said) /\ InOrder(kept, Turns) /\ Kept(kept)
  BY DEF OutcomeInv, Kept
<1>2. prompt \in Seq(InTranscript) /\ kept \in Seq(InTranscript) /\ prompt # <<>>
      /\ Len(prompt) = 1 /\ prompt[1] = Ask /\ InOrder(prompt, Flow)
  BY <1>1, Widened DEF InTranscript, InOrder
<1>3. InOrder(kept, Flow)
  BY <1>1, TurnsFlow DEF InOrder
<1>4. Batch = prompt \o kept
  BY DEF Batch
<1>5. kept # <<>> => <<Ask, kept[1]>> \in Flow /\ kept[m] \in Said
  <2> SUFFICES ASSUME kept # <<>> PROVE <<Ask, kept[1]>> \in Flow /\ kept[m] \in Said
    OBVIOUS
  <2>1. kept[1] \in Said /\ kept[m] \in Said
    <3> HIDE DEF Said, kept
    <3> QED
      BY <1>1
  <2>2. kept[1].role = "assistant"
    BY <1>1 DEF Kept
  <2>3. kept[1] \in Messages /\ AnswersIn(kept[1]) = {} /\ Ask \in Messages
    BY <2>1, <2>2, Kinds, Vocabulary
  <2> QED
    BY <2>1, <2>2, <2>3, Vocabulary DEF Flow, Joins
<1> HIDE DEF prompt, kept, m
<1>6. InOrder(Batch, Flow)
  BY <1>2, <1>3, <1>4, <1>5, InOrderConcat
<1>7. /\ Batch \in Seq(InTranscript) /\ Batch # <<>> /\ Batch[1] = Ask
      /\ kept = <<>> => Batch[Len(Batch)] = Ask
      /\ kept # <<>> => Batch[Len(Batch)] = kept[m]
  <2> DEFINE n == Len(Batch)
  <2>1. /\ Batch \in Seq(InTranscript) /\ m \in Nat /\ n = m + 1
        /\ Batch[1] = Ask
        /\ \A i \in 2 .. m + 1 : Batch[i] = kept[i - 1]
        /\ kept = <<>> <=> m = 0
    <3> DEFINE l == Len(prompt)
    <3> HIDE DEF InTranscript
    <3>1. /\ Batch \in Seq(InTranscript) /\ m \in Nat /\ n = l + m
          /\ \A i \in 1 .. l : Batch[i] = prompt[i]
          /\ \A i \in l + 1 .. l + m : Batch[i] = kept[i - l]
          /\ (kept = <<>> <=> m = 0)
      <4>1. prompt \in Seq(InTranscript) /\ kept \in Seq(InTranscript)
        BY <1>2
      <4> QED
        BY <4>1, <1>4, InARow DEF m
    <3>2. l = 1 /\ prompt[1] = Ask
      BY <1>2
    <3> HIDE DEF l, n
    <3>3. n = m + 1 /\ 1 \in 1 .. l /\ l + 1 = 2 /\ l + m = m + 1
      BY <3>1, <3>2
    <3> QED
      BY <3>1, <3>2, <3>3
  <2> HIDE DEF n
  <2>2. Batch # <<>>
    BY <2>1 DEF n
  <2>3. CASE kept = <<>>
    BY <2>1, <2>2, <2>3 DEF n
  <2>4. CASE kept # <<>>
    <3>1. n \in 2 .. m + 1 /\ n - 1 = m
      BY <2>1, <2>4
    <3>2. Batch[n] = kept[m]
      BY <2>1, <3>1
    <3> QED
      BY <2>1, <2>2, <2>4, <3>2 DEF n
  <2> QED
    BY <2>3, <2>4
<1>8. CallsOf(Batch[Len(Batch)]) = {}
  BY <1>1, <1>7, Vocabulary DEF Kept, m
<1>9. Thread(Batch)
  BY <1>6, <1>7, <1>8 DEF Thread
<1>10. Ordered
  <2>1. Alternating(Batch)
    BY <1>6 DEF InOrder, Flow, Alternating
  <2>2. Follows(stored, Batch)
    <3>1. CASE stored = <<>>
      BY <1>7, <3>1, Vocabulary DEF Follows, Opens
    <3>2. CASE stored # <<>>
      <4>1. Joins(stored[Len(stored)], Ask)
        BY <3>2, AskFollows DEF Flow
      <4> QED
        BY <1>7, <3>2, <4>1 DEF Follows
    <3> QED
      BY <3>1, <3>2
  <2> QED
    BY <2>1, <2>2 DEF Ordered
<1>11. CASE kept = <<>>
  <2>1. ~Takes /\ Empty
    BY <1>7, <1>11, Vocabulary DEF Takes, Resumable, Settled, Empty, kept
  <2> QED
    BY <1>9, <1>10, <2>1
<1>12. CASE kept # <<>>
  <2>1. Settled(Batch) <=> Settled(kept)
    BY <1>7, <1>12 DEF Settled, m
  <2>2. Resumable(Batch)
    BY <1>5, <1>7, <1>12 DEF Said, Resumable, Settled
  <2>3. ~Empty /\ (Settled(kept) <=> outcome.stop \in Ends)
    BY <1>12 DEF Empty, kept, OutcomeInv
  <2> QED
    BY <1>9, <1>10, <2>1, <2>2, <2>3 DEF Takes
<1> QED
  BY <1>11, <1>12

\* A transcript and the batch behind it.
LEMMA ThreadGrows ==
  ASSUME StoredInv, NEW batch, Thread(batch), NEW longer, longer = stored \o batch
  PROVE  /\ Thread(longer)
         /\ Settled(longer) <=> Settled(batch)
         /\ Resumable(batch) => Resumable(longer)
         /\ longer # <<>>
         /\ \A i \in DOMAIN Whole : i \in DOMAIN longer /\ longer[i] = Whole[i]
<1>1. /\ stored \in Seq(InTranscript) /\ InOrder(stored, Flow)
      /\ stored # <<>> => <<stored[Len(stored)], Ask>> \in Flow
  BY AskFollows
<1>2. batch \in Seq(InTranscript) /\ InOrder(batch, Flow) /\ batch # <<>> /\ batch[1] = Ask
  BY DEF Thread
<1>3. InOrder(longer, Flow)
  BY <1>1, <1>2, InOrderConcat
<1> DEFINE n == Len(stored)
           m == Len(batch)
<1>4. /\ longer \in Seq(InTranscript) /\ n \in Nat /\ m \in Nat /\ m > 0 /\ Len(longer) = n + m
      /\ \A i \in 1 .. n : longer[i] = stored[i]
      /\ longer[n + 1] = Ask /\ longer[n + m] = batch[m]
      /\ DOMAIN longer = 1 .. n + m
      /\ n = 0 <=> stored = <<>>
  <2> HIDE DEF InTranscript
  <2> QED
    BY <1>1, <1>2
<1>5. /\ Len(Whole) = n + 1 /\ DOMAIN Whole = 1 .. n + 1 /\ Whole[n + 1] = Ask
      /\ \A i \in 1 .. n : Whole[i] = stored[i]
  <2>1. Ask \in InTranscript
    BY DEF InTranscript
  <2> HIDE DEF InTranscript
  <2> QED
    BY <1>1, <2>1 DEF Whole
<1> HIDE DEF n, m
<1>6. longer[1] = Ask
  <2>1. CASE n = 0
    BY <1>4, <2>1
  <2>2. CASE n # 0
    <3>1. 1 \in 1 .. n
      BY <1>4, <2>2
    <3> QED
      BY <1>4, <2>2, <3>1 DEF StoredInv, Thread
  <2> QED
    BY <2>1, <2>2
<1>7. longer # <<>> /\ longer[Len(longer)] = batch[Len(batch)]
  BY <1>4 DEF m
<1>8. Thread(longer)
  BY <1>3, <1>4, <1>6, <1>7 DEF Thread
<1>9. (Settled(longer) <=> Settled(batch)) /\ (Resumable(batch) => Resumable(longer))
  BY <1>2, <1>7 DEF Settled, Resumable
<1>10. ASSUME NEW i \in DOMAIN Whole PROVE i \in DOMAIN longer /\ longer[i] = Whole[i]
  <2>1. CASE i = n + 1
    <3>1. n + 1 \in 1 .. n + m
      BY <1>4
    <3> QED
      BY <1>4, <1>5, <2>1, <3>1
  <2>2. CASE i \in 1 .. n
    <3>1. i \in 1 .. n + m
      BY <1>4, <2>2
    <3> QED
      BY <1>4, <1>5, <2>2, <3>1
  <2> QED
    BY <1>4, <1>5, <2>1, <2>2
<1> QED
  BY <1>7, <1>8, <1>9, <1>10

LEMMA SaveKeeps ==
  ASSUME Inv, Save
  PROVE  Inv'
<1>1. /\ pc = "save" /\ pc' = "idle" /\ first' = None /\ policy' = policy
      /\ IF Takes /\ Ordered
           THEN /\ stored' = stored \o Batch
                /\ figures' = [observed |-> Or(outcome.observed, figures.observed),
                               withheld |-> outcome.withheld, stop |-> outcome.stop]
           ELSE UNCHANGED <<stored, figures>>
  BY DEF Save, Exits, flags
<1>2. policy' \in Policies /\ TurnInv' /\ HeldInv' /\ FirstInv' /\ OutcomeInv' /\ MergedInv'
  BY <1>1 DEF Inv, TurnInv, HeldInv, FirstInv, OutcomeInv, MergedInv, Running, Wrapping
<1>3. CASE ~(Takes /\ Ordered)
  <2>1. Whole' = Whole
    BY <1>1, <1>3 DEF Whole
  <2>2. StoredInv'
    BY <1>1, <1>3, <2>1 DEF Inv, StoredInv, Anchored
  <2> QED
    BY <1>2, <2>2 DEF Inv
<1>4. CASE Takes /\ Ordered
  <2>1. /\ Thread(Batch) /\ Resumable(Batch) /\ (Settled(Batch) <=> outcome.stop \in Ends)
        /\ StoredInv /\ outcome.stop \in Stops /\ Anchored(Whole, outcome.withheld)
    BY <1>1, <1>4, BatchFits DEF Inv, OutcomeInv
  <2>2. /\ Thread(stored') /\ (Settled(stored') <=> Settled(Batch)) /\ Resumable(stored')
        /\ stored' # <<>>
        /\ \A i \in DOMAIN Whole : i \in DOMAIN stored' /\ stored'[i] = Whole[i]
    BY <1>1, <1>4, <2>1, ThreadGrows
  <2>3. figures'.stop = outcome.stop /\ figures'.withheld = outcome.withheld
    BY <1>1, <1>4
  <2>4. figures'.stop # None
    BY <2>1, <2>3, StopAssumption DEF Stops
  <2>5. Anchored(Whole', figures'.withheld)
    <3> DEFINE count == outcome.withheld
    <3>1. Prompted(Whole)
      BY <2>1, WholeIsPrompted
    <3>2. Len(Whole) \in Nat /\ DOMAIN Whole = 1 .. Len(Whole)
      <4>1. Whole \in Seq(InTranscript)
        BY <3>1 DEF Prompted
      <4> HIDE DEF InTranscript
      <4> QED
        BY <4>1
    <3>3. stored' \in Seq(InTranscript) /\ Ask \in InTranscript
      BY <2>2 DEF Thread, InTranscript
    <3>4. /\ Whole' = Append(stored', Ask) /\ Len(Whole') = Len(stored') + 1 /\ Len(stored') \in Nat
          /\ DOMAIN stored' = 1 .. Len(stored')
          /\ \A i \in 1 .. Len(stored') : Whole'[i] = stored'[i]
      <4>1. Whole' = Append(stored', Ask)
        BY DEF Whole
      <4> HIDE DEF InTranscript
      <4> QED
        BY <3>3, <4>1
    <3>5. count + 1 \in DOMAIN Whole /\ count \in Nat /\ Whole[count + 1] = Ask
      BY <2>1, <3>2 DEF Anchored
    <3>6. count + 1 \in 1 .. Len(stored') /\ stored'[count + 1] = Ask
      BY <2>2, <3>4, <3>5
    <3>7. count \in 0 .. Len(Whole') - 1 /\ Whole'[count + 1] = Ask
      BY <3>4, <3>5, <3>6
    <3> QED
      BY <2>3, <3>7 DEF Anchored
  <2>6. StoredInv'
    BY <2>1, <2>2, <2>3, <2>4, <2>5 DEF StoredInv
  <2> QED
    BY <1>2, <2>6 DEF Inv
<1> QED
  BY <1>3, <1>4

-----------------------------------------------------------------------------
(* A run begins, and what it does that ends nothing. *)

\* What a turn is handed, and where it begins.
LEMMA NewTurnIs ==
  ASSUME NEW history, NEW observed, NEW withheld, NEW rounds, NEW new,
         new = NewTurn(history, observed, withheld, rounds)
  PROVE  /\ DOMAIN new = Fields /\ new.history = history /\ new.produced = <<>>
         /\ new.rounds = rounds /\ new.measured = TRUE
         /\ new.cut = 0 /\ new.floor = withheld /\ new.streamedCut = withheld
         /\ Rounds(new.produced)
BY NothingIsRounds DEF NewTurn, Fields

\* The merged history of a run under way.
LEMMA MergedIs ==
  ASSUME Inv, pc # "idle"
  PROVE  /\ merged.history \in Seq(Sendable) /\ merged.history \in Seq(Messages)
         /\ Len(merged.history) \in Nat /\ Len(merged.history) > 0
         /\ merged.withheld \in Nat /\ MayCut(merged.withheld) /\ MayCut(0)
<1>1. /\ merged.history \in Seq(Sendable) /\ Len(merged.history) > 0
      /\ merged.withheld \in Nat /\ Legal(merged.history, merged.withheld)
  BY MergeOfRun DEF Inv, MergedInv
<1>2. Sendable \subseteq Messages
  BY DEF Sendable
<1>3. merged.history \in Seq(Messages) /\ Len(merged.history) \in Nat
  <2> HIDE DEF Sendable, Messages
  <2> QED
    BY <1>1, <1>2
<1> QED
  BY <1>1, <1>3 DEF MayCut, Legal

\* What a turn's history is, and that a cut of it is one of the merged history.
LEMMA HistoryIs ==
  ASSUME Inv, Running
  PROVE  /\ turn.history \in Seq(Messages)
         /\ \A count \in Nat : OpensARequest(turn.history, count)
                                 <=> OpensARequest(merged.history, count)
<1>1. PICK behind : Rounds(behind) /\ turn.history = merged.history \o behind
  BY DEF Inv, TurnInv
<1>2. merged.history \in Seq(Sendable) /\ merged.history \in Seq(Messages)
  BY MergedIs DEF Running
<1>3. behind \in Seq(Messages)
  <2>1. behind \in Seq(Said) /\ Said \subseteq Messages
    BY <1>1, Kinds DEF Rounds, Kept
  <2> HIDE DEF Said, Messages
  <2> QED
    BY <2>1
<1>4. turn.history \in Seq(Messages)
  <2> HIDE DEF Messages
  <2> QED
    BY <1>1, <1>2, <1>3
<1> QED
  BY <1>1, <1>2, <1>4, RoundsOpenNothing

\* A planned cut may be made in the merged history, and is no shorter than the floor.
LEMMA PlannedCutMayBe ==
  ASSUME Inv, Running, policy # None
  PROVE  MayCut(PlannedCut) /\ PlannedCut >= turn.floor
<1> DEFINE keepRecent == IF OverBudget(turn.observed, policy.budget) THEN policy.keep ELSE None
           produced == Len(turn.produced)
           planned == PlanCut(turn.history, produced, keepRecent, turn.floor)
<1>1. /\ turn.history \in Seq(Messages)
      /\ \A count \in Nat : OpensARequest(turn.history, count)
                              <=> OpensARequest(merged.history, count)
  BY HistoryIs
<1>2. /\ MayCut(turn.cut) /\ MayCut(turn.floor) /\ turn.cut \in Nat /\ turn.floor \in Nat
      /\ Rounds(turn.produced) /\ policy \in Policies
  BY DEF Inv, TurnInv, MayCut
<1>3. keepRecent \in Nat \cup {None}
  <2>1. policy \in [budget : Nat, keep : Nat]
    BY <1>2, FlagsAssumption
  <2>2. policy.keep \in Nat
    BY <2>1
  <2> QED
    BY <2>2
<1>4. produced \in Nat
  <2>1. turn.produced \in Seq(Said)
    BY <1>2 DEF Rounds, Kept
  <2> HIDE DEF Said
  <2> QED
    BY <2>1
<1>5. PlannedCut = IF planned = None THEN turn.cut ELSE planned
  BY DEF PlannedCut
<1> HIDE DEF keepRecent, produced
<1>6. planned # None => planned \in Nat /\ OpensARequest(turn.history, planned)
  BY <1>1, <1>2, <1>3, <1>4, PlanCutLegal
<1>7. OpensARequest(turn.history, turn.floor) => planned \in Nat /\ planned >= turn.floor
  BY <1>1, <1>2, <1>3, <1>4, PlanCutHoldsFloor
<1>8. turn.floor = 0 \/ OpensARequest(turn.history, turn.floor)
  BY <1>1, <1>2 DEF MayCut, Legal
<1> HIDE DEF planned
<1>9. MayCut(PlannedCut)
  BY <1>1, <1>2, <1>5, <1>6 DEF MayCut, Legal
<1>10. PlannedCut >= turn.floor
  BY <1>2, <1>5, <1>6, <1>7, <1>8, NoneAssumption
<1> QED
  BY <1>9, <1>10

\* The parts of the invariant that a step within a run leaves alone.
LEMMA RunKeeps ==
  ASSUME Inv, Running, pc' \in {"plan", "sent", "answering"},
         UNCHANGED <<policy, stored, figures, merged>>, TurnInv', HeldInv', FirstInv'
  PROVE  Inv'
<1>1. Whole' = Whole /\ pc # "idle" /\ pc' # "save"
  BY DEF Whole, Running
<1>2. StoredInv'
  BY <1>1 DEF Inv, StoredInv, Anchored
<1>3. MergedInv'
  BY <1>1 DEF Inv, MergedInv
<1> QED
  BY <1>1, <1>2, <1>3 DEF Inv, OutcomeInv

LEMMA BeginRunKeeps ==
  ASSUME Inv, BeginRun
  PROVE  Inv'
<1>1. /\ merged' = MergeUserRuns(Append(stored, Ask), figures.withheld)
      /\ turn' = NewTurn(merged'.history, figures.observed, merged'.withheld, MaxRounds)
      /\ first' = None /\ pc' = "plan" /\ UNCHANGED <<policy, stored, figures>>
  BY DEF BeginRun, flags
<1>2. Whole' = Whole /\ merged' = MergeUserRuns(Whole, figures.withheld)
  BY <1>1 DEF Whole
<1>3. /\ merged'.history \in Seq(Sendable)
      /\ merged'.withheld \in Nat /\ Legal(merged'.history, merged'.withheld)
  BY <1>2, MergeOfRun DEF Inv
<1>4. merged'.history \o <<>> = merged'.history
  <2> HIDE DEF Sendable
  <2> QED
    BY <1>3
<1>5. /\ DOMAIN turn' = Fields /\ turn'.history = merged'.history
      /\ turn'.rounds = MaxRounds /\ turn'.measured = TRUE
      /\ turn'.cut = 0 /\ turn'.floor = merged'.withheld /\ turn'.streamedCut = merged'.withheld
      /\ Rounds(turn'.produced)
  BY <1>1, NothingIsRounds DEF NewTurn, Fields
<1>6. Rounds(<<>>) /\ turn'.history = merged'.history \o <<>>
  BY <1>4, <1>5, NothingIsRounds
<1>7. MayCut(turn.cut)' /\ MayCut(turn.floor)' /\ MayCut(turn.streamedCut)'
  BY <1>3, <1>5 DEF MayCut, Legal
<1>8. TurnInv'
  BY <1>5, <1>6, <1>7 DEF TurnInv
<1>9. HeldInv'
  BY <1>1, <1>3, <1>5, FlagsAssumption DEF HeldInv
<1>10. FirstInv' /\ OutcomeInv' /\ MergedInv' /\ policy' \in Policies
  BY <1>1, <1>2 DEF Inv, FirstInv, OutcomeInv, MergedInv, Wrapping
<1>11. StoredInv'
  BY <1>1, <1>2 DEF Inv, StoredInv, Anchored
<1> QED
  BY <1>8, <1>9, <1>10, <1>11 DEF Inv

LEMMA SendRequestKeeps ==
  ASSUME Inv, SendRequest
  PROVE  Inv'
<1>1. /\ pc = "plan" /\ pc' = "sent" /\ Running
      /\ UNCHANGED <<policy, stored, figures, merged, first>>
      /\ turn' = IF turn.measured /\ policy # None
                   THEN [turn EXCEPT !.cut = PlannedCut, !.floor = PlannedCut, !.measured = FALSE]
                   ELSE turn
  BY DEF SendRequest, flags, Running
<1>2. TurnInv /\ HeldInv /\ FirstInv
  BY DEF Inv
<1>3. FirstInv'
  BY <1>1, <1>2 DEF FirstInv, Wrapping, MayCut
<1>4. CASE ~(turn.measured /\ policy # None)
  <2>1. turn' = turn
    BY <1>1, <1>4
  <2>2. TurnInv'
    BY <1>1, <1>2, <2>1 DEF TurnInv, MayCut, Running
  <2>3. HeldInv'
    BY <1>1, <1>2, <1>4, <2>1 DEF HeldInv, Running
  <2> QED
    BY <1>1, <1>3, <2>2, <2>3, RunKeeps
<1>5. CASE turn.measured /\ policy # None
  <2>1. turn' = [turn EXCEPT !.cut = PlannedCut, !.floor = PlannedCut, !.measured = FALSE]
    BY <1>1, <1>5
  <2>2. MayCut(PlannedCut) /\ PlannedCut >= turn.floor
    BY <1>1, <1>5, PlannedCutMayBe
  <2> DEFINE planned == PlannedCut
  <2> HIDE DEF planned
  <2>3. turn' = [turn EXCEPT !.cut = planned, !.floor = planned, !.measured = FALSE]
    BY <2>1 DEF planned
  <2>4. DOMAIN turn = Fields
    BY <1>1, <1>2 DEF TurnInv
  <2>5. /\ DOMAIN turn' = Fields /\ turn'.history = turn.history /\ turn'.produced = turn.produced
        /\ turn'.cut = planned /\ turn'.floor = planned /\ turn'.streamedCut = turn.streamedCut
    BY <2>3, <2>4 DEF Fields
  <2>6. MayCut(turn.cut)' /\ MayCut(turn.floor)' /\ MayCut(turn.streamedCut)'
    <3>1. planned \in Nat /\ Legal(merged.history, planned)
      BY <2>2 DEF planned, MayCut
    <3> QED
      BY <1>1, <1>2, <2>5, <3>1 DEF TurnInv, MayCut
  <2>7. TurnInv'
    BY <1>1, <1>2, <2>5, <2>6 DEF TurnInv
  <2>8. planned >= merged.withheld
    <3>1. turn.floor >= merged.withheld /\ planned >= turn.floor
      BY <1>1, <1>2, <1>5, <2>2 DEF HeldInv, planned
    <3>2. turn.floor \in Nat /\ merged.withheld \in Nat /\ planned \in Nat
      BY <1>1, <1>2, <2>2, MergedIs DEF TurnInv, MayCut, planned
    <3> QED
      BY <3>1, <3>2
  <2>9. HeldInv'
    BY <1>1, <2>5, <2>8 DEF HeldInv
  <2> QED
    BY <1>1, <1>3, <2>7, <2>9, RunKeeps
<1> QED
  BY <1>4, <1>5

\* A stream that ended changes only what it reported, and how far it was cut.
LEMMA StreamedIs ==
  ASSUME NEW reported, DOMAIN turn = Fields, NEW streamed, streamed = Streamed(reported)
  PROVE  /\ DOMAIN streamed = Fields /\ streamed.produced = turn.produced
         /\ streamed.history = turn.history /\ streamed.rounds = turn.rounds
         /\ streamed.cut = turn.cut /\ streamed.floor = turn.floor
         /\ streamed.streamedCut = turn.cut
         /\ [streamed EXCEPT !.produced = Append(@, Say)].produced = Append(turn.produced, Say)
         /\ [streamed EXCEPT !.produced = Append(@, Say)].usage = streamed.usage
BY DEF Streamed, Fields

LEMMA AsksForToolKeeps ==
  ASSUME Inv, AsksForTool
  PROVE  Inv'
<1>1. /\ pc = "sent" /\ pc' = "answering" /\ Running
      /\ UNCHANGED <<policy, stored, figures, merged, first>>
      /\ \E reported \in Usages \cup {None} : turn' = Streamed(reported)
  BY DEF AsksForTool, flags, Running
<1>2. TurnInv /\ HeldInv /\ FirstInv
  BY DEF Inv
<1>3. PICK reported \in Usages \cup {None} : turn' = Streamed(reported)
  BY <1>1
<1>4. /\ DOMAIN turn' = Fields /\ turn'.produced = turn.produced
      /\ turn'.history = turn.history
      /\ turn'.cut = turn.cut /\ turn'.floor = turn.floor /\ turn'.streamedCut = turn.cut
  BY <1>1, <1>2, <1>3, StreamedIs DEF TurnInv
<1>5. MayCut(turn.cut)' /\ MayCut(turn.floor)' /\ MayCut(turn.streamedCut)'
  BY <1>1, <1>2, <1>4 DEF TurnInv, MayCut
<1>6. TurnInv' /\ HeldInv' /\ FirstInv'
  BY <1>1, <1>2, <1>4, <1>5 DEF TurnInv, HeldInv, FirstInv, Wrapping, MayCut
<1> QED
  BY <1>1, <1>6, RunKeeps

\* Rounds and the rounds after them.
LEMMA RoundAdded ==
  ASSUME Inv, pc = "answering", Unused # {}, NEW name \in ToolNames
  PROVE  /\ DOMAIN turn = Fields
         /\ Rounds(turn.produced \o Round(name))
         /\ [turn EXCEPT !.produced = @ \o Round(name)].produced = turn.produced \o Round(name)
<1> DEFINE round == Round(name)
<1>1. Rounds(turn.produced) /\ Rounds(round) /\ DOMAIN turn = Fields
  BY RoundIsWhole DEF Inv, TurnInv, Running
<1> HIDE DEF round
<1>2. Rounds(turn.produced \o round)
  <2>1. Kept(turn.produced \o round)
    BY <1>1, RoundsGoOn DEF Rounds
  <2>2. ~Settled(turn.produced \o round)
    <3>1. CASE round = <<>>
      BY <1>1, <3>1, RoundsGoOn DEF Rounds
    <3>2. CASE round # <<>>
      BY <1>1, <3>2, RoundsGoOn DEF Rounds
    <3> QED
      BY <3>1, <3>2
  <2> QED
    BY <2>1, <2>2 DEF Rounds
<1> QED
  BY <1>1, <1>2 DEF Fields, round

LEMMA RoundAnsweredKeeps ==
  ASSUME Inv, RoundAnswered
  PROVE  Inv'
<1>1. /\ pc = "answering" /\ pc' = "plan" /\ Running /\ Unused # {}
      /\ UNCHANGED <<policy, stored, figures, merged, first>>
  BY DEF RoundAnswered, flags, Running
<1>2. TurnInv /\ HeldInv /\ FirstInv
  BY DEF Inv
<1>3. PICK name \in ToolNames :
        turn' = [turn EXCEPT !.produced = @ \o Round(name), !.rounds = @ - 1]
  BY DEF RoundAnswered
<1>4. DOMAIN turn = Fields /\ Rounds(turn.produced \o Round(name))
  BY <1>1, RoundAdded
<1>5. /\ DOMAIN turn' = Fields /\ turn'.produced = turn.produced \o Round(name)
      /\ turn'.history = turn.history
      /\ turn'.cut = turn.cut /\ turn'.floor = turn.floor /\ turn'.streamedCut = turn.streamedCut
  BY <1>3, <1>4 DEF Fields
<1>6. MayCut(turn.cut)' /\ MayCut(turn.floor)' /\ MayCut(turn.streamedCut)'
  BY <1>1, <1>2, <1>5 DEF TurnInv, MayCut
<1>7. TurnInv'
  BY <1>1, <1>2, <1>4, <1>5, <1>6 DEF TurnInv
<1>8. HeldInv' /\ FirstInv'
  BY <1>1, <1>2, <1>5 DEF HeldInv, FirstInv, Wrapping, MayCut
<1> QED
  BY <1>1, <1>7, <1>8, RunKeeps

-----------------------------------------------------------------------------
(* How a run ends. *)

\* What the end of a turn leaves to be stored, of messages a turn may keep.
LEMMA FinishKeeps ==
  ASSUME Inv, pc # "idle", NEW kept, NEW stop \in Stops, NEW code, FinishWritten(kept, stop, code),
         Kept(kept.messages), CodeTells(code, stop), MayCut(kept.withheld),
         kept.messages # <<>> => (Settled(kept.messages) <=> stop \in Ends)
  PROVE  Inv'
<1>0. PICK lost \in BOOLEAN : Finish(kept, stop, code, lost)
  BY DEF FinishWritten
<1>1. /\ outcome' = [messages |-> StoredMessages(kept.messages), observed |-> kept.usage,
                     withheld |-> Unmerged(merged, kept.withheld), stop |-> stop, lost |-> lost]
      /\ exit' = IF lost THEN 1 ELSE code
      /\ pc' = "save" /\ UNCHANGED <<policy, stored, figures, merged, first>>
  BY <1>0 DEF Finish, flags
<1>2. outcome'.messages = kept.messages /\ outcome'.stop = stop /\ outcome'.lost = lost
      /\ outcome'.withheld = Unmerged(merged, kept.withheld)
  <2>1. kept.messages \in Seq(Reasonless)
    BY Widened DEF Kept
  <2>2. StoredMessages(kept.messages) = kept.messages
    BY <2>1, NothingToDrop DEF StoredMessages
  <2> QED
    BY <1>1, <2>2
<1>3. Whole' = Whole /\ Anchored(Whole, Unmerged(merged, kept.withheld))
  BY <1>1, CutOfRun DEF Whole
<1>4. TurnInv' /\ HeldInv' /\ FirstInv' /\ MergedInv' /\ policy' \in Policies
  BY <1>1, <1>3 DEF Inv, TurnInv, HeldInv, FirstInv, MergedInv, Running, Wrapping, MayCut
<1>5. StoredInv'
  BY <1>1, <1>3 DEF Inv, StoredInv, Anchored
<1>6. OutcomeInv'
  BY <1>1, <1>2, <1>3 DEF OutcomeInv, Anchored
<1> QED
  BY <1>4, <1>5, <1>6 DEF Inv

\* And when a wrap-up leaves the first turn as it was.
LEMMA FirstStandsKeeps ==
  ASSUME Inv, pc # "idle", Wrapping, NEW code \in {2, 3},
         FinishWritten(first, "round_limit", code)
  PROVE  Inv'
<1>1. Kept(first.messages) /\ ~Settled(first.messages) /\ MayCut(first.withheld)
  BY DEF Inv, FirstInv, Rounds
<1>2. CodeTells(code, "round_limit") /\ "round_limit" \in Stops /\ "round_limit" \notin Ends
  BY DEF CodeTells, Stops, Ends
<1> QED
  BY <1>1, <1>2, FinishKeeps

\* A turn's reply is stored, alone or behind the turn it wraps up.
LEMMA ReplyKeeps ==
  ASSUME Inv, Reply
  PROVE  Inv'
<1>1. pc = "sent" /\ DOMAIN turn = Fields /\ Rounds(turn.produced) /\ MayCut(turn.cut)
  BY DEF Reply, Inv, TurnInv, Running
<1>2. PICK reported \in Usages \cup {None}, truncated \in BOOLEAN :
        LET ended == Returned([Streamed(reported) EXCEPT !.produced = Append(@, Say)], turn.cut)
        IN  IF Wrapping THEN FinishWritten(Joined(ended), "summarised", 2)
                        ELSE FinishWritten(ended, "answered", IF truncated THEN 2 ELSE 0)
  BY DEF Reply
<1> DEFINE replied == Append(turn.produced, Say)
           ended == Returned([Streamed(reported) EXCEPT !.produced = Append(@, Say)], turn.cut)
<1>3. ended.messages = replied /\ ended.withheld = turn.cut
  <2>1. DOMAIN Streamed(reported) = Fields /\ Streamed(reported).produced = turn.produced
    BY <1>1, StreamedIs
  <2> QED
    BY <2>1 DEF Returned, Fields
<1>4. replied = turn.produced \o <<Say>> /\ <<Say>> # <<>>
  <2>1. turn.produced \in Seq(Said) /\ Say \in Said
    BY <1>1, Vocabulary DEF Rounds, Kept
  <2> HIDE DEF Said
  <2> QED
    BY <2>1
<1>5. Kept(replied) /\ Settled(replied)
  <2> DEFINE reply == <<Say>>
  <2>1. Kept(reply) /\ Settled(reply) /\ reply # <<>> /\ replied = turn.produced \o reply
    BY <1>4, ReplyIsKept
  <2> HIDE DEF reply, replied
  <2> QED
    BY <1>1, <2>1, RoundsGoOn
<1> HIDE DEF replied, ended
<1>6. CASE ~Wrapping
  <2> DEFINE code == IF truncated THEN 2 ELSE 0
  <2>1. FinishWritten(ended, "answered", code)
    BY <1>2, <1>6 DEF ended
  <2>2. code \in {0, 2}
    OBVIOUS
  <2> HIDE DEF code
  <2>3. CodeTells(code, "answered") /\ "answered" \in Stops /\ "answered" \in Ends
    BY <2>2 DEF CodeTells, Stops, Ends
  <2>4. pc # "idle" /\ MayCut(ended.withheld)
    BY <1>1, <1>3
  <2> QED
    BY <1>3, <1>5, <2>1, <2>3, <2>4, FinishKeeps
<1>7. CASE Wrapping
  <2>1. FinishWritten(Joined(ended), "summarised", 2)
    BY <1>2, <1>7 DEF ended
  <2>2. Joined(ended).messages = first.messages \o replied /\ Joined(ended).withheld = turn.cut
    BY <1>3 DEF Joined
  <2>3. replied # <<>>
    BY <1>5 DEF Settled
  <2>4. Kept(first.messages \o replied) /\ Settled(first.messages \o replied)
    BY <1>5, <1>7, <2>3, RoundsGoOn DEF Inv, FirstInv
  <2>5. CodeTells(2, "summarised") /\ "summarised" \in Stops /\ "summarised" \in Ends
    BY DEF CodeTells, Stops, Ends
  <2>6. pc # "idle" /\ MayCut(Joined(ended).withheld)
    BY <1>1, <2>2
  <2> QED
    BY <2>1, <2>2, <2>4, <2>5, <2>6, FinishKeeps
<1> QED
  BY <1>6, <1>7

\* A turn that said nothing is not stored at all.
LEMMA SilentReplyKeeps ==
  ASSUME Inv, SilentReply
  PROVE  Inv'
<1>1. pc = "sent" /\ DOMAIN turn = Fields /\ turn.produced = <<>> /\ MayCut(turn.cut)
  BY DEF SilentReply, Inv, TurnInv, Running
<1>2. PICK reported \in Usages \cup {None}, truncated \in BOOLEAN :
        IF Wrapping THEN FirstStands
                    ELSE Finish(Returned(Streamed(reported), turn.cut), "answered",
                                IF truncated THEN 2 ELSE 0, FALSE)
  BY DEF SilentReply
<1>3. CASE Wrapping
  BY <1>1, <1>2, <1>3, FirstStandsKeeps DEF FirstStands
<1>4. CASE ~Wrapping
  <2> DEFINE code == IF truncated THEN 2 ELSE 0
             ended == Returned(Streamed(reported), turn.cut)
  <2>1. FinishWritten(ended, "answered", code)
    BY <1>2, <1>4 DEF FinishWritten
  <2>2. code \in {0, 2}
    OBVIOUS
  <2>3. ended.messages = <<>> /\ ended.withheld = turn.cut
    BY <1>1, StreamedIs DEF Returned
  <2> HIDE DEF code, ended
  <2>4. Kept(<<>>)
    BY NothingIsRounds DEF Rounds
  <2>5. CodeTells(code, "answered") /\ "answered" \in Stops
    BY <2>2 DEF CodeTells, Stops
  <2>6. pc # "idle" /\ MayCut(ended.withheld)
    BY <1>1, <2>3
  <2> QED
    BY <1>1, <2>1, <2>3, <2>4, <2>5, <2>6, FinishKeeps
<1> QED
  BY <1>3, <1>4

LEMMA FailKeeps ==
  ASSUME Inv, Fail
  PROVE  Inv'
<1>1. pc # "idle"
  BY DEF Fail
<1>2. CASE Wrapping /\ FirstStands
  BY <1>1, <1>2, FirstStandsKeeps DEF FirstStands
<1>3. CASE Exits /\ UNCHANGED <<flags, stored, figures>>
  <2>1. pc' = "idle" /\ ~Wrapping' /\ Whole' = Whole /\ UNCHANGED <<policy, stored, figures>>
    BY <1>3 DEF Exits, Wrapping, Whole, flags
  <2>2. StoredInv'
    BY <2>1 DEF Inv, StoredInv, Anchored
  <2> QED
    BY <2>1, <2>2 DEF Inv, TurnInv, HeldInv, FirstInv, OutcomeInv, MergedInv, Running
<1> QED
  BY <1>2, <1>3 DEF Fail

LEMMA GateAbortsKeeps ==
  ASSUME Inv, GateAborts
  PROVE  Inv'
<1>1. PICK name \in ToolNames :
        FinishWritten(Returned([turn EXCEPT !.produced = @ \o Round(name)], turn.cut),
                      "gate_aborted", 3)
  BY DEF GateAborts
<1> DEFINE ended == Returned([turn EXCEPT !.produced = @ \o Round(name)], turn.cut)
<1>2. ended.messages = turn.produced \o Round(name) /\ Rounds(turn.produced \o Round(name))
      /\ ended.withheld = turn.cut
  BY RoundAdded DEF Returned, GateAborts
<1>3. Kept(ended.messages) /\ ~Settled(ended.messages)
  BY <1>2 DEF Rounds
<1>4. CodeTells(3, "gate_aborted") /\ "gate_aborted" \in Stops /\ "gate_aborted" \notin Ends
  BY DEF CodeTells, Stops, Ends
<1> HIDE DEF ended
<1>5. FinishWritten(ended, "gate_aborted", 3)
  BY <1>1 DEF ended
<1>6. pc # "idle" /\ MayCut(ended.withheld)
  BY <1>2 DEF GateAborts, Inv, TurnInv, Running
<1> QED
  BY <1>3, <1>4, <1>5, <1>6, FinishKeeps

\* A turn without its reply is stored as one that was cut.
LEMMA CutKeeps ==
  ASSUME Inv, Running, NEW withheld, MayCut(withheld), NEW stop \in Stops \ Ends, NEW code,
         CodeTells(code, stop), FinishWritten(Returned(turn, withheld), stop, code)
  PROVE  Inv'
<1>1. Kept(turn.produced) /\ ~Settled(turn.produced) /\ pc # "idle"
  BY DEF Inv, TurnInv, Rounds, Running
<1>2. Returned(turn, withheld).messages = turn.produced /\ Returned(turn, withheld).withheld = withheld
  BY DEF Returned
<1> QED
  BY <1>1, <1>2, FinishKeeps

LEMMA InterruptKeeps ==
  ASSUME Inv, Interrupt
  PROVE  Inv'
<1>1. PICK pressed \in BOOLEAN :
        LET code == IF pressed THEN 2 ELSE 3
        IN  IF Wrapping
              THEN Finish(first, "round_limit", code, FALSE)
              ELSE Finish(Returned(turn, turn.streamedCut),
                          IF pressed THEN "interrupted" ELSE "hung_up", code, FALSE)
  BY DEF Interrupt
<1> DEFINE code == IF pressed THEN 2 ELSE 3
           stop == IF pressed THEN "interrupted" ELSE "hung_up"
<1>2. code \in {2, 3} /\ stop \in Stops \ Ends /\ CodeTells(code, stop)
  BY DEF Stops, Ends, CodeTells
<1>3. Running /\ pc # "idle"
  BY DEF Interrupt, Running
<1>4. CASE Wrapping
  <2>1. FinishWritten(first, "round_limit", code)
    BY <1>1, <1>4 DEF FinishWritten
  <2> HIDE DEF code
  <2> QED
    BY <1>2, <1>3, <1>4, <2>1, FirstStandsKeeps
<1>5. CASE ~Wrapping
  <2>1. FinishWritten(Returned(turn, turn.streamedCut), stop, code)
    BY <1>1, <1>5 DEF FinishWritten
  <2>2. MayCut(turn.streamedCut)
    BY <1>3 DEF Inv, TurnInv
  <2> HIDE DEF code, stop
  <2> QED
    BY <1>2, <1>3, <2>1, <2>2, CutKeeps
<1> QED
  BY <1>4, <1>5

LEMMA OutOfRoundsKeeps ==
  ASSUME Inv, OutOfRounds
  PROVE  Inv'
<1>1. pc = "plan" /\ Running /\ turn.rounds = 0 /\ TurnInv /\ HeldInv
  BY DEF OutOfRounds, Running, Inv
<1>2. CASE Wrapping /\ FirstStands
  BY <1>1, <1>2, FirstStandsKeeps DEF FirstStands
<1>3. CASE FinishWritten(Returned(turn, turn.cut), "round_limit", 2)
  <2>1. CodeTells(2, "round_limit") /\ "round_limit" \in Stops \ Ends
    BY DEF CodeTells, Stops, Ends
  <2>2. MayCut(turn.cut)
    BY <1>1 DEF TurnInv
  <2> QED
    BY <1>1, <1>3, <2>1, <2>2, CutKeeps
<1>4. CASE /\ first' = Returned(turn, turn.cut)
           /\ turn' = WrapUpTurn
           /\ UNCHANGED <<flags, stored, figures, pc, merged, outcome, exit>>
  <2>1. Rounds(turn.produced) /\ MayCut(turn.cut)
    BY <1>1 DEF TurnInv
  <2>2. first'.messages = turn.produced /\ first'.withheld = turn.cut
        /\ pc' = "plan" /\ UNCHANGED <<policy, stored, figures, merged>>
    BY <1>1, <1>4 DEF Returned, flags
  <2>3. /\ DOMAIN turn' = Fields /\ turn'.history = merged.history \o turn.produced
        /\ turn'.rounds = 1 /\ turn'.measured = TRUE
        /\ turn'.cut = 0 /\ turn'.floor = turn.cut /\ turn'.streamedCut = turn.cut
        /\ Rounds(turn'.produced)
    BY <1>4, NothingIsRounds DEF WrapUpTurn, NewTurn, Fields
  <2>4. MayCut(turn.cut)' /\ MayCut(turn.floor)' /\ MayCut(turn.streamedCut)'
    BY <2>1, <2>2, <2>3 DEF MayCut, Legal
  <2>5. TurnInv'
    BY <2>1, <2>2, <2>3, <2>4 DEF TurnInv
  <2>6. HeldInv'
    BY <1>1, <2>2, <2>3 DEF HeldInv
  <2>7. FirstInv'
    BY <2>1, <2>2 DEF FirstInv, MayCut
  <2> QED
    BY <1>1, <2>2, <2>5, <2>6, <2>7, RunKeeps
<1> QED
  BY <1>2, <1>3, <1>4 DEF OutOfRounds

LEMMA StutterKeeps ==
  ASSUME Inv, UNCHANGED vars
  PROVE  Inv'
<1>1. UNCHANGED <<policy, stored, figures, pc, merged, turn, first, outcome, exit>> /\ Whole' = Whole
  BY DEF vars, Whole
<1> QED
  BY <1>1 DEF Inv, TurnInv, HeldInv, FirstInv, OutcomeInv, StoredInv, MergedInv, Running, Wrapping,
     MayCut, Anchored

LEMMA StepKeeps == Inv /\ [Next]_vars => Inv'
<1> SUFFICES ASSUME Inv, [Next]_vars PROVE Inv'
  OBVIOUS
<1> QED
  BY BeginRunKeeps, SendRequestKeeps, AsksForToolKeeps, RoundAnsweredKeeps, ReplyKeeps,
     SilentReplyKeeps, FailKeeps, GateAbortsKeeps, InterruptKeeps, OutOfRoundsKeeps, SaveKeeps,
     StutterKeeps DEF Next, Rest

-----------------------------------------------------------------------------
(* The theorems. *)

\* Between and within runs: turns under way and turns about to be stored are whole, the
\* transcript is one a resume takes, and every count that crosses between the two index
\* spaces names a prompt in both (agent_run.rs, agent_wrapup.rs, tui's accounted, Merged).
THEOREM ConversationInvariant == Spec => []Inv
BY InitInv, StepKeeps, PTL DEF Spec

\* Whatever the provider, the gate, the operator and the caps did to each run, the
\* transcript can be resumed, and no save is refused for its order.
THEOREM TranscriptIsResumable == Spec => []TranscriptResumes
<1>1. Inv => TranscriptResumes
  <2>1. Inv /\ pc = "save" => Ordered
    BY BatchFits DEF Inv
  <2>2. ASSUME Inv, stored # <<>>
        PROVE  /\ Resumable(stored) /\ Alternating(stored) /\ Opens(stored)
               /\ \A i \in DOMAIN stored : CallsOf(stored[i]) # {} =>
                    i < Len(stored) /\ AnswersIn(stored[i + 1]) = CallsOf(stored[i])
    <3>1. Thread(stored) /\ Resumable(stored)
      BY <2>2 DEF Inv, StoredInv
    <3>2. Alternating(stored) /\ Opens(stored)
      BY <3>1, Vocabulary DEF Thread, InOrder, Flow, Alternating, Opens
    <3>3. ASSUME NEW i \in DOMAIN stored, CallsOf(stored[i]) # {}
          PROVE  i < Len(stored) /\ AnswersIn(stored[i + 1]) = CallsOf(stored[i])
      <4>1. DOMAIN stored = 1 .. Len(stored) /\ Len(stored) \in Nat
        <5>1. stored \in Seq(InTranscript)
          BY <3>1 DEF Thread
        <5> HIDE DEF InTranscript
        <5> QED
          BY <5>1
      <4>2. i # Len(stored)
        BY <3>1, <3>3 DEF Thread
      <4>3. i \in 1 .. Len(stored) - 1 /\ i < Len(stored)
        BY <3>3, <4>1, <4>2
      <4> QED
        BY <3>1, <4>3 DEF Thread, InOrder, Flow
    <3> QED
      BY <3>1, <3>2, <3>3
  <2> QED
    BY <2>1, <2>2 DEF TranscriptResumes
<1> QED
  BY <1>1, ConversationInvariant, PTL

\* The stop on record tells whether the transcript breaks off.
THEOREM StopIsTold == Spec => []StopTellsTheEnd
<1>1. Inv => StopTellsTheEnd
  BY DEF Inv, StoredInv, StopTellsTheEnd, Ends
<1> QED
  BY <1>1, ConversationInvariant, PTL

\* Every request of every run is one the API takes, however often the session was resumed,
\* merged, compacted, cut short and wrapped up before it.
THEOREM RequestsOfRunsAreAccepted == Spec => []RequestAccepted
<1>1. ASSUME Inv, pc = "sent" PROVE AcceptedByApi(Request)
  <2>1. Running /\ pc # "idle"
    BY <1>1 DEF Running
  <2>2. PICK behind : Rounds(behind) /\ turn.history = merged.history \o behind
    BY <1>1, <2>1 DEF Inv, TurnInv
  <2>3. MayCut(turn.cut) /\ Rounds(turn.produced)
    BY <1>1, <2>1 DEF Inv, TurnInv
  <2>4. Requestable(Window(merged.history, turn.cut))
    BY <1>1, <2>1, <2>3, CutOfRun
  <2>5. behind \in Seq(Messages) /\ behind \in Seq(Sendable)
        /\ turn.produced \in Seq(Messages) /\ turn.produced \in Seq(Sendable)
    <3>1. behind \in Seq(Said) /\ turn.produced \in Seq(Said)
      BY <2>2, <2>3 DEF Rounds, Kept
    <3>2. Said \subseteq Messages /\ Said \subseteq Sendable
      BY Kinds, InTranscriptSends
    <3> HIDE DEF Said, Messages, Sendable
    <3> QED
      BY <3>1, <3>2
  <2>6. turn.cut \in Nat /\ turn.cut < Len(merged.history)
    BY <1>1, <2>1, <2>3, MergedIs DEF MayCut, Legal, OpensARequest
  <2>7. Window(turn.history, turn.cut) = Window(merged.history, turn.cut) \o behind
    <3> DEFINE history == merged.history
               cut == turn.cut
    <3>1. history \in Seq(Messages) /\ cut \in Nat /\ cut < Len(history)
      BY <1>1, <2>1, <2>6, MergedIs
    <3>2. turn.history = history \o behind
      BY <2>2
    <3> HIDE DEF history, cut
    <3>3. Window(history \o behind, cut) = Window(history, cut) \o behind
      BY <2>5, <3>1, WindowInFront
    <3> QED
      BY <3>2, <3>3 DEF history, cut
  <2>8. Request = Window(merged.history, turn.cut) \o (behind \o turn.produced)
    <3> DEFINE front == Window(merged.history, turn.cut)
               produced == turn.produced
    <3>1. front \in Seq(Sendable)
      BY <2>4 DEF Requestable
    <3>2. Request = (front \o behind) \o produced
      BY <2>7 DEF Request
    <3> HIDE DEF front, produced, Sendable
    <3>3. behind \in Seq(Sendable) /\ produced \in Seq(Sendable)
      BY <2>5 DEF produced
    <3>4. (front \o behind) \o produced = front \o (behind \o produced)
      BY <3>1, <3>3
    <3> QED
      BY <3>2, <3>4 DEF front, produced
  <2>9. Rounds(behind \o turn.produced)
    <3> DEFINE produced == turn.produced
    <3>1. Rounds(behind) /\ Rounds(produced)
      BY <2>2, <2>3
    <3> HIDE DEF produced
    <3>2. Kept(behind \o produced) /\ ~Settled(behind \o produced)
      <4>1. Kept(behind \o produced)
        BY <3>1, RoundsGoOn DEF Rounds
      <4>2. CASE produced = <<>>
        BY <3>1, <4>1, <4>2, RoundsGoOn DEF Rounds
      <4>3. CASE produced # <<>>
        BY <3>1, <4>1, <4>3, RoundsGoOn DEF Rounds
      <4> QED
        BY <4>2, <4>3
    <3> QED
      BY <3>2 DEF Rounds, produced
  <2> QED
    BY <2>4, <2>8, <2>9, RequestTaken
<1>2. Inv => RequestAccepted
  BY <1>1 DEF RequestAccepted
<1> QED
  BY <1>2, ConversationInvariant, PTL

\* What a turn of the loop may take its conversation to be (TurnLoop's
\* ConversationsAssumption): one the API takes as it stands, without reasoning, in which
\* only the model calls tools.
Conversational(history) ==
  /\ AcceptedByApi(history)
  /\ \A i \in DOMAIN history :
       /\ AllBlocks(history[i], NotThinking)
       /\ history[i].role = "user" => CallsOf(history[i]) = {}

\* The history of every turn these commands run is such a conversation, a wrap-up's too, so
\* what TurnLoop takes for granted of its histories is what agent-run and tui hand over.
THEOREM TurnsTakeConversations ==
  Spec => [](Running => turn.history \in Seq(Messages) /\ Conversational(turn.history))
<1>1. ASSUME Inv, Running PROVE turn.history \in Seq(Messages) /\ Conversational(turn.history)
  <2>1. PICK behind : Rounds(behind) /\ turn.history = merged.history \o behind
    BY <1>1 DEF Inv, TurnInv
  <2>2. Requestable(merged.history)
    BY <1>1, MergeOfRun DEF Inv, MergedInv, Running
  <2>3. AcceptedByApi(turn.history)
    BY <2>1, <2>2, RequestTaken
  <2>4. turn.history \in Seq(Sendable)
    <3>1. merged.history \in Seq(Sendable) /\ behind \in Seq(Said)
      BY <2>1, <2>2 DEF Requestable, Rounds, Kept
    <3>2. Said \subseteq Sendable
      BY Kinds, InTranscriptSends
    <3> HIDE DEF Said, Sendable
    <3> QED
      BY <2>1, <3>1, <3>2
  <2>5. \A i \in DOMAIN turn.history : turn.history[i] \in Sendable
    <3> HIDE DEF Sendable
    <3> QED
      BY <2>4
  <2>6. turn.history \in Seq(Messages)
    BY <1>1, HistoryIs
  <2> QED
    BY <2>3, <2>5, <2>6 DEF Sendable, Conversational
<1>2. Inv => (Running => turn.history \in Seq(Messages) /\ Conversational(turn.history))
  BY <1>1
<1> QED
  BY <1>2, ConversationInvariant, PTL

\* The count a turn's cut is stored as leaves the same messages in the transcript as the
\* cut leaves in the request (Merged::unmerged).
THEOREM CutNamesTheSameMessages == Spec => []CutNamesTheSame
<1>1. ASSUME Inv, pc = "sent"
      PROVE  Window(merged.history, turn.cut)
               = MergeUserRuns(SubSeq(Whole, Unmerged(merged, turn.cut) + 1, Len(Whole)), 0).history
  <2>1. MayCut(turn.cut) /\ pc # "idle"
    BY <1>1 DEF Inv, TurnInv, Running
  <2> QED
    BY <1>1, <2>1, CutOfRun DEF From
<1>2. Inv => CutNamesTheSame
  BY <1>1 DEF CutNamesTheSame
<1> QED
  BY <1>2, ConversationInvariant, PTL

\* And what one run withheld no later request of any run sends again.
THEOREM WithheldStaysSo == Spec => []StaysWithheld
<1>1. ASSUME Inv, policy # None, pc = "sent"
      PROVE  Unmerged(merged, turn.cut) >= figures.withheld
  <2>1. MayCut(turn.cut) /\ pc # "idle" /\ turn.cut >= merged.withheld
    BY <1>1 DEF Inv, TurnInv, HeldInv, Running
  <2> QED
    BY <1>1, <2>1, CutOfRun
<1>2. Inv => StaysWithheld
  BY <1>1 DEF StaysWithheld
<1> QED
  BY <1>2, ConversationInvariant, PTL

\* Nothing but a save touches the transcript; it goes behind what is there, takes every
\* turn that kept anything, and the code of the run tells its stop, unless stdout refused
\* the answer: then it is 1, and the turn is stored all the same.
THEOREM ExitCodeAgrees == Spec => ExitAgrees
<1>1. ASSUME Inv, Save PROVE Agrees
  <2>1. /\ pc = "save"
        /\ IF Takes /\ Ordered
             THEN /\ stored' = stored \o Batch
                  /\ figures' = [observed |-> Or(outcome.observed, figures.observed),
                                 withheld |-> outcome.withheld, stop |-> outcome.stop]
             ELSE UNCHANGED <<stored, figures>>
        /\ exit' = IF Takes /\ ~Ordered THEN 1 ELSE exit
    BY <1>1 DEF Save
  <2>2. Ordered /\ Thread(Batch) /\ (Takes <=> ~Empty)
    BY <1>1, <2>1, BatchFits DEF Inv
  <2>3. exit' = exit /\ IF outcome.lost THEN exit = 1 ELSE CodeTells(exit, outcome.stop)
    BY <1>1, <2>1, <2>2 DEF Inv, OutcomeInv
  <2>4. IF outcome.lost THEN exit' = 1 ELSE CodeTells(exit', outcome.stop)
    BY <2>3
  <2>5. CASE ~Takes
    <3>1. stored' = stored /\ outcome.messages = <<>>
      BY <2>1, <2>2, <2>5 DEF Empty
    <3> QED
      BY <2>4, <3>1 DEF Agrees
  <2>6. CASE Takes
    <3>1. stored' = stored \o Batch /\ figures'.stop = outcome.stop /\ outcome.messages # <<>>
      BY <2>1, <2>2, <2>6 DEF Empty
    <3>2. stored' # stored /\ IsPrefix(stored, stored')
      <4>1. stored \in Seq(InTranscript) /\ Batch \in Seq(InTranscript) /\ Batch # <<>>
        BY <1>1, <2>2, AskFollows DEF Inv, Thread
      <4> HIDE DEF InTranscript
      <4>2. /\ Len(stored) <= Len(stored \o Batch) /\ Len(stored) \in Nat
            /\ Len(stored) # Len(stored \o Batch)
        BY <4>1
      <4>3. SubSeq(stored, 1, Len(stored)) = SubSeq(stored \o Batch, 1, Len(stored))
        BY <4>1, <4>2
      <4> QED
        BY <3>1, <4>1, <4>2, <4>3 DEF IsPrefix
    <3>3. Saving
      BY <1>1 DEF Saving, Save, Exits
    <3> QED
      BY <2>4, <3>1, <3>2, <3>3 DEF Agrees
  <2> QED
    BY <2>5, <2>6
<1>2. ASSUME Inv, Next \/ UNCHANGED vars, ~Save PROVE Agrees
  <2>1. ~Saving
    BY <1>2 DEF Saving, Next, Rest, vars, BeginRun, SendRequest, Reply, SilentReply, Fail, AsksForTool,
       RoundAnswered, GateAborts, Interrupt, OutOfRounds
  <2>2. stored' = stored
    BY <1>2 DEF Next, Rest, vars, BeginRun, SendRequest, Reply, SilentReply, Fail, AsksForTool,
       RoundAnswered, GateAborts, Interrupt, OutOfRounds, FinishWritten, Finish, FirstStands
  <2> QED
    BY <2>1, <2>2 DEF Agrees
<1>3. Inv /\ [Next]_vars => [Agrees]_vars
  BY <1>1, <1>2
<1> QED
  BY <1>3, ConversationInvariant, PTL DEF Spec, ExitAgrees
=============================================================================
