--------------------------- MODULE Authority_proofs ---------------------------
(***************************************************************************)
(* What a tool call is authorised by, at both ends.  The gate: a call runs *)
(* only on an answer typed for it, for any number of calls and lines, any  *)
(* tools, and an operator who types at any moment.  The kernel: what the   *)
(* denials and the port rules of a spawn bound, for every policy, which    *)
(* are the parts SamePorts and SameSockets of KernelAgrees (Confinement)   *)
(* that a run checks for a few command lines, and what the opened rules    *)
(* confer.                                                                 *)
(***************************************************************************)
EXTENDS ConsentGate, Ruleset, TLAPS

-----------------------------------------------------------------------------
(* The gate. *)

Lines == [text : Texts, during : Nat]

Asking == {"question", "read"}

Whys == {"argv", "reads", "blanket", "uncleared", "closed", "answer"}

\* The gate's variables hold what the code puts there; decisions are numbered as they come.
GateTyped ==
  /\ asks \in BOOLEAN /\ pc \in {"idle", "drain"} \cup Asking
  /\ queue \in Seq(Lines) /\ buffer \in Seq(Lines)
  /\ decisions \in Seq([number : Nat, tool : Tools, verdict : {"allow", "deny", "abort"},
                        why : Whys, line : Lines \cup {NoLine}])
  /\ \A i \in DOMAIN decisions : decisions[i].number = i

\* A question is only ever put about the next call, of a tool that argv approved and that
\* does more than read, by a gate that has a terminal.
CallInv ==
  pc # "idle" =>
    /\ asks /\ call.number = Len(decisions) + 1
    /\ call.tool \in Tools \cap Risky \cap Approved

\* While the question is up, no line anywhere is older than it.
FreshInv ==
  pc \in Asking => \A line \in ToSet(queue) \cup ToSet(buffer) : line.during = call.number

\* A tool is approved for the rest of the run by an "all" typed for a call of its own.
BlanketInv ==
  \A tool \in blanket :
    \E j \in DOMAIN decisions : /\ decisions[j].tool = tool
                                /\ decisions[j].line.text = "all"
                                /\ decisions[j].line.during = j

Inv == GateTyped /\ CallInv /\ FreshInv /\ BlanketInv /\ ConsentIsForThisCall

-----------------------------------------------------------------------------
(* Deciding. *)

\* What ConsentIsForThisCall says of one decision, given how many of all came before it.
RightlyDecided(decided, all, before) ==
  /\ decided.why = "answer" => decided.line.during = decided.number
  /\ decided.verdict = "allow" /\ decided.tool \in Risky =>
       /\ decided.tool \in Approved
       /\ asks => \/ decided.line.text \in {"yes", "all"}
                  \/ \E j \in 1 .. before : /\ all[j].tool = decided.tool
                                            /\ all[j].line.text = "all"
                                            /\ all[j].line.during = j

\* A decision that is right behind the ones made keeps them all right, and with them the
\* blankets they gave and the one it may give.
LEMMA DecideKeeps ==
  ASSUME Inv, UNCHANGED asks, NEW number \in Nat, NEW tool \in Tools,
         NEW verdict \in {"allow", "deny", "abort"}, NEW why \in Whys,
         NEW line \in Lines \cup {NoLine},
         number = Len(decisions) + 1, Decide(number, tool, verdict, why, line),
         queue' \in Seq(Lines), buffer' \in Seq(Lines),
         RightlyDecided([number |-> number, tool |-> tool, verdict |-> verdict, why |-> why,
                         line |-> line], decisions, Len(decisions)),
         blanket' \subseteq blanket \cup {t \in {tool} : line.text = "all" /\ line.during = number}
  PROVE  Inv'
<1> DEFINE decided == [number |-> number, tool |-> tool, verdict |-> verdict, why |-> why,
                       line |-> line]
           Decisions == [number : Nat, tool : Tools, verdict : {"allow", "deny", "abort"},
                         why : Whys, line : Lines \cup {NoLine}]
<1>1. /\ decisions \in Seq(Decisions) /\ decided \in Decisions
      /\ decisions' = Append(decisions, decided) /\ pc' = "idle"
  BY DEF Inv, GateTyped, Decide
<1> HIDE DEF Decisions
<1>2. /\ decisions' \in Seq(Decisions) /\ DOMAIN decisions' = 1 .. Len(decisions) + 1
      /\ DOMAIN decisions = 1 .. Len(decisions) /\ Len(decisions) \in Nat
      /\ \A i \in DOMAIN decisions : decisions'[i] = decisions[i]
      /\ decisions'[Len(decisions) + 1] = decided
  <2> HIDE DEF decided
  <2> QED
    BY <1>1
<1>3. GateTyped'
  <2>1. ASSUME NEW i \in DOMAIN decisions' PROVE decisions'[i].number = i
    <3>1. CASE i \in DOMAIN decisions
      BY <1>2, <3>1 DEF Inv, GateTyped
    <3>2. CASE i = Len(decisions) + 1
      BY <1>2, <3>2
    <3> QED
      BY <1>2, <3>1, <3>2
  <2> QED
    BY <1>1, <1>2, <2>1 DEF Inv, GateTyped, Decisions
<1>4. BlanketInv'
  <2> SUFFICES ASSUME NEW t \in blanket'
               PROVE  \E j \in DOMAIN decisions' : /\ decisions'[j].tool = t
                                                   /\ decisions'[j].line.text = "all"
                                                   /\ decisions'[j].line.during = j
    BY DEF BlanketInv
  <2>1. CASE t \in blanket
    <3>1. PICK j \in DOMAIN decisions : /\ decisions[j].tool = t
                                        /\ decisions[j].line.text = "all"
                                        /\ decisions[j].line.during = j
      BY <2>1 DEF Inv, BlanketInv
    <3> QED
      BY <1>2, <3>1
  <2>2. CASE t = tool /\ line.text = "all" /\ line.during = number
    <3>1. Len(decisions) + 1 \in DOMAIN decisions'
      BY <1>2
    <3> QED
      BY <1>2, <2>2, <3>1, SMTT(30)
  <2> QED
    BY <2>1, <2>2
<1>5. ConsentIsForThisCall'
  <2> SUFFICES ASSUME NEW i \in DOMAIN decisions'
               PROVE  RightlyDecided(decisions[i], decisions, i - 1)'
    BY DEF ConsentIsForThisCall, RightlyDecided
  <2>1. \A j \in 1 .. i - 1 : j \in DOMAIN decisions /\ decisions'[j] = decisions[j]
    BY <1>2
  <2>2. CASE i \in DOMAIN decisions
    <3>1. RightlyDecided(decisions[i], decisions, i - 1)
      BY <2>2 DEF Inv, ConsentIsForThisCall, RightlyDecided
    <3> QED
      BY <1>2, <2>1, <2>2, <3>1 DEF RightlyDecided
  <2>3. CASE i = Len(decisions) + 1
    <3>1. decisions'[i] = decided /\ i - 1 = Len(decisions)
      BY <1>2, <2>3
    <3> HIDE DEF decided
    <3> QED
      BY <1>2, <2>1, <3>1 DEF RightlyDecided, decided
  <2> QED
    BY <1>2, <2>2, <2>3
<1> QED
  BY <1>1, <1>3, <1>4, <1>5 DEF Inv, CallInv, FreshInv, Asking

-----------------------------------------------------------------------------
(* The steps. *)

\* A line that is typed while a question is up is of that question's call.
LEMMA TypeKeeps ==
  ASSUME Inv, TypeLine
  PROVE  Inv'
<1>1. PICK text \in Texts :
        queue' = Append(queue, [text |-> text,
                                during |-> IF pc \in Asking THEN call.number ELSE 0])
  BY DEF TypeLine, Asking
<1> DEFINE line == [text |-> text, during |-> IF pc \in Asking THEN call.number ELSE 0]
<1>2. UNCHANGED <<asks, pc, call, buffer, blanket, decisions>>
  BY DEF TypeLine
<1>3. pc \in Asking => call.number \in Nat
  BY DEF Inv, CallInv, GateTyped, Asking
<1>4. line \in Lines /\ queue \in Seq(Lines)
  BY <1>3 DEF Lines, Inv, GateTyped
<1>5. queue' \in Seq(Lines) /\ ToSet(queue') = ToSet(queue) \cup {line}
  <2> HIDE DEF line
  <2> QED
    BY <1>1, <1>4 DEF ToSet, line
<1>6. FreshInv'
  BY <1>2, <1>5 DEF Inv, FreshInv
<1>7. GateTyped'
  <2>1. GateTyped
    BY DEF Inv
  <2> QED
    BY <1>2, <1>5, <2>1 DEF GateTyped
<1>8. CallInv' /\ BlanketInv' /\ ConsentIsForThisCall'
  <2>1. CallInv /\ BlanketInv /\ ConsentIsForThisCall
    BY DEF Inv
  <2>2. CallInv'
    BY <1>2, <2>1 DEF CallInv
  <2>3. BlanketInv'
    BY <1>2, <2>1 DEF BlanketInv
  <2>4. ConsentIsForThisCall'
    BY <1>2, <2>1 DEF ConsentIsForThisCall
  <2> QED
    BY <2>2, <2>3, <2>4
<1> QED
  BY <1>6, <1>7, <1>8 DEF Inv

\* The question goes up after both layers were drained, and stays up for its own call.
LEMMA AskingKeeps ==
  ASSUME Inv, Drain \/ DrainFails \/ Question \/ TerminalGone \/ FillBuffer
  PROVE  Inv'
<1>0. /\ pc \in {"drain"} \cup Asking /\ UNCHANGED <<asks, call, blanket>>
      /\ queue' \in Seq(Lines) /\ buffer' \in Seq(Lines)
      /\ call.number = Len(decisions) + 1 /\ call.number \in Nat /\ call.tool \in Tools
  <2>1. pc \in {"drain"} \cup Asking /\ UNCHANGED <<asks, call, blanket>>
    BY DEF Drain, DrainFails, Question, TerminalGone, FillBuffer, Asking
  <2>2. queue' \in Seq(Lines) /\ buffer' \in Seq(Lines)
    <3>1. queue \in Seq(Lines) /\ buffer \in Seq(Lines) /\ <<>> \in Seq(Lines)
      BY DEF Inv, GateTyped
    <3>2. CASE FillBuffer
      <4>1. PICK taken \in 1 .. Len(queue) : /\ buffer' = SubSeq(queue, 1, taken)
                                             /\ queue' = SubSeq(queue, taken + 1, Len(queue))
        BY <3>2 DEF FillBuffer
      <4> QED
        BY <3>1, <4>1
    <3> QED
      BY <3>1, <3>2 DEF Drain, DrainFails, Question, TerminalGone
  <2> QED
    BY <2>1, <2>2 DEF Inv, CallInv, GateTyped, Asking
<1>1. CASE \E verdict \in {"allow", "abort"}, why \in {"blanket", "uncleared", "closed"} :
             /\ Settle(verdict, why, NoLine)
             /\ verdict = "allow" => why = "blanket" /\ call.tool \in blanket
  <2>1. PICK verdict \in {"allow", "abort"}, why \in {"blanket", "uncleared", "closed"} :
          /\ Settle(verdict, why, NoLine)
          /\ verdict = "allow" => why = "blanket" /\ call.tool \in blanket
    BY <1>1
  <2> DEFINE decided == [number |-> call.number, tool |-> call.tool, verdict |-> verdict,
                         why |-> why, line |-> NoLine]
  <2>2. RightlyDecided(decided, decisions, Len(decisions))
    <3>1. decided.why # "answer" /\ call.tool \in Approved
      BY <1>0 DEF Inv, CallInv, Asking
    <3>2. verdict = "allow" => \E j \in DOMAIN decisions : /\ decisions[j].tool = call.tool
                                                         /\ decisions[j].line.text = "all"
                                                         /\ decisions[j].line.during = j
      BY <2>1 DEF Inv, BlanketInv
    <3>3. DOMAIN decisions = 1 .. Len(decisions)
      BY DEF Inv, GateTyped
    <3> QED
      BY <3>1, <3>2, <3>3 DEF RightlyDecided
  <2>3. Decide(call.number, call.tool, verdict, why, NoLine)
    BY <2>1 DEF Settle
  <2>4. verdict \in {"allow", "deny", "abort"} /\ why \in Whys
    BY DEF Whys
  <2> QED
    BY <1>0, <2>2, <2>3, <2>4, DecideKeeps
<1>2. CASE UNCHANGED decisions /\ pc' \in Asking
  <2>1. \A line \in ToSet(queue') \cup ToSet(buffer') : line.during = call.number
    <3>1. CASE Drain
      BY <3>1 DEF Drain, ToSet
    <3>2. CASE Question
      BY <3>2 DEF Question, Inv, FreshInv, Asking
    <3>3. CASE FillBuffer
      <4>1. /\ ToSet(queue') \subseteq ToSet(queue) /\ ToSet(buffer') \subseteq ToSet(queue)
            /\ pc \in Asking
        BY <3>3 DEF FillBuffer, ToSet, Inv, GateTyped, Asking
      <4> QED
        BY <4>1 DEF Inv, FreshInv
    <3> QED
      BY <1>2, <3>1, <3>2, <3>3 DEF DrainFails, TerminalGone, Settle, Decide, Asking
  <2>2. FreshInv' /\ CallInv'
    BY <1>0, <1>2, <2>1 DEF Inv, FreshInv, CallInv, Asking
  <2> QED
    BY <1>0, <1>2, <2>2 DEF Inv, GateTyped, BlanketInv, ConsentIsForThisCall
<1> QED
  BY <1>1, <1>2 DEF Drain, DrainFails, Question, TerminalGone, FillBuffer, Asking

\* A line that is read decides the call it was typed for; one that is no answer none.
LEMMA ReadKeeps ==
  ASSUME Inv, ReadLine
  PROVE  Inv'
<1> DEFINE line == Head(buffer)
<1>1. /\ pc = "read" /\ UNCHANGED <<asks, call, queue>> /\ buffer \in Seq(Lines)
      /\ buffer # <<>> /\ buffer' = Tail(buffer) /\ queue \in Seq(Lines)
      /\ call.number = Len(decisions) + 1 /\ call.number \in Nat /\ asks
      /\ call.tool \in Tools \cap Risky \cap Approved
  BY DEF ReadLine, Inv, GateTyped, CallInv, Asking
<1>2. /\ line \in Lines /\ buffer' \in Seq(Lines) /\ line \in ToSet(buffer)
      /\ ToSet(buffer') \subseteq ToSet(buffer)
  BY <1>1 DEF ToSet
<1>3. line.during = call.number
  BY <1>1, <1>2 DEF Inv, FreshInv, Asking
<1> HIDE DEF line
<1>4. CASE \E verdict \in {"allow", "deny"} :
             /\ Settle(verdict, "answer", line)
             /\ verdict = "allow" => line.text \in {"yes", "all"}
             /\ blanket' \subseteq blanket \cup {t \in {call.tool} : line.text = "all"}
  <2>1. PICK verdict \in {"allow", "deny"} :
          /\ Settle(verdict, "answer", line)
          /\ verdict = "allow" => line.text \in {"yes", "all"}
          /\ blanket' \subseteq blanket \cup {t \in {call.tool} : line.text = "all"}
    BY <1>4
  <2>2. RightlyDecided([number |-> call.number, tool |-> call.tool, verdict |-> verdict,
                        why |-> "answer", line |-> line], decisions, Len(decisions))
    BY <1>1, <1>3, <2>1 DEF RightlyDecided
  <2>3. Decide(call.number, call.tool, verdict, "answer", line)
    BY <2>1 DEF Settle
  <2>4. queue' \in Seq(Lines) /\ UNCHANGED asks /\ verdict \in {"allow", "deny", "abort"}
        /\ "answer" \in Whys /\ line \in Lines \cup {NoLine} /\ call.tool \in Tools
    BY <1>1, <1>2 DEF Whys
  <2>5. blanket' \subseteq blanket \cup {t \in {call.tool} : line.text = "all"
                                                             /\ line.during = call.number}
    BY <1>3, <2>1
  <2> QED
    BY <1>1, <1>2, <2>2, <2>3, <2>4, <2>5, DecideKeeps, SMTT(30)
<1>5. CASE pc' = "question" /\ UNCHANGED <<blanket, decisions>>
  <2>1. FreshInv'
    BY <1>1, <1>2, <1>5 DEF Inv, FreshInv, Asking
  <2> QED
    BY <1>1, <1>2, <1>5, <2>1 DEF Inv, GateTyped, CallInv, BlanketInv, ConsentIsForThisCall, Asking
<1>6. \/ line.text = "yes" /\ Settle("allow", "answer", line) /\ UNCHANGED blanket
      \/ line.text = "no" /\ Settle("deny", "answer", line) /\ UNCHANGED blanket
      \/ line.text = "all" /\ Settle("allow", "answer", line) /\ blanket' = blanket \cup {call.tool}
      \/ pc' = "question" /\ UNCHANGED <<blanket, decisions>>
  BY DEF ReadLine, line
<1> QED
  BY <1>4, <1>5, <1>6

\* What needs no operator: argv, or a tool that only reads.
LEMMA ApproveKeeps ==
  ASSUME Inv, Approve
  PROVE  Inv'
<1> DEFINE number == Len(decisions) + 1
<1>1. PICK tool \in Tools :
        /\ call' = [number |-> number, tool |-> tool]
        /\ \/ ~Approves(tool) /\ Decide(number, tool, "deny", "argv", NoLine)
           \/ Approves(tool) /\ tool \notin Risky /\ Decide(number, tool, "allow", "reads", NoLine)
           \/ Approves(tool) /\ tool \in Risky /\ ~asks
                /\ Decide(number, tool, "allow", "argv", NoLine)
           \/ Approves(tool) /\ tool \in Risky /\ asks /\ pc' = "drain" /\ UNCHANGED decisions
  BY DEF Approve
<1>2. /\ UNCHANGED <<asks, queue, buffer, blanket>> /\ number \in Nat
      /\ queue' \in Seq(Lines) /\ buffer' \in Seq(Lines)
  BY DEF Approve, Inv, GateTyped
<1>3. CASE pc' = "drain" /\ UNCHANGED decisions /\ Approves(tool) /\ tool \in Risky /\ asks
  BY <1>1, <1>2, <1>3 DEF Inv, GateTyped, CallInv, FreshInv, BlanketInv, ConsentIsForThisCall,
                          Asking, Approves
<1>4. CASE \E verdict \in {"allow", "deny"}, why \in {"argv", "reads"} :
             /\ Decide(number, tool, verdict, why, NoLine)
             /\ verdict = "allow" /\ tool \in Risky => Approves(tool) /\ ~asks
  <2>1. PICK verdict \in {"allow", "deny"}, why \in {"argv", "reads"} :
             /\ Decide(number, tool, verdict, why, NoLine)
             /\ verdict = "allow" /\ tool \in Risky => Approves(tool) /\ ~asks
    BY <1>4
  <2>2. RightlyDecided([number |-> number, tool |-> tool, verdict |-> verdict, why |-> why,
                        line |-> NoLine], decisions, Len(decisions))
    BY <2>1 DEF RightlyDecided, Approves
  <2>3. verdict \in {"allow", "deny", "abort"} /\ why \in Whys
    BY DEF Whys
  <2> HIDE DEF number
  <2>4. number = Len(decisions) + 1
    BY DEF number
  <2> QED
    BY <1>2, <2>1, <2>2, <2>3, <2>4, DecideKeeps
<1> QED
  BY <1>1, <1>2, <1>3, <1>4

-----------------------------------------------------------------------------

\* The invariant of a run's gate: what is asked, what is still to be read, and what a
\* blanket stands on.
THEOREM GateInvariant == Spec => []Inv
<1>1. Init => Inv
  BY DEF Init, Inv, GateTyped, CallInv, FreshInv, BlanketInv, ConsentIsForThisCall, Asking
<1>2. Inv /\ [Next]_vars => Inv'
  <2> SUFFICES ASSUME Inv, [Next]_vars PROVE Inv'
    OBVIOUS
  <2>1. CASE TypeLine
    BY <2>1, TypeKeeps
  <2>2. CASE Approve
    BY <2>2, ApproveKeeps
  <2>3. CASE Drain \/ DrainFails \/ Question \/ TerminalGone \/ FillBuffer
    BY <2>3, AskingKeeps
  <2>4. CASE ReadLine
    BY <2>4, ReadKeeps
  <2>5. CASE UNCHANGED vars
    BY <2>5 DEF vars, Inv, GateTyped, CallInv, FreshInv, BlanketInv, ConsentIsForThisCall
  <2> QED
    BY <2>1, <2>2, <2>3, <2>4, <2>5 DEF Next, Rest
<1> QED
  BY <1>1, <1>2, PTL DEF Spec

\* A call that does more than read runs under --approve call only on an answer typed for
\* that call, or on an "all" typed for an earlier call of the same tool
\* (Terminal::discard_typeahead).
THEOREM ConsentIsItsCalls == Spec => []ConsentIsForThisCall
<1>1. Inv => ConsentIsForThisCall
  BY DEF Inv
<1> QED
  BY <1>1, GateInvariant, PTL

-----------------------------------------------------------------------------
(* The kernel rules of a spawn. *)

\* What Landlock never asks its port rules about does not get past seccomp under a port
\* allowlist: by the type, the family, the protocol, TCP_ULP or MSG_FASTOPEN, each
\* way a connection could be made unasked is denied (helper_seccomp_rules.rs:220-327).
THEOREM UnaskedIsDenied ==
  ASSUME NEW policy, NEW way \in Ways,
         policy.network.kind = "Ports",
         way.call # "socketpair", way.family # "unix", ~Asked(way)
  PROVE  Denied(policy, way)
  <1>1. way.call = "io_uring_setup" \/ way.call = "socket"
        BY DEF Ways
  <1>2. CASE way.call = "io_uring_setup"
        BY <1>2 DEF Denied, BlockedSyscalls
  <1>3. CASE way.call = "socket"
    <2>1. CASE way.type # "stream"
          BY <1>3, <2>1 DEF Denied, DeniesType, ConfinesToTcp
    <2>2. CASE way.type = "stream" /\ way.family \notin {"inet", "inet6"}
          BY <1>3, <2>2 DEF Denied, DeniesFamily, ConfinesToTcp
    <2>3. CASE way.family \in {"inet", "inet6"} /\ way.protocol \notin {"default", "tcp"}
          BY <1>3, <2>3 DEF Denied, DeniesProtocol, ConfinesToTcp
    <2>4. CASE way.ulp
          BY <2>4 DEF Denied, DeniesUlp, ConfinesToTcp
    <2>5. CASE way.connects = "send"
          BY <2>5 DEF Denied, DeniesFastopen, ConfinesToTcp
    <2>6. way.connects \in {"connect", "send"}
          BY DEF Ways
    <2>. QED BY <1>3, <2>1, <2>2, <2>3, <2>4, <2>5, <2>6 DEF Asked
  <1>. QED BY <1>1, <1>2, <1>3

\* Under a port allowlist no way of connecting reaches a port it does not name: what is
\* not denied is asked of Landlock, whose rules are the allowlist's (net_rules).
THEOREM PortsBoundEveryWay ==
  ASSUME NEW policy, NEW way \in Ways, NEW port,
         policy.network.kind = "Ports", Reaches(policy, way, port)
  PROVE  port \in ToSet(policy.network.ports)
  <1>1. way.call # "socketpair" /\ way.family # "unix" /\ ~Denied(policy, way)
        BY DEF Reaches
  <1>2. Asked(way)
        BY <1>1, UnaskedIsDenied
  <1>3. NetRules(policy) = [handled |-> TRUE, ports |-> ToSet(policy.network.ports)]
        BY DEF NetRules
  <1>. QED BY <1>2, <1>3 DEF Reaches

\* And it takes nothing from the ports it names: a plain TCP connection to one of them
\* goes through every denial, with unix sockets granted or not.
THEOREM PortsLeaveTcp ==
  ASSUME NEW policy, NEW way \in Ways, NEW port,
         policy.network.kind = "Ports", Asked(way), port \in ToSet(policy.network.ports)
  PROVE  Reaches(policy, way, port)
  <1>1. ~Denied(policy, way)
        BY DEF Asked, Denied, BlockedSyscalls, DeniesUnix, DeniesPair, DeniesType,
               DeniesFamily, DeniesProtocol, DeniesUlp, DeniesFastopen
  <1>2. NetRules(policy) = [handled |-> TRUE, ports |-> ToSet(policy.network.ports)]
        BY DEF NetRules
  <1>3. way.call # "socketpair" /\ way.family # "unix"
        BY DEF Asked
  <1>. QED BY <1>1, <1>2, <1>3 DEF Reaches

\* A command of a policy without unix sockets has none it can point at the host's, by
\* socket or by a connectionless pair, whatever else is granted (177-218).
THEOREM UnixNeedsGrant ==
  ASSUME NEW policy, NEW way \in Ways, policy.unix \in BOOLEAN, ReachesUnix(policy, way)
  PROVE  policy.unix
  <1>. SUFFICES ASSUME ~policy.unix
                PROVE  Denied(policy, way)
       BY DEF ReachesUnix
  <1>1. CASE way.call = "io_uring_setup"
        BY <1>1 DEF Denied, BlockedSyscalls
  <1>2. CASE way.call = "socket"
        BY <1>2 DEF ReachesUnix, Denied, DeniesUnix
  <1>3. CASE way.call = "socketpair"
        BY <1>3 DEF ReachesUnix, Denied, DeniesPair
  <1>. QED BY <1>1, <1>2, <1>3 DEF Ways

\* A port allowlist does not narrow the unix axis: granted, a unix socket of any type
\* can be made and connected under it (232-236 except the unix family).
THEOREM PortsLeaveUnix ==
  ASSUME NEW policy, NEW way \in Ways, policy.unix,
         way.family = "unix", way.call = "socket", ~way.ulp, way.connects = "connect"
  PROVE  ReachesUnix(policy, way)
  <1>1. ~Denied(policy, way)
        BY DEF Denied, BlockedSyscalls, DeniesUnix, DeniesPair, DeniesType,
               DeniesFamily, DeniesProtocol, DeniesUlp, DeniesFastopen
  <1>. QED BY <1>1 DEF ReachesUnix

\* A grant's rule confers what the grant's axis names and nothing else, on a file as on a
\* directory and at every ABI; a socket's path, only to a policy that grants unix sockets
\* (rights_for, unix_socket_rights: the second is added to every rule, whatever its axis).
THEOREM RulesFollowAxes ==
  ASSUME NEW tree, NEW policy, NEW granted, NEW abi, NEW i \in DOMAIN granted,
         policy.unix \in BOOLEAN, granted[i].axis \in {"Read", "Write", "ReadExecute"},
         NEW rule, rule = GrantRules(tree, policy, granted, abi)[i]
  PROVE  /\ "ReadFile" \in rule.rights <=> "read" \in Grants(granted[i].axis)
         /\ "WriteFile" \in rule.rights <=> "write" \in Grants(granted[i].axis)
         /\ "Execute" \in rule.rights <=> "execute" \in Grants(granted[i].axis)
         /\ "ResolveUnix" \in rule.rights => policy.unix
  <1>. DEFINE axis == granted[i].axis
              path == granted[i].vetted.path
              own == RightsFor(axis, IsDirectory(tree, path), abi)
  <1>1. rule.rights = own \cup UnixSocketRights(policy, abi)
        BY DEF GrantRules, RuleOf
  <1>2. /\ "ReadFile" \in own <=> "read" \in Grants(axis)
        /\ "WriteFile" \in own <=> "write" \in Grants(axis)
        /\ "Execute" \in own <=> "execute" \in Grants(axis)
        /\ "ResolveUnix" \notin own
    <2>. DEFINE directory == IsDirectory(tree, path)
    <2>. HIDE DEF directory
    <2>1. axis \in {"Read", "Write", "ReadExecute"}
          OBVIOUS
    <2>. HIDE DEF axis
    <2>2. own = RightsFor(axis, directory, abi)
          BY DEF directory
    <2>. HIDE DEF own
    <2>. QED BY <2>1, <2>2 DEF RightsFor, Grants, FromRead, FromAll, FromFile
  <1>3. UnixSocketRights(policy, abi) \subseteq {"ResolveUnix"}
        /\ (~policy.unix => UnixSocketRights(policy, abi) = {})
        BY DEF UnixSocketRights
  <1>. HIDE DEF own
  <1>. QED BY <1>1, <1>2, <1>3
=============================================================================
