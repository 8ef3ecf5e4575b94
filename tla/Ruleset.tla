------------------------------ MODULE Ruleset ------------------------------
(***************************************************************************)
(* What the kernel is asked to enforce on a spawned command: the Landlock  *)
(* rules (helper_ruleset_*.rs), the files a bounded resolution mounts over *)
(* the host's (helper_resolver.rs) and the seccomp filters                 *)
(* (helper_seccomp_*.rs).                                                  *)
(*                                                                         *)
(* Rights are classed: what the kernel splits further and the code grants  *)
(* together is one right here.                                             *)
(***************************************************************************)
EXTENDS Policy

CONSTANTS
  Bounded,    \* the file mounted over each of the resolver's
  Required    \* the resolver's files whose replacement may not be skipped

-----------------------------------------------------------------------------
(* Landlock: the rights of a rule *)

\* NEGOTIABLE_ABI: the newest that the kernel takes is used.
NegotiableAbi == <<9, 8, 7, 6, 5>>

NegotiatedAbi(supported) ==
  LET taken == SelectSeq(NegotiableAbi, LAMBDA abi : abi <= supported)
  IN  IF taken = <<>> THEN Err("Unsupported") ELSE Ok(Head(taken))

FromRead == {"ReadFile", "ReadDir", "Execute"}
FromAll(abi) == FromRead \cup {"WriteFile", "Make"} \cup (IF abi >= 9 THEN {"ResolveUnix"} ELSE {})
FromFile == {"ReadFile", "WriteFile", "Execute", "ResolveUnix"}

\* Mutant: what may be executed may not be read.
RightsForExecuteOnly(axis, directory, abi) ==
  LET granted == Grants(axis)
      rights == (IF granted = {"read"} THEN FromRead \ {"Execute"} ELSE {})
                \cup (IF "write" \in granted THEN FromAll(abi) \ (FromRead \cup {"ResolveUnix"}) ELSE {})
                \cup (IF "execute" \in granted THEN {"Execute"} ELSE {})
  IN  IF directory THEN rights ELSE rights \cap FromFile

RightsFor(axis, directory, abi) ==
  LET granted == Grants(axis)
      rights == (IF "read" \in granted THEN FromRead \ {"Execute"} ELSE {})
                \cup (IF "write" \in granted THEN FromAll(abi) \ (FromRead \cup {"ResolveUnix"}) ELSE {})
                \cup (IF "execute" \in granted THEN {"Execute"} ELSE {})
  IN  IF directory THEN rights ELSE rights \cap FromFile

UnixSocketRights(policy, abi) == IF policy.unix THEN FromAll(abi) \cap {"ResolveUnix"} ELSE {}

IsDirectory(tree, path) == EndsAt(Canonical(tree, path), "dir")

\* A resolver file that is a link opens as another path than its own: it gets no rule.
OpensAsItself(tree, path) == Named(tree, path).error = None /\ ~IsSymlink(tree, path)

RuleOf(tree, axis, path, pin, abi) ==
  [path |-> path, pin |-> pin, rights |-> RightsFor(axis, IsDirectory(tree, path), abi)]

GrantRules(tree, policy, granted, abi) ==
  [i \in DOMAIN granted |->
     [RuleOf(tree, granted[i].axis, granted[i].vetted.path, granted[i].vetted.object, abi)
        EXCEPT !.rights = @ \cup UnixSocketRights(policy, abi)]]

ResolverRules(tree, files, abi) ==
  [i \in DOMAIN files |-> RuleOf(tree, "Read", files[i], None, abi)]

\* fs_rules: one for each grant, and a read for each installed resolver file.
FsRules(tree, policy, abi) ==
  GrantRules(tree, policy, GrantedPaths(policy), abi)
  \o (IF ~BoundsResolution(policy) THEN <<>>
      ELSE ResolverRules(tree, SelectSeq(ResolverFiles, LAMBDA p : OpensAsItself(tree, p)), abi))

\* Mutant: the path read back is compared, and the object is not.
CheckedUnpinned(rule, opened) ==
  IF opened.error # None THEN Err("Landlock")
  ELSE IF opened.path # rule.path THEN Err("GrantRedirected") ELSE Ok(opened.object)

\* The path must read back as itself, and a grant hold what it was vetted on.
Checked(rule, opened) ==
  IF opened.error # None THEN Err("Landlock")
  ELSE IF opened.path # rule.path THEN Err("GrantRedirected")
  ELSE IF rule.pin # None /\ opened.object # rule.pin THEN Err("GrantReplaced")
  ELSE Ok(opened.object)

OpenGrant(tree, rule) == Checked(rule, Canonical(tree, rule.path))

\* What rules opened as objects let a command do to an object, in the tree it sees.
Confers(tree, rules, object, right) ==
  \E rule \in rules : right \in rule.rights /\ object \in Within(tree, rule.object)

-----------------------------------------------------------------------------
(* The resolver's files *)

\* install: whether the file is replaced, skipped, or the spawn refused.
Install(tree, path) ==
  IF path \in Required /\ IsSymlink(tree, path) THEN Err("NamespaceSetupFailed")
  ELSE IF Canonical(tree, path).error = None THEN Ok({Canonical(tree, path).object})
  ELSE IF path \in Required THEN Err("NamespaceSetupFailed") ELSE Ok({})

\* One failure is the spawn's.
AllInstalled(installed) ==
  IF \E i \in DOMAIN installed : installed[i].error # None THEN Err("NamespaceSetupFailed")
  ELSE Ok(UNION {installed[i].value : i \in DOMAIN installed})

\* bound_resolution: what is mounted over.
BoundResolution(tree, policy) ==
  IF ~BoundsResolution(policy) THEN Ok({})
  ELSE AllInstalled([i \in DOMAIN ResolverFiles |-> Install(tree, ResolverFiles[i])])

\* The tree in the command's mount namespace (external).
Overlaid(tree, covered) ==
  [slot \in DOMAIN tree |-> IF tree[slot] \in covered THEN Bounded ELSE tree[slot]]

-----------------------------------------------------------------------------
(* Network: the namespace, Landlock's ports, and seccomp's denials.        *)

\* A way to make a connection: the call the socket comes from, what it is asked to be,
\* the protocol it is turned into afterwards, and the call that connects it.
Families == {"unix", "inet", "inet6", "other"}
Types == {"stream", "dgram", "seqpacket", "raw", "unassigned"}
Protocols == {"default", "tcp", "mptcp", "udp"}

Ways == [call : {"socket", "socketpair", "io_uring_setup"}, family : Families, type : Types,
         protocol : Protocols, ulp : BOOLEAN, connects : {"connect", "send"}]

\* Those of BLOCKED_SYSCALLS that make sockets, or hand over another process's.
BlockedSyscalls == {"io_uring_setup", "pidfd_getfd", "ptrace", "process_vm_writev", "unshare", "setns"}

\* A port allowlist leaves TCP alone, its rules over ports being all that bounds it.
ConfinesToTcp(policy) == policy.network.kind = "Ports"

DeniesUnix(policy, way) == ~policy.unix /\ way.call = "socket" /\ way.family = "unix"

\* A connected pair is no way out, a connectionless one can be pointed elsewhere.
DeniesPair(policy, way) ==
  /\ ~policy.unix
  /\ way.call = "socketpair" /\ way.family = "unix" /\ way.type \notin {"stream", "seqpacket"}

DeniesType(policy, way) ==
  ConfinesToTcp(policy) /\ way.call = "socket" /\ way.family # "unix" /\ way.type # "stream"

DeniesFamily(policy, way) ==
  /\ ConfinesToTcp(policy) /\ way.call = "socket"
  /\ way.type = "stream" /\ way.family \notin {"unix", "inet", "inet6"}

DeniesProtocol(policy, way) ==
  /\ ConfinesToTcp(policy) /\ way.call = "socket"
  /\ way.family \in {"inet", "inet6"} /\ way.protocol \notin {"default", "tcp"}

\* TCP_ULP turns a TCP socket into another; MSG_FASTOPEN connects without connect.
DeniesUlp(policy, way) == ConfinesToTcp(policy) /\ way.ulp
DeniesFastopen(policy, way) == ConfinesToTcp(policy) /\ way.connects = "send"

\* Mutant: the denials stop at what kind of socket is asked for.
DeniedAtSocketOnly(policy, way) ==
  \/ way.call \in BlockedSyscalls
  \/ DeniesUnix(policy, way) \/ DeniesType(policy, way) \/ DeniesFamily(policy, way)

\* blocked_syscalls: a call any rule matches is denied.
Denied(policy, way) ==
  \/ way.call \in BlockedSyscalls
  \/ DeniesUnix(policy, way) \/ DeniesPair(policy, way)
  \/ DeniesType(policy, way) \/ DeniesFamily(policy, way)
  \/ DeniesProtocol(policy, way) \/ DeniesUlp(policy, way) \/ DeniesFastopen(policy, way)

\* net_rules: the ports Landlock handles are those of an allowlist.
NetRules(policy) ==
  IF policy.network.kind # "Ports" THEN [handled |-> FALSE, ports |-> {}]
  ELSE [handled |-> TRUE, ports |-> ToSet(policy.network.ports)]

\* Landlock asks its port rules of connect(2) on a TCP socket and of nothing else (external).
Asked(way) ==
  /\ way.call = "socket" /\ way.family \in {"inet", "inet6"} /\ way.type = "stream"
  /\ way.protocol \in {"default", "tcp"} /\ ~way.ulp /\ way.connects = "connect"

\* Whether a command gets through to a port of another host; without egress it has no
\* network but its own.
Reaches(policy, way, port) ==
  /\ policy.network.kind # "Denied"
  /\ way.call # "socketpair" /\ way.family # "unix"
  /\ ~Denied(policy, way)
  /\ NetRules(policy).handled /\ Asked(way) => port \in NetRules(policy).ports

\* Whether a command has a socket it can point at one of the host's (external).
ReachesUnix(policy, way) ==
  /\ way.family = "unix"
  /\ way.call = "socketpair" => way.type \notin {"stream", "seqpacket"}
  /\ ~Denied(policy, way)
=============================================================================
