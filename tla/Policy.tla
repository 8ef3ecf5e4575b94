------------------------------- MODULE Policy -------------------------------
(***************************************************************************)
(* What a run is granted: the policy a command line asks for               *)
(* (sandbx-grants), the sandbox policy itself, and the argument vector the *)
(* helper of a spawn rebuilds it from (helper_args.rs).                    *)
(*                                                                         *)
(* A grant is pinned: it is a canonical path and the object it led to when *)
(* it was vetted.  Environment names and the wording of errors are left    *)
(* out; host names are those is_resolvable_name takes.  A path is any      *)
(* bytes, and an argument is text: a name that is not UTF-8 crosses as     *)
(* another.                                                                *)
(***************************************************************************)
EXTENDS Tree

CONSTANTS
  SystemPaths,    \* SYSTEM_EXECUTABLE_PATHS
  ResolverFiles,  \* RESOLVER_FILES: what a bounded resolution replaces
  Owned,          \* the sessions directory and the credentials file
  HomeParents,    \* HOME_PARENTS
  SharedParents,  \* SHARED_HOME_PARENTS
  Home,           \* what HOME names, None when it names no absolute path
  Shown           \* what display() makes of a name: itself, if it is UTF-8

\* What is shown is UTF-8 itself.
ASSUME ShownAssumption ==
  Shown \in [Names -> Names] /\ \A name \in Names : Shown[Shown[name]] = Shown[name]

Axes == <<"Read", "Write", "ReadExecute">>

\* Axis::grants: an executable root is one that can be read too, a writable one is not.
Grants(axis) ==
  CASE axis = "Read"        -> {"read"}
    [] axis = "Write"       -> {"write"}
    [] axis = "ReadExecute" -> {"read", "execute"}

NameserverPort == 53

\* Err carries a reason and Ok a value, in records of one shape.
Err(reason) == [error |-> reason, value |-> None]
Ok(value) == [error |-> None, value |-> value]

-----------------------------------------------------------------------------
(* VettedPath *)

\* The name is resolved once, and what it led to is the pin.
Pinned(found) ==
  IF found.error # None THEN Err("GrantUnpinnable")
  ELSE Ok([path |-> found.path, object |-> found.object])

Vet(tree, path) == Pinned(Canonical(tree, path))

\* What the name holds now, against the pin.
Measured(vetted, opened) ==
  CASE opened.error # None -> "Unmeasurable"
    [] opened.error = None /\ opened.object = vetted.object -> "Vetted"
    [] OTHER -> "Replaced"

Confirm(tree, vetted) == Measured(vetted, Canonical(tree, vetted.path))

-----------------------------------------------------------------------------
(* SandboxPolicy *)

NoNetwork == [kind |-> "Denied", ports |-> <<>>]

EmptyPolicy ==
  [paths |-> [axis \in ToSet(Axes) |-> <<>>], network |-> NoNetwork,
   unix |-> FALSE, overTcp |-> FALSE, dns |-> <<>>]

Grant(policy, axis, vetted) == [policy EXCEPT !.paths[axis] = Append(@, vetted)]

\* Every grant with its axis, the axes in the order of Axis::ALL.
GrantedPaths(policy) ==
  FlattenSeq([i \in DOMAIN Axes |->
    [k \in DOMAIN policy.paths[Axes[i]] |->
       [axis |-> Axes[i], vetted |-> policy.paths[Axes[i]][k]]]])

AllowNetwork(policy) == [policy EXCEPT !.network = [kind |-> "AnyPort", ports |-> <<>>]]

AllowNetworkPort(policy, port) ==
  IF port = 0 \/ policy.network.kind = "AnyPort" \/ Contains(policy.network.ports, port)
  THEN policy
  ELSE [policy EXCEPT !.network = [kind |-> "Ports", ports |-> Append(@.ports, port)]]

AllowDns(policy, name) ==
  IF Contains(policy.dns, name) THEN policy ELSE [policy EXCEPT !.dns = Append(@, name)]

BoundsResolution(policy) == policy.dns # <<>>

\* A bounded resolution that something else the policy grants would get around.
UnboundedResolution(policy) ==
  /\ BoundsResolution(policy)
  /\ \/ policy.overTcp
     \/ policy.unix
     \/ policy.network.kind = "AnyPort"
     \/ Contains(policy.network.ports, NameserverPort)

IsAt(found, path) == found.error = None /\ found.path = path

BoundByResolver(tree, path) ==
  \E i \in DOMAIN ResolverFiles :
     path = ResolverFiles[i] \/ IsAt(Canonical(tree, ResolverFiles[i]), path)

\* A policy's grant of a file the resolver replaces, asked before a spawn.
GrantBoundByResolver(tree, policy) ==
  /\ BoundsResolution(policy)
  /\ \E i \in DOMAIN GrantedPaths(policy) :
        BoundByResolver(tree, GrantedPaths(policy)[i].vetted.path)

-----------------------------------------------------------------------------
(* sandbx-grants: root.rs *)

Covers(outer, inner) == IsPrefix(outer, inner)

\* As far as the path resolves, and by name from there on.
ResolvedPath(tree, path) ==
  LET resolves(n) == Canonical(tree, SubSeq(path, 1, n)).error = None
      joined(depth) == Canonical(tree, SubSeq(path, 1, depth)).path
                       \o SubSeq(path, depth + 1, Len(path))
  IN  joined(Max({n \in 0..Len(path) : resolves(n)}))

ReachesOwned(tree, granted) ==
  \E own \in Owned : LET path == ResolvedPath(tree, own)
                     IN  Covers(granted, path) \/ Covers(path, granted)

\* The spellings of the home directory, and whether they name one person's.
HomesAt(real) ==
  IF real.error # None THEN [paths |-> {Home}, usable |-> FALSE]
  ELSE [paths |-> {Home, real.path},
        usable |-> EndsAt(real, "dir") /\ ~\E known \in SharedParents : Covers(real.path, known)]

NamedHomes(tree) ==
  IF Home = None THEN [paths |-> {}, usable |-> FALSE] ELSE HomesAt(Canonical(tree, Home))

\* vetted_root: why a working directory is too wide to be the root nobody named, or None.
RefusedRoot(tree, cwd, homes, granted) ==
  IF cwd = <<>> THEN "FilesystemRoot"
  ELSE IF \E home \in homes.paths : Covers(cwd, home) THEN "HomeDirectory"
  ELSE IF \E known \in HomeParents : Covers(cwd, known) THEN "HomeParent"
  ELSE IF ~homes.usable /\ Front(cwd) \in HomeParents THEN "UnnamedHome"
  ELSE IF \E i \in DOMAIN granted : Covers(cwd, granted[i].path) \/ Covers(granted[i].path, cwd)
  THEN "SystemExecutables"
  ELSE IF ReachesOwned(tree, cwd) THEN "CwdReachesOwned" ELSE None

VettedRoot(tree, vetted, granted) ==
  IF vetted.error # None THEN Err("Unavailable")
  ELSE LET refused == RefusedRoot(tree, vetted.value.path, NamedHomes(tree), granted)
       IN  [error |-> refused, value |-> vetted.value]

CurrentRoot(tree, cwd, granted) == VettedRoot(tree, Vet(tree, cwd), granted)

-----------------------------------------------------------------------------
(* sandbx-grants: grants.rs.  flags: the paths of each axis in the order   *)
(* given, the ports (None when the flag is not given, <<>> when it names   *)
(* none), the unix and resolver flags, the names, the working directory.   *)

SystemPolicy(tree) ==
  LET vetted == [i \in DOMAIN SystemPaths |-> Vet(tree, SystemPaths[i])]
      found == SelectSeq(vetted, LAMBDA v : v.error = None)
  IN  FoldLeft(LAMBDA policy, v : Grant(policy, "ReadExecute", v.value), EmptyPolicy, found)

PathsGiven(flags) == \E axis \in ToSet(Axes) : flags.paths[axis] # <<>>

\* One path of the command line: judged against what sandbx owns where it leads, then
\* granted as vetted; a path that may be written may be read.
GrantVetted(tree, so, axis, path, vetted) ==
  LET granted == Grant(so.value, axis, vetted.value)
  IN  IF so.error # None THEN so
      ELSE IF ReachesOwned(tree, ResolvedPath(tree, path)) THEN Err("GrantReachesOwned")
      ELSE IF vetted.error # None THEN Err("UnpinnableGrant")
      ELSE Ok(IF "write" \in Grants(axis) THEN Grant(granted, "Read", vetted.value) ELSE granted)

GrantPath(tree, so, axis, path) == GrantVetted(tree, so, axis, path, Vet(tree, path))

GivenPaths(flags) ==
  FlattenSeq([i \in DOMAIN Axes |->
    [k \in DOMAIN flags.paths[Axes[i]] |-> <<Axes[i], flags.paths[Axes[i]][k]>>]])

WithRoot(system, root) ==
  IF root.error # None THEN Err(root.error)
  ELSE Ok(Grant(Grant(system, "Read", root.value), "Write", root.value))

OverSystem(tree, flags, system) ==
  IF PathsGiven(flags)
  THEN FoldLeft(LAMBDA so, given : GrantPath(tree, so, given[1], given[2]),
                Ok(system), GivenPaths(flags))
  ELSE WithRoot(system, CurrentRoot(tree, flags.cwd, system.paths["ReadExecute"]))

PathsPolicy(tree, flags) == OverSystem(tree, flags, SystemPolicy(tree))

NetworkPolicy(policy, ports) ==
  CASE ports.given /\ ports.named = <<>> -> AllowNetwork(policy)
    [] ports.given /\ ports.named # <<>> -> FoldLeft(AllowNetworkPort, policy, ports.named)
    [] OTHER -> policy

\* A path that names a file the resolver replaces, as typed or as resolved.
NamesBoundFile(tree, flags) ==
  \E i \in DOMAIN GivenPaths(flags) :
     LET path == GivenPaths(flags)[i][2]
     IN  \E spelled \in {path, ResolvedPath(tree, path)} : BoundByResolver(tree, spelled)

\* Mutant: port 53 is not looked for among the ports.
DnsRefusedButNameserver(tree, flags) ==
  \/ flags.overTcp \/ flags.unix
  \/ ~flags.ports.given \/ flags.ports.named = <<>>
  \/ NamesBoundFile(tree, flags)

\* What an allowlist of names cannot stand beside.
DnsRefused(tree, flags) ==
  \/ flags.overTcp \/ flags.unix
  \/ ~flags.ports.given \/ flags.ports.named = <<>>
  \/ Contains(flags.ports.named, NameserverPort)
  \/ NamesBoundFile(tree, flags)

\* Grants::policy.
OverPaths(tree, flags, so) ==
  LET socketed(policy) == [policy EXCEPT !.unix = flags.unix, !.overTcp = flags.overTcp]
  IN  IF so.error # None THEN so
      ELSE IF flags.dns # <<>> /\ DnsRefused(tree, flags) THEN Err("DnsRefused")
      ELSE Ok(FoldLeft(AllowDns, socketed(NetworkPolicy(so.value, flags.ports)), flags.dns))

PolicyOf(tree, flags) == OverPaths(tree, flags, PathsPolicy(tree, flags))

-----------------------------------------------------------------------------
(* helper_args.rs: the policy as the arguments of the helper, and back.    *)

Argument(flag, value) == [flag |-> flag, value |-> value]

PathFlag(axis) ==
  CASE axis = "Read" -> "--ro" [] axis = "Write" -> "--rw" [] axis = "ReadExecute" -> "--rx"

AxisFor(flag) == CHOOSE axis \in ToSet(Axes) : PathFlag(axis) = flag

\* A path as an argument has it; nothing lossy crosses a separator.
Displayed(path) == [i \in DOMAIN path |-> Shown[path[i]]]

Encode(policy) ==
  LET granted == GrantedPaths(policy)
      text(vetted) == [vetted EXCEPT !.path = Displayed(@)]
      ports == policy.network.ports
      one(given, flag) == IF given THEN <<Argument(flag, None)>> ELSE <<>>
  IN  [i \in DOMAIN granted |-> Argument(PathFlag(granted[i].axis), text(granted[i].vetted))]
      \o one(policy.network.kind = "AnyPort", "--allow-network")
      \o [i \in DOMAIN ports |-> Argument("--allow-network-port", ports[i])]
      \o one(policy.unix, "--allow-unix-sockets")
      \o one(policy.overTcp, "--dns-over-tcp")
      \o [i \in DOMAIN policy.dns |-> Argument("--allow-dns-name", policy.dns[i])]

DecodeOne(policy, argument) ==
  CASE argument.flag = "--allow-network" -> AllowNetwork(policy)
    [] argument.flag = "--allow-network-port" -> AllowNetworkPort(policy, argument.value)
    [] argument.flag = "--allow-unix-sockets" -> [policy EXCEPT !.unix = TRUE]
    [] argument.flag = "--dns-over-tcp" -> [policy EXCEPT !.overTcp = TRUE]
    [] argument.flag = "--allow-dns-name" -> AllowDns(policy, argument.value)
    [] argument.flag \in {"--ro", "--rw", "--rx"} ->
         Grant(policy, AxisFor(argument.flag), argument.value)

\* A port 0 is refused here, where allow_network_port would skip it.
Decode(arguments) ==
  LET policy == FoldLeft(DecodeOne, EmptyPolicy, arguments)
      zero(argument) == argument.flag = "--allow-network-port" /\ argument.value = 0
  IN  IF UnboundedResolution(policy) \/ \E i \in DOMAIN arguments : zero(arguments[i])
      THEN Err("BadHelperArgs") ELSE Ok(policy)
=============================================================================
