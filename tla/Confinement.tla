---------------------------- MODULE Confinement ----------------------------
(***************************************************************************)
(* The file tools and the kernel rules of a spawn over one tree, while     *)
(* something else renames: the operator, another program, a command of the *)
(* agent's own.  A rename may fall between any two steps below: between    *)
(* vetting and construction, the two opens of a root, resolving and        *)
(* judging, judging and opening, two directories of a walk, two rules.     *)
(***************************************************************************)
EXTENDS FsGuard, Ruleset

CONSTANTS
  InitTrees,     \* the trees a run may start over
  CommandLines,  \* the flags a run may be given
  Kernels,       \* what the kernel has: openat2, and the newest Landlock ABI
  Requests,      \* the paths the model may name
  Movable,       \* the slots a rename may name
  Made,          \* the file a write creates
  Matching,      \* the files grep's pattern is in
  Size,          \* of each file
  MaxFile,       \* MAX_FILE_BYTES: a larger file is not searched
  MaxScanned,    \* max_bytes_scanned
  MaxFiles,      \* max_files_scanned
  MaxMoves       \* bound: renames

VARIABLES
  tree, moves,
  kernel, policy, guard,
  call           \* the tool call under way; the loop runs one at a time

vars == <<tree, moves, kernel, policy, guard, call>>
run == <<kernel, policy, guard>>

Idle ==
  [tool |-> None, path |-> <<>>, how |-> None, stage |-> "idle", found |-> None,
   verdict |-> Refused(None, None), reached |-> None, answer |-> None,
   pending |-> {}, files |-> {}, scan |-> "Complete", scanned |-> 0, hits |-> {},
   covered |-> {}, left |-> <<>>, rules |-> {}]

Init ==
  /\ tree \in InitTrees /\ moves = 0
  /\ kernel \in Kernels
  /\ \E flags \in CommandLines : \E granted \in {PolicyOf(tree, flags)} :
        granted.error = None /\ policy = granted.value
  /\ guard = Unrooted
  /\ call = [Idle EXCEPT !.stage = "root", !.left = GrantedPaths(policy)]

Move ==
  /\ moves < MaxMoves /\ moves' = moves + 1
  /\ \E a, b \in Movable : Swappable(tree, a, b) /\ tree' = Swapped(tree, a, b)
  /\ UNCHANGED <<run, call>>

\* ExecutionContext::build, grant by grant: a rename may fall between the two opens of one.
Roots(rooting, dir) ==
  /\ guard' = Rooted(guard, Head(call.left), rooting, dir)
  /\ call' = [call EXCEPT !.stage = "root", !.left = Tail(@)]

MeasureRoot ==
  /\ call.stage = "root" /\ call.left # <<>>
  /\ \E rooting \in {RootMeasured(tree, Head(call.left).vetted)} :
        IF ~kernel.openat2 THEN Roots("ByPath", None)
        ELSE IF rooting # "Beneath" THEN Roots(rooting, None)
        ELSE call' = [call EXCEPT !.stage = "keep"] /\ UNCHANGED guard
  /\ UNCHANGED <<tree, moves, kernel, policy>>

KeepRoot ==
  /\ call.stage = "keep"
  /\ \E dir \in {RootKept(tree, Head(call.left).vetted)} :
        Roots(IF dir = None THEN "Unpinned" ELSE "Beneath", dir)
  /\ UNCHANGED <<tree, moves, kernel, policy>>

GuardBuilt ==
  /\ call.stage = "root" /\ call.left = <<>>
  /\ call' = Idle
  /\ UNCHANGED <<tree, moves, run>>

BuildGuard == MeasureRoot \/ KeepRoot \/ GuardBuilt

-----------------------------------------------------------------------------
(* The file tools *)

How(tool) ==
  CASE tool \in {"read", "edit"} -> "read"
    [] tool \in {"ls", "find", "grep"} -> "list"
    [] tool = "write" -> "write"

\* bound: one file is created in a run.
Unmade == \A slot \in Slots : tree[slot] # Made

Begin(tool, path) ==
  /\ call.stage = "idle"
  /\ tool \in {"write", "edit"} => Unmade
  /\ call' = [Idle EXCEPT !.tool = tool, !.path = path, !.how = How(tool), !.stage = "resolve"]
  /\ UNCHANGED <<tree, moves, run>>

Resolve ==
  /\ call.stage = "resolve"
  /\ call' = [call EXCEPT !.stage = "judge", !.found = Canonical(tree, call.path)]
  /\ UNCHANGED <<tree, moves, run>>

\* guard_error: a name that is nothing failed, everything else was denied.
GuardError(error) == IF error = "NotFound" THEN "Failed" ELSE "Denied"

Answered(answer) ==
  [Idle EXCEPT !.tool = call.tool, !.stage = "done", !.answer = answer,
               !.scan = call.scan, !.hits = call.hits]

\* A file the walk returned, which grep reads on its own (read_capped).
Searching == call.tool = "grep" /\ call.how = "read"

\* A file that cannot be searched leaves a mark on the answer and no more.
Skipped == [call EXCEPT !.stage = "search", !.scan = "StoppedEarly"]

NotReached(answer) == IF Searching THEN Skipped ELSE Answered(answer)

Judge ==
  /\ call.stage = "judge"
  /\ \E verdict \in {PermitAccess(tree, call.path, call.found, guard, call.how)} :
        call' = IF verdict.error # None THEN NotReached(GuardError(verdict.error))
                ELSE [call EXCEPT !.stage = "open", !.verdict = verdict, !.reached = None]
  /\ UNCHANGED <<tree, moves, run>>

\* What a read that reached a file goes on to do, the call as it then is.
AfterRead(so) ==
  LET large == Size[so.reached] > MaxFile
      found == IF so.reached \in Matching THEN {so.reached} ELSE {}
  IN  CASE so.tool = "read" -> {[Answered("ok") EXCEPT !.reached = so.reached]}
        [] so.tool = "edit" -> {[Answered("Failed") EXCEPT !.reached = so.reached],
                                [so EXCEPT !.stage = "resolve", !.how = "write"]}
        [] so.tool = "grep" ->
             {IF large THEN [so EXCEPT !.stage = "search", !.scan = "StoppedEarly"]
              ELSE [so EXCEPT !.stage = "search", !.scanned = @ + Size[so.reached],
                              !.hits = @ \cup found]}

\* A directory opens for reading, and then cannot be read.
ReadsOn(so) ==
  IF Kind[so.reached] = "file" THEN call' \in AfterRead(so)
  ELSE call' = [NotReached("Failed") EXCEPT !.reached = so.reached]

\* A walk's root that does not open yields no files.
StartsWalk(opened) ==
  LET root == call.verdict.root
      top == PendingIn(IF root = None THEN None ELSE opened.object, None, call.verdict.path)
  IN  call' = [call EXCEPT !.stage = "walk", !.reached = opened.object,
                           !.pending = IF opened.error = None THEN {top} ELSE {}]

Creates(slot) ==
  /\ tree' = [tree EXCEPT ![slot] = Made]
  /\ call' = [Answered("ok") EXCEPT !.reached = slot[1]]

Opens(opened) ==
  LET so == [call EXCEPT !.reached = opened.object]
      told == IF call.how = "list" THEN "Failed" ELSE GuardError(Settled(opened.error, call.how).error)
  IN  IF call.tool \in {"find", "grep"} /\ call.how = "list" THEN StartsWalk(opened)
      ELSE IF opened.error # None THEN call' = NotReached(told)
      ELSE IF call.how = "read" THEN ReadsOn(so)
      ELSE call' = [Answered("ok") EXCEPT !.reached = so.reached]

Open ==
  /\ call.stage = "open"
  /\ \E opened \in {Accessed(tree, call.verdict, call.how)} :
     \E slot \in {CreatedAt(tree, call.verdict, opened, call.how)} :
        IF slot # None THEN Creates(slot)
        ELSE UNCHANGED tree /\ Opens(opened)
  /\ UNCHANGED <<moves, run>>

\* The directory is done with; too many files end the walk.
Collects(next, listed) ==
  LET room == MaxFiles - Cardinality(call.files)
  IN  IF Cardinality(listed.files) <= room
      THEN call' = [call EXCEPT !.pending = (@ \ {next}) \cup listed.pending,
                                !.files = @ \cup listed.files]
      ELSE \E kept \in {files \in SUBSET listed.files : Cardinality(files) = room} :
              call' = [call EXCEPT !.pending = {}, !.files = @ \cup kept, !.scan = "StoppedEarly"]

\* One directory of walk_readable; one that does not open is left out unmarked.
Walk ==
  /\ call.stage = "walk"
  /\ \E next \in call.pending :
     \E opened \in {Reached(tree, next)} :
        IF opened.error # None THEN Collects(next, [files |-> {}, pending |-> {}])
        ELSE \E listed \in {Listed(tree, opened.object, next, guard.read)} : Collects(next, listed)
  /\ UNCHANGED <<tree, moves, run>>

WalkEnds ==
  /\ call.stage = "walk" /\ call.pending = {}
  /\ call' = IF call.tool = "find" THEN Answered("ok") ELSE [call EXCEPT !.stage = "search"]
  /\ UNCHANGED <<tree, moves, run>>

\* grep's next file, if the bytes it may scan are not used up.
Search ==
  /\ call.stage = "search"
  /\ LET next == CHOOSE entry \in call.files : TRUE
     IN  call' = IF call.files = {} THEN Answered("ok")
                 ELSE IF call.scanned >= MaxScanned
                 THEN [Answered("ok") EXCEPT !.scan = "StoppedEarly"]
                 ELSE [call EXCEPT !.stage = "resolve", !.how = "read",
                                   !.path = next.file, !.files = @ \ {next}]
  /\ UNCHANGED <<tree, moves, run>>

Tools == {"read", "ls", "write", "edit", "find", "grep"}

FileTool ==
  \/ \E tool \in Tools, path \in Requests : Begin(tool, path)
  \/ Resolve \/ Judge \/ Open \/ Walk \/ WalkEnds \/ Search

-----------------------------------------------------------------------------
(* The rules of a spawned command *)

\* The policy as the helper rebuilt it.
Rebuilt == Decode(Encode(policy))

View == Overlaid(tree, call.covered)

\* What the spawn refuses before it starts a process, and the helper before anything else.
RefusedAtOnce ==
  UnboundedResolution(policy) \/ GrantBoundByResolver(tree, policy) \/ Rebuilt.error # None

SpawnBegins ==
  /\ call.stage = "idle"
  /\ call' = IF RefusedAtOnce
             THEN [Idle EXCEPT !.tool = "bash", !.stage = "done", !.answer = "Denied"]
             ELSE [Idle EXCEPT !.tool = "bash", !.stage = "install"]
  /\ UNCHANGED <<tree, moves, run>>

SpawnInstalls ==
  /\ call.stage = "install"
  /\ \E bounded \in {BoundResolution(tree, Rebuilt.value)} :
        call' = IF bounded.error # None THEN Answered("Denied")
                ELSE [call EXCEPT !.stage = "request", !.covered = bounded.value]
  /\ UNCHANGED <<tree, moves, run>>

SpawnRequests ==
  /\ call.stage = "request"
  /\ LET abi == NegotiatedAbi(kernel.abi)
     IN  call' = IF abi.error # None THEN Answered("Denied")
                 ELSE [call EXCEPT !.stage = "rules",
                                   !.left = FsRules(View, Rebuilt.value, abi.value)]
  /\ UNCHANGED <<tree, moves, run>>

\* One rule: a grant that no longer opens as what was vetted refuses the whole spawn.
SpawnOpens ==
  /\ call.stage = "rules" /\ call.left # <<>>
  /\ \E opened \in {OpenGrant(View, Head(call.left))} :
        call' = IF opened.error # None THEN Answered("Denied")
                ELSE [call EXCEPT !.left = Tail(@),
                        !.rules = @ \cup {[object |-> opened.value, rights |-> Head(call.left).rights]}]
  /\ UNCHANGED <<tree, moves, run>>

SpawnConfined ==
  /\ call.stage = "rules" /\ call.left = <<>>
  /\ call' = [call EXCEPT !.stage = "confined"]
  /\ UNCHANGED <<tree, moves, run>>

Spawn == SpawnBegins \/ SpawnInstalls \/ SpawnRequests \/ SpawnOpens \/ SpawnConfined

Return ==
  /\ call.stage \in {"done", "confined"}
  /\ call' = Idle
  /\ UNCHANGED <<tree, moves, run>>

Next == Move \/ BuildGuard \/ FileTool \/ Spawn \/ Return

Spec == Init /\ [][Next]_vars

-----------------------------------------------------------------------------
(* Properties *)

\* What a grant of this access was vetted on, wherever it has been moved.
Vetted(access) ==
  LET granted == {GrantedPaths(policy)[i] : i \in DOMAIN GrantedPaths(policy)}
  IN  {g.vetted.object : g \in {g \in granted : access \in Grants(g.axis)}}

Granted(access) == UNION {Within(tree, object) : object \in Vetted(access)}

\* The descriptor is of the object that was measured: both opens of the root found it.
AsMeasured(root) == root.dir \in {None, root.vetted.object}

\* Whatever is renamed between the check and the open, a file or directory that an
\* access opens beneath a descriptor lies in a directory the policy was granted for
\* that access: the confirmation and the open are of one object (fs_guard.rs:1-7).  It
\* cannot be said of a root whose two opens, at construction, were of two objects.
ReachesOnlyGranted ==
  [][/\ call.stage = "open" /\ call.verdict.root # None
     /\ AsMeasured(call.verdict.root) /\ call'.reached # None
     => call'.reached \in Granted(IF call.how = "write" THEN "write" ELSE "read")]_vars

\* Slots whose directory no grant covers and that no granted path goes through.
Elsewhere ==
  {slot \in Slots : /\ tree[slot] # None
                    /\ slot[1] \notin Granted("read") \cup Granted("write")
                    /\ \A root \in ToSet(guard.read) \cup ToSet(guard.write) :
                          Confirm(tree, root.vetted)
                            = Confirm([tree EXCEPT ![slot] = None], root.vetted)}

\* No link lies outside what is granted, to lead back in.
NoWayBack ==
  \A slot \in Slots : /\ tree[slot] # None
                      /\ slot[1] \notin Granted("read") \cup Granted("write")
                      => Kind[tree[slot]] # "link"

ToldOf(at, path, how) == PermitAccess(at, path, Canonical(at, path), guard, how).error

\* What a caller is told of a path says nothing of what lies outside its grants: a name
\* there, present or absent, is answered alike (fs_guard.rs:163-165, 1144-1145), also for
\* a path that goes there by a link planted inside.  Paths with .. are left out.
Conceals ==
  call.stage = "idle" /\ NoWayBack =>
    \A slot \in Elsewhere, path \in {path \in Requests : Up \notin ToSet(path)},
       how \in {"read", "write"} :
       ToldOf(tree, path, how) = ToldOf([tree EXCEPT ![slot] = None], path, how)

\* The policy as arguments can hold it.
AsText ==
  LET text(vetted) == [k \in DOMAIN vetted |-> [vetted[k] EXCEPT !.path = Displayed(@)]]
  IN  [policy EXCEPT !.paths = [axis \in ToSet(Axes) |-> text(policy.paths[axis])]]

\* The helper rebuilds the policy the harness holds, but for the names that are not
\* UTF-8: neither refuses what the other took, and no grant is lost or merged.
Rebuilds == Rebuilt.error = None /\ Rebuilt.value = AsText

\* No command runs unless every grant is in force on the object that was vetted, whatever
\* name it crossed under: a grant whose name was lost refuses it, where the tools go on.
EnforcesEach ==
  \A i \in DOMAIN GrantedPaths(policy) :
     GrantedPaths(policy)[i].vetted.object \in {rule.object : rule \in call.rules}

InPlace ==
  \A root \in ToSet(guard.read) \cup ToSet(guard.write) :
     Vet(tree, root.vetted.path) = Ok(root.vetted)

\* What the kernel lets the command do, the guard lets a tool do, and back: at every
\* path that is its object's own.
SameAt(path, found, right, how) ==
  LET permits == PermitAccess(tree, path, found, guard, how).error = None
      confers == Confers(View, call.rules, found.object, right)
  IN  IF confers THEN found.object \in Granted(how) /\ (InPlace => permits) ELSE ~permits

SameFiles ==
  \A path \in Requests : \E found \in {Canonical(tree, path)} :
     IsAt(found, path) /\ found.object \notin call.covered =>
       /\ SameAt(path, found, "ReadFile", "read")
       /\ SameAt(path, found, "WriteFile", "write")

\* A port allowlist bounds every way to connect, and leaves plain TCP to its ports.
SamePorts ==
  policy.network.kind = "Ports" =>
    \A way \in Ways, port \in {53, 80, 443} :
       /\ Reaches(policy, way, port) => port \in ToSet(policy.network.ports)
       /\ Asked(way) /\ port \in ToSet(policy.network.ports) => Reaches(policy, way, port)

\* Unix sockets are an axis of their own: the ports of an allowlist do not narrow them.
SameSockets ==
  \A way \in Ways :
     /\ ReachesUnix(policy, way) => policy.unix
     /\ /\ policy.unix /\ way.family = "unix"
        /\ way.call = "socket" /\ ~way.ulp /\ way.connects = "connect"
        => ReachesUnix(policy, way)

\* A command under the rules of its spawn may do what the same policy permits the tools
\* in this process, no less and no more (helper_ruleset_rights.rs, fs_guard.rs:90), also
\* where a path crossed as display() writes it (helper_args.rs:94) and something else has
\* that name; and the network is bounded to the ports the policy names
\* (helper_seccomp_rules.rs:220-330), unix sockets to a policy that grants them, ports or
\* none (177-230).  That a command is refused is not excluded.
KernelAgrees ==
  /\ Rebuilds
  /\ call.stage = "confined" => EnforcesEach /\ SameFiles /\ SamePorts /\ SameSockets
=============================================================================
