------------------------------ MODULE FsGuard ------------------------------
(***************************************************************************)
(* fs_guard.rs: the check every in-process tool passes, and the access it  *)
(* guards, as operators over the tree as it is when each of them runs.     *)
(*                                                                         *)
(* A verdict says what the caller is told (None when permitted), what the  *)
(* trail records, and, when permitted, the canonical path and the root     *)
(* that covers it.  A guard holds, per axis, the granted roots in order,   *)
(* each with the object of its descriptor, or None when its accesses go by *)
(* path.                                                                   *)
(***************************************************************************)
EXTENDS Policy

-----------------------------------------------------------------------------
(* Construction *)

\* open_root's first open, measured against the pin: what the name holds may be gone or a
\* file's, or be another object; a directory that matches is opened again to be kept.
Measure(vetted, named) ==
  CASE named.error # None -> "ByPath"
    [] named.error = None /\ named.object # vetted.object -> "Unpinned"
    [] named.error = None /\ named.object = vetted.object ->
         IF Kind[named.object] = "dir" THEN "Beneath" ELSE "ByPath"

RootMeasured(tree, vetted) == Measure(vetted, Canonical(tree, vetted.path))

\* Its second open, O_DIRECTORY and O_NOFOLLOW: the descriptor kept, None for a name that
\* is no directory by then.
DirectoryAt(strict) == IF EndsAt(strict, "dir") THEN strict.object ELSE None

RootKept(tree, vetted) == DirectoryAt(Named(tree, vetted.path))

Unrooted == [read |-> <<>>, write |-> <<>>, told |-> {}]

\* FsGuard::with_rooting, one grant: onto the lists its axis gives, with the roots whose
\* substitution is reported, each once.
Rooted(guard, grant, rooting, dir) ==
  LET root == [vetted |-> grant.vetted, dir |-> dir]
      joins(access) == IF access \in Grants(grant.axis) THEN <<root>> ELSE <<>>
  IN  [read |-> guard.read \o joins("read"), write |-> guard.write \o joins("write"),
       told |-> guard.told \cup (IF rooting = "Unpinned" THEN {grant.vetted.path} ELSE {})]

-----------------------------------------------------------------------------
(* Containment *)

Inside(root) == [inside |-> TRUE, root |-> root, moved |-> FALSE]
Outside(moved) == [inside |-> FALSE, root |-> None, moved |-> moved]

\* The first root that covers the path, holds what it was vetted on, and has a
\* descriptor; one without a descriptor; or a root that was replaced, or none.
Measurement(covering, states) ==
  LET vetted == {i \in DOMAIN covering : states[i] = "Vetted"}
      held == {i \in vetted : covering[i].dir # None}
  IN  IF held # {} THEN Inside(covering[Min(held)])
      ELSE IF vetted # {} THEN Inside(None)
      ELSE Outside(\E i \in DOMAIN covering : states[i] = "Replaced")

ConfirmedAll(tree, covering) ==
  Measurement(covering, [i \in DOMAIN covering |-> Confirm(tree, covering[i].vetted)])

Contained(tree, path, roots) ==
  ConfirmedAll(tree, SelectSeq(roots, LAMBDA root : Covers(root.vetted.path, path)))

\* The spelling with every .. taken as the name before it undone, no link followed.
Collapsed(path) ==
  FoldLeft(LAMBDA form, name : IF name # Up THEN Append(form, name)
                               ELSE IF form = <<>> THEN form ELSE Front(form),
           <<>>, path)

\* Whether a root that the spelling names was replaced; the path as spelled, and collapsed.
MovedRoot(tree, path, roots) ==
  \E form \in {path, Collapsed(path)} : Contained(tree, form, roots).moved

-----------------------------------------------------------------------------
(* The verdict *)

Permitted(path, root) ==
  [error |-> None, audit |-> None, path |-> path, root |-> root]

Refused(error, audit) ==
  [error |-> error, audit |-> audit, path |-> None, root |-> None]

Deny(moved) == Refused(IF moved THEN "RootReplaced" ELSE "PathNotAllowed", "denied")

Verdict(resolved, at) == IF at.inside THEN Permitted(resolved, at.root) ELSE Deny(FALSE)

\* permit: the spelling answers before the resolution, and the resolution names no reason.
Permit(tree, path, resolved, roots) ==
  IF MovedRoot(tree, path, roots) THEN Deny(TRUE)
  ELSE Verdict(resolved, Contained(tree, resolved, roots))

\* The names of an errno that mean the path denotes no file.
NamesNothing(error) == error \in {"ENOENT", "ENOTDIR", "ENAMETOOLONG"}

\* How much of the path resolves, itself not counted.
NearestDepth(tree, path) ==
  Max({n \in 0..Len(path) - 1 : Canonical(tree, SubSeq(path, 1, n)).error = None})

\* Mutant: a link below the ancestor is taken for what it looks like.
ReachesSomehow(tree, path, depth) == Up \notin ToSet(path)

\* No .. in the path, and below the ancestor no link that would answer for its target.
ReachesPlainly(tree, path, depth) ==
  /\ Up \notin ToSet(path)
  /\ \A n \in depth + 1..Len(path) : ~IsSymlink(tree, SubSeq(path, 1, n))

\* conceal_unless_granted: why a path does not resolve is told inside a granted area only.
GrantedArea(tree, path, depth, roots) ==
  /\ Contained(tree, Canonical(tree, SubSeq(path, 1, depth)).path, roots).inside
  /\ ReachesPlainly(tree, path, depth)

Conceal(tree, path, error, roots) ==
  IF MovedRoot(tree, path, roots) THEN Deny(TRUE)
  ELSE IF path = <<>> \/ ~GrantedArea(tree, path, NearestDepth(tree, path), roots) THEN Deny(FALSE)
  ELSE IF NamesNothing(error) THEN Refused("NotFound", "absent")
  ELSE Refused("Unresolvable", "denied")

\* permit_read, what canonicalize answered being given.
PermitRead(tree, path, found, roots) ==
  IF found.error = None THEN Permit(tree, path, found.path, roots)
  ELSE Conceal(tree, path, found.error, roots)

\* permit_write: a path that is not there is judged by its parent, a dangling link never.
Creatable(tree, path) == path # <<>> /\ ~IsSymlink(tree, path) /\ Last(path) # Up

InParent(parent, name) == [parent EXCEPT !.path = Append(@, name)]

PermitWrite(tree, path, found, roots) ==
  IF found.error # None /\ ~Creatable(tree, path) THEN Deny(MovedRoot(tree, path, roots))
  ELSE PermitRead(tree, path,
                  IF found.error = None THEN found
                  ELSE InParent(Canonical(tree, Front(path)), Last(path)), roots)

PermitAccess(tree, path, found, guard, how) ==
  IF how = "write" THEN PermitWrite(tree, path, found, guard.write)
  ELSE PermitRead(tree, path, found, guard.read)

-----------------------------------------------------------------------------
(* The access.  beneath: what is left of the canonical path after the root *)
(* it was permitted under, resolved from the root's descriptor.            *)

Remainder(root, path) == SubSeq(path, Len(root.vetted.path) + 1, Len(path))

\* Mutant: the path is opened again, from the top, whether or not a descriptor is held.
AccessedByPath(tree, verdict, how) == OpenedByPath(tree, verdict.path, how)

\* A listing by path, unlike an open by path, follows a link at the leaf.
Accessed(tree, verdict, how) ==
  IF verdict.root = None /\ how = "list"
  THEN Opened(tree, Walked(tree, Root, verdict.path, "follow"), how)
  ELSE IF verdict.root = None THEN OpenedByPath(tree, verdict.path, how)
  ELSE OpenedBeneath(tree, verdict.root.dir, Remainder(verdict.root, verdict.path), how)

\* Where a write creates the file, None when the file is there or cannot be created.
CreatedAt(tree, verdict, opened, how) ==
  IF how # "write" \/ opened.error # "ENOENT" THEN None
  ELSE IF verdict.root = None THEN CreatedIn(tree, Root, verdict.path, "follow")
  ELSE CreatedIn(tree, verdict.root.dir, Remainder(verdict.root, verdict.path), "refuse")

\* record, and classify: what the trail and the caller are told of an access that failed.
\* A directory read tells a leaf that is a file from a name that is nothing.
Settled(error, how) ==
  LET nothing == NamesNothing(error) /\ ~(how = "list" /\ error = "ENOTDIR")
  IN  IF error = None THEN Refused(None, "allowed")
      ELSE Refused(IF nothing THEN "NotFound" ELSE "Unresolvable",
                   IF nothing THEN "absent" ELSE "denied")

-----------------------------------------------------------------------------
(* The walk.  A pending directory is opened when it is reached: beneath    *)
(* its parent's descriptor, or by its path when the root has none.         *)

PendingIn(parent, name, at) == [parent |-> parent, name |-> name, at |-> at]

Reached(tree, pending) ==
  IF pending.parent = None
  THEN Opened(tree, Walked(tree, Root, pending.at, "follow"), "list")
  ELSE OpenedBeneath(tree, pending.parent,
                     IF pending.name = None THEN <<>> ELSE <<pending.name>>, "list")

\* walked_link: the file a link leads to, if it is one and a granted root covers it.
LinkedFile(tree, link, found, roots) ==
  IF /\ EndsAt(found, "file") /\ ~MovedRoot(tree, link, roots)
     /\ Contained(tree, found.path, roots).inside
  THEN {[at |-> link, file |-> found.path]} ELSE {}

WalkedLink(tree, link, roots) == LinkedFile(tree, link, Canonical(tree, link), roots)

\* What listing one directory adds: the files to return, and the directories to
\* descend, no link among them.
Listed(tree, dir, pending, roots) ==
  LET held == {name \in Names : tree[dir, name] # None}
      of(kind) == {name \in held : Kind[tree[dir, name]] = kind}
      child(name) == Append(pending.at, name)
      parent == IF pending.parent = None THEN None ELSE dir
  IN  [files |-> {[at |-> child(name), file |-> child(name)] : name \in of("file")}
                 \cup UNION {WalkedLink(tree, child(name), roots) : name \in of("link")},
       pending |-> {PendingIn(parent, name, child(name)) : name \in of("dir")}]
=============================================================================
