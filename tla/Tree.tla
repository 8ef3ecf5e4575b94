-------------------------------- MODULE Tree --------------------------------
(***************************************************************************)
(* The host's file system as the guard and the helper see it (external):   *)
(* directories, regular files and symlinks, the resolution of a path, and  *)
(* openat2 beneath a descriptor.                                           *)
(*                                                                         *)
(* A tree says what each name of each directory holds; an object keeps its *)
(* identity (its device and inode) when it is renamed.  Paths are absolute *)
(* sequences of names, the targets of links among them.                    *)
(***************************************************************************)
EXTENDS Naturals, Sequences, FiniteSets, SequencesExt

CONSTANTS
  None,
  Root,         \* the directory /
  Kind,         \* what each object is: "dir", "file" or "link"
  Target,       \* where each link points
  Locked,       \* directories this user may neither list nor search
  Names,        \* the names a directory may hold
  MaxLinks      \* links a resolution follows before ELOOP

Objects == DOMAIN Kind
Dirs == {o \in Objects : Kind[o] = "dir"}
Slots == Dirs \X Names

Up == ".."

\* What the names of dir lead to, at any depth, dir itself included.
Within(tree, dir) ==
  LET grown[n \in 0..Cardinality(Dirs)] ==
        IF n = 0 THEN {dir}
        ELSE LET held == grown[n - 1]
             IN  held \cup {tree[slot] : slot \in {s \in Slots : s[1] \in held /\ tree[s] # None}}
  IN  grown[Cardinality(Dirs)]

\* rename(2), with or without an exchange: two names swap what they hold.
Swappable(tree, a, b) ==
  /\ tree[a] # tree[b]
  /\ tree[a] = None \/ b[1] \notin Within(tree, tree[a])
  /\ tree[b] = None \/ a[1] \notin Within(tree, tree[b])

Swapped(tree, a, b) == [tree EXCEPT ![a] = tree[b], ![b] = tree[a]]

-----------------------------------------------------------------------------
(* Resolution.  A walk is where it stands, by name and by object, what is  *)
(* left of the path, and the links it followed.                            *)

Standing(at) == [names |-> <<>>, trail |-> <<at>>, rest |-> <<>>, links |-> 0, error |-> None]

Here(walk) == Last(walk.trail)

\* One component.  A link is followed, refused (RESOLVE_NO_SYMLINKS), or, when it
\* is the last component, kept (lstat, O_NOFOLLOW).
Stepped(tree, walk, links) ==
  LET name == Head(walk.rest)
      rest == Tail(walk.rest)
      found == tree[Here(walk), name]
      failed(error) == [walk EXCEPT !.error = error, !.rest = rest]
  IN  CASE Kind[Here(walk)] # "dir" -> failed("ENOTDIR")
        [] Kind[Here(walk)] = "dir" /\ Here(walk) \in Locked -> failed("EACCES")
        [] OTHER ->
           IF name = Up
           THEN IF walk.names = <<>> THEN [walk EXCEPT !.rest = rest]
                ELSE [walk EXCEPT !.rest = rest, !.names = Front(@), !.trail = Front(@)]
           ELSE IF found = None THEN failed("ENOENT")
           ELSE IF Kind[found] = "link" /\ ~(links = "keep" /\ rest = <<>>)
           THEN IF links = "refuse" \/ walk.links = MaxLinks THEN failed("ELOOP")
                ELSE [Standing(Root) EXCEPT !.rest = Target[found] \o rest, !.links = walk.links + 1]
           ELSE [walk EXCEPT !.rest = rest, !.names = Append(@, name), !.trail = Append(@, found)]

Walks == [names : Seq(Names), trail : Seq(Objects), rest : Seq(Names \cup {Up}),
          links : 0..MaxLinks, error : {None, "ENOENT", "ENOTDIR", "EACCES", "ELOOP"}]

Walked(tree, from, path, links) ==
  LET walked[walk \in Walks] ==
        IF walk.rest = <<>> \/ walk.error # None THEN walk
        ELSE walked[Stepped(tree, walk, links)]
  IN  walked[[Standing(from) EXCEPT !.rest = path]]

\* canonicalize: the object, and the path with no link and no .. left in it.
Found(walk) == [error |-> walk.error, path |-> walk.names, object |-> Here(walk)]

Canonical(tree, path) == Found(Walked(tree, Root, path, "follow"))

\* symlink_metadata: what the last component is, not what it leads to.
Named(tree, path) == Found(Walked(tree, Root, path, "keep"))

EndsAt(found, kind) == found.error = None /\ Kind[found.object] = kind

IsSymlink(tree, path) == EndsAt(Named(tree, path), "link")

-----------------------------------------------------------------------------
(* Opening.  "read" takes any object, "list" a directory, "write" a file,  *)
(* which it creates or truncates.                                          *)

\* What an open of the last component does, its parent being reached.
Opened(tree, walk, how) ==
  LET object == Here(walk)
      result(error, reached) == [error |-> error, object |-> reached]
  IN  IF walk.error # None THEN result(walk.error, None)
      ELSE IF Kind[object] = "link" THEN result("ELOOP", None)
      ELSE IF how = "list" /\ Kind[object] # "dir" THEN result("ENOTDIR", None)
      ELSE IF how = "write" /\ Kind[object] = "dir" THEN result("EISDIR", None)
      ELSE IF how # "write" /\ object \in Locked THEN result("EACCES", None)
      ELSE result(None, object)

\* open(2) of an absolute path with O_NOFOLLOW, which speaks for the last component only.
OpenedByPath(tree, path, how) == Opened(tree, Walked(tree, Root, path, "keep"), how)

\* openat2(2) with RESOLVE_BENEATH and RESOLVE_NO_SYMLINKS, beneath a descriptor.
OpenedBeneath(tree, dir, rest, how) == Opened(tree, Walked(tree, dir, rest, "refuse"), how)

\* Where a file that is not there is created: the slot its name has in the directory
\* the rest of the path leads to, None when nothing can be created.
FreeSlot(tree, parent, name) ==
  IF /\ EndsAt(parent, "dir") /\ parent.object \notin Locked
     /\ tree[parent.object, name] = None
  THEN <<parent.object, name>> ELSE None

CreatedIn(tree, from, path, links) ==
  IF path = <<>> THEN None
  ELSE FreeSlot(tree, Found(Walked(tree, from, Front(path), links)), Last(path))
=============================================================================
