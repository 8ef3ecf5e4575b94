--------------------------- MODULE MC_Confinement ---------------------------
(* A root with a working directory (a file, a link out, a directory with  *)
(* a file, a file whose name is not UTF-8 and, in one of the trees, one    *)
(* that has the name it is shown as), a directory nobody granted, system   *)
(* executables, and /etc/hosts.                                            *)
EXTENDS Confinement

CONSTANTS slash, work, sub, outer, bin, etc, file, deep, private, tool, hosts, made, bounded,
          odd, decoy, out, turn

TheKind ==
  [o \in {slash, work, sub, outer, bin, etc} |-> "dir"] @@
  [o \in {file, deep, private, tool, hosts, made, bounded, odd, decoy} |-> "file"] @@
  [o \in {out, turn} |-> "link"]

TheNames == {"w", "o", "d", "f", "l", "x", "e", "h", "n", "b", "r"}
TheShown == [name \in TheNames |-> IF name = "b" THEN "r" ELSE name]
TheTarget == out :> <<"o", "f">> @@ turn :> <<"w", "d">>

Placed(link) ==
  [slot \in {slash, work, sub, outer, bin, etc} \X TheNames |->
     CASE slot = <<slash, "w">> -> work  [] slot = <<slash, "o">> -> outer
       [] slot = <<slash, "x">> -> bin   [] slot = <<slash, "e">> -> etc
       [] slot = <<work, "f">> -> file  [] slot = <<work, "d">> -> sub
       [] slot = <<work, "l">> -> link  [] slot = <<sub, "f">> -> deep
       [] slot = <<outer, "f">> -> private [] slot = <<bin, "f">> -> tool
       [] slot = <<work, "b">> -> odd
       [] slot = <<work, "r">> -> IF link = turn THEN decoy ELSE None
       [] slot = <<etc, "h">> -> hosts  [] OTHER -> None]

TheTrees == {Placed(out), Placed(turn)}

NoPaths == [axis \in ToSet(Axes) |-> <<>>]
Unnamed == [given |-> FALSE, named |-> <<>>]
Flags == [paths |-> NoPaths, ports |-> Unnamed, unix |-> FALSE, overTcp |-> FALSE,
          dns |-> <<>>, cwd |-> <<"w">>]
Ports(named) == [given |-> TRUE, named |-> named]

TheCommandLines ==
  {Flags,
   [Flags EXCEPT !.paths["Read"] = <<<<"w">>>>, !.paths["Write"] = <<<<"w", "d">>>>,
                 !.ports = Ports(<<443>>), !.unix = TRUE],
   [Flags EXCEPT !.paths["Read"] = <<<<"w", "f">>>>, !.paths["ReadExecute"] = <<<<"w", "d">>>>,
                 !.ports = Ports(<<443>>), !.dns = <<"host">>],
   [Flags EXCEPT !.ports = Ports(<<53, 443>>), !.dns = <<"host">>],
   [Flags EXCEPT !.ports = Ports(<<>>), !.dns = <<"host">>],
   [Flags EXCEPT !.paths["Read"] = <<<<"w", "b">>>>, !.ports = Ports(<<443>>)],
   [Flags EXCEPT !.cwd = <<>>]}

TheKernels == {[openat2 |-> TRUE, abi |-> 9], [openat2 |-> FALSE, abi |-> 5]}

TheRequests ==
  {<<"w">>, <<"w", "f">>, <<"w", "l">>, <<"w", "d">>, <<"w", "d", "f">>, <<"w", "d", "n">>,
   <<"w", "l", "f">>, <<"o", "f">>, <<"o", "n">>, <<"w", "d", "..", "f">>, <<"w", "n", "n">>,
   <<"w", "b">>, <<"w", "r">>}

TheMovable ==
  {<<slash, "w">>, <<slash, "o">>, <<work, "f">>, <<work, "d">>, <<work, "l">>}

TheSize == [o \in DOMAIN TheKind |-> IF o = private THEN 3 ELSE 1]
TheMatching == {deep, private}

EmptySet == {}
TheSystemPaths == <<<<"x">>>>
TheResolverFiles == <<<<"e", "h">>>>
TheRequired == {<<"e", "h">>}
TheOwned == {<<"o", "x">>}
TheHomeParents == {<<"n">>}
TheHome == <<"n", "h">>
=============================================================================
