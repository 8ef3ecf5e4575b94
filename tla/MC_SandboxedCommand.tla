------------------------ MODULE MC_SandboxedCommand ------------------------
(***************************************************************************)
(* One call, every refusal of either stage, one death of a stage nothing   *)
(* asked for, and one file renamed over the program's path.                *)
(***************************************************************************)
EXTENDS SandboxedCommand

MCCommandStatuses == {Exit(0), Exit(1), Signal(SIGSEGV)}

\* Nothing, or all three: the longest the channel gets.
MCDegradedTogether == {{}, ToSet(Degradations)}
=============================================================================
