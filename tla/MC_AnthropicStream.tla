------------------------- MODULE MC_AnthropicStream -------------------------
(***************************************************************************)
(* Two block indices; every kind of block at the first, and next to it a   *)
(* tool call whose end went missing.                                       *)
(***************************************************************************)
EXTENDS AnthropicStream

MCFrames ==
  {Start(0, block) : block \in {"tool_use", "thinking", "redacted_thinking", "text"}}
  \cup {Delta(0, delta) : delta \in {"text", "thinking", "signature", "head", "tail"}}
  \cup {BlockStop(0), Start(1, "tool_use")}
  \cup {MessageStart({"input"}), MessageDelta({"input", "output"}, "tool_use")}
  \cup {Other(kind) : kind \in {"ping", "message_stop", "error", "eof", "unparsed"}}
=============================================================================
