----------------------------- MODULE MCSanitizer ----------------------------
(***************************************************************************)
(* Every conversation of an opening message, up to MaxMiddle messages and  *)
(* a live turn from a small repertoire, and every set of its history       *)
(* segments as the sensitive ones.                                         *)
(***************************************************************************)
EXTENDS Sanitizer, Sequences, TLC

CONSTANTS MaxMiddle     \* bound on the length of a conversation, less 2

MCTexts == {"", "memo", "log", "notice"}
MCEmpty == ""
MCBlanks == {""}
MCNorm == [t \in MCTexts |-> t]
MCMarked == {}
MCStrip == MCNorm
MCNotices == {"notice"}
MCToolIds == {"t1", "t2"}
MCNoTool == "none"

Text(t) == [type |-> "text", text |-> t, tool |-> MCNoTool]
Use(id) == [type |-> "tool_use", text |-> "", tool |-> id]
Answer(id, t) == [type |-> "tool_result", text |-> t, tool |-> id]

Msg(role, blocks) == [role |-> role, readable |-> TRUE,
                      blocks |-> [b \in 0..Len(blocks) - 1 |-> blocks[b + 1]]]
Str(role, t) == [role |-> role, readable |-> TRUE, blocks |-> (Whole :> Text(t))]
Conv(ms) == [i \in 0..Len(ms) - 1 |-> ms[i + 1]]

Openers == {Str("user", "memo"), Msg("user", <<Text("memo"), Text("log")>>), Str("assistant", "notice")}

Middles ==
  { Str("user", "memo"),
    Str("assistant", "notice"),
    Msg("user", <<>>),
    Msg("user", <<Text("memo"), Text("log")>>),
    Msg("user", <<Answer("t1", "log"), Text("memo")>>),
    Msg("user", <<Answer("t2", "log"), Answer("t1", "memo")>>),
    Msg("assistant", <<Use("t1")>>),
    Msg("assistant", <<Text("memo"), Use("t1"), Use("t2")>>),
    Msg("assistant", <<Text("notice"), Use("t1")>>) }

Closers == {Str("user", "log"), Msg("user", <<Answer("t1", "log")>>),
            [Str("assistant", "") EXCEPT !.readable = FALSE]}

MCInputs ==
  {Conv(<<o>> \o m \o <<l>>) : o \in Openers, l \in Closers,
                              m \in UNION {[1..n -> Middles] : n \in 0..MaxMiddle}}
=============================================================================
