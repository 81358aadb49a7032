----------------------------- MODULE MCSession ------------------------------
(***************************************************************************)
(* A small repertoire of turns for Session; # is the bypass marker.        *)
(***************************************************************************)
EXTENDS Session, Sequences, TLC

MCTexts == {"", "memo", "memo#", "key", "key#", "notice"}
MCEmpty == ""
MCBlanks == {""}
MCNorm == [t \in MCTexts |-> t]
MCMarked == {"memo#", "key#"}
MCStrip == [t \in MCTexts |-> CASE t = "memo#" -> "memo" [] t = "key#" -> "key" [] OTHER -> t]
MCNotices == {"notice"}
MCSensitive == {"key", "key#"}
MCToolIds == {"t1", "t2", "t3"}
MCNoTool == "none"

Text(t) == [type |-> "text", text |-> t, tool |-> MCNoTool]
Use(id) == [type |-> "tool_use", text |-> "", tool |-> id]
Answer(id, t) == [type |-> "tool_result", text |-> t, tool |-> id]

Msg(role, blocks) == [role |-> role, readable |-> TRUE,
                      blocks |-> [b \in 0..Len(blocks) - 1 |-> blocks[b + 1]]]
Str(role, t) == [role |-> role, readable |-> TRUE, blocks |-> (Whole :> Text(t))]

MCTyped == {Str("user", "memo"), Str("user", "key"), Str("user", "memo#"),
            Msg("user", <<Text("key"), Text("memo")>>), Msg("user", <<Text("key#")>>)}

MCToolTurns == {Msg("user", <<Answer("t1", "memo")>>),
                Msg("user", <<Answer("t3", "memo"), Answer("t2", "key#")>>),
                Msg("user", <<Answer("t1", "key"), Text("memo#")>>)}

MCReplies == {Str("assistant", "memo"), Msg("assistant", <<Use("t1")>>),
              Msg("assistant", <<Text("memo"), Use("t2"), Use("t3")>>)}

MCOutages == {{}, {"memo"}, {"key", "memo#"}}

MCNotice == Msg("assistant", <<Text("notice")>>)
=============================================================================
