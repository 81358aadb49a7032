----------------------------- MODULE MCGateway ------------------------------
(***************************************************************************)
(* Small instances of Gateway: the texts by what the proxy can tell apart, *)
(* and conversations with the shapes the sanitizer distinguishes.          *)
(***************************************************************************)
EXTENDS Gateway, Sequences, TLC

(* A trailing # is the bypass marker, ~ an invisible character. *)
MCTexts == {"", "ok", "memo", "secret", "secret~", "~", "#", "memo#", "secret#", "notice"}
MCEmpty == ""
MCBlanks == {""}
MCNorm == [t \in MCTexts |-> CASE t = "secret~" -> "secret" [] t = "~" -> "" [] OTHER -> t]
MCMarked == {"#", "memo#", "secret#"}
MCStrip == [t \in MCTexts |-> CASE t = "#" -> "" [] t = "memo#" -> "memo"
                                [] t = "secret#" -> "secret" [] OTHER -> t]
MCNotices == {"notice"}
MCRuleHits == {"secret", "secret#"}
MCToolIds == {"t1"}
MCNoTool == "none"

Text(t) == [type |-> "text", text |-> t, tool |-> MCNoTool]
Use(id) == [type |-> "tool_use", text |-> "", tool |-> id]
Answer(id, t) == [type |-> "tool_result", text |-> t, tool |-> id]

Msg(role, blocks) == [role |-> role, readable |-> TRUE,
                      blocks |-> [b \in 0..Len(blocks) - 1 |-> blocks[b + 1]]]
Str(role, t) == [role |-> role, readable |-> TRUE, blocks |-> (Whole :> Text(t))]
Conv(msgs) == [i \in 0..Len(msgs) - 1 |-> msgs[i + 1]]

Typed == Conv(<<Str("user", "memo")>>)

AfterBlock == Conv(<<Str("user", "secret"), Str("assistant", "notice"),
                     Msg("user", <<Text("memo"), Text("~")>>)>>)

ToolTurn == Conv(<<Str("user", "ok"),
                   Msg("assistant", <<Text("ok"), Use("t1")>>),
                   Msg("user", <<Answer("t1", "secret~"), Text("memo")>>)>>)

ToolHistory == Conv(<<Str("user", "ok"),
                      Msg("assistant", <<Use("t1")>>),
                      Msg("user", <<Answer("t1", "memo")>>),
                      Str("assistant", "notice"),
                      Str("user", "ok")>>)

Unreadable == Conv(<<Str("user", "memo"), [Str("assistant", "") EXCEPT !.readable = FALSE],
                     Str("user", "ok")>>)

OverrideTyped == Conv(<<Str("user", "memo"), Str("assistant", "ok"), Str("user", "secret#")>>)

OverrideAfterBlock == Conv(<<Str("user", "ok"),
                             Msg("assistant", <<Text("ok"), Use("t1")>>),
                             Msg("user", <<Answer("t1", "secret")>>),
                             Str("assistant", "notice"),
                             Msg("user", <<Text("#"), Text("memo#")>>)>>)

OverrideOnly == Conv(<<Str("user", "#")>>)

InspectedInputs == {Unread, Typed, AfterBlock, ToolTurn, ToolHistory, Unreadable}
OverrideInputs == {OverrideTyped, OverrideAfterBlock, OverrideOnly}
AllInputs == InspectedInputs \cup OverrideInputs
OpenInputs == {AfterBlock, ToolTurn, OverrideTyped}

(* These clients send arrays that end with the turn of their user. *)
ASSUME TurnsAssumption == \A c \in AllInputs : DOMAIN c # {} => EndsWithUserTurn(c)

Symmetry == Permutations(Requests)
=============================================================================
