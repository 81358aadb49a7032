----------------------------- MODULE Sanitizer ------------------------------
(***************************************************************************)
(* sanitizer.Sanitize, loop by loop: it marks the units the sensitive      *)
(* segments belong to, copies what is not marked, and validates the copy.  *)
(* The marking reads and writes flags the copying reads and writes again   *)
(* (a message found empty drops the notice behind it), and the validation  *)
(* carries the set of open tool calls from block to block.  Conversation   *)
(* states the result in one expression, and Gateway relies on it.          *)
(***************************************************************************)
EXTENDS Conversation

CONSTANTS Inputs    \* message arrays to sanitize

(* What decoding yields: a bare string is one text, an array has indices.  *)
IsDecoded(m) ==
  /\ m = SetBlocks(m, m.blocks)
  /\ m.blocks = [b \in DOMAIN m.blocks |-> m.blocks[b]]
  /\ Whole \in DOMAIN m.blocks => DOMAIN m.blocks = {Whole} /\ m.blocks[Whole].type = "text"

ASSUME InputsAssumption ==
  \A c \in Inputs : IsConversation(c) /\ \A i \in DOMAIN c : IsDecoded(c[i])

VARIABLES
  msgs,       \* the message array
  ng,         \* the sensitive segments
  step,       \* the loop the code is in
  marks,      \* segments still to mark
  dropMsg,    \* messages flagged for removal
  dropBlock,  \* blocks flagged for removal
  left,       \* positions the current loop has still to visit
  out,        \* the copy
  open,       \* tool calls validate has seen no result of
  returned    \* what Sanitize returned

sanitizerVars == <<msgs, ng, step, marks, dropMsg, dropBlock, left, out, open, returned>>

SanitizerInit ==
  /\ msgs \in Inputs
  /\ ng \in SUBSET HistorySegments(msgs) \ {{}}
  /\ step = "load"
  /\ marks = {} /\ dropMsg = {} /\ dropBlock = {} /\ left = {}
  /\ out = [i \in {} |-> i]
  /\ open = {}
  /\ returned = "none"

Return(r) ==
  /\ step' = "return"
  /\ returned' = r
  /\ UNCHANGED <<msgs, ng, marks, dropMsg, dropBlock, left, out, open>>

LoadFails ==
  /\ step = "load"
  /\ \E i \in DOMAIN msgs : ~msgs[i].readable
  /\ Return("error")

Load ==
  /\ step = "load"
  /\ \A i \in DOMAIN msgs : msgs[i].readable
  /\ step' = "mark"
  /\ marks' = ng
  /\ UNCHANGED <<msgs, ng, dropMsg, dropBlock, left, out, open, returned>>

IsString(i) == DOMAIN msgs[i].blocks = {Whole}

(* The segments come in the order of the array. *)
NextMark(s) == s \in marks /\ \A t \in marks \ {s} : Precedes(<<s.msg, s.block>>, <<t.msg, t.block>>)

(* Broken variants: any message counts as the notice; only the role does. *)
MessageAfter(i) == {i + 1} \cap DOMAIN msgs

AssistantAfter(i) == {k \in {i + 1} \cap DOMAIN msgs : msgs[k].role = "assistant"}

NoticeAfter(i) ==
  {k \in {i + 1} \cap DOMAIN msgs : msgs[k].role = "assistant" /\ HasBlockNotice(msgs[k])}

(* Broken variant: the tool call stays when its result goes. *)
NoPartner(s) == {}

Partner(s) == ToolUse(msgs, s.tool)

MarkToolResult(s) ==
  /\ step = "mark" /\ NextMark(s)
  /\ s.type = "tool_result"
  /\ dropBlock' = dropBlock \cup {<<s.msg, s.block>>} \cup Partner(s)
  /\ marks' = marks \ {s}
  /\ UNCHANGED <<msgs, ng, step, dropMsg, left, out, open, returned>>

MarkMessage(s) ==
  /\ step = "mark" /\ NextMark(s)
  /\ s.type = "text" /\ s.block = Whole
  /\ dropMsg' = dropMsg \cup {s.msg} \cup NoticeAfter(s.msg)
  /\ marks' = marks \ {s}
  /\ UNCHANGED <<msgs, ng, step, dropBlock, left, out, open, returned>>

MarkText(s) ==
  /\ step = "mark" /\ NextMark(s)
  /\ s.type = "text" /\ s.block # Whole
  /\ dropBlock' = dropBlock \cup {<<s.msg, s.block>>}
  /\ marks' = marks \ {s}
  /\ UNCHANGED <<msgs, ng, step, dropMsg, left, out, open, returned>>

MarkingDone ==
  /\ step = "mark" /\ marks = {}
  /\ step' = "copy"
  /\ left' = DOMAIN msgs
  /\ UNCHANGED <<msgs, ng, marks, dropMsg, dropBlock, out, open, returned>>

Visit(i) ==
  /\ step = "copy"
  /\ i \in left /\ \A k \in left : i <= k
  /\ left' = left \ {i}
  /\ UNCHANGED <<msgs, ng, step, marks, dropBlock, open, returned>>

Kept(i) == {b \in DOMAIN msgs[i].blocks : <<i, b>> \notin dropBlock}

SkipMessage(i) == Visit(i) /\ i \in dropMsg /\ UNCHANGED <<dropMsg, out>>

CopyMessage(i) ==
  /\ Visit(i)
  /\ i \notin dropMsg
  /\ IsString(i) \/ Kept(i) # {}
  /\ LET m == IF IsString(i) THEN msgs[i]
              ELSE SetBlocks(msgs[i], [b \in Kept(i) |-> msgs[i].blocks[b]])
     IN out' = [k \in DOMAIN out \cup {i} |-> IF k = i THEN m ELSE out[k]]
  /\ UNCHANGED dropMsg

DropEmptied(i) ==
  /\ Visit(i)
  /\ i \notin dropMsg
  /\ ~IsString(i) /\ Kept(i) = {}
  /\ dropMsg' = dropMsg \cup NoticeAfter(i)
  /\ UNCHANGED out

StartsWithUser == DOMAIN out # {} /\ out[FirstIndex(out)].role = "user"

CopyingDone ==
  /\ step = "copy" /\ left = {}
  /\ StartsWithUser
  /\ step' = "validate"
  /\ left' = BlocksOfType(out, {"tool_use", "tool_result"})
  /\ UNCHANGED <<msgs, ng, marks, dropMsg, dropBlock, out, open, returned>>

RejectStart ==
  /\ step = "copy" /\ left = {}
  /\ ~StartsWithUser
  /\ Return("error")

Check(p, type) ==
  /\ step = "validate"
  /\ p \in left /\ \A q \in left \ {p} : Precedes(p, q)
  /\ out[p[1]].blocks[p[2]].type = type

OpenTool(p) ==
  /\ Check(p, "tool_use")
  /\ open' = open \cup {ToolOf(out, p)}
  /\ left' = left \ {p}
  /\ UNCHANGED <<msgs, ng, step, marks, dropMsg, dropBlock, out, returned>>

CloseTool(p) ==
  /\ Check(p, "tool_result")
  /\ ToolOf(out, p) \in open
  /\ open' = open \ {ToolOf(out, p)}
  /\ left' = left \ {p}
  /\ UNCHANGED <<msgs, ng, step, marks, dropMsg, dropBlock, out, returned>>

RejectOrphan(p) ==
  /\ Check(p, "tool_result")
  /\ ToolOf(out, p) \notin open
  /\ Return("error")

Finish ==
  /\ step = "validate" /\ left = {}
  /\ Return(IF open = {} THEN "ok" ELSE "error")

SanitizerNext ==
  \/ LoadFails \/ Load
  \/ \E s \in marks : MarkToolResult(s) \/ MarkMessage(s) \/ MarkText(s)
  \/ MarkingDone
  \/ step = "copy" /\ \E i \in left : SkipMessage(i) \/ CopyMessage(i) \/ DropEmptied(i)
  \/ CopyingDone \/ RejectStart
  \/ step = "validate" /\ \E p \in left : OpenTool(p) \/ CloseTool(p) \/ RejectOrphan(p)
  \/ Finish

SanitizerSpec == SanitizerInit /\ [][SanitizerNext]_sanitizerVars

-----------------------------------------------------------------------------
(* Properties *)

(* The loops return what Conversation says, which is what the handler      *)
(* forwards (sanitizer.go:36-121, 145-175).                                *)
ReturnsSanitized ==
  step = "return" =>
    /\ returned = "ok" <=> CanSanitize(msgs, ng)
    /\ returned = "ok" => out = Sanitized(msgs, ng)

(* Whatever was found sensitive is gone from what is returned, the live    *)
(* turn and everything the sanitizer was not asked about are still there:  *)
(* a segment is lost only with a unit (sanitizer.go:1-6).                  *)
ExactlySensitiveLost == returned = "ok" => Segments(out) = Segments(msgs) \ ng

(* An array the API accepts. *)
Acceptable ==
  /\ \A i \in DOMAIN msgs : msgs[i].readable /\ DOMAIN msgs[i].blocks # {}
  /\ \A p \in BlocksOfType(msgs, {"tool_use"}) : msgs[p[1]].role = "assistant"
  /\ ValidStructure(msgs)

UniqueTools ==
  \A p, q \in BlocksOfType(msgs, {"tool_use"}) : ToolOf(msgs, p) = ToolOf(msgs, q) => p = q

PlainNotices ==
  \A i \in DOMAIN msgs : HasBlockNotice(msgs[i]) /\ msgs[i].role = "assistant" =>
    \A b \in DOMAIN msgs[i].blocks : msgs[i].blocks[b].type = "text"

(* A tool call and its result are removed as a pair (spec-proxy.md:807):   *)
(* sanitizing a conversation the API accepts fails only because its first  *)
(* turn had to go, never because the pairing broke.                        *)
FailsOnlyAtStart ==
  returned = "error" /\ Acceptable /\ UniqueTools /\ PlainNotices =>
    \E s \in ng : s.msg = FirstIndex(msgs)
=============================================================================
