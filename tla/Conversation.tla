---------------------------- MODULE Conversation ----------------------------
(***************************************************************************)
(* The part of an Anthropic message array the proxy reads and rewrites     *)
(* (internal/anthropic, dlp/segmenter.go, proxy/bypass.go) and the result  *)
(* of the history sanitizer (internal/sanitizer).                          *)
(*                                                                         *)
(* A conversation is a function from array indices to messages, and the    *)
(* content of a message a function from block indices to blocks.  Removing *)
(* a message or a block restricts the function: the indices that are left  *)
(* keep the order of the array, which is all the proxy relies on.  A       *)
(* bare-string content is the single block Whole (-1), the BlockIndex the  *)
(* segmenter gives it.                                                     *)
(***************************************************************************)
EXTENDS Integers

CONSTANTS
  Texts,      \* the texts blocks carry, raw or normalised
  Empty,      \* the text ""
  Blanks,     \* texts strings.TrimSpace reduces to ""
  Norm,       \* dlp.Normalize: Norm[t] is what is classified and fingerprinted
  Marked,     \* texts that contain the bypass marker
  Strip,      \* strings.ReplaceAll(t, marker, "")
  Notices,    \* texts that contain BlockNoticeSentinel
  ToolIds,    \* tool_use ids
  NoTool      \* the id of a block that has none

ASSUME TextsAssumption ==
  /\ Empty \in Texts
  /\ Blanks \subseteq Texts
  /\ Marked \subseteq Texts
  /\ Notices \subseteq Texts
  /\ Norm \in [Texts -> Texts]
  /\ Strip \in [Texts -> Texts]
  /\ \A t \in Texts \ Marked : Strip[t] = t
  /\ NoTool \notin ToolIds

Whole == -1

Roles == {"user", "assistant"}

Block == [type : {"text", "tool_use", "tool_result"}, text : Texts, tool : ToolIds \cup {NoTool}]

(* Message.Blocks fails to decode an unreadable message. *)
IsMessage(m) ==
  /\ m.role \in Roles
  /\ m.readable \in BOOLEAN
  /\ DOMAIN m.blocks \subseteq Nat \cup {Whole}
  /\ \A b \in DOMAIN m.blocks : m.blocks[b] \in Block

IsConversation(c) ==
  /\ DOMAIN c \subseteq Nat
  /\ \A i \in DOMAIN c : IsMessage(c[i])

FirstIndex(c) == CHOOSE i \in DOMAIN c : \A k \in DOMAIN c : i <= k

LastIndex(c) ==
  IF DOMAIN c = {} THEN -1 ELSE CHOOSE i \in DOMAIN c : \A k \in DOMAIN c : k <= i

SetBlocks(m, bs) == [role |-> m.role, readable |-> m.readable, blocks |-> bs]

HasBlockNotice(m) ==
  /\ m.readable
  /\ \E b \in DOMAIN m.blocks :
       m.blocks[b].type \in {"text", "tool_result"} /\ m.blocks[b].text \in Notices

-----------------------------------------------------------------------------
(* Segmentation: only what user messages carry as text is inspected. *)

SegmentTypes == {"text", "tool_result"}

Segment == [msg : Nat, block : Nat \cup {Whole}, type : SegmentTypes,
            text : Texts, tool : ToolIds \cup {NoTool}]

(* Compatibility forms are folded, invisible characters removed. *)
Normalized(block) == Norm[block.text]

SegmentAt(c, i, b) ==
  [msg |-> i, block |-> b, type |-> c[i].blocks[b].type,
   text |-> Normalized(c[i].blocks[b]), tool |-> c[i].blocks[b].tool]

Inspected(c, i, b) ==
  /\ c[i].role = "user"
  /\ c[i].blocks[b].type \in SegmentTypes
  /\ Normalized(c[i].blocks[b]) # Empty

Segments(c) ==
  UNION { {SegmentAt(c, i, b) : b \in {k \in DOMAIN c[i].blocks : Inspected(c, i, k)}}
          : i \in DOMAIN c }

(* Segmentize decodes the content of user messages only. *)
Segmentable(c) == \A i \in DOMAIN c : c[i].role = "user" => c[i].readable

LiveSegments(c) == {s \in Segments(c) : s.msg = LastIndex(c)}

HistorySegments(c) == Segments(c) \ LiveSegments(c)

-----------------------------------------------------------------------------
(* The user's override marker. *)

(* Broken variant: what a tool returned counts as well. *)
ContainsMarkerAnywhere(m) == \E b \in DOMAIN m.blocks : m.blocks[b].text \in Marked

ContainsMarker(m) ==
  \E b \in DOMAIN m.blocks : m.blocks[b].type = "text" /\ m.blocks[b].text \in Marked

(* Broken variant: a block that is empty without the marker stays. *)
StripMarkerKeepingBlanks(m) ==
  LET Left(b) == Strip[m.blocks[b].text]
  IN SetBlocks(m, [b \in DOMAIN m.blocks |-> IF m.blocks[b].type = "text"
                                            THEN [m.blocks[b] EXCEPT !.text = Left(b)]
                                            ELSE m.blocks[b]])

StripMarker(m) ==
  LET Left(b) == Strip[m.blocks[b].text]
      kept == {b \in DOMAIN m.blocks : m.blocks[b].type = "text" => Left(b) \notin Blanks}
  IN IF kept = {}
     THEN m
     ELSE SetBlocks(m, [b \in kept |-> IF m.blocks[b].type = "text"
                                       THEN [m.blocks[b] EXCEPT !.text = Left(b)]
                                       ELSE m.blocks[b]])

(* The API rejects a text block that is blank. *)
BlankTexts(m) ==
  {b \in DOMAIN m.blocks : m.blocks[b].type = "text" /\ m.blocks[b].text \in Blanks}

(* The live turn asks to be let through. *)
Overrides(c) ==
  /\ DOMAIN c # {}
  /\ c[LastIndex(c)].role = "user"
  /\ ContainsMarker(c[LastIndex(c)])

StripLiveTurn(c) == [c EXCEPT ![LastIndex(c)] = StripMarker(@)]

-----------------------------------------------------------------------------
(* Sanitizing.  Sanitized is what the loops of sanitizer.Sanitize leave    *)
(* (module Sanitizer takes them step by step).                             *)

Precedes(p, q) == p[1] < q[1] \/ (p[1] = q[1] /\ p[2] < q[2])

BlocksOfType(c, types) ==
  UNION { {<<i, b>> : b \in {k \in DOMAIN c[i].blocks : c[i].blocks[k].type \in types}}
          : i \in DOMAIN c }

ToolOf(c, p) == c[p[1]].blocks[p[2]].tool

(* Broken variant: the call stays when its result goes. *)
NoToolUse(c, id) == {}

(* The tool_use the index maps an id to: the last one that carries it. *)
ToolUse(c, id) ==
  LET uses == {p \in BlocksOfType(c, {"tool_use"}) : ToolOf(c, p) = id}
  IN {p \in uses : \A q \in uses \ {p} : Precedes(q, p)}

(* Broken variant: the whole message goes with a sensitive block of it. *)
DroppedMessages(c, ng) ==
  UNION {{<<s.msg, b>> : b \in DOMAIN c[s.msg].blocks} : s \in ng}

DroppedBlocks(c, ng) ==
  {<<s.msg, s.block>> : s \in ng}
    \cup UNION {ToolUse(c, s.tool) : s \in {x \in ng : x.type = "tool_result"}}

KeptBlocks(c, ng, i) == {b \in DOMAIN c[i].blocks : <<i, b>> \notin DroppedBlocks(c, ng)}

Emptied(c, ng) == {i \in DOMAIN c : KeptBlocks(c, ng, i) = {}}

(* Broken variant: notices are never removed. *)
NoticesStay(c, ng) == {}

(* A block notice vanishes with the emptied message it answered. *)
NoticesDropped(c, ng) ==
  {i \in DOMAIN c : i - 1 \in Emptied(c, ng) /\ c[i].role = "assistant" /\ HasBlockNotice(c[i])}

Sanitized(c, ng) ==
  [i \in DOMAIN c \ (Emptied(c, ng) \cup NoticesDropped(c, ng)) |->
     SetBlocks(c[i], [b \in KeptBlocks(c, ng, i) |-> c[i].blocks[b]])]

(* Every tool_result answers an open tool_use, and none is left open. *)
ToolsPaired(c) ==
  LET tools == BlocksOfType(c, {"tool_use", "tool_result"})
      Before(p) == {q \in tools : ToolOf(c, q) = ToolOf(c, p) /\ Precedes(q, p)}
      LastOf(S) == {p \in S : \A q \in S \ {p} : Precedes(q, p)}
      Type(p) == c[p[1]].blocks[p[2]].type
  IN \A p \in tools :
       /\ Type(p) = "tool_result" => \E q \in LastOf(Before(p)) : Type(q) = "tool_use"
       /\ Type(p) = "tool_use" =>
            \E q \in tools : ToolOf(c, q) = ToolOf(c, p) /\ Precedes(p, q) /\ Type(q) = "tool_result"

ValidStructure(c) ==
  /\ DOMAIN c # {}
  /\ c[FirstIndex(c)].role = "user"
  /\ ToolsPaired(c)

(* Broken variant: the result is not validated. *)
CanSanitizeUnchecked(c, ng) == \A i \in DOMAIN c : c[i].readable

(* Sanitize returns an error instead of a message array. *)
CanSanitize(c, ng) ==
  /\ \A i \in DOMAIN c : c[i].readable
  /\ ValidStructure(Sanitized(c, ng))
=============================================================================
