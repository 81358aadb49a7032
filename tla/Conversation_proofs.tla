------------------------ MODULE Conversation_proofs -------------------------
(***************************************************************************)
(* What the operators on conversations return, for every conversation:     *)
(* which segments sanitizing and stripping leave, which messages stay, and *)
(* when the result is one the upstream accepts.                            *)
(***************************************************************************)
EXTENDS Conversation, Sequences, WellFoundedInduction, TLAPS

USE TextsAssumption

-----------------------------------------------------------------------------
(* Segments *)

(* A segment names the block it was taken from. *)
LEMMA SegmentOrigin ==
  ASSUME NEW c, NEW s
  PROVE  s \in Segments(c) <=>
           /\ s.msg \in DOMAIN c
           /\ s.block \in DOMAIN c[s.msg].blocks
           /\ Inspected(c, s.msg, s.block)
           /\ s = SegmentAt(c, s.msg, s.block)
  BY DEF Segments, SegmentAt

LEMMA SegmentsTyped ==
  ASSUME NEW c, IsConversation(c)
  PROVE  Segments(c) \subseteq Segment
<1> SUFFICES ASSUME NEW s \in Segments(c)
             PROVE  s \in Segment
  OBVIOUS
<1> DEFINE block == c[s.msg].blocks[s.block]
<1>1. /\ s.msg \in DOMAIN c /\ s.block \in DOMAIN c[s.msg].blocks
      /\ Inspected(c, s.msg, s.block)
      /\ s = SegmentAt(c, s.msg, s.block)
  BY SegmentOrigin
<1>2. s.msg \in Nat /\ IsMessage(c[s.msg])
  BY <1>1 DEF IsConversation
<1>3. s.block \in Nat \cup {Whole} /\ block \in Block
  BY <1>1, <1>2 DEF IsMessage
<1>4. block.type \in SegmentTypes
  BY <1>1 DEF Inspected
<1>5. Norm[block.text] \in Texts /\ block.tool \in ToolIds \cup {NoTool}
  BY <1>3 DEF Block
<1>6. s = [msg |-> s.msg, block |-> s.block, type |-> block.type,
           text |-> Norm[block.text], tool |-> block.tool]
  BY <1>1 DEF SegmentAt, Normalized
<1> HIDE DEF block
<1> QED
  BY <1>2, <1>3, <1>4, <1>5, <1>6 DEF Segment

(* Sanitizing removes every segment it is given and adds none. *)
LEMMA SanitizedSegments ==
  ASSUME NEW c, NEW ngs
  PROVE  Segments(Sanitized(c, ngs)) \subseteq Segments(c) \ ngs
<1> DEFINE d == Sanitized(c, ngs)
<1> SUFFICES ASSUME NEW s \in Segments(d)
             PROVE  s \in Segments(c) /\ s \notin ngs
  OBVIOUS
<1>1. /\ s.msg \in DOMAIN d
      /\ s.block \in DOMAIN d[s.msg].blocks
      /\ Inspected(d, s.msg, s.block)
      /\ s = SegmentAt(d, s.msg, s.block)
  BY SegmentOrigin
<1>2. /\ s.msg \in DOMAIN c
      /\ d[s.msg] = SetBlocks(c[s.msg], [b \in KeptBlocks(c, ngs, s.msg) |-> c[s.msg].blocks[b]])
  BY <1>1 DEF Sanitized
<1>3. /\ s.block \in KeptBlocks(c, ngs, s.msg)
      /\ d[s.msg].blocks[s.block] = c[s.msg].blocks[s.block]
      /\ d[s.msg].role = c[s.msg].role
  BY <1>1, <1>2 DEF SetBlocks
<1>4. s \in Segments(c)
  <2>1. s.block \in DOMAIN c[s.msg].blocks
    BY <1>3 DEF KeptBlocks
  <2>2. Inspected(c, s.msg, s.block)
    BY <1>1, <1>3 DEF Inspected
  <2>3. s = SegmentAt(c, s.msg, s.block)
    BY <1>1, <1>3 DEF SegmentAt
  <2> QED
    BY <1>2, <2>1, <2>2, <2>3, SegmentOrigin
<1>5. s \notin ngs
  BY <1>3 DEF KeptBlocks, DroppedBlocks
<1> QED
  BY <1>4, <1>5

(* Stripping the marker touches the live turn only. *)
LEMMA StrippedSegments ==
  ASSUME NEW c, Overrides(c), NEW s \in Segments(StripLiveTurn(c)), s.msg # LastIndex(c)
  PROVE  s \in HistorySegments(c)
<1> DEFINE d == StripLiveTurn(c)
<1>1. /\ s.msg \in DOMAIN d
      /\ s.block \in DOMAIN d[s.msg].blocks
      /\ Inspected(d, s.msg, s.block)
      /\ s = SegmentAt(d, s.msg, s.block)
  BY SegmentOrigin
<1>2. s.msg \in DOMAIN c /\ d[s.msg] = c[s.msg]
  BY <1>1 DEF StripLiveTurn
<1>3. s \in Segments(c)
  BY <1>1, <1>2, SegmentOrigin DEF Inspected, SegmentAt
<1> QED
  BY <1>3 DEF HistorySegments, LiveSegments


(* Nothing but what it is given is lost with it: the partners of results   *)
(* are calls, and the notices are the assistant's.                         *)
LEMMA SanitizedLosesNoMore ==
  ASSUME NEW c, NEW ngs \in SUBSET Segments(c)
  PROVE  Segments(Sanitized(c, ngs)) = Segments(c) \ ngs
<1> DEFINE d == Sanitized(c, ngs)
<1> SUFFICES ASSUME NEW s \in Segments(c), s \notin ngs
             PROVE  s \in Segments(d)
  BY SanitizedSegments
<1>1. /\ s.msg \in DOMAIN c
      /\ s.block \in DOMAIN c[s.msg].blocks
      /\ Inspected(c, s.msg, s.block)
      /\ s = SegmentAt(c, s.msg, s.block)
  BY SegmentOrigin
<1>2. <<s.msg, s.block>> \notin {<<t.msg, t.block>> : t \in ngs}
  <2> SUFFICES ASSUME NEW t \in ngs, t.msg = s.msg, t.block = s.block
               PROVE  FALSE
    OBVIOUS
  <2>1. t = SegmentAt(c, t.msg, t.block)
    BY SegmentOrigin
  <2> QED
    BY <1>1, <2>1
<1>3. ASSUME NEW id
      PROVE  <<s.msg, s.block>> \notin ToolUse(c, id)
  <2>1. c[s.msg].blocks[s.block].type # "tool_use"
    BY <1>1 DEF Inspected, SegmentTypes
  <2> QED
    BY <2>1 DEF ToolUse, BlocksOfType
<1>4. s.block \in KeptBlocks(c, ngs, s.msg)
  BY <1>1, <1>2, <1>3 DEF KeptBlocks, DroppedBlocks
<1>5. s.msg \in DOMAIN d
  BY <1>1, <1>4 DEF Sanitized, Emptied, NoticesDropped, Inspected
<1>6. d[s.msg] = SetBlocks(c[s.msg], [b \in KeptBlocks(c, ngs, s.msg) |-> c[s.msg].blocks[b]])
  BY <1>5 DEF Sanitized
<1>7. /\ s.block \in DOMAIN d[s.msg].blocks
      /\ d[s.msg].blocks[s.block] = c[s.msg].blocks[s.block]
      /\ d[s.msg].role = c[s.msg].role
  BY <1>4, <1>6 DEF SetBlocks
<1>8. Inspected(d, s.msg, s.block) /\ s = SegmentAt(d, s.msg, s.block)
  BY <1>1, <1>7 DEF Inspected, SegmentAt
<1> HIDE DEF d
<1> QED
  BY <1>5, <1>7, <1>8, SegmentOrigin DEF d

-----------------------------------------------------------------------------
(* The first message *)

(* A set of indices has a least one. *)
LEMMA LeastIndex ==
  ASSUME NEW T \in SUBSET Nat, T # {}
  PROVE  \E i \in T : \A k \in T : i <= k
<1> DEFINE R == OpToRel(<, Nat)
<1>1. IsWellFoundedOn(R, Nat)
  BY NatLessThanWellFounded
<1>2. \A x, y \in Nat : x < y => <<x, y>> \in R
  BY DEF OpToRel
<1> HIDE DEF R
<1>3. PICK x \in T : \A y \in T : ~(<<y, x>> \in R)
  BY <1>1, WFMin
<1>4. ASSUME NEW y \in T
      PROVE  x <= y
  <2>1. x \in Nat /\ y \in Nat
    BY <1>3, <1>4
  <2>2. ~(y < x)
    BY <1>2, <1>3, <2>1
  <2> QED
    BY <2>1, <2>2
<1> QED
  BY <1>3, <1>4

LEMMA FirstIndexIsLeast ==
  ASSUME NEW c, DOMAIN c \subseteq Nat, DOMAIN c # {}
  PROVE  FirstIndex(c) \in DOMAIN c /\ \A k \in DOMAIN c : FirstIndex(c) <= k
<1>1. \E i \in DOMAIN c : \A k \in DOMAIN c : i <= k
  BY LeastIndex
<1> QED
  BY <1>1 DEF FirstIndex

LEMMA FirstIndexIs ==
  ASSUME NEW c, DOMAIN c \subseteq Nat, NEW f \in DOMAIN c, \A k \in DOMAIN c : f <= k
  PROVE  FirstIndex(c) = f
<1>1. FirstIndex(c) \in DOMAIN c /\ FirstIndex(c) <= f
  BY FirstIndexIsLeast
<1>2. f <= FirstIndex(c) /\ f \in Nat /\ FirstIndex(c) \in Nat
  BY <1>1
<1> QED
  BY <1>1, <1>2

LEMMA LastIndexIs ==
  ASSUME NEW c, DOMAIN c \subseteq Nat, NEW l \in DOMAIN c, \A k \in DOMAIN c : k <= l
  PROVE  LastIndex(c) = l
<1> DEFINE top == CHOOSE i \in DOMAIN c : \A k \in DOMAIN c : k <= i
<1>1. top \in DOMAIN c /\ \A k \in DOMAIN c : k <= top
  OBVIOUS
<1>2. LastIndex(c) = top
  BY DEF LastIndex
<1> HIDE DEF top
<1>3. top <= l /\ l <= top /\ l \in Nat /\ top \in Nat
  BY <1>1
<1> QED
  BY <1>2, <1>3

-----------------------------------------------------------------------------
(* Tool calls and their results *)

Tools(c) == BlocksOfType(c, {"tool_use", "tool_result"})

TypeOf(c, p) == c[p[1]].blocks[p[2]].type

(* The block before p that has its id and is the last one. *)
IsLastBefore(c, q, p) ==
  /\ q \in Tools(c) /\ ToolOf(c, q) = ToolOf(c, p) /\ Precedes(q, p)
  /\ \A r \in Tools(c) \ {q} :
       ToolOf(c, r) = ToolOf(c, p) /\ Precedes(r, p) => Precedes(r, q)

ResultAnswers(c, p) == \E q \in Tools(c) : IsLastBefore(c, q, p) /\ TypeOf(c, q) = "tool_use"

UseIsAnswered(c, p) ==
  \E q \in Tools(c) :
    ToolOf(c, q) = ToolOf(c, p) /\ Precedes(p, q) /\ TypeOf(c, q) = "tool_result"

LEMMA PairedMeans ==
  ASSUME NEW c
  PROVE  ToolsPaired(c) <=>
           \A p \in Tools(c) :
             /\ TypeOf(c, p) = "tool_result" => ResultAnswers(c, p)
             /\ TypeOf(c, p) = "tool_use" => UseIsAnswered(c, p)
<1> DEFINE Before(p) == {q \in Tools(c) : ToolOf(c, q) = ToolOf(c, p) /\ Precedes(q, p)}
           LastOf(S) == {p \in S : \A q \in S \ {p} : Precedes(q, p)}
<1>1. ASSUME NEW p
      PROVE  ResultAnswers(c, p) <=> \E q \in LastOf(Before(p)) : TypeOf(c, q) = "tool_use"
  BY DEF ResultAnswers, IsLastBefore
<1> QED
  BY <1>1 DEF ToolsPaired, UseIsAnswered, Tools, TypeOf

LEMMA BlockPositions ==
  ASSUME NEW c, NEW types, NEW p
  PROVE  p \in BlocksOfType(c, types) <=>
           /\ p = <<p[1], p[2]>>
           /\ p[1] \in DOMAIN c
           /\ p[2] \in DOMAIN c[p[1]].blocks
           /\ TypeOf(c, p) \in types
  BY DEF BlocksOfType, TypeOf

(* Positions are totally ordered. *)
LEMMA PositionsOrdered ==
  ASSUME NEW c, IsConversation(c), NEW p \in Tools(c)
  PROVE  p = <<p[1], p[2]>> /\ p[1] \in Int /\ p[2] \in Int
<1>1. p = <<p[1], p[2]>> /\ p[1] \in DOMAIN c /\ p[2] \in DOMAIN c[p[1]].blocks
  BY BlockPositions DEF Tools
<1>2. p[1] \in Nat /\ IsMessage(c[p[1]])
  BY <1>1 DEF IsConversation
<1> QED
  BY <1>1, <1>2 DEF IsMessage, Whole

LEMMA PrecedesOrders ==
  ASSUME NEW c, IsConversation(c), NEW p \in Tools(c), NEW q \in Tools(c)
  PROVE  /\ ~(Precedes(p, q) /\ Precedes(q, p))
         /\ ~Precedes(p, p)
         /\ p # q => Precedes(p, q) \/ Precedes(q, p)
         /\ \A r \in Tools(c) : Precedes(p, q) /\ Precedes(q, r) => Precedes(p, r)
<1>1. \A r \in Tools(c) : r = <<r[1], r[2]>> /\ r[1] \in Int /\ r[2] \in Int
  BY PositionsOrdered
<1> QED
  BY <1>1 DEF Precedes

UniqueCalls(c) ==
  \A p, q \in BlocksOfType(c, {"tool_use"}) : ToolOf(c, p) = ToolOf(c, q) => p = q

QuietNotices(c) ==
  \A i \in DOMAIN c : HasBlockNotice(c[i]) /\ c[i].role = "assistant" =>
    \A b \in DOMAIN c[i].blocks : c[i].blocks[b].type = "text"

(* Two results that follow the same call would follow each other. *)
LEMMA OneResultPerCall ==
  ASSUME NEW c, IsConversation(c), NEW p \in Tools(c), NEW r \in Tools(c), NEW q,
         IsLastBefore(c, q, p), IsLastBefore(c, q, r),
         TypeOf(c, q) = "tool_use", TypeOf(c, p) = "tool_result", TypeOf(c, r) = "tool_result"
  PROVE  p = r
<1> SUFFICES ASSUME p # r
             PROVE  FALSE
  OBVIOUS
<1>1. q \in Tools(c) /\ p # q /\ r # q
  BY DEF IsLastBefore
<1>2. ToolOf(c, p) = ToolOf(c, r) /\ Precedes(q, p) /\ Precedes(q, r)
  BY DEF IsLastBefore
<1>3. CASE Precedes(p, r)
  <2>1. Precedes(p, q)
    BY <1>1, <1>2, <1>3 DEF IsLastBefore
  <2> QED
    BY <1>1, <1>2, <2>1, PrecedesOrders
<1>4. CASE Precedes(r, p)
  <2>1. Precedes(r, q)
    BY <1>1, <1>2, <1>4 DEF IsLastBefore
  <2> QED
    BY <1>1, <1>2, <2>1, PrecedesOrders
<1> QED
  BY <1>3, <1>4, PrecedesOrders

LEMMA SanitizedTyped ==
  ASSUME NEW c, IsConversation(c), NEW ngs
  PROVE  IsConversation(Sanitized(c, ngs))
<1> DEFINE d == Sanitized(c, ngs)
<1>1. DOMAIN d \subseteq Nat
  BY DEF Sanitized, IsConversation
<1>2. ASSUME NEW i \in DOMAIN d
      PROVE  IsMessage(d[i])
  <2>1. /\ i \in DOMAIN c /\ IsMessage(c[i])
        /\ d[i] = SetBlocks(c[i], [b \in KeptBlocks(c, ngs, i) |-> c[i].blocks[b]])
    BY DEF Sanitized, IsConversation
  <2>2. /\ d[i].role = c[i].role /\ d[i].readable = c[i].readable
        /\ DOMAIN d[i].blocks = KeptBlocks(c, ngs, i)
        /\ \A b \in KeptBlocks(c, ngs, i) : d[i].blocks[b] = c[i].blocks[b]
    BY <2>1 DEF SetBlocks
  <2>3. KeptBlocks(c, ngs, i) \subseteq DOMAIN c[i].blocks
    BY DEF KeptBlocks
  <2> HIDE DEF d
  <2> QED
    BY <2>1, <2>2, <2>3 DEF IsMessage
<1> QED
  BY <1>1, <1>2 DEF IsConversation

(* What is left of a conversation. *)
LEMMA SanitizedTools ==
  ASSUME NEW c, IsConversation(c), NEW ngs, NEW p
  PROVE  /\ p \in Tools(Sanitized(c, ngs)) =>
              /\ p \in Tools(c)
              /\ TypeOf(Sanitized(c, ngs), p) = TypeOf(c, p)
              /\ ToolOf(Sanitized(c, ngs), p) = ToolOf(c, p)
         /\ p \in Tools(Sanitized(c, ngs)) <=>
              /\ p \in Tools(c) /\ p \notin DroppedBlocks(c, ngs)
              /\ p[1] \notin NoticesDropped(c, ngs)
<1> DEFINE d == Sanitized(c, ngs)
           kept(i) == KeptBlocks(c, ngs, i)
<1>1. ASSUME NEW i \in DOMAIN d
      PROVE  /\ i \in DOMAIN c /\ DOMAIN d[i].blocks = kept(i)
             /\ \A b \in kept(i) : d[i].blocks[b] = c[i].blocks[b]
             /\ kept(i) \subseteq DOMAIN c[i].blocks
             /\ \A b \in kept(i) : <<i, b>> \notin DroppedBlocks(c, ngs)
             /\ i \notin NoticesDropped(c, ngs)
  BY DEF Sanitized, SetBlocks, KeptBlocks
<1>2. ASSUME p \in Tools(d)
      PROVE  /\ p \in Tools(c) /\ TypeOf(d, p) = TypeOf(c, p) /\ ToolOf(d, p) = ToolOf(c, p)
             /\ p \notin DroppedBlocks(c, ngs)
             /\ p[1] \notin NoticesDropped(c, ngs)
  <2>1. /\ p = <<p[1], p[2]>> /\ p[1] \in DOMAIN d /\ p[2] \in DOMAIN d[p[1]].blocks
        /\ TypeOf(d, p) \in {"tool_use", "tool_result"}
    BY <1>2, BlockPositions DEF Tools
  <2>2. p[1] \in DOMAIN c /\ p[2] \in kept(p[1]) /\ d[p[1]].blocks[p[2]] = c[p[1]].blocks[p[2]]
    BY <1>1, <2>1
  <2>3. TypeOf(d, p) = TypeOf(c, p) /\ ToolOf(d, p) = ToolOf(c, p)
    BY <2>2 DEF TypeOf, ToolOf
  <2>4. p[2] \in DOMAIN c[p[1]].blocks
    BY <1>1, <2>1, <2>2
  <2>5. p \in Tools(c)
    BY <2>1, <2>2, <2>3, <2>4, BlockPositions DEF Tools
  <2>6. p \notin DroppedBlocks(c, ngs) /\ p[1] \notin NoticesDropped(c, ngs)
    BY <1>1, <2>1, <2>2
  <2> QED
    BY <2>3, <2>5, <2>6
<1>3. ASSUME p \in Tools(c), p \notin DroppedBlocks(c, ngs), p[1] \notin NoticesDropped(c, ngs)
      PROVE  p \in Tools(d)
  <2>1. /\ p = <<p[1], p[2]>> /\ p[1] \in DOMAIN c /\ p[2] \in DOMAIN c[p[1]].blocks
        /\ TypeOf(c, p) \in {"tool_use", "tool_result"}
    BY <1>3, BlockPositions DEF Tools
  <2>2. p[2] \in kept(p[1])
    BY <1>3, <2>1 DEF KeptBlocks
  <2>3. p[1] \in DOMAIN d
    BY <1>3, <2>1, <2>2 DEF Sanitized, Emptied
  <2>4. p[2] \in DOMAIN d[p[1]].blocks /\ TypeOf(d, p) = TypeOf(c, p)
    BY <1>1, <2>2, <2>3 DEF TypeOf
  <2> QED
    BY <2>1, <2>3, <2>4, BlockPositions DEF Tools
<1> HIDE DEF d
<1> QED
  BY <1>2, <1>3 DEF d

(* What makes a block go.  A call goes with its result. *)
LEMMA DroppedTools ==
  ASSUME NEW c, IsConversation(c), NEW ngs \in SUBSET Segments(c), NEW p \in Tools(c)
  PROVE  /\ TypeOf(c, p) = "tool_result" /\ p \in DroppedBlocks(c, ngs) =>
              \E s \in ngs : p = <<s.msg, s.block>>
         /\ TypeOf(c, p) = "tool_use" /\ p \in DroppedBlocks(c, ngs) =>
              \E r \in Tools(c) : /\ TypeOf(c, r) = "tool_result" /\ ToolOf(c, r) = ToolOf(c, p)
                                 /\ r \in DroppedBlocks(c, ngs)
<1>1. ASSUME NEW s \in ngs
      PROVE  /\ s.type = TypeOf(c, <<s.msg, s.block>>) /\ s.type \in SegmentTypes
             /\ s.tool = ToolOf(c, <<s.msg, s.block>>)
             /\ s.type = "tool_result" => <<s.msg, s.block>> \in Tools(c)
             /\ <<s.msg, s.block>> \in DroppedBlocks(c, ngs)
  <2>1. /\ s.msg \in DOMAIN c /\ s.block \in DOMAIN c[s.msg].blocks
        /\ Inspected(c, s.msg, s.block) /\ s = SegmentAt(c, s.msg, s.block)
    BY SegmentOrigin
  <2>2. s.type = TypeOf(c, <<s.msg, s.block>>) /\ s.tool = ToolOf(c, <<s.msg, s.block>>)
    BY <2>1 DEF SegmentAt, TypeOf, ToolOf
  <2>3. s.type \in SegmentTypes
    BY <2>1, <2>2 DEF Inspected, TypeOf
  <2>4. s.type = "tool_result" => <<s.msg, s.block>> \in Tools(c)
    <3> DEFINE at == <<s.msg, s.block>>
    <3>1. at[1] = s.msg /\ at[2] = s.block
      OBVIOUS
    <3> QED
      BY <2>1, <2>2, <3>1, BlockPositions DEF Tools
  <2>5. <<s.msg, s.block>> \in DroppedBlocks(c, ngs)
    BY DEF DroppedBlocks
  <2> QED
    BY <2>2, <2>3, <2>4, <2>5
<1>2. ASSUME NEW id, p \in ToolUse(c, id)
      PROVE  TypeOf(c, p) = "tool_use" /\ ToolOf(c, p) = id
  BY <1>2, BlockPositions DEF ToolUse
<1>3. p \in DroppedBlocks(c, ngs) =>
        \/ \E s \in ngs : p = <<s.msg, s.block>>
        \/ \E s \in ngs : s.type = "tool_result" /\ p \in ToolUse(c, s.tool)
  BY DEF DroppedBlocks
<1>4. ASSUME TypeOf(c, p) = "tool_use", NEW s \in ngs
      PROVE  p # <<s.msg, s.block>>
  BY <1>1, <1>4 DEF SegmentTypes
<1>5. ASSUME TypeOf(c, p) = "tool_use", p \in DroppedBlocks(c, ngs)
      PROVE  \E r \in Tools(c) : /\ TypeOf(c, r) = "tool_result" /\ ToolOf(c, r) = ToolOf(c, p)
                                /\ r \in DroppedBlocks(c, ngs)
  <2>1. PICK s \in ngs : s.type = "tool_result" /\ p \in ToolUse(c, s.tool)
    BY <1>3, <1>4, <1>5
  <2>2. ToolOf(c, p) = s.tool
    BY <1>2, <2>1
  <2>3. <<s.msg, s.block>> \in Tools(c)
    BY <1>1, <2>1
  <2> QED
    BY <1>1, <2>1, <2>2, <2>3
<1>6. ASSUME TypeOf(c, p) = "tool_result", p \in DroppedBlocks(c, ngs)
      PROVE  \E s \in ngs : p = <<s.msg, s.block>>
  BY <1>2, <1>3, <1>6
<1> QED
  BY <1>5, <1>6

(* A result that goes takes its call along. *)
LEMMA ResultTakesCall ==
  ASSUME NEW c, IsConversation(c), UniqueCalls(c), NEW ngs \in SUBSET Segments(c),
         NEW r \in Tools(c), TypeOf(c, r) = "tool_result", r \in DroppedBlocks(c, ngs),
         NEW p \in Tools(c), TypeOf(c, p) = "tool_use", ToolOf(c, p) = ToolOf(c, r)
  PROVE  p \in DroppedBlocks(c, ngs)
<1>1. PICK s \in ngs : r = <<s.msg, s.block>>
  BY DroppedTools
<1>2. s = SegmentAt(c, s.msg, s.block)
  BY SegmentOrigin
<1>3. s.type = "tool_result" /\ s.tool = ToolOf(c, p)
  BY <1>1, <1>2 DEF SegmentAt, TypeOf, ToolOf
<1>4. p \in BlocksOfType(c, {"tool_use"})
  BY BlockPositions DEF Tools
<1>5. p \in ToolUse(c, s.tool)
  BY <1>3, <1>4 DEF ToolUse, UniqueCalls
<1> QED
  BY <1>3, <1>5 DEF DroppedBlocks

(* Calls and results are removed as pairs: of a conversation whose calls   *)
(* are all answered and called by ids of their own, so is what is left.    *)
LEMMA PairsGoTogether ==
  ASSUME NEW c, IsConversation(c), ToolsPaired(c), UniqueCalls(c), QuietNotices(c),
         NEW ngs \in SUBSET Segments(c)
  PROVE  ToolsPaired(Sanitized(c, ngs))
<1> DEFINE d == Sanitized(c, ngs)
<1>a. ASSUME NEW p \in Tools(d)
      PROVE  /\ p \in Tools(c) /\ TypeOf(d, p) = TypeOf(c, p) /\ ToolOf(d, p) = ToolOf(c, p)
             /\ p \notin DroppedBlocks(c, ngs)
  BY SanitizedTools
<1>b. ASSUME NEW p \in Tools(c), p \notin DroppedBlocks(c, ngs)
      PROVE  p \in Tools(d)
  <2>1. p[1] \in DOMAIN c /\ p[2] \in DOMAIN c[p[1]].blocks /\ TypeOf(c, p) # "text"
    BY BlockPositions DEF Tools
  <2>2. p[1] \notin NoticesDropped(c, ngs)
    BY <2>1 DEF NoticesDropped, QuietNotices, TypeOf
  <2> QED
    BY <1>b, <2>2, SanitizedTools
<1> HIDE DEF d
<1>1. ASSUME NEW p \in Tools(d), TypeOf(d, p) = "tool_result"
      PROVE  ResultAnswers(d, p)
  <2>1. /\ p \in Tools(c) /\ TypeOf(c, p) = "tool_result" /\ ToolOf(d, p) = ToolOf(c, p)
        /\ p \notin DroppedBlocks(c, ngs)
    BY <1>a, <1>1
  <2>2. PICK q : IsLastBefore(c, q, p) /\ TypeOf(c, q) = "tool_use"
    BY <2>1, PairedMeans DEF ResultAnswers
  <2>3. q \in Tools(c) /\ ToolOf(c, q) = ToolOf(c, p) /\ Precedes(q, p)
    BY <2>2 DEF IsLastBefore
  <2>4. q \notin DroppedBlocks(c, ngs)
    <3> SUFFICES ASSUME q \in DroppedBlocks(c, ngs)
                 PROVE  FALSE
      OBVIOUS
    <3>1. PICK r \in Tools(c) : /\ TypeOf(c, r) = "tool_result" /\ ToolOf(c, r) = ToolOf(c, q)
                               /\ r \in DroppedBlocks(c, ngs)
      BY <2>2, <2>3, DroppedTools
    <3>2. PICK u : IsLastBefore(c, u, r) /\ TypeOf(c, u) = "tool_use"
      BY <3>1, PairedMeans DEF ResultAnswers
    <3>3. u \in Tools(c) /\ ToolOf(c, u) = ToolOf(c, q)
      BY <3>1, <3>2 DEF IsLastBefore
    <3>4. u \in BlocksOfType(c, {"tool_use"}) /\ q \in BlocksOfType(c, {"tool_use"})
      BY <2>2, <2>3, <3>2, <3>3, BlockPositions DEF Tools
    <3>5. u = q
      BY <3>3, <3>4 DEF UniqueCalls
    <3> QED
      BY <2>1, <2>2, <3>1, <3>2, <3>5, OneResultPerCall
  <2>5. q \in Tools(d) /\ TypeOf(d, q) = "tool_use" /\ ToolOf(d, q) = ToolOf(d, p)
    BY <1>a, <1>b, <2>1, <2>2, <2>3, <2>4
  <2>6. ASSUME NEW r \in Tools(d) \ {q}, ToolOf(d, r) = ToolOf(d, p), Precedes(r, p)
        PROVE  Precedes(r, q)
    BY <1>a, <2>1, <2>2, <2>6 DEF IsLastBefore
  <2>7. IsLastBefore(d, q, p)
    BY <2>3, <2>5, <2>6 DEF IsLastBefore
  <2> QED
    BY <2>5, <2>7 DEF ResultAnswers
<1>2. ASSUME NEW p \in Tools(d), TypeOf(d, p) = "tool_use"
      PROVE  UseIsAnswered(d, p)
  <2>1. /\ p \in Tools(c) /\ TypeOf(c, p) = "tool_use" /\ ToolOf(d, p) = ToolOf(c, p)
        /\ p \notin DroppedBlocks(c, ngs)
    BY <1>a, <1>2
  <2>2. PICK q \in Tools(c) : /\ ToolOf(c, q) = ToolOf(c, p) /\ Precedes(p, q)
                             /\ TypeOf(c, q) = "tool_result"
    BY <2>1, PairedMeans DEF UseIsAnswered
  <2>3. q \notin DroppedBlocks(c, ngs)
    BY <2>1, <2>2, ResultTakesCall
  <2>4. q \in Tools(d)
    BY <1>b, <2>3
  <2>5. ToolOf(d, q) = ToolOf(d, p) /\ TypeOf(d, q) = "tool_result"
    BY <1>a, <2>1, <2>2, <2>4
  <2> QED
    BY <2>2, <2>4, <2>5 DEF UseIsAnswered
<1> QED
  BY <1>1, <1>2, PairedMeans DEF d
=============================================================================
