--------------------------- MODULE Session_proofs ---------------------------
(***************************************************************************)
(* The history sanitizer and the sessions that live with it, for every     *)
(* conversation, every set of sensitive texts and every length: first the  *)
(* loops of Sanitize against the expression of Conversation, then what a   *)
(* client sees whose history is sanitized turn after turn.                 *)
(***************************************************************************)
EXTENDS Session, Sanitizer, Conversation_proofs

USE TextsAssumption, SessionAssumption

-----------------------------------------------------------------------------
(* The loops of Sanitize *)

(* A segment that is the whole of its message. *)
Alone(s) == s.type = "text" /\ s.block = Whole

(* What the flags are once the segments S are marked. *)
MarkedMessages(S) == UNION {{s.msg} \cup NoticeAfter(s.msg) : s \in {x \in S : Alone(x)}}

MarkedBlocks(S) ==
  {<<s.msg, s.block>> : s \in {x \in S : ~Alone(x)}}
    \cup UNION {Partner(s) : s \in {x \in S : x.type = "tool_result"}}

Clean == Sanitized(msgs, ng)

InputInv ==
  /\ IsConversation(msgs)
  /\ \A i \in DOMAIN msgs : IsDecoded(msgs[i])
  /\ ng \subseteq Segments(msgs)
  /\ step \in {"load", "mark", "copy", "validate", "return"}
  /\ step \in {"mark", "copy", "validate"} => \A i \in DOMAIN msgs : msgs[i].readable
  /\ step # "return" => returned = "none"

MarkInv ==
  /\ step = "load" => dropMsg = {} /\ dropBlock = {}
  /\ step = "mark" =>
       /\ marks \subseteq ng
       /\ dropMsg = MarkedMessages(ng \ marks)
       /\ dropBlock = MarkedBlocks(ng \ marks)
  /\ step \in {"load", "mark"} => out = [i \in {} |-> i]
  /\ step \in {"load", "mark", "copy"} => open = {}

(* A message the loop has not come to is flagged if it is a sensitive      *)
(* string, or a notice behind a message that was already found empty.      *)
Flagged(i) ==
  \/ IsString(i) /\ i \in Emptied(msgs, ng)
  \/ i \in NoticesDropped(msgs, ng) /\ (IsString(i - 1) \/ i - 1 \notin left)

CopyInv ==
  step = "copy" =>
    /\ dropBlock = MarkedBlocks(ng)
    /\ left \subseteq DOMAIN msgs
    /\ \A i \in DOMAIN msgs \ left : \A k \in left : i < k
    /\ \A i \in left : i \in dropMsg <=> Flagged(i)
    /\ out = [i \in DOMAIN Clean \ left |-> Clean[i]]

(* The open ids are those whose last block visited is a call. *)
ValidateInv ==
  step = "validate" =>
    /\ out = Clean /\ StartsWithUser
    /\ left \subseteq Tools(out)
    /\ \A p \in Tools(out) \ left : \A q \in left : Precedes(p, q)
    /\ \A p \in Tools(out) \ left :
         /\ TypeOf(out, p) = "tool_result" => ResultAnswers(out, p)
         /\ TypeOf(out, p) = "tool_use" /\ ToolOf(out, p) \notin open =>
              \E q \in Tools(out) \ left :
                ToolOf(out, q) = ToolOf(out, p) /\ Precedes(p, q) /\ TypeOf(out, q) = "tool_result"
    /\ \A id \in open : \E p \in Tools(out) \ left :
         /\ TypeOf(out, p) = "tool_use" /\ ToolOf(out, p) = id
         /\ \A q \in Tools(out) \ left : ToolOf(out, q) = id /\ q # p => Precedes(q, p)

SanitizerInv == InputInv /\ MarkInv /\ CopyInv /\ ValidateInv /\ ReturnsSanitized

LEMMA SanitizerStarts == SanitizerInit => SanitizerInv
<1> SUFFICES ASSUME SanitizerInit
             PROVE  SanitizerInv
  OBVIOUS
<1>1. IsConversation(msgs) /\ \A i \in DOMAIN msgs : IsDecoded(msgs[i])
  BY InputsAssumption DEF SanitizerInit
<1>2. ng \subseteq Segments(msgs)
  BY DEF SanitizerInit, HistorySegments
<1> QED
  BY <1>1, <1>2 DEF SanitizerInit, SanitizerInv, InputInv, MarkInv, CopyInv, ValidateInv,
                    ReturnsSanitized

(* A bare string goes when it is a segment and the segment is marked. *)
LEMMA StringEmptied ==
  ASSUME InputInv, NEW i \in DOMAIN msgs, IsString(i)
  PROVE  i \in Emptied(msgs, ng) <=> \E s \in ng : s.msg = i /\ Alone(s)
<1>1. DOMAIN msgs[i].blocks = {Whole} /\ msgs[i].blocks[Whole].type = "text"
  BY DEF InputInv, IsDecoded, IsString
<1>2. ASSUME NEW s \in ng, s.msg = i
      PROVE  s.block = Whole /\ Alone(s)
  <2>1. s.block \in DOMAIN msgs[i].blocks /\ s = SegmentAt(msgs, i, s.block)
    BY <1>2, SegmentOrigin DEF InputInv
  <2> QED
    BY <1>1, <2>1 DEF SegmentAt, Alone
<1>3. ASSUME NEW id
      PROVE  <<i, Whole>> \notin ToolUse(msgs, id)
  BY <1>1 DEF ToolUse, BlocksOfType
<1>4. i \in Emptied(msgs, ng) <=> <<i, Whole>> \in DroppedBlocks(msgs, ng)
  BY <1>1 DEF Emptied, KeptBlocks
<1>5. <<i, Whole>> \in DroppedBlocks(msgs, ng) <=> \E s \in ng : <<i, Whole>> = <<s.msg, s.block>>
  BY <1>3 DEF DroppedBlocks
<1> QED
  BY <1>2, <1>4, <1>5 DEF Alone

(* Of a message in blocks the flags leave what Conversation keeps. *)
LEMMA BlocksKept ==
  ASSUME InputInv, dropBlock = MarkedBlocks(ng), NEW i \in DOMAIN msgs, ~IsString(i)
  PROVE  Kept(i) = KeptBlocks(msgs, ng, i)
<1>1. Whole \notin DOMAIN msgs[i].blocks
  BY DEF InputInv, IsDecoded, IsString
<1>2. ASSUME NEW b \in DOMAIN msgs[i].blocks
      PROVE  <<i, b>> \in MarkedBlocks(ng) <=> <<i, b>> \in DroppedBlocks(msgs, ng)
  BY <1>1 DEF MarkedBlocks, DroppedBlocks, Alone, Partner
<1> QED
  BY <1>2 DEF Kept, KeptBlocks

(* A notice is the assistant's, and of an assistant message only calls go. *)
LEMMA NoticesNotEmptied ==
  ASSUME InputInv, NEW i \in NoticesDropped(msgs, ng)
  PROVE  i \in DOMAIN msgs /\ i \notin Emptied(msgs, ng)
<1>1. i \in DOMAIN msgs /\ msgs[i].role = "assistant" /\ HasBlockNotice(msgs[i])
  BY DEF NoticesDropped
<1>2. PICK b \in DOMAIN msgs[i].blocks : msgs[i].blocks[b].type # "tool_use"
  BY <1>1 DEF HasBlockNotice
<1>3. ASSUME NEW s \in ng
      PROVE  <<i, b>> # <<s.msg, s.block>>
  BY <1>1, SegmentOrigin DEF InputInv, Inspected
<1>4. ASSUME NEW id
      PROVE  <<i, b>> \notin ToolUse(msgs, id)
  BY <1>2 DEF ToolUse, BlocksOfType
<1>5. b \in KeptBlocks(msgs, ng, i)
  BY <1>3, <1>4 DEF KeptBlocks, DroppedBlocks
<1> QED
  BY <1>1, <1>5 DEF Emptied

(* The parts of the invariant that speak of other steps hold trivially. *)
LEMMA LoadKeeps == SanitizerInv /\ Load => SanitizerInv'
<1> SUFFICES ASSUME SanitizerInv, Load
             PROVE  SanitizerInv'
  OBVIOUS
<1>1. InputInv'
  BY DEF SanitizerInv, InputInv, Load
<1>2. dropMsg' = MarkedMessages(ng \ marks)' /\ dropBlock' = MarkedBlocks(ng \ marks)'
  BY DEF SanitizerInv, MarkInv, Load, MarkedMessages, MarkedBlocks
<1>3. MarkInv'
  BY <1>2 DEF SanitizerInv, MarkInv, Load
<1> QED
  BY <1>1, <1>3 DEF SanitizerInv, CopyInv, ValidateInv, ReturnsSanitized, Load

LEMMA ReturnKeeps ==
  ASSUME SanitizerInv, step # "return", NEW r, Return(r),
         r = "ok" <=> CanSanitize(msgs, ng), r = "ok" => out = Clean
  PROVE  SanitizerInv'
<1>1. InputInv'
  BY DEF SanitizerInv, InputInv, Return
<1>2. ReturnsSanitized'
  BY DEF Return, ReturnsSanitized, Clean
<1> QED
  BY <1>1, <1>2 DEF SanitizerInv, MarkInv, CopyInv, ValidateInv, Return

LEMMA LoadFailsKeeps == SanitizerInv /\ LoadFails => SanitizerInv'
<1> SUFFICES ASSUME SanitizerInv, LoadFails
             PROVE  SanitizerInv'
  OBVIOUS
<1>1. ~CanSanitize(msgs, ng)
  BY DEF LoadFails, CanSanitize
<1>2. "error" = "ok" <=> CanSanitize(msgs, ng)
  BY <1>1
<1> QED
  BY <1>2, ReturnKeeps DEF LoadFails

LEMMA OneMoreMarked ==
  ASSUME NEW S, NEW s
  PROVE  /\ MarkedMessages(S \cup {s}) =
              MarkedMessages(S) \cup IF Alone(s) THEN {s.msg} \cup NoticeAfter(s.msg) ELSE {}
         /\ MarkedBlocks(S \cup {s}) =
              MarkedBlocks(S) \cup (IF Alone(s) THEN {} ELSE {<<s.msg, s.block>>})
                \cup (IF s.type = "tool_result" THEN Partner(s) ELSE {})
<1> DEFINE R(x) == {x.msg} \cup NoticeAfter(x.msg)
<1>1. \A T, z : z \in MarkedMessages(T) <=> \E x \in T : Alone(x) /\ z \in R(x)
  BY DEF MarkedMessages
<1> HIDE DEF R
<1>2. ASSUME NEW z
      PROVE  z \in MarkedMessages(S \cup {s}) <=>
               z \in MarkedMessages(S) \/ (Alone(s) /\ z \in R(s))
  BY <1>1
<1>3. MarkedMessages(S \cup {s}) = MarkedMessages(S) \cup IF Alone(s) THEN R(s) ELSE {}
  BY <1>2
<1>4. MarkedBlocks(S \cup {s}) =
        MarkedBlocks(S) \cup (IF Alone(s) THEN {} ELSE {<<s.msg, s.block>>})
          \cup (IF s.type = "tool_result" THEN Partner(s) ELSE {})
  BY DEF MarkedBlocks
<1> QED
  BY <1>3, <1>4 DEF R

LEMMA MarkKeeps ==
  ASSUME SanitizerInv, NEW s \in marks, MarkToolResult(s) \/ MarkMessage(s) \/ MarkText(s)
  PROVE  SanitizerInv'
<1>a. step = "mark" /\ UNCHANGED <<msgs, ng, step, left, out, open, returned>>
      /\ marks' = marks \ {s}
  BY DEF MarkToolResult, MarkMessage, MarkText
<1>b. marks \subseteq ng /\ s \in ng /\ ng \ marks' = (ng \ marks) \cup {s}
  BY <1>a DEF SanitizerInv, MarkInv
<1>1. InputInv'
  BY <1>a DEF SanitizerInv, InputInv
<1>2. dropMsg' = MarkedMessages(ng \ marks)'
  <2>1. dropMsg = MarkedMessages(ng \ marks)
    BY <1>a DEF SanitizerInv, MarkInv
  <2>2. MarkedMessages(ng \ marks)' = MarkedMessages((ng \ marks) \cup {s})
    BY <1>a, <1>b DEF MarkedMessages, NoticeAfter
  <2>3. dropMsg' = dropMsg \cup IF Alone(s) THEN {s.msg} \cup NoticeAfter(s.msg) ELSE {}
    BY DEF MarkToolResult, MarkMessage, MarkText, Alone
  <2> QED
    BY <2>1, <2>2, <2>3, OneMoreMarked
<1>3. dropBlock' = MarkedBlocks(ng \ marks)'
  <2>1. dropBlock = MarkedBlocks(ng \ marks)
    BY <1>a DEF SanitizerInv, MarkInv
  <2>2. MarkedBlocks(ng \ marks)' = MarkedBlocks((ng \ marks) \cup {s})
    BY <1>a, <1>b DEF MarkedBlocks, Partner
  <2>3. dropBlock' = dropBlock \cup (IF Alone(s) THEN {} ELSE {<<s.msg, s.block>>})
                       \cup (IF s.type = "tool_result" THEN Partner(s) ELSE {})
    BY DEF MarkToolResult, MarkMessage, MarkText, Alone
  <2> QED
    BY <2>1, <2>2, <2>3, OneMoreMarked
<1>4. MarkInv'
  BY <1>a, <1>b, <1>2, <1>3 DEF SanitizerInv, MarkInv
<1> QED
  BY <1>a, <1>1, <1>4 DEF SanitizerInv, CopyInv, ValidateInv, ReturnsSanitized

LEMMA MarkingDoneKeeps == SanitizerInv /\ MarkingDone => SanitizerInv'
<1> SUFFICES ASSUME SanitizerInv, MarkingDone
             PROVE  SanitizerInv'
  OBVIOUS
<1>a. /\ step = "mark" /\ step' = "copy" /\ marks = {} /\ left' = DOMAIN msgs
      /\ UNCHANGED <<msgs, ng, marks, dropMsg, dropBlock, out, open, returned>>
  BY DEF MarkingDone
<1>b. InputInv /\ IsConversation(msgs)
  BY DEF SanitizerInv, InputInv
<1>c. ng \ marks = ng
  BY <1>a
<1>1. InputInv'
  BY <1>a DEF SanitizerInv, InputInv
<1>2. MarkInv'
  BY <1>a DEF SanitizerInv, MarkInv
<1>3. dropMsg = MarkedMessages(ng) /\ dropBlock = MarkedBlocks(ng)
  BY <1>a, <1>c DEF SanitizerInv, MarkInv
<1>4. ASSUME NEW i \in DOMAIN msgs
      PROVE  i \in dropMsg <=> Flagged(i)'
  <2>1. ASSUME NEW s \in ng
        PROVE  /\ s.msg \in DOMAIN msgs /\ s.msg \in Nat
               /\ Alone(s) => IsString(s.msg) /\ s.msg \in Emptied(msgs, ng)
    <3>1. s.msg \in DOMAIN msgs /\ s.block \in DOMAIN msgs[s.msg].blocks
      BY SegmentOrigin DEF SanitizerInv, InputInv
    <3>2. s.msg \in Nat
      BY <3>1, <1>b DEF IsConversation
    <3>3. Alone(s) => IsString(s.msg)
      BY <3>1 DEF SanitizerInv, InputInv, IsDecoded, IsString, Alone
    <3> QED
      BY <1>b, <3>1, <3>2, <3>3, StringEmptied
  <2>2. i \in Nat
    BY <1>b DEF IsConversation
  <2>3. i \in dropMsg <=> \/ \E s \in ng : Alone(s) /\ i = s.msg
                          \/ \E s \in ng : Alone(s) /\ i \in NoticeAfter(s.msg)
    BY <1>3 DEF MarkedMessages
  <2>4. (\E s \in ng : Alone(s) /\ i = s.msg) <=> IsString(i) /\ i \in Emptied(msgs, ng)
    BY <1>b, <2>1, StringEmptied
  <2>5. ASSUME NEW s \in ng, Alone(s), i \in NoticeAfter(s.msg)
        PROVE  i \in NoticesDropped(msgs, ng) /\ IsString(i - 1)
    <3>1. i = s.msg + 1 /\ msgs[i].role = "assistant" /\ HasBlockNotice(msgs[i])
      BY <2>5 DEF NoticeAfter
    <3>2. i - 1 = s.msg
      BY <2>1, <3>1
    <3> QED
      BY <2>1, <2>5, <3>1, <3>2 DEF NoticesDropped
  <2>6. ASSUME i \in NoticesDropped(msgs, ng), IsString(i - 1)
        PROVE  \E s \in ng : Alone(s) /\ i \in NoticeAfter(s.msg)
    <3>1. /\ i - 1 \in Emptied(msgs, ng) /\ i - 1 \in DOMAIN msgs
          /\ msgs[i].role = "assistant" /\ HasBlockNotice(msgs[i])
      BY <2>6 DEF NoticesDropped, Emptied
    <3>2. PICK s \in ng : s.msg = i - 1 /\ Alone(s)
      BY <1>b, <2>6, <3>1, StringEmptied
    <3>3. i = s.msg + 1
      BY <2>2, <3>2
    <3> QED
      BY <3>1, <3>2, <3>3 DEF NoticeAfter
  <2>7. i \in NoticesDropped(msgs, ng) => i - 1 \in DOMAIN msgs
    BY DEF NoticesDropped, Emptied
  <2>8. Flagged(i)' <=> \/ IsString(i) /\ i \in Emptied(msgs, ng)
                        \/ i \in NoticesDropped(msgs, ng) /\ (IsString(i - 1) \/ i - 1 \notin DOMAIN msgs)
    BY <1>a DEF Flagged, IsString
  <2> QED
    BY <2>3, <2>4, <2>5, <2>6, <2>7, <2>8
<1>5. out' = [i \in DOMAIN Clean' \ left' |-> Clean'[i]]
  <2>1. out' = [i \in {} |-> i]
    BY <1>a DEF SanitizerInv, MarkInv
  <2>2. DOMAIN Clean' \ left' = {}
    BY <1>a DEF Clean, Sanitized
  <2> QED
    BY <2>1, <2>2
<1>6. MarkedBlocks(ng)' = MarkedBlocks(ng)
  BY <1>a DEF MarkedBlocks, Partner
<1>7. CopyInv'
  BY <1>a, <1>3, <1>4, <1>5, <1>6 DEF CopyInv
<1> QED
  BY <1>a, <1>1, <1>2, <1>7 DEF SanitizerInv, ValidateInv, ReturnsSanitized

(* What a flag means once the message before is visited. *)
Goes(i) == \/ IsString(i) /\ i \in Emptied(msgs, ng)
           \/ i \in NoticesDropped(msgs, ng)

(* The flag of the message behind i says all once i is visited. *)
SaysAll(i, flags) == i + 1 \in left => (i + 1 \in flags <=> Goes(i + 1))

(* What the visit of message i leaves of the invariant to show. *)
LEMMA VisitKeeps ==
  ASSUME SanitizerInv, NEW i, Visit(i),
         DOMAIN out' = IF i \in DOMAIN Clean THEN DOMAIN out \cup {i} ELSE DOMAIN out,
         out' = [k \in DOMAIN out' |-> Clean[k]],
         \A k \in left \ {i} : k # i + 1 => (k \in dropMsg' <=> k \in dropMsg),
         SaysAll(i, dropMsg')
  PROVE  SanitizerInv'
<1>a. /\ step = "copy" /\ i \in left /\ left' = left \ {i} /\ \A k \in left : i <= k
      /\ UNCHANGED <<msgs, ng, step, marks, dropBlock, open, returned>>
  BY DEF Visit
<1>b. CopyInv
  BY DEF SanitizerInv
<1>c. left \subseteq DOMAIN msgs /\ DOMAIN msgs \subseteq Nat
  BY <1>a, <1>b DEF CopyInv, SanitizerInv, InputInv, IsConversation
<1>1. InputInv' /\ MarkInv'
  BY <1>a DEF SanitizerInv, InputInv, MarkInv
<1>2. dropBlock' = MarkedBlocks(ng)' /\ left' \subseteq DOMAIN msgs'
  BY <1>a, <1>b, <1>c DEF CopyInv, MarkedBlocks, Partner
<1>3. ASSUME NEW j \in DOMAIN msgs \ left', NEW k \in left'
      PROVE  j < k
  <2>1. j \in Nat /\ k \in Nat /\ i \in Nat
    BY <1>a, <1>c
  <2>2. j = i \/ j \in DOMAIN msgs \ left
    BY <1>a
  <2>3. i < k
    BY <1>a, <2>1
  <2> QED
    BY <1>a, <1>b, <2>2, <2>3 DEF CopyInv
<1>4. ASSUME NEW k \in left'
      PROVE  k \in dropMsg' <=> Flagged(k)'
  <2>1. k \in left /\ k # i /\ k \in Nat /\ i \in Nat
    BY <1>a, <1>c
  <2>2. k - 1 \notin left' <=> k - 1 \notin left \/ k = i + 1
    BY <1>a, <2>1
  <2>3. Flagged(k)' <=> \/ IsString(k) /\ k \in Emptied(msgs, ng)
                        \/ k \in NoticesDropped(msgs, ng) /\ (IsString(k - 1) \/ k - 1 \notin left')
    BY <1>a DEF Flagged, IsString
  <2>4. CASE k = i + 1
    BY <2>1, <2>2, <2>3, <2>4 DEF SaysAll, Goes
  <2>5. CASE k # i + 1
    <3>1. k \in dropMsg <=> Flagged(k)
      BY <1>a, <1>b, <2>1 DEF CopyInv
    <3> QED
      BY <2>1, <2>2, <2>3, <2>5, <3>1 DEF Flagged
  <2> QED
    BY <2>4, <2>5
<1>5. out' = [k \in DOMAIN Clean' \ left' |-> Clean'[k]]
  <2>1. Clean' = Clean
    BY <1>a DEF Clean
  <2>2. DOMAIN out = DOMAIN Clean \ left
    BY <1>a, <1>b DEF CopyInv
  <2>3. DOMAIN out' = DOMAIN Clean \ left'
    BY <1>a, <2>2
  <2> QED
    BY <2>1, <2>3
<1>6. CopyInv'
  BY <1>a, <1>2, <1>3, <1>4, <1>5 DEF CopyInv
<1> QED
  BY <1>a, <1>1, <1>6 DEF SanitizerInv, ValidateInv, ReturnsSanitized

LEMMA VisitedFlag ==
  ASSUME SanitizerInv, NEW i, Visit(i)
  PROVE  /\ i \in DOMAIN msgs /\ i \in Nat
         /\ i \in dropMsg <=> Goes(i)
         /\ out = [k \in DOMAIN out |-> Clean[k]]
         /\ DOMAIN Clean = DOMAIN msgs \ (Emptied(msgs, ng) \cup NoticesDropped(msgs, ng))
         /\ i + 1 \in left =>
              (i + 1 \in dropMsg <=> \/ IsString(i + 1) /\ i + 1 \in Emptied(msgs, ng)
                                     \/ i + 1 \in NoticesDropped(msgs, ng) /\ IsString(i))
<1>1. step = "copy" /\ i \in left /\ (\A k \in left : i <= k) /\ CopyInv
  BY DEF Visit, SanitizerInv
<1>2. i \in DOMAIN msgs /\ i \in Nat
  BY <1>1 DEF CopyInv, SanitizerInv, InputInv, IsConversation
<1>3. left \subseteq Nat
  BY <1>1 DEF CopyInv, SanitizerInv, InputInv, IsConversation
<1>4. i - 1 \notin left
  BY <1>1, <1>2, <1>3
<1>5. i \in dropMsg <=> Flagged(i)
  BY <1>1 DEF CopyInv
<1>6. out = [k \in DOMAIN Clean \ left |-> Clean[k]]
  BY <1>1 DEF CopyInv
<1>7. i + 1 \in left => (i + 1 \in dropMsg <=> Flagged(i + 1))
  BY <1>1 DEF CopyInv
<1>8. (i + 1) - 1 = i /\ i \notin left \ {i}
  BY <1>2
<1>9. i \in dropMsg <=> Goes(i)
  BY <1>4, <1>5 DEF Flagged, Goes
<1>10. i + 1 \in left =>
         (i + 1 \in dropMsg <=> \/ IsString(i + 1) /\ i + 1 \in Emptied(msgs, ng)
                                \/ i + 1 \in NoticesDropped(msgs, ng) /\ IsString(i))
  <2>1. SUFFICES ASSUME i + 1 \in left
                 PROVE  i + 1 \in dropMsg <=>
                          \/ IsString(i + 1) /\ i + 1 \in Emptied(msgs, ng)
                          \/ i + 1 \in NoticesDropped(msgs, ng) /\ IsString(i)
    OBVIOUS
  <2>2. IsString((i + 1) - 1) <=> IsString(i)
    BY <1>8
  <2>3. (i + 1) - 1 \in left => IsString((i + 1) - 1) \/ (i + 1) - 1 = i
    BY <1>8
  <2> QED
    BY <1>1, <1>7, <1>8, <2>1, <2>2 DEF Flagged
<1>11. DOMAIN Clean = DOMAIN msgs \ (Emptied(msgs, ng) \cup NoticesDropped(msgs, ng))
  BY DEF Clean, Sanitized
<1>12. out = [k \in DOMAIN out |-> Clean[k]]
  BY <1>6
<1> QED
  BY <1>2, <1>9, <1>10, <1>11, <1>12

LEMMA SkipKeeps ==
  ASSUME SanitizerInv, NEW i, SkipMessage(i)
  PROVE  SanitizerInv'
<1>a. Visit(i) /\ i \in dropMsg /\ dropMsg' = dropMsg /\ out' = out
  BY DEF SkipMessage
<1>b. Goes(i) /\ i \notin DOMAIN Clean
  BY <1>a, VisitedFlag DEF Goes
<1>1. i \in Emptied(msgs, ng) => IsString(i)
  BY <1>b, NoticesNotEmptied DEF SanitizerInv, Goes
<1>2. ASSUME i + 1 \in NoticesDropped(msgs, ng)
      PROVE  IsString(i)
  <2>1. (i + 1) - 1 = i
    BY <1>a, VisitedFlag
  <2> QED
    BY <1>1, <1>2, <2>1 DEF NoticesDropped
<1>3. SaysAll(i, dropMsg')
  <2> SUFFICES ASSUME i + 1 \in left
               PROVE  i + 1 \in dropMsg' <=> Goes(i + 1)
    BY DEF SaysAll
  <2>1. i + 1 \in dropMsg <=> \/ IsString(i + 1) /\ i + 1 \in Emptied(msgs, ng)
                              \/ i + 1 \in NoticesDropped(msgs, ng) /\ IsString(i)
    BY <1>a, VisitedFlag
  <2> QED
    BY <1>a, <1>2, <2>1 DEF Goes
<1>4. out' = [k \in DOMAIN out' |-> Clean[k]]
  BY <1>a, VisitedFlag
<1>5. DOMAIN out' = IF i \in DOMAIN Clean THEN DOMAIN out \cup {i} ELSE DOMAIN out
  BY <1>a, <1>b
<1>6. \A k \in left \ {i} : k # i + 1 => (k \in dropMsg' <=> k \in dropMsg)
  BY <1>a
<1> HIDE DEF Clean
<1> QED
  BY <1>a, <1>3, <1>4, <1>5, <1>6, VisitKeeps

LEMMA CopyKeeps ==
  ASSUME SanitizerInv, NEW i, CopyMessage(i)
  PROVE  SanitizerInv'
<1> DEFINE m == IF IsString(i) THEN msgs[i]
                ELSE SetBlocks(msgs[i], [b \in Kept(i) |-> msgs[i].blocks[b]])
<1>a. /\ Visit(i) /\ i \notin dropMsg /\ dropMsg' = dropMsg
      /\ out' = [k \in DOMAIN out \cup {i} |-> IF k = i THEN m ELSE out[k]]
  BY DEF CopyMessage
<1>b. IsString(i) \/ Kept(i) # {}
  BY DEF CopyMessage
<1>c. /\ i \in DOMAIN msgs /\ i \in Nat
      /\ ~(IsString(i) /\ i \in Emptied(msgs, ng)) /\ i \notin NoticesDropped(msgs, ng)
  BY <1>a, VisitedFlag DEF Goes
<1>d. InputInv /\ dropBlock = MarkedBlocks(ng)
  BY <1>a DEF SanitizerInv, CopyInv, Visit
<1>1. i \notin Emptied(msgs, ng)
  <2>1. ASSUME ~IsString(i)
        PROVE  KeptBlocks(msgs, ng, i) # {}
    BY <1>b, <1>c, <1>d, <2>1, BlocksKept
  <2> QED
    BY <1>c, <2>1 DEF Emptied
<1>2. i \in DOMAIN Clean
  BY <1>a, <1>c, <1>1, VisitedFlag
<1>3. m = Clean[i]
  <2>1. Clean[i] = SetBlocks(msgs[i], [b \in KeptBlocks(msgs, ng, i) |-> msgs[i].blocks[b]])
    BY <1>2 DEF Clean, Sanitized
  <2>2. CASE ~IsString(i)
    <3>1. Kept(i) = KeptBlocks(msgs, ng, i)
      BY <1>c, <1>d, <2>2, BlocksKept
    <3> QED
      BY <2>1, <2>2, <3>1
  <2>3. CASE IsString(i)
    <3>1. DOMAIN msgs[i].blocks = {Whole}
      BY <2>3 DEF IsString
    <3>2. KeptBlocks(msgs, ng, i) # {}
      BY <1>1, <1>c DEF Emptied
    <3>3. KeptBlocks(msgs, ng, i) = DOMAIN msgs[i].blocks
      BY <3>1, <3>2 DEF KeptBlocks
    <3>4. /\ msgs[i].blocks = [b \in DOMAIN msgs[i].blocks |-> msgs[i].blocks[b]]
          /\ msgs[i] = SetBlocks(msgs[i], msgs[i].blocks)
      BY <1>c, <1>d DEF InputInv, IsDecoded
    <3> QED
      BY <2>1, <2>3, <3>3, <3>4
  <2> QED
    BY <2>2, <2>3
<1> HIDE DEF m
<1>4. out = [k \in DOMAIN out |-> Clean[k]]
  BY <1>a, VisitedFlag
<1>5. DOMAIN out' = IF i \in DOMAIN Clean THEN DOMAIN out \cup {i} ELSE DOMAIN out
  BY <1>a, <1>2
<1>6. out' = [k \in DOMAIN out' |-> Clean[k]]
  <2>1. \A k \in DOMAIN out : out[k] = Clean[k]
    BY <1>4
  <2>2. \A k \in DOMAIN out \cup {i} : (IF k = i THEN m ELSE out[k]) = Clean[k]
    BY <1>3, <2>1
  <2> QED
    BY <1>a, <2>2
<1>7. (i + 1) - 1 = i
  BY <1>c
<1>8. i + 1 \notin NoticesDropped(msgs, ng)
  BY <1>1, <1>7 DEF NoticesDropped
<1>9. SaysAll(i, dropMsg')
  <2> SUFFICES ASSUME i + 1 \in left
               PROVE  i + 1 \in dropMsg' <=> Goes(i + 1)
    BY DEF SaysAll
  <2>1. i + 1 \in dropMsg <=> \/ IsString(i + 1) /\ i + 1 \in Emptied(msgs, ng)
                              \/ i + 1 \in NoticesDropped(msgs, ng) /\ IsString(i)
    BY <1>a, VisitedFlag
  <2> QED
    BY <1>a, <1>8, <2>1 DEF Goes
<1>10. \A k \in left \ {i} : k # i + 1 => (k \in dropMsg' <=> k \in dropMsg)
  BY <1>a
<1> QED
  BY <1>a, <1>5, <1>6, <1>9, <1>10, VisitKeeps

LEMMA DropKeeps ==
  ASSUME SanitizerInv, NEW i, DropEmptied(i)
  PROVE  SanitizerInv'
<1>a. /\ Visit(i) /\ i \notin dropMsg /\ ~IsString(i) /\ Kept(i) = {}
      /\ dropMsg' = dropMsg \cup NoticeAfter(i) /\ out' = out
  BY DEF DropEmptied
<1>b. i \in DOMAIN msgs /\ i \in Nat
  BY <1>a, VisitedFlag
<1>c. InputInv /\ dropBlock = MarkedBlocks(ng)
  BY <1>a DEF SanitizerInv, CopyInv, Visit
<1>1. i \in Emptied(msgs, ng)
  <2>1. KeptBlocks(msgs, ng, i) = {}
    BY <1>a, <1>b, <1>c, BlocksKept
  <2> QED
    BY <1>b, <2>1 DEF Emptied
<1>2. i \notin DOMAIN Clean
  BY <1>a, <1>1, VisitedFlag
<1>3. (i + 1) - 1 = i
  BY <1>b
<1>4. i + 1 \in NoticeAfter(i) <=> i + 1 \in NoticesDropped(msgs, ng)
  BY <1>1, <1>3 DEF NoticeAfter, NoticesDropped
<1>5. SaysAll(i, dropMsg')
  <2> SUFFICES ASSUME i + 1 \in left
               PROVE  i + 1 \in dropMsg' <=> Goes(i + 1)
    BY DEF SaysAll
  <2>1. i + 1 \in dropMsg <=> \/ IsString(i + 1) /\ i + 1 \in Emptied(msgs, ng)
                              \/ i + 1 \in NoticesDropped(msgs, ng) /\ IsString(i)
    BY <1>a, VisitedFlag
  <2> QED
    BY <1>a, <1>4, <2>1 DEF Goes
<1>6. \A k \in left \ {i} : k # i + 1 => (k \in dropMsg' <=> k \in dropMsg)
  BY <1>a DEF NoticeAfter
<1>7. out' = [k \in DOMAIN out' |-> Clean[k]]
  BY <1>a, VisitedFlag
<1>8. DOMAIN out' = IF i \in DOMAIN Clean THEN DOMAIN out \cup {i} ELSE DOMAIN out
  BY <1>a, <1>2
<1> QED
  BY <1>a, <1>5, <1>6, <1>7, <1>8, VisitKeeps

(* At the end of the copying the copy is what Conversation says. *)
LEMMA CopyIsClean ==
  ASSUME SanitizerInv, step = "copy", left = {}
  PROVE  out = Clean
<1>1. out = [k \in DOMAIN Clean |-> Clean[k]]
  BY DEF SanitizerInv, CopyInv
<1>2. Clean = [k \in DOMAIN Clean |-> Clean[k]]
  BY DEF Clean, Sanitized
<1> QED
  BY <1>1, <1>2

LEMMA CopyingDoneKeeps == SanitizerInv /\ CopyingDone => SanitizerInv'
<1> SUFFICES ASSUME SanitizerInv, CopyingDone
             PROVE  SanitizerInv'
  OBVIOUS
<1>a. /\ step = "copy" /\ left = {} /\ StartsWithUser /\ step' = "validate"
      /\ left' = Tools(out)
      /\ UNCHANGED <<msgs, ng, marks, dropMsg, dropBlock, out, open, returned>>
  BY DEF CopyingDone, Tools
<1>1. out = Clean
  BY <1>a, CopyIsClean
<1>2. InputInv' /\ MarkInv'
  BY <1>a DEF SanitizerInv, InputInv, MarkInv
<1>3. open' = {}
  BY <1>a DEF SanitizerInv, MarkInv
<1>4. out' = Clean' /\ StartsWithUser' /\ left' = Tools(out')
  BY <1>a, <1>1 DEF Clean, StartsWithUser
<1>5. ValidateInv'
  BY <1>3, <1>4 DEF ValidateInv
<1> QED
  BY <1>a, <1>2, <1>5 DEF SanitizerInv, CopyInv, ReturnsSanitized

LEMMA RejectStartKeeps == SanitizerInv /\ RejectStart => SanitizerInv'
<1> SUFFICES ASSUME SanitizerInv, RejectStart
             PROVE  SanitizerInv'
  OBVIOUS
<1>a. step = "copy" /\ left = {} /\ ~StartsWithUser /\ Return("error")
  BY DEF RejectStart
<1>1. out = Clean
  BY <1>a, CopyIsClean
<1>2. ~CanSanitize(msgs, ng)
  BY <1>a, <1>1 DEF CanSanitize, ValidStructure, StartsWithUser, Clean
<1>3. "error" = "ok" <=> CanSanitize(msgs, ng)
  BY <1>2
<1> QED
  BY <1>a, <1>3, ReturnKeeps

(* What validate has established before it looks at p. *)
LEMMA CheckedBefore ==
  ASSUME SanitizerInv, NEW p, NEW type, Check(p, type)
  PROVE  /\ step = "validate" /\ p \in Tools(out) /\ p \in left /\ TypeOf(out, p) = type
         /\ IsConversation(out)
         /\ \A q \in Tools(out) \ left : Precedes(q, p)
         /\ \A q \in Tools(out) : Precedes(q, p) => q \in Tools(out) \ left
<1>1. /\ step = "validate" /\ p \in left /\ TypeOf(out, p) = type
      /\ \A q \in left \ {p} : Precedes(p, q)
  BY DEF Check, TypeOf
<1>2. out = Clean /\ left \subseteq Tools(out)
      /\ \A q \in Tools(out) \ left : Precedes(q, p)
  BY <1>1 DEF SanitizerInv, ValidateInv
<1>3. IsConversation(out)
  BY <1>2, SanitizedTyped DEF Clean, SanitizerInv, InputInv
<1>4. ASSUME NEW q \in Tools(out), Precedes(q, p), q \in left
      PROVE  FALSE
  BY <1>1, <1>2, <1>3, <1>4, PrecedesOrders
<1> QED
  BY <1>1, <1>2, <1>3, <1>4

LEMMA OpenToolKeeps ==
  ASSUME SanitizerInv, NEW p, OpenTool(p)
  PROVE  SanitizerInv'
<1>a. /\ Check(p, "tool_use") /\ open' = open \cup {ToolOf(out, p)} /\ left' = left \ {p}
      /\ UNCHANGED <<msgs, ng, step, marks, dropMsg, dropBlock, out, returned>>
  BY DEF OpenTool
<1>b. /\ step = "validate" /\ p \in Tools(out) /\ p \in left /\ TypeOf(out, p) = "tool_use"
      /\ \A q \in Tools(out) \ left : Precedes(q, p)
  BY <1>a, CheckedBefore
<1>c. ValidateInv /\ (Tools(out) \ left)' = (Tools(out) \ left) \cup {p}
  BY <1>a, <1>b DEF SanitizerInv
<1>1. InputInv' /\ MarkInv'
  BY <1>a, <1>b DEF SanitizerInv, InputInv, MarkInv
<1>2. out' = Clean' /\ StartsWithUser' /\ left' \subseteq Tools(out)'
  BY <1>a, <1>b, <1>c DEF ValidateInv, Clean, StartsWithUser
<1>3. \A v \in (Tools(out) \ left)' : \A q \in left' : Precedes(v, q)
  BY <1>a, <1>b, <1>c DEF ValidateInv, Check
<1>4. ASSUME NEW v \in (Tools(out) \ left)'
      PROVE  /\ TypeOf(out', v) = "tool_result" => ResultAnswers(out', v)
             /\ TypeOf(out', v) = "tool_use" /\ ToolOf(out', v) \notin open' =>
                  \E q \in (Tools(out) \ left)' :
                    /\ ToolOf(out', q) = ToolOf(out', v) /\ Precedes(v, q)
                    /\ TypeOf(out', q) = "tool_result"
  BY <1>a, <1>b, <1>c DEF ValidateInv
<1>5. ASSUME NEW id \in open'
      PROVE  \E v \in (Tools(out) \ left)' :
               /\ TypeOf(out', v) = "tool_use" /\ ToolOf(out', v) = id
               /\ \A q \in (Tools(out) \ left)' : ToolOf(out', q) = id /\ q # v => Precedes(q, v)
  <2>1. CASE id = ToolOf(out, p)
    BY <1>a, <1>b, <1>c, <2>1
  <2>2. CASE id # ToolOf(out, p)
    <3>1. PICK v \in Tools(out) \ left :
               /\ TypeOf(out, v) = "tool_use" /\ ToolOf(out, v) = id
               /\ \A q \in Tools(out) \ left : ToolOf(out, q) = id /\ q # v => Precedes(q, v)
      BY <1>a, <1>b, <1>c, <2>2 DEF ValidateInv
    <3> QED
      BY <1>a, <1>c, <2>2, <3>1
  <2> QED
    BY <2>1, <2>2
<1>6. ValidateInv'
  BY <1>2, <1>3, <1>4, <1>5 DEF ValidateInv
<1> QED
  BY <1>a, <1>b, <1>1, <1>6 DEF SanitizerInv, CopyInv, ReturnsSanitized

LEMMA CloseToolKeeps ==
  ASSUME SanitizerInv, NEW p, CloseTool(p)
  PROVE  SanitizerInv'
<1>a. /\ Check(p, "tool_result") /\ open' = open \ {ToolOf(out, p)} /\ left' = left \ {p}
      /\ ToolOf(out, p) \in open
      /\ UNCHANGED <<msgs, ng, step, marks, dropMsg, dropBlock, out, returned>>
  BY DEF CloseTool
<1>b. /\ step = "validate" /\ p \in Tools(out) /\ p \in left /\ TypeOf(out, p) = "tool_result"
      /\ \A q \in Tools(out) \ left : Precedes(q, p)
      /\ \A q \in Tools(out) : Precedes(q, p) => q \in Tools(out) \ left
  BY <1>a, CheckedBefore
<1>c. ValidateInv /\ (Tools(out) \ left)' = (Tools(out) \ left) \cup {p}
  BY <1>a, <1>b DEF SanitizerInv
<1>1. InputInv' /\ MarkInv'
  BY <1>a, <1>b DEF SanitizerInv, InputInv, MarkInv
<1>2. out' = Clean' /\ StartsWithUser' /\ left' \subseteq Tools(out)'
  BY <1>a, <1>b, <1>c DEF ValidateInv, Clean, StartsWithUser
<1>3. \A v \in (Tools(out) \ left)' : \A q \in left' : Precedes(v, q)
  BY <1>a, <1>b, <1>c DEF ValidateInv, Check
<1>d. ResultAnswers(out, p)
  <2>1. PICK w \in Tools(out) \ left :
             /\ TypeOf(out, w) = "tool_use" /\ ToolOf(out, w) = ToolOf(out, p)
             /\ \A q \in Tools(out) \ left : ToolOf(out, q) = ToolOf(out, p) /\ q # w => Precedes(q, w)
    BY <1>a, <1>b, <1>c DEF ValidateInv
  <2>2. IsLastBefore(out, w, p)
    BY <1>b, <2>1 DEF IsLastBefore
  <2> QED
    BY <2>1, <2>2 DEF ResultAnswers
<1>4. ASSUME NEW v \in (Tools(out) \ left)'
      PROVE  /\ TypeOf(out', v) = "tool_result" => ResultAnswers(out', v)
             /\ TypeOf(out', v) = "tool_use" /\ ToolOf(out', v) \notin open' =>
                  \E q \in (Tools(out) \ left)' :
                    /\ ToolOf(out', q) = ToolOf(out', v) /\ Precedes(v, q)
                    /\ TypeOf(out', q) = "tool_result"
  <2>1. CASE v = p
    BY <1>a, <1>b, <1>d, <2>1
  <2>2. CASE v \in Tools(out) \ left /\ ToolOf(out, v) = ToolOf(out, p)
    BY <1>a, <1>b, <1>c, <2>2 DEF ValidateInv
  <2>3. CASE v \in Tools(out) \ left /\ ToolOf(out, v) # ToolOf(out, p)
    BY <1>a, <1>b, <1>c, <2>3 DEF ValidateInv
  <2> QED
    BY <1>c, <2>1, <2>2, <2>3
<1>5. ASSUME NEW id \in open'
      PROVE  \E v \in (Tools(out) \ left)' :
               /\ TypeOf(out', v) = "tool_use" /\ ToolOf(out', v) = id
               /\ \A q \in (Tools(out) \ left)' : ToolOf(out', q) = id /\ q # v => Precedes(q, v)
  <2>1. id \in open /\ id # ToolOf(out, p)
    BY <1>a
  <2>2. PICK v \in Tools(out) \ left :
             /\ TypeOf(out, v) = "tool_use" /\ ToolOf(out, v) = id
             /\ \A q \in Tools(out) \ left : ToolOf(out, q) = id /\ q # v => Precedes(q, v)
    BY <1>b, <1>c, <2>1 DEF ValidateInv
  <2> QED
    BY <1>a, <1>c, <2>1, <2>2
<1>6. ValidateInv'
  BY <1>2, <1>3, <1>4, <1>5 DEF ValidateInv
<1> QED
  BY <1>a, <1>b, <1>1, <1>6 DEF SanitizerInv, CopyInv, ReturnsSanitized

LEMMA RejectOrphanKeeps ==
  ASSUME SanitizerInv, NEW p, RejectOrphan(p)
  PROVE  SanitizerInv'
<1>a. Check(p, "tool_result") /\ ToolOf(out, p) \notin open /\ Return("error")
  BY DEF RejectOrphan
<1>b. /\ step = "validate" /\ p \in Tools(out) /\ p \in left /\ TypeOf(out, p) = "tool_result"
      /\ IsConversation(out)
      /\ \A q \in Tools(out) \ left : Precedes(q, p)
      /\ \A q \in Tools(out) : Precedes(q, p) => q \in Tools(out) \ left
  BY <1>a, CheckedBefore
<1>c. ValidateInv /\ out = Clean
  BY <1>b DEF SanitizerInv, ValidateInv
<1>1. ASSUME ResultAnswers(out, p)
      PROVE  FALSE
  <2>1. PICK q : IsLastBefore(out, q, p) /\ TypeOf(out, q) = "tool_use"
    BY <1>1 DEF ResultAnswers
  <2>2. q \in Tools(out) \ left /\ ToolOf(out, q) = ToolOf(out, p)
    BY <1>b, <2>1 DEF IsLastBefore
  <2>3. PICK r \in Tools(out) \ left :
             ToolOf(out, r) = ToolOf(out, q) /\ Precedes(q, r) /\ TypeOf(out, r) = "tool_result"
    BY <1>a, <1>b, <1>c, <2>1, <2>2 DEF ValidateInv
  <2>4. r # q /\ Precedes(r, p)
    BY <1>b, <2>1, <2>3
  <2>5. Precedes(r, q)
    BY <2>1, <2>2, <2>3, <2>4 DEF IsLastBefore
  <2> QED
    BY <1>b, <2>2, <2>3, <2>5, PrecedesOrders
<1>2. ~ToolsPaired(Clean)
  BY <1>b, <1>c, <1>1, PairedMeans
<1>3. "error" = "ok" <=> CanSanitize(msgs, ng)
  BY <1>2 DEF CanSanitize, ValidStructure, Clean
<1> QED
  BY <1>a, <1>b, <1>3, ReturnKeeps

LEMMA FinishKeeps == SanitizerInv /\ Finish => SanitizerInv'
<1> SUFFICES ASSUME SanitizerInv, Finish
             PROVE  SanitizerInv'
  OBVIOUS
<1> DEFINE r == IF open = {} THEN "ok" ELSE "error"
<1>a. step = "validate" /\ left = {} /\ Return(r)
  BY DEF Finish
<1>b. ValidateInv /\ out = Clean /\ StartsWithUser /\ \A i \in DOMAIN msgs : msgs[i].readable
  BY <1>a DEF SanitizerInv, ValidateInv, InputInv
<1>c. IsConversation(out)
  BY <1>b, SanitizedTyped DEF Clean, SanitizerInv, InputInv
<1>d. Tools(out) \ left = Tools(out)
  BY <1>a
<1>1. open = {} => ToolsPaired(out)
  <2>1. ASSUME open = {}, NEW p \in Tools(out)
        PROVE  /\ TypeOf(out, p) = "tool_result" => ResultAnswers(out, p)
               /\ TypeOf(out, p) = "tool_use" => UseIsAnswered(out, p)
    BY <1>a, <1>b, <1>d, <2>1 DEF ValidateInv, UseIsAnswered
  <2> QED
    BY <2>1, PairedMeans
<1>2. ASSUME NEW id \in open
      PROVE  ~ToolsPaired(out)
  <2>1. PICK p \in Tools(out) :
             /\ TypeOf(out, p) = "tool_use" /\ ToolOf(out, p) = id
             /\ \A q \in Tools(out) : ToolOf(out, q) = id /\ q # p => Precedes(q, p)
    BY <1>a, <1>b, <1>d, <1>2 DEF ValidateInv
  <2>2. ASSUME NEW q \in Tools(out), ToolOf(out, q) = ToolOf(out, p), Precedes(p, q)
        PROVE  FALSE
    BY <1>c, <2>1, <2>2, PrecedesOrders
  <2>3. ~UseIsAnswered(out, p)
    BY <2>2 DEF UseIsAnswered
  <2> QED
    BY <2>1, <2>3, PairedMeans
<1>3. r = "ok" <=> CanSanitize(msgs, ng)
  BY <1>b, <1>1, <1>2 DEF CanSanitize, ValidStructure, StartsWithUser, Clean
<1> HIDE DEF r
<1> QED
  BY <1>a, <1>b, <1>3, ReturnKeeps

THEOREM SanitizerInvariant == SanitizerSpec => []SanitizerInv
<1>1. SanitizerInit => SanitizerInv
  BY SanitizerStarts
<1>2. SanitizerInv /\ [SanitizerNext]_sanitizerVars => SanitizerInv'
  <2> SUFFICES ASSUME SanitizerInv, [SanitizerNext]_sanitizerVars
               PROVE  SanitizerInv'
    OBVIOUS
  <2>1. CASE LoadFails \/ Load
    BY <2>1, LoadFailsKeeps, LoadKeeps
  <2>2. CASE \E s \in marks : MarkToolResult(s) \/ MarkMessage(s) \/ MarkText(s)
    BY <2>2, MarkKeeps
  <2>3. CASE MarkingDone \/ CopyingDone \/ RejectStart \/ Finish
    BY <2>3, MarkingDoneKeeps, CopyingDoneKeeps, RejectStartKeeps, FinishKeeps
  <2>4. CASE \E i \in left : SkipMessage(i) \/ CopyMessage(i) \/ DropEmptied(i)
    BY <2>4, SkipKeeps, CopyKeeps, DropKeeps
  <2>5. CASE \E p \in left : OpenTool(p) \/ CloseTool(p) \/ RejectOrphan(p)
    BY <2>5, OpenToolKeeps, CloseToolKeeps, RejectOrphanKeeps
  <2>6. CASE UNCHANGED sanitizerVars
    BY <2>6 DEF sanitizerVars, SanitizerInv, InputInv, MarkInv, CopyInv, ValidateInv,
         ReturnsSanitized, MarkedMessages, MarkedBlocks, NoticeAfter, Partner, Flagged, IsString,
         Clean, StartsWithUser
  <2> QED
    BY <2>1, <2>2, <2>3, <2>4, <2>5, <2>6 DEF SanitizerNext
<1> QED
  BY <1>1, <1>2, PTL DEF SanitizerSpec

(* The loops return what Conversation says, for every array and every set  *)
(* of sensitive segments of its history.                                   *)
THEOREM LoopsReturnSanitized == SanitizerSpec => []ReturnsSanitized
<1>1. SanitizerInv => ReturnsSanitized
  BY DEF SanitizerInv
<1> QED
  BY <1>1, SanitizerInvariant, PTL

(* Nothing but the sensitive segments is lost. *)
THEOREM OnlySensitiveIsLost == SanitizerSpec => []ExactlySensitiveLost
<1>1. SanitizerInv => ExactlySensitiveLost
  <2> SUFFICES ASSUME SanitizerInv, returned = "ok"
               PROVE  Segments(out) = Segments(msgs) \ ng
    BY DEF ExactlySensitiveLost
  <2>1. out = Sanitized(msgs, ng) /\ ng \subseteq Segments(msgs)
    BY DEF SanitizerInv, InputInv, ReturnsSanitized
  <2> QED
    BY <2>1, SanitizedLosesNoMore
<1> QED
  BY <1>1, SanitizerInvariant, PTL

(* Where the opening stays, an array the API accepts can be sanitized. *)
LEMMA OpeningKeeps ==
  ASSUME NEW c, IsConversation(c), NEW ngs \in SUBSET Segments(c),
         \A i \in DOMAIN c : c[i].readable /\ DOMAIN c[i].blocks # {},
         \A p \in BlocksOfType(c, {"tool_use"}) : c[p[1]].role = "assistant",
         ValidStructure(c), UniqueCalls(c), QuietNotices(c),
         \A s \in ngs : s.msg # FirstIndex(c)
  PROVE  CanSanitize(c, ngs)
<1> DEFINE d == Sanitized(c, ngs)
           f == FirstIndex(c)
<1>1. /\ f \in DOMAIN c /\ (\A k \in DOMAIN c : f <= k) /\ c[f].role = "user"
      /\ DOMAIN c \subseteq Nat
  BY FirstIndexIsLeast DEF ValidStructure, IsConversation
<1>2. KeptBlocks(c, ngs, f) = DOMAIN c[f].blocks
  <2>1. ASSUME NEW s \in ngs, NEW b
        PROVE  <<f, b>> # <<s.msg, s.block>>
    OBVIOUS
  <2>2. ASSUME NEW id, NEW b
        PROVE  <<f, b>> \notin ToolUse(c, id)
    <3>1. \A p \in ToolUse(c, id) : c[p[1]].role = "assistant"
      BY DEF ToolUse
    <3> QED
      BY <1>1, <3>1
  <2> QED
    BY <2>1, <2>2 DEF KeptBlocks, DroppedBlocks
<1>3. f \in DOMAIN d /\ d[f].role = "user" /\ DOMAIN d \subseteq DOMAIN c
  <2>1. f \notin Emptied(c, ngs) /\ f \notin NoticesDropped(c, ngs)
    BY <1>1, <1>2 DEF Emptied, NoticesDropped
  <2> QED
    BY <1>1, <2>1 DEF Sanitized, SetBlocks
<1>4. ToolsPaired(d)
  BY PairsGoTogether DEF ValidStructure
<1> HIDE DEF d, f
<1>5. FirstIndex(d) = f
  BY <1>1, <1>3, FirstIndexIs
<1>6. ValidStructure(d)
  BY <1>3, <1>4, <1>5 DEF ValidStructure
<1> QED
  BY <1>6 DEF CanSanitize, d

(* Sanitizing a conversation the API accepts fails only where its first    *)
(* turn had to go.                                                         *)
THEOREM OnlyTheStartFails == SanitizerSpec => []FailsOnlyAtStart
<1>1. SanitizerInv => FailsOnlyAtStart
  <2> SUFFICES ASSUME SanitizerInv, returned = "error", Acceptable, UniqueTools, PlainNotices,
                      \A s \in ng : s.msg # FirstIndex(msgs)
               PROVE  FALSE
    BY DEF FailsOnlyAtStart
  <2>1. IsConversation(msgs) /\ ng \in SUBSET Segments(msgs)
    BY DEF SanitizerInv, InputInv
  <2>2. UniqueCalls(msgs) /\ QuietNotices(msgs)
    BY DEF UniqueTools, UniqueCalls, PlainNotices, QuietNotices
  <2>3. CanSanitize(msgs, ng)
    BY <2>1, <2>2, OpeningKeeps DEF Acceptable
  <2> QED
    BY <2>3 DEF SanitizerInv, InputInv, ReturnsSanitized
<1> QED
  BY <1>1, SanitizerInvariant, PTL

-----------------------------------------------------------------------------
(* What a client sends *)

Messages == Typed \cup ToolTurns \cup Replies \cup {Notice}

(* Users and assistants take turns; a user turn answers what the reply     *)
(* before it called, and no id is called twice.                            *)
Dialogue(c, n) ==
  /\ n \in Nat /\ DOMAIN c = 0..(n - 1)
  /\ \A i \in DOMAIN c : c[i] \in Messages
  /\ 0 \in DOMAIN c => c[0].role = "user" /\ Answered(c[0]) = {}
  /\ \A i \in DOMAIN c \ {0} :
       /\ c[i].role # c[i - 1].role
       /\ c[i].role = "user" => Answered(c[i]) = Called(c[i - 1])
  /\ \A i, k \in DOMAIN c : i # k => Called(c[i]) \cap Called(c[k]) = {}

HistoryInv ==
  \E n \in Nat : Dialogue(history, n) /\ (n > 0 => history[n - 1].role = "assistant")

(* What holds of the array a request carries, with or without its marker. *)
Prompt(c) ==
  /\ IsConversation(c)
  /\ LastIndex(c) \in Nat /\ DOMAIN c = 0..LastIndex(c)
  /\ c[0].role = "user" /\ c[LastIndex(c)].role = "user"
  /\ \A i \in DOMAIN c : c[i].readable
  /\ \A i \in DOMAIN c : c[i].role = "user" =>
       DOMAIN c[i].blocks # {} /\ \A b \in DOMAIN c[i].blocks : c[i].blocks[b].type # "tool_use"
  /\ \A i \in DOMAIN c : c[i].role = "assistant" => i - 1 \in DOMAIN c /\ c[i - 1].role = "user"
  /\ ToolsPaired(c) /\ UniqueCalls(c) /\ QuietNotices(c)

LEMMA MessageFacts ==
  ASSUME NEW m \in Messages
  PROVE  /\ IsMessage(m) /\ m.readable
         /\ m.role = "user" \/ m.role = "assistant"
         /\ m.role = "user" =>
              /\ DOMAIN m.blocks # {} /\ OncePerTool(m, "tool_result")
              /\ \A b \in DOMAIN m.blocks : m.blocks[b].type # "tool_use"
         /\ m.role = "assistant" =>
              /\ OncePerTool(m, "tool_use")
              /\ \A b \in DOMAIN m.blocks : m.blocks[b].type # "tool_result"
              /\ HasBlockNotice(m) => \A b \in DOMAIN m.blocks : m.blocks[b].type = "text"
<1>1. \A x : Called(x) = {} => \A b \in DOMAIN x.blocks : x.blocks[b].type # "tool_use"
  BY DEF Called
<1>2. \A x : Answered(x) = {} => \A b \in DOMAIN x.blocks : x.blocks[b].type # "tool_result"
  BY DEF Answered
<1>3. \A x : IsMessage(x) => \A b \in DOMAIN x.blocks :
                               x.blocks[b].type \in {"text", "tool_use", "tool_result"}
  BY DEF IsMessage, Block
<1>4. CASE m \in Typed \cup ToolTurns
  BY <1>1, <1>4
<1>5. CASE m \in Replies
  BY <1>1, <1>2, <1>3, <1>5
<1>6. CASE m = Notice
  <2>1. Notice.readable
    BY DEF HasBlockNotice
  <2> QED
    BY <1>1, <1>2, <1>3, <1>6, <2>1 DEF OncePerTool
<1> QED
  BY <1>4, <1>5, <1>6 DEF Messages

LEMMA LastOfDialogue ==
  ASSUME NEW c, NEW n, Dialogue(c, n)
  PROVE  LastIndex(c) = n - 1
<1>1. n \in Nat /\ DOMAIN c = 0..(n - 1)
  BY DEF Dialogue
<1>2. CASE n = 0
  <2>1. DOMAIN c = {}
    BY <1>1, <1>2
  <2> QED
    BY <1>2, <2>1 DEF LastIndex
<1>3. CASE n > 0
  <2>1. n - 1 \in DOMAIN c /\ DOMAIN c \subseteq Nat /\ \A k \in DOMAIN c : k <= n - 1
    BY <1>1, <1>3
  <2> QED
    BY <2>1, LastIndexIs
<1> QED
  BY <1>1, <1>2, <1>3

LEMMA DialogueGrows ==
  ASSUME NEW c, NEW n, Dialogue(c, n), NEW m \in Messages,
         n = 0 => m.role = "user" /\ Answered(m) = {},
         n > 0 => m.role # c[n - 1].role /\ (m.role = "user" => Answered(m) = Called(c[n - 1])),
         \A i \in DOMAIN c : Called(m) \cap Called(c[i]) = {}
  PROVE  /\ Dialogue(With(c, m), n + 1) /\ With(c, m)[n] = m
         /\ \A i \in DOMAIN c : With(c, m)[i] = c[i]
<1> DEFINE d == With(c, m)
<1>a. n \in Nat /\ DOMAIN c = 0..(n - 1)
  BY DEF Dialogue
<1>b. LastIndex(c) = n - 1
  BY LastOfDialogue
<1>1. n \in Nat /\ DOMAIN c = 0..(n - 1) /\ LastIndex(c) + 1 = n
  BY <1>a, <1>b
<1>2. DOMAIN d = 0..((n + 1) - 1) /\ n \in DOMAIN d /\ DOMAIN d = DOMAIN c \cup {n}
  BY <1>1 DEF With
<1>3. d[n] = m /\ \A i \in DOMAIN c : d[i] = c[i]
  BY <1>1 DEF With
<1> HIDE DEF d
<1>4. \A i \in DOMAIN d : d[i] \in Messages
  BY <1>2, <1>3 DEF Dialogue
<1>5. 0 \in DOMAIN d => d[0].role = "user" /\ Answered(d[0]) = {}
  BY <1>1, <1>2, <1>3 DEF Dialogue
<1>6. ASSUME NEW i \in DOMAIN d \ {0}
      PROVE  /\ d[i].role # d[i - 1].role
             /\ d[i].role = "user" => Answered(d[i]) = Called(d[i - 1])
  <2>1. CASE i = n
    <3>1. n > 0 /\ i - 1 = n - 1 /\ n - 1 \in DOMAIN c
      BY <1>1, <1>2, <1>6, <2>1
    <3> QED
      BY <1>3, <2>1, <3>1
  <2>2. CASE i # n
    <3>1. i \in DOMAIN c \ {0} /\ i - 1 \in DOMAIN c
      BY <1>1, <1>2, <1>6, <2>2
    <3> QED
      BY <1>3, <3>1 DEF Dialogue
  <2> QED
    BY <2>1, <2>2
<1>7. ASSUME NEW i \in DOMAIN d, NEW k \in DOMAIN d, i # k
      PROVE  Called(d[i]) \cap Called(d[k]) = {}
  BY <1>2, <1>3, <1>7 DEF Dialogue
<1>8. n + 1 \in Nat
  BY <1>1
<1> QED
  BY <1>2, <1>3, <1>4, <1>5, <1>6, <1>7, <1>8 DEF Dialogue, d

(* The tool calls of such an exchange pair. *)
LEMMA DialoguePairs ==
  ASSUME NEW c, NEW n, Dialogue(c, n), n > 0, c[n - 1].role = "user", IsConversation(c)
  PROVE  ToolsPaired(c) /\ UniqueCalls(c)
<1>a. /\ n \in Nat /\ DOMAIN c = 0..(n - 1)
      /\ \A i \in DOMAIN c : c[i] \in Messages
  BY DEF Dialogue
<1>b. ASSUME NEW p \in Tools(c)
      PROVE  /\ p = <<p[1], p[2]>> /\ p[1] \in DOMAIN c /\ p[2] \in DOMAIN c[p[1]].blocks
             /\ p[1] \in Nat /\ p[2] \in Int
             /\ ToolOf(c, p) = c[p[1]].blocks[p[2]].tool
             /\ TypeOf(c, p) = c[p[1]].blocks[p[2]].type
             /\ \/ TypeOf(c, p) = "tool_use" /\ c[p[1]].role = "assistant"
                \/ TypeOf(c, p) = "tool_result" /\ c[p[1]].role = "user"
  <2>1. /\ p = <<p[1], p[2]>> /\ p[1] \in DOMAIN c /\ p[2] \in DOMAIN c[p[1]].blocks
        /\ TypeOf(c, p) \in {"tool_use", "tool_result"}
    BY BlockPositions DEF Tools
  <2>2. p[1] \in Nat /\ p[2] \in Int
    BY <1>a, <2>1, PositionsOrdered
  <2>3. c[p[1]] \in Messages
    BY <1>a, <2>1
  <2>4. c[p[1]].role = "user" \/ c[p[1]].role = "assistant"
    BY <2>3, MessageFacts
  <2>5. /\ c[p[1]].role = "user" => TypeOf(c, p) # "tool_use"
        /\ c[p[1]].role = "assistant" => TypeOf(c, p) # "tool_result"
    BY <2>1, <2>3, MessageFacts DEF TypeOf
  <2> QED
    BY <2>1, <2>2, <2>4, <2>5 DEF ToolOf, TypeOf
<1>c. ASSUME NEW p \in Tools(c), TypeOf(c, p) = "tool_use"
      PROVE  ToolOf(c, p) \in Called(c[p[1]])
  BY <1>b, <1>c DEF Called
<1>d. ASSUME NEW p \in Tools(c), TypeOf(c, p) = "tool_result"
      PROVE  /\ p[1] - 1 \in DOMAIN c /\ c[p[1] - 1].role = "assistant"
             /\ ToolOf(c, p) \in Called(c[p[1] - 1])
  <2>1. p[1] \in DOMAIN c /\ p[1] \in Nat /\ c[p[1]].role = "user"
    BY <1>b, <1>d
  <2>2. ToolOf(c, p) \in Answered(c[p[1]])
    BY <1>b, <1>d DEF Answered
  <2>3. p[1] # 0
    BY <2>1, <2>2 DEF Dialogue
  <2>4. p[1] - 1 \in DOMAIN c
    BY <1>a, <2>1, <2>3
  <2>5. Answered(c[p[1]]) = Called(c[p[1] - 1]) /\ c[p[1] - 1].role # "user"
    BY <2>1, <2>3 DEF Dialogue
  <2>6. c[p[1] - 1].role \in {"user", "assistant"}
    BY <1>a, <2>4, MessageFacts
  <2> QED
    BY <2>2, <2>4, <2>5, <2>6
(* The message that calls an id is one. *)
<1>e. ASSUME NEW i \in DOMAIN c, NEW k \in DOMAIN c, NEW id \in Called(c[i]), id \in Called(c[k])
      PROVE  i = k
  BY <1>e DEF Dialogue
<1>1. ASSUME NEW p \in Tools(c), NEW q \in Tools(c), ToolOf(c, p) = ToolOf(c, q),
             TypeOf(c, p) = "tool_use", TypeOf(c, q) = "tool_use"
      PROVE  p = q
  <2>1. p[1] = q[1]
    BY <1>b, <1>c, <1>e, <1>1
  <2>2. OncePerTool(c[p[1]], "tool_use")
    BY <1>a, <1>b, <1>1, MessageFacts
  <2>3. p[2] = q[2]
    BY <1>b, <1>1, <2>1, <2>2 DEF OncePerTool
  <2> QED
    BY <1>b, <2>1, <2>3
<1>2. UniqueCalls(c)
  <2>1. \A p \in BlocksOfType(c, {"tool_use"}) : p \in Tools(c) /\ TypeOf(c, p) = "tool_use"
    BY BlockPositions DEF Tools
  <2> QED
    BY <1>1, <2>1 DEF UniqueCalls
<1>3. ASSUME NEW p \in Tools(c), TypeOf(c, p) = "tool_result"
      PROVE  ResultAnswers(c, p)
  <2> DEFINE j == p[1] - 1
             id == ToolOf(c, p)
  <2>1. j \in DOMAIN c /\ c[j].role = "assistant" /\ id \in Called(c[j]) /\ p[1] \in Nat
    BY <1>b, <1>d, <1>3
  <2>2. PICK b \in DOMAIN c[j].blocks : c[j].blocks[b].type = "tool_use" /\ c[j].blocks[b].tool = id
    BY <2>1 DEF Called
  <2> DEFINE q == <<j, b>>
  <2>3. q[1] = j /\ q[2] = b
    OBVIOUS
  <2>4. TypeOf(c, q) = "tool_use" /\ ToolOf(c, q) = id
    BY <2>2, <2>3 DEF TypeOf, ToolOf
  <2>5. q \in Tools(c)
    BY <2>1, <2>2, <2>3, <2>4, BlockPositions DEF Tools
  <2> HIDE DEF q
  <2>6. Precedes(q, p)
    BY <2>1, <2>3 DEF Precedes
  <2>7. ASSUME NEW r \in Tools(c) \ {q}, ToolOf(c, r) = id, Precedes(r, p)
        PROVE  Precedes(r, q)
    <3>1. TypeOf(c, r) = "tool_use" \/ TypeOf(c, r) = "tool_result"
      BY <1>b
    <3>2. CASE TypeOf(c, r) = "tool_use"
      BY <1>1, <2>4, <2>5, <2>7, <3>2
    <3>3. CASE TypeOf(c, r) = "tool_result"
      <4>1. r[1] - 1 \in DOMAIN c /\ id \in Called(c[r[1] - 1])
        BY <1>d, <2>7, <3>3
      <4>2. r[1] - 1 = j
        BY <1>e, <2>1, <4>1
      <4>3. r[1] = p[1]
        BY <1>b, <2>1, <4>2
      <4>4. OncePerTool(c[p[1]], "tool_result")
        BY <1>a, <1>b, <1>3, MessageFacts
      <4>5. r[2] = p[2]
        BY <1>b, <1>3, <2>7, <3>3, <4>3, <4>4 DEF OncePerTool
      <4>6. r = p
        BY <1>b, <4>3, <4>5
      <4> QED
        BY <2>7, <4>6, PrecedesOrders
    <3> QED
      BY <3>1, <3>2, <3>3
  <2>8. IsLastBefore(c, q, p)
    BY <2>4, <2>5, <2>6, <2>7 DEF IsLastBefore
  <2> QED
    BY <2>4, <2>5, <2>8 DEF ResultAnswers
<1>4. ASSUME NEW p \in Tools(c), TypeOf(c, p) = "tool_use"
      PROVE  UseIsAnswered(c, p)
  <2> DEFINE j == p[1] + 1
             id == ToolOf(c, p)
  <2>1. p[1] \in DOMAIN c /\ p[1] \in Nat /\ c[p[1]].role = "assistant"
    BY <1>b, <1>4
  <2>2. p[1] # n - 1
    BY <2>1
  <2>3. j \in DOMAIN c \ {0} /\ j - 1 = p[1]
    BY <1>a, <2>1, <2>2
  <2>4. c[j].role \in {"user", "assistant"} /\ c[j].role # c[j - 1].role
    BY <1>a, <2>3, MessageFacts DEF Dialogue
  <2>5. Answered(c[j]) = Called(c[p[1]])
    BY <2>1, <2>3, <2>4 DEF Dialogue
  <2>6. id \in Answered(c[j])
    BY <1>c, <1>4, <2>5
  <2>7. PICK b \in DOMAIN c[j].blocks :
             c[j].blocks[b].type = "tool_result" /\ c[j].blocks[b].tool = id
    BY <2>6 DEF Answered
  <2> DEFINE q == <<j, b>>
  <2>8. q[1] = j /\ q[2] = b
    OBVIOUS
  <2>9. TypeOf(c, q) = "tool_result" /\ ToolOf(c, q) = id
    BY <2>7, <2>8 DEF TypeOf, ToolOf
  <2>10. q \in Tools(c)
    BY <2>3, <2>7, <2>8, <2>9, BlockPositions DEF Tools
  <2> HIDE DEF q
  <2>11. Precedes(p, q)
    BY <2>1, <2>8 DEF Precedes
  <2> QED
    BY <2>9, <2>10, <2>11 DEF UseIsAnswered
<1>5. ToolsPaired(c)
  BY <1>3, <1>4, PairedMeans
<1> QED
  BY <1>2, <1>5

LEMMA DialogueIsPrompt ==
  ASSUME NEW c, NEW n, Dialogue(c, n), n > 0, c[n - 1].role = "user"
  PROVE  Prompt(c)
<1>a. /\ n \in Nat /\ DOMAIN c = 0..(n - 1)
      /\ \A i \in DOMAIN c : c[i] \in Messages
  BY DEF Dialogue
<1>1. IsConversation(c)
  BY <1>a, MessageFacts DEF IsConversation
<1>b. LastIndex(c) = n - 1
  BY LastOfDialogue
<1>2. LastIndex(c) \in Nat /\ DOMAIN c = 0..LastIndex(c) /\ c[LastIndex(c)].role = "user"
  BY <1>a, <1>b
<1>3. c[0].role = "user"
  BY <1>a DEF Dialogue
<1>4. \A i \in DOMAIN c : c[i].readable
  BY <1>a, MessageFacts
<1>5. \A i \in DOMAIN c : c[i].role = "user" =>
        DOMAIN c[i].blocks # {} /\ \A b \in DOMAIN c[i].blocks : c[i].blocks[b].type # "tool_use"
  BY <1>a, MessageFacts
<1>6. ASSUME NEW i \in DOMAIN c, c[i].role = "assistant"
      PROVE  i - 1 \in DOMAIN c /\ c[i - 1].role = "user"
  <2>1. i # 0
    BY <1>3, <1>6
  <2>2. i - 1 \in DOMAIN c
    BY <1>a, <2>1
  <2>3. c[i - 1].role \in {"user", "assistant"}
    BY <1>a, <2>2, MessageFacts
  <2>4. c[i].role # c[i - 1].role
    BY <2>1 DEF Dialogue
  <2> QED
    BY <1>6, <2>2, <2>3, <2>4
<1>7. QuietNotices(c)
  BY <1>a, MessageFacts DEF QuietNotices
<1> QED
  BY <1>1, <1>2, <1>3, <1>4, <1>5, <1>6, <1>7, DialoguePairs DEF Prompt

-----------------------------------------------------------------------------
(* The live turn without its marker *)

LEMMA StrippedTurn ==
  ASSUME NEW m, IsMessage(m)
  PROVE  /\ StripMarker(m).role = m.role /\ StripMarker(m).readable = m.readable
         /\ IsMessage(StripMarker(m))
         /\ DOMAIN m.blocks # {} => DOMAIN StripMarker(m).blocks # {}
         /\ DOMAIN StripMarker(m).blocks \subseteq DOMAIN m.blocks
         /\ \A b \in DOMAIN StripMarker(m).blocks :
              /\ StripMarker(m).blocks[b].type = m.blocks[b].type
              /\ StripMarker(m).blocks[b].tool = m.blocks[b].tool
         /\ \A b \in DOMAIN m.blocks :
              m.blocks[b].type # "text" => b \in DOMAIN StripMarker(m).blocks
<1> DEFINE Left(b) == Strip[m.blocks[b].text]
           kept == {b \in DOMAIN m.blocks : m.blocks[b].type = "text" => Left(b) \notin Blanks}
           bs == [b \in kept |-> IF m.blocks[b].type = "text"
                                 THEN [m.blocks[b] EXCEPT !.text = Left(b)]
                                 ELSE m.blocks[b]]
<1>1. CASE kept = {}
  <2>1. StripMarker(m) = m
    BY <1>1 DEF StripMarker
  <2> QED
    BY <2>1
<1>2. CASE kept # {}
  <2>1. StripMarker(m) = SetBlocks(m, bs)
    BY <1>2 DEF StripMarker
  <2>2. /\ StripMarker(m).role = m.role /\ StripMarker(m).readable = m.readable
        /\ StripMarker(m).blocks = bs
    BY <2>1 DEF SetBlocks
  <2>3. ASSUME NEW b \in kept
        PROVE  /\ bs[b] \in Block /\ b \in DOMAIN m.blocks
               /\ bs[b].type = m.blocks[b].type /\ bs[b].tool = m.blocks[b].tool
    <3>1. b \in DOMAIN m.blocks /\ m.blocks[b] \in Block
      BY <2>3 DEF IsMessage
    <3>2. Left(b) \in Texts
      BY <3>1 DEF Block
    <3>3. bs[b] = IF m.blocks[b].type = "text"
                  THEN [m.blocks[b] EXCEPT !.text = Left(b)]
                  ELSE m.blocks[b]
      BY <2>3
    <3> HIDE DEF Left, bs
    <3> QED
      BY <3>1, <3>2, <3>3 DEF Block
  <2>4. DOMAIN bs = kept /\ kept \subseteq DOMAIN m.blocks
    OBVIOUS
  <2>5. \A b \in DOMAIN m.blocks : m.blocks[b].type # "text" => b \in kept
    OBVIOUS
  <2> HIDE DEF kept, bs
  <2>6. IsMessage(StripMarker(m))
    BY <2>2, <2>3, <2>4 DEF IsMessage
  <2> QED
    BY <1>2, <2>2, <2>3, <2>4, <2>5, <2>6
<1> QED
  BY <1>1, <1>2

LEMMA StrippedPrompt ==
  ASSUME NEW c, Prompt(c), Overrides(c)
  PROVE  /\ Prompt(StripLiveTurn(c)) /\ DOMAIN StripLiveTurn(c) = DOMAIN c
         /\ LastIndex(StripLiveTurn(c)) = LastIndex(c)
         /\ \A i \in DOMAIN c : i # LastIndex(c) => StripLiveTurn(c)[i] = c[i]
<1> DEFINE d == StripLiveTurn(c)
           l == LastIndex(c)
<1>a. l \in DOMAIN c /\ l \in Nat /\ DOMAIN c = 0..l /\ DOMAIN c \subseteq Nat
  BY DEF Prompt
<1>b. DOMAIN d = DOMAIN c /\ d[l] = StripMarker(c[l]) /\ \A i \in DOMAIN c \ {l} : d[i] = c[i]
  BY <1>a DEF StripLiveTurn
<1>c. \A i \in DOMAIN c : IsMessage(c[i])
  BY DEF Prompt, IsConversation
<1> HIDE DEF d, l
<1>1. LastIndex(d) = l
  <2>1. l \in DOMAIN d /\ DOMAIN d \subseteq Nat /\ \A k \in DOMAIN d : k <= l
    BY <1>a, <1>b
  <2> QED
    BY <2>1, LastIndexIs
<1>d. ASSUME NEW i \in DOMAIN c
      PROVE  /\ d[i].role = c[i].role /\ d[i].readable = c[i].readable /\ IsMessage(d[i])
             /\ DOMAIN c[i].blocks # {} => DOMAIN d[i].blocks # {}
             /\ DOMAIN d[i].blocks \subseteq DOMAIN c[i].blocks
             /\ \A b \in DOMAIN d[i].blocks :
                  d[i].blocks[b].type = c[i].blocks[b].type /\ d[i].blocks[b].tool = c[i].blocks[b].tool
             /\ \A b \in DOMAIN c[i].blocks :
                  c[i].blocks[b].type # "text" => b \in DOMAIN d[i].blocks
  <2>1. CASE i = l
    BY <1>a, <1>b, <1>c, <2>1, StrippedTurn
  <2>2. CASE i # l
    BY <1>b, <1>c, <2>2
  <2> QED
    BY <2>1, <2>2
<1>2. IsConversation(d)
  BY <1>a, <1>b, <1>d DEF IsConversation
<1>e. ASSUME NEW types, "text" \notin types, NEW p
      PROVE  /\ p \in BlocksOfType(d, types) <=> p \in BlocksOfType(c, types)
             /\ p \in BlocksOfType(c, types) =>
                  TypeOf(d, p) = TypeOf(c, p) /\ ToolOf(d, p) = ToolOf(c, p)
  <2>1. p[1] \in DOMAIN c /\ p[2] \in DOMAIN d[p[1]].blocks =>
          /\ TypeOf(d, p) = TypeOf(c, p) /\ ToolOf(d, p) = ToolOf(c, p)
          /\ p[2] \in DOMAIN c[p[1]].blocks
    BY <1>d DEF TypeOf, ToolOf
  <2>2. p[1] \in DOMAIN c /\ p[2] \in DOMAIN c[p[1]].blocks /\ TypeOf(c, p) # "text" =>
          p[2] \in DOMAIN d[p[1]].blocks
    BY <1>d DEF TypeOf
  <2> QED
    BY <1>b, <1>e, <2>1, <2>2, BlockPositions
<1>f. "text" \notin {"tool_use", "tool_result"} /\ "text" \notin {"tool_use"}
  OBVIOUS
<1>3. \A p \in Tools(c) : TypeOf(d, p) = TypeOf(c, p) /\ ToolOf(d, p) = ToolOf(c, p)
  BY <1>e, <1>f DEF Tools
<1>4. \A p : p \in Tools(d) <=> p \in Tools(c)
  BY <1>e, <1>f DEF Tools
<1>5. ToolsPaired(d)
  <2>1. ASSUME NEW p \in Tools(d), TypeOf(d, p) = "tool_result"
        PROVE  ResultAnswers(d, p)
    <3>1. ResultAnswers(c, p)
      BY <1>3, <1>4, <2>1, PairedMeans DEF Prompt
    <3>2. PICK q \in Tools(c) : IsLastBefore(c, q, p) /\ TypeOf(c, q) = "tool_use"
      BY <3>1 DEF ResultAnswers
    <3>3. IsLastBefore(d, q, p)
      BY <1>3, <1>4, <2>1, <3>2 DEF IsLastBefore
    <3> QED
      BY <1>3, <1>4, <3>2, <3>3 DEF ResultAnswers
  <2>2. ASSUME NEW p \in Tools(d), TypeOf(d, p) = "tool_use"
        PROVE  UseIsAnswered(d, p)
    <3>1. UseIsAnswered(c, p)
      BY <1>3, <1>4, <2>2, PairedMeans DEF Prompt
    <3> QED
      BY <1>3, <1>4, <2>2, <3>1 DEF UseIsAnswered
  <2> QED
    BY <2>1, <2>2, PairedMeans
<1>6. UniqueCalls(d)
  <2>1. ASSUME NEW p \in BlocksOfType(d, {"tool_use"})
        PROVE  p \in BlocksOfType(c, {"tool_use"}) /\ ToolOf(d, p) = ToolOf(c, p)
    BY <1>e, <1>f
  <2> QED
    BY <2>1 DEF UniqueCalls, Prompt
<1>7. QuietNotices(d)
  <2>1. \A i \in DOMAIN c : d[i].role = "assistant" => d[i] = c[i]
    BY <1>b, <1>d DEF Prompt, l
  <2> QED
    BY <1>b, <1>d, <2>1 DEF QuietNotices, Prompt
<1>8. /\ d[0].role = "user" /\ d[l].role = "user"
      /\ \A i \in DOMAIN d : d[i].readable
      /\ \A i \in DOMAIN d : d[i].role = "user" =>
           DOMAIN d[i].blocks # {} /\ \A b \in DOMAIN d[i].blocks : d[i].blocks[b].type # "tool_use"
      /\ \A i \in DOMAIN d : d[i].role = "assistant" => i - 1 \in DOMAIN d /\ d[i - 1].role = "user"
  BY <1>a, <1>b, <1>d DEF Prompt, l
<1> QED
  BY <1>1, <1>2, <1>5, <1>6, <1>7, <1>8, <1>a, <1>b DEF Prompt, d, l

(* What is forwarded, before sanitizing: the history is as it was. *)
LEMMA ForwardedPrompt ==
  ASSUME NEW c, Prompt(c)
  PROVE  /\ Prompt(ToForward(c)) /\ DOMAIN ToForward(c) = DOMAIN c
         /\ LastIndex(ToForward(c)) = LastIndex(c)
         /\ \A i \in DOMAIN c : i # LastIndex(c) => ToForward(c)[i] = c[i]
         /\ HistorySegments(c) \subseteq Segments(ToForward(c))
         /\ \A s \in Segments(ToForward(c)) : s.msg # LastIndex(c) => s \in HistorySegments(c)
<1> DEFINE d == ToForward(c)
<1>1. /\ Prompt(d) /\ DOMAIN d = DOMAIN c /\ LastIndex(d) = LastIndex(c)
      /\ \A i \in DOMAIN c : i # LastIndex(c) => d[i] = c[i]
  BY StrippedPrompt DEF ToForward
<1> HIDE DEF d
<1>2. ASSUME NEW s, s.msg # LastIndex(c)
      PROVE  s \in Segments(d) <=> s \in Segments(c)
  <2>1. s.msg \in DOMAIN c => d[s.msg] = c[s.msg]
    BY <1>1, <1>2
  <2>2. s.msg \in DOMAIN c => /\ Inspected(d, s.msg, s.block) <=> Inspected(c, s.msg, s.block)
                              /\ SegmentAt(d, s.msg, s.block) = SegmentAt(c, s.msg, s.block)
    BY <2>1 DEF Inspected, SegmentAt
  <2> QED
    BY <1>1, <2>1, <2>2, SegmentOrigin
<1>3. \A s : s \in HistorySegments(c) <=> s \in Segments(c) /\ s.msg # LastIndex(c)
  BY DEF HistorySegments, LiveSegments
<1> QED
  BY <1>1, <1>2, <1>3 DEF d

-----------------------------------------------------------------------------
(* Requests *)

(* Some segment is the first. *)
LEMMA FirstOfSome ==
  ASSUME NEW c, IsConversation(c), NEW S \in SUBSET Segments(c), S # {}
  PROVE  FirstOf(S) # {}
<1>a. ASSUME NEW s \in S
      PROVE  s.msg \in Nat /\ s.block \in Nat \cup {-1} /\ s = SegmentAt(c, s.msg, s.block)
  <2>1. s \in Segment
    BY SegmentsTyped
  <2>2. s = SegmentAt(c, s.msg, s.block)
    BY SegmentOrigin
  <2> QED
    BY <2>1, <2>2 DEF Segment, Whole
<1> DEFINE I == {s.msg : s \in S}
<1>1. I \in SUBSET Nat /\ I # {}
  BY <1>a
<1>2. PICK i \in I : \A k \in I : i <= k
  BY <1>1, LeastIndex
<1> DEFINE B == {s.block + 1 : s \in {x \in S : x.msg = i}}
<1>3. B \in SUBSET Nat
  <2> SUFFICES ASSUME NEW s \in S
               PROVE  s.block + 1 \in Nat
    OBVIOUS
  <2> QED
    BY <1>a
<1>4. B # {}
  BY <1>2
<1>5. PICK b \in B : \A k \in B : b <= k
  BY <1>3, <1>4, LeastIndex
<1>6. PICK s \in S : s.msg = i /\ b = s.block + 1
  BY <1>5
<1>7. ASSUME NEW t \in S \ {s}
      PROVE  Precedes(<<s.msg, s.block>>, <<t.msg, t.block>>)
  <2>1. /\ s.msg \in Nat /\ t.msg \in Nat /\ s.block \in Int /\ t.block \in Int
        /\ s = SegmentAt(c, s.msg, s.block) /\ t = SegmentAt(c, t.msg, t.block)
    BY <1>a
  <2>2. s.msg <= t.msg
    BY <1>2, <1>6
  <2>3. CASE s.msg = t.msg
    <3>1. s.block # t.block
      BY <2>1, <2>3
    <3>2. t.block + 1 \in B
      BY <1>6, <2>3
    <3>3. s.block + 1 <= t.block + 1
      BY <1>5, <1>6, <3>2
    <3> QED
      BY <2>1, <2>3, <3>1, <3>3 DEF Precedes
  <2> QED
    BY <2>1, <2>2, <2>3 DEF Precedes
<1> QED
  BY <1>7 DEF FirstOf

(* What the evaluation did not stop at. *)
LEMMA NotBlocked ==
  ASSUME NEW c, IsConversation(c), NEW off, BlockedBy(c, off) = {}
  PROVE  /\ ToSanitize(c, off) \subseteq HistorySegments(c)
         /\ \A s \in HistorySegments(c) : s.text \in Sensitive => s \in ToSanitize(c, off)
         /\ ~Overrides(c) => \A s \in LiveSegments(c) : s.text \notin Sensitive
         /\ off = {} => \A s \in ToSanitize(c, off) : s.text \in Sensitive
<1> DEFINE live == Judged(LiveSegments(c), off) \cup Unjudged(LiveSegments(c), off)
<1>1. ToSanitize(c, off) \subseteq HistorySegments(c)
  BY DEF ToSanitize, Judged, Unjudged
<1>2. ASSUME ~Overrides(c)
      PROVE  live = {} /\ Unjudged(HistorySegments(c), off) = {}
  <2>1. live \in SUBSET Segments(c)
    BY DEF Judged, Unjudged, LiveSegments
  <2>2. live # {} => FirstOf(live) # {}
    BY <2>1, FirstOfSome
  <2> QED
    BY <1>2, <2>2 DEF BlockedBy
<1>3. ~Overrides(c) => \A s \in LiveSegments(c) : s.text \notin Sensitive
  BY <1>2 DEF Judged, Unjudged
<1>4. ASSUME NEW s \in HistorySegments(c), s.text \in Sensitive
      PROVE  s \in ToSanitize(c, off)
  <2>1. CASE Overrides(c)
    BY <1>4, <2>1 DEF ToSanitize, Judged, Unjudged
  <2>2. CASE ~Overrides(c)
    BY <1>2, <1>4, <2>2 DEF ToSanitize, Judged, Unjudged
  <2> QED
    BY <2>1, <2>2
<1>5. off = {} => \A s \in ToSanitize(c, off) : s.text \in Sensitive
  BY DEF ToSanitize, Judged, Unjudged
<1> QED
  BY <1>1, <1>3, <1>4, <1>5

(* The body of a request that is let through. *)
LetThrough(c, off, b) ==
  /\ BlockedBy(c, off) = {}
  /\ IF ToSanitize(c, off) = {}
     THEN b = ToForward(c)
     ELSE CanSanitize(ToForward(c), ToSanitize(c, off))
          /\ b = Sanitized(ToForward(c), ToSanitize(c, off))

LEMMA LetThroughSegments ==
  ASSUME NEW c, Prompt(c), NEW off, NEW b, LetThrough(c, off, b)
  PROVE  Segments(b) = Segments(ToForward(c)) \ ToSanitize(c, off)
<1>1. ToSanitize(c, off) \in SUBSET Segments(ToForward(c))
  BY NotBlocked, ForwardedPrompt DEF LetThrough, Prompt
<1> QED
  BY <1>1, SanitizedLosesNoMore DEF LetThrough

LEMMA SecretsLeaveMarked ==
  ASSUME NEW c, Prompt(c), NEW off, NEW b, LetThrough(c, off, b),
         NEW s \in Segments(b), s.text \in Sensitive
  PROVE  s.msg = LastIndex(c) /\ Overrides(c)
<1>a. IsConversation(c) /\ BlockedBy(c, off) = {}
  BY DEF Prompt, LetThrough
<1>1. s \in Segments(ToForward(c)) /\ s \notin ToSanitize(c, off)
  BY LetThroughSegments
<1>2. s.msg = LastIndex(c)
  <2> SUFFICES ASSUME s.msg # LastIndex(c)
               PROVE  FALSE
    OBVIOUS
  <2>1. s \in HistorySegments(c)
    BY <1>1, ForwardedPrompt
  <2> QED
    BY <1>a, <1>1, <2>1, NotBlocked
<1>3. Overrides(c)
  <2> SUFFICES ASSUME ~Overrides(c)
               PROVE  FALSE
    OBVIOUS
  <2>1. s \in LiveSegments(c)
    BY <1>1, <1>2 DEF ToForward, LiveSegments
  <2> QED
    BY <1>a, <2>1, NotBlocked
<1> QED
  BY <1>2, <1>3

LEMMA AcceptedByUpstream ==
  ASSUME NEW c, Prompt(c), NEW off, NEW b, LetThrough(c, off, b)
  PROVE  ValidStructure(b)
<1> DEFINE d == ToForward(c)
<1>1. Prompt(d)
  BY ForwardedPrompt
<1> HIDE DEF d
<1>2. ValidStructure(d)
  <2>1. LastIndex(d) \in Nat /\ DOMAIN d = 0..LastIndex(d) /\ d[0].role = "user" /\ ToolsPaired(d)
    BY <1>1 DEF Prompt
  <2>2. 0 \in DOMAIN d /\ DOMAIN d \subseteq Nat /\ \A k \in DOMAIN d : 0 <= k
    BY <2>1
  <2>3. FirstIndex(d) = 0
    BY <2>2, FirstIndexIs
  <2> QED
    BY <2>1, <2>2, <2>3 DEF ValidStructure
<1> QED
  BY <1>2 DEF LetThrough, CanSanitize, d

LEMMA NoticeStandsBehind ==
  ASSUME NEW c, Prompt(c), NEW off, NEW b, LetThrough(c, off, b),
         NEW i \in DOMAIN b, b[i] = Notice
  PROVE  i - 1 \in DOMAIN b
<1> DEFINE d == ToForward(c)
           ngs == ToSanitize(c, off)
<1>1. Prompt(d)
  BY ForwardedPrompt
<1> HIDE DEF d, ngs
<1>2. CASE ngs = {}
  <2>1. b = d
    BY <1>2 DEF LetThrough, d, ngs
  <2> QED
    BY <1>1, <2>1 DEF Prompt
<1>3. CASE ngs # {}
  <2>1. b = Sanitized(d, ngs)
    BY <1>3 DEF LetThrough, d, ngs
  <2>2. /\ i \in DOMAIN d /\ i \notin NoticesDropped(d, ngs)
        /\ b[i] = SetBlocks(d[i], [k \in KeptBlocks(d, ngs, i) |-> d[i].blocks[k]])
    BY <2>1 DEF Sanitized
  <2>3. d[i].role = "assistant" /\ d[i].readable = Notice.readable
        /\ Notice.blocks = [k \in KeptBlocks(d, ngs, i) |-> d[i].blocks[k]]
    BY <2>2 DEF SetBlocks
  <2>4. HasBlockNotice(d[i])
    <3>1. PICK k \in DOMAIN Notice.blocks :
               /\ Notice.blocks[k].type \in {"text", "tool_result"}
               /\ Notice.blocks[k].text \in Notices
      BY DEF HasBlockNotice
    <3>2. k \in DOMAIN d[i].blocks /\ Notice.blocks[k] = d[i].blocks[k]
      BY <2>3, <3>1 DEF KeptBlocks
    <3>3. d[i].readable
      BY <2>3 DEF HasBlockNotice
    <3> QED
      BY <3>1, <3>2, <3>3 DEF HasBlockNotice
  <2>5. i - 1 \in DOMAIN d /\ d[i - 1].role = "user"
    BY <1>1, <2>2, <2>3 DEF Prompt
  <2>6. i - 1 \notin Emptied(d, ngs)
    BY <2>2, <2>3, <2>4 DEF NoticesDropped
  <2>7. i - 1 \notin NoticesDropped(d, ngs)
    BY <2>5 DEF NoticesDropped
  <2> QED
    BY <2>1, <2>5, <2>6, <2>7 DEF Sanitized
<1> QED
  BY <1>2, <1>3

(* A history that cannot be sanitized opened with what a bypass let        *)
(* through: the first message that is left is a reply, not a notice, and   *)
(* all the turns before it went.                                           *)
LEMMA UnsanitizableOpening ==
  ASSUME NEW c, Prompt(c), BlockedBy(c, {}) = {}, ~CanSanitize(ToForward(c), ToSanitize(c, {}))
  PROVE  \E i \in DOMAIN c :
           /\ c[i].role = "assistant" /\ c[i] # Notice
           /\ \A k \in DOMAIN c : k < i /\ c[k].role = "user" =>
                \A b \in DOMAIN c[k].blocks : Normalized(c[k].blocks[b]) \in Sensitive
<1> DEFINE d == ToForward(c)
           ngs == ToSanitize(c, {})
           e == Sanitized(d, ngs)
           l == LastIndex(c)
<1>a. /\ Prompt(d) /\ DOMAIN d = DOMAIN c /\ LastIndex(d) = l
      /\ \A i \in DOMAIN c : i # l => d[i] = c[i]
  BY ForwardedPrompt
<1>b. ngs \subseteq HistorySegments(c) /\ HistorySegments(c) \subseteq Segments(d)
      /\ \A s \in ngs : s.text \in Sensitive
  BY ForwardedPrompt, NotBlocked DEF Prompt
<1>c. \A s \in ngs : s.msg # l /\ s \in Segments(d) /\ s.text \in Sensitive
  BY <1>b DEF HistorySegments, LiveSegments
<1> HIDE DEF d, ngs, l
<1>d. /\ l \in DOMAIN d /\ DOMAIN d \subseteq Nat /\ \A k \in DOMAIN d : k <= l
      /\ d[l].role = "user" /\ IsConversation(d)
  BY <1>a DEF Prompt
<1>1. ToolsPaired(e)
  <2>1. ngs \in SUBSET Segments(d)
    BY <1>c
  <2> QED
    BY <1>a, <2>1, PairsGoTogether DEF Prompt
<1>2. ASSUME NEW k \in DOMAIN d, d[k].role = "user", NEW b \in DOMAIN d[k].blocks,
             <<k, b>> \in DroppedBlocks(d, ngs)
      PROVE  \E s \in ngs : s.msg = k /\ s.block = b
  <2>1. ASSUME NEW id
        PROVE  <<k, b>> \notin ToolUse(d, id)
    <3>1. d[k].blocks[b].type # "tool_use"
      BY <1>a, <1>2 DEF Prompt
    <3> QED
      BY <3>1 DEF ToolUse, BlocksOfType
  <2> QED
    BY <1>2, <2>1 DEF DroppedBlocks
<1>3. l \in DOMAIN e
  <2>1. PICK b : b \in DOMAIN d[l].blocks
    BY <1>a, <1>d DEF Prompt
  <2>2. b \in KeptBlocks(d, ngs, l)
    BY <1>2, <1>c, <1>d, <2>1 DEF KeptBlocks
  <2> QED
    BY <1>d, <2>2 DEF Sanitized, Emptied, NoticesDropped
<1>4. DOMAIN e \subseteq DOMAIN d
  BY DEF Sanitized
<1> DEFINE i == FirstIndex(e)
<1>5. i \in DOMAIN e /\ \A k \in DOMAIN e : i <= k
  BY <1>3, <1>4, <1>d, FirstIndexIsLeast
<1>6. e[i].role # "user"
  <2>1. ~ValidStructure(e)
    BY <1>a DEF CanSanitize, Prompt, d, ngs
  <2> QED
    BY <1>1, <1>3, <2>1 DEF ValidStructure
<1> HIDE DEF i
<1>7. i \in DOMAIN d /\ i \notin NoticesDropped(d, ngs) /\ d[i].role = "assistant"
  <2>1. /\ i \in DOMAIN d /\ i \notin NoticesDropped(d, ngs)
        /\ e[i] = SetBlocks(d[i], [k \in KeptBlocks(d, ngs, i) |-> d[i].blocks[k]])
    BY <1>5 DEF Sanitized
  <2>2. d[i].role # "user"
    BY <1>6, <2>1 DEF SetBlocks
  <2>3. d[i].role \in {"user", "assistant"}
    BY <1>d, <2>1 DEF IsConversation, IsMessage, Roles
  <2> QED
    BY <2>1, <2>2, <2>3
<1>8. i # l /\ d[i] = c[i] /\ i <= l /\ i \in Nat /\ l \in Nat
  BY <1>a, <1>d, <1>7
<1>9. ASSUME NEW k \in DOMAIN d, k < i, d[k].role = "user"
      PROVE  k \in Emptied(d, ngs)
  <2>1. k \notin DOMAIN e
    BY <1>5, <1>8, <1>9, <1>d
  <2> QED
    BY <1>9, <2>1 DEF Sanitized, NoticesDropped
<1>10. c[i] # Notice
  <2> SUFFICES ASSUME d[i] = Notice
               PROVE  FALSE
    BY <1>8
  <2>1. i - 1 \in DOMAIN d /\ d[i - 1].role = "user"
    BY <1>a, <1>7 DEF Prompt
  <2>2. i - 1 \in Emptied(d, ngs)
    BY <1>8, <1>9, <2>1
  <2> QED
    BY <1>7, <2>2 DEF NoticesDropped
<1>11. ASSUME NEW k \in DOMAIN c, k < i, c[k].role = "user", NEW b \in DOMAIN c[k].blocks
       PROVE  Normalized(c[k].blocks[b]) \in Sensitive
  <2>1. k \in DOMAIN d /\ k \in Nat
    BY <1>a, <1>d
  <2>2. k # l
    BY <1>8, <1>11, <2>1
  <2>3. d[k] = c[k]
    BY <1>a, <2>2
  <2>4. <<k, b>> \in DroppedBlocks(d, ngs)
    BY <1>9, <1>11, <2>1, <2>3 DEF Emptied, KeptBlocks
  <2>5. PICK s \in ngs : s.msg = k /\ s.block = b
    BY <1>2, <1>11, <2>1, <2>3, <2>4
  <2>6. s = SegmentAt(d, k, b)
    BY <1>c, <2>5, SegmentOrigin
  <2> QED
    BY <1>c, <2>3, <2>5, <2>6 DEF SegmentAt
<1> QED
  BY <1>a, <1>7, <1>8, <1>10, <1>11

-----------------------------------------------------------------------------
(* Sessions *)

SessionInv ==
  /\ HistoryInv
  /\ MarkedSecretsLeaveOnce /\ HarmlessTurnsGoOn /\ HarmlessHistoryArrives
  /\ UpstreamAccepts /\ NoticesKeepTheirTurn

(* What was not sent breaks nothing. *)
LEMMA NothingSent ==
  ASSUME body' = NoMessages, result' # "forwarded"
  PROVE  /\ MarkedSecretsLeaveOnce' /\ HarmlessHistoryArrives'
         /\ UpstreamAccepts' /\ NoticesKeepTheirTurn'
<1>1. DOMAIN body' = {} /\ Segments(body') = {}
  BY DEF NoMessages, Segments
<1> QED
  BY <1>1 DEF MarkedSecretsLeaveOnce, HarmlessHistoryArrives, UpstreamAccepts,
     NoticesKeepTheirTurn

LEMMA SessionStarts == Init => SessionInv
<1> SUFFICES ASSUME Init
             PROVE  SessionInv
  OBVIOUS
<1>1. Dialogue(history, 0)
  BY DEF Init, NoMessages, Dialogue
<1>2. HistoryInv
  BY <1>1 DEF HistoryInv
<1>3. HarmlessTurnsGoOn
  BY DEF Init, HarmlessTurnsGoOn, HarmlessTurn
<1>4. DOMAIN body = {} /\ Segments(body) = {} /\ result # "forwarded"
  BY DEF Init, NoMessages, Segments
<1> QED
  BY <1>2, <1>3, <1>4 DEF SessionInv, MarkedSecretsLeaveOnce, HarmlessHistoryArrives,
     UpstreamAccepts, NoticesKeepTheirTurn

(* A turn the client may take makes a prompt of its history. *)
LEMMA TurnIsPrompt ==
  ASSUME HistoryInv, NEW m \in Turns
  PROVE  /\ Prompt(With(history, m))
         /\ \E n \in Nat : Dialogue(With(history, m), n + 1) /\ With(history, m)[n].role = "user"
<1>1. PICK n \in Nat : Dialogue(history, n) /\ (n > 0 => history[n - 1].role = "assistant")
  BY DEF HistoryInv
<1>2. m \in Messages /\ m.role = "user" /\ Called(m) = {} /\ Answered(m) = OpenTools(history)
  BY DEF Turns, Messages
<1>3. DOMAIN history = 0..(n - 1) /\ LastIndex(history) = n - 1
  BY <1>1, LastOfDialogue DEF Dialogue
<1>4. n = 0 => m.role = "user" /\ Answered(m) = {}
  BY <1>2, <1>3 DEF OpenTools
<1>5. n > 0 => m.role # history[n - 1].role
               /\ (m.role = "user" => Answered(m) = Called(history[n - 1]))
  BY <1>1, <1>2, <1>3 DEF OpenTools
<1>6. \A i \in DOMAIN history : Called(m) \cap Called(history[i]) = {}
  BY <1>2
<1>7. Dialogue(With(history, m), n + 1) /\ With(history, m)[n] = m
  BY <1>1, <1>2, <1>4, <1>5, <1>6, DialogueGrows
<1>8. n + 1 > 0 /\ (n + 1) - 1 = n
  OBVIOUS
<1>9. Prompt(With(history, m))
  BY <1>2, <1>7, <1>8, DialogueIsPrompt
<1> QED
  BY <1>2, <1>7, <1>9

LEMMA AnswerIsHistory ==
  ASSUME NEW c, NEW n \in Nat, Dialogue(c, n + 1), c[n].role = "user",
         NEW a \in Messages, a.role = "assistant",
         \A i \in DOMAIN c : Called(a) \cap Called(c[i]) = {},
         history' = With(c, a)
  PROVE  HistoryInv'
<1>1. n + 1 > 0 /\ (n + 1) - 1 = n /\ n + 1 # 0 /\ ((n + 1) + 1) - 1 = n + 1 /\ (n + 1) + 1 \in Nat
  OBVIOUS
<1>2. Dialogue(With(c, a), (n + 1) + 1) /\ With(c, a)[n + 1] = a
  BY <1>1, DialogueGrows
<1> QED
  BY <1>1, <1>2 DEF HistoryInv

LEMMA RefuseKeeps ==
  ASSUME SessionInv, NEW m \in Turns, NEW off, NEW c, c = With(history, m),
         asked' = c, down' = off, RefuseTurn(c, off) \/ RefuseHistory(c, off)
  PROVE  SessionInv'
<1>a. Prompt(c) /\ \E n \in Nat : Dialogue(c, n + 1) /\ c[n].role = "user"
  BY TurnIsPrompt DEF SessionInv
<1>1. PICK why : Refuse(c, why) /\ why # "forwarded"
  BY DEF RefuseTurn, RefuseHistory
<1>2. body' = NoMessages /\ result' # "forwarded" /\ history' = With(c, Notice)
  BY <1>1 DEF Refuse, AnsweredLocally
<1>3. HistoryInv'
  <2>1. PICK n \in Nat : Dialogue(c, n + 1) /\ c[n].role = "user"
    BY <1>a
  <2>2. \A i \in DOMAIN c : Called(Notice) \cap Called(c[i]) = {}
    OBVIOUS
  <2>3. Notice \in Messages /\ Notice.role = "assistant"
    BY DEF Messages
  <2> QED
    BY <1>2, <2>1, <2>2, <2>3, AnswerIsHistory
<1>4. HarmlessTurnsGoOn'
  <2> SUFFICES ASSUME HarmlessTurn'
               PROVE  BypassedOpening'
    BY DEF HarmlessTurnsGoOn
  <2>1. off = {} /\ \A s \in LiveSegments(c) : s.text \notin Sensitive
    BY DEF HarmlessTurn, SensitiveIn, LiveIndex, LiveSegments
  <2>2. BlockedBy(c, off) = {}
    BY <2>1 DEF BlockedBy, Judged, Unjudged
  <2>3. ~CanSanitize(ToForward(c), ToSanitize(c, off))
    BY <2>2 DEF RefuseTurn, RefuseHistory
  <2> QED
    BY <1>a, <2>1, <2>2, <2>3, UnsanitizableOpening DEF BypassedOpening
<1>5. MarkedSecretsLeaveOnce' /\ HarmlessHistoryArrives' /\ UpstreamAccepts' /\ NoticesKeepTheirTurn'
  BY <1>2, NothingSent
<1> QED
  BY <1>3, <1>4, <1>5 DEF SessionInv

LEMMA ForwardKeeps ==
  ASSUME SessionInv, NEW m \in Turns, NEW off, NEW c, c = With(history, m),
         asked' = c, down' = off, Forward(c, off)
  PROVE  SessionInv'
<1>a. Prompt(c) /\ \E n \in Nat : Dialogue(c, n + 1) /\ c[n].role = "user"
  BY TurnIsPrompt DEF SessionInv
<1>b. LetThrough(c, off, body') /\ result' = "forwarded"
  BY DEF Forward, LetThrough
<1>1. HistoryInv'
  <2>1. CASE history' = history
    BY <2>1 DEF SessionInv, HistoryInv, Dialogue
  <2>2. CASE history' # history
    <3>1. PICK a \in Replies :
               /\ history' = With(c, a)
               /\ \A i \in DOMAIN c : Called(a) \cap Called(c[i]) = {}
      BY <2>2 DEF Forward
    <3>2. PICK n \in Nat : Dialogue(c, n + 1) /\ c[n].role = "user"
      BY <1>a
    <3>3. a \in Messages /\ a.role = "assistant"
      BY DEF Messages
    <3> QED
      BY <3>1, <3>2, <3>3, AnswerIsHistory
  <2> QED
    BY <2>1, <2>2
<1>2. MarkedSecretsLeaveOnce'
  <2> SUFFICES ASSUME NEW s \in Segments(body'), s.text \in Sensitive
               PROVE  s.msg = LastIndex(c) /\ s.msg \in MarkedTurns'
    BY DEF MarkedSecretsLeaveOnce, LiveIndex
  <2>1. s.msg = LastIndex(c) /\ Overrides(c)
    BY <1>a, <1>b, SecretsLeaveMarked
  <2>2. LastIndex(c) \in DOMAIN c
    BY <1>a DEF Prompt
  <2> QED
    BY <2>1, <2>2 DEF MarkedTurns, Overrides, ContainsMarker
<1>3. HarmlessTurnsGoOn'
  BY <1>b DEF HarmlessTurnsGoOn
<1>4. HarmlessHistoryArrives'
  <2> SUFFICES ASSUME off = {}, NEW s \in Segments(ToForward(c)), s.text \notin Sensitive
               PROVE  s \in Segments(body')
    BY DEF HarmlessHistoryArrives
  <2>1. s \notin ToSanitize(c, off)
    BY <1>a, <1>b, NotBlocked DEF LetThrough, Prompt
  <2> QED
    BY <1>a, <1>b, <2>1, LetThroughSegments
<1>5. UpstreamAccepts'
  BY <1>a, <1>b, AcceptedByUpstream DEF UpstreamAccepts
<1>6. NoticesKeepTheirTurn'
  BY <1>a, <1>b, NoticeStandsBehind DEF NoticesKeepTheirTurn
<1> QED
  BY <1>1, <1>2, <1>3, <1>4, <1>5, <1>6 DEF SessionInv

LEMMA ClearKeeps == SessionInv /\ Clear => SessionInv'
<1> SUFFICES ASSUME SessionInv, Clear
             PROVE  SessionInv'
  OBVIOUS
<1>1. Dialogue(history', 0)
  BY DEF Clear, NoMessages, Dialogue
<1>2. HistoryInv'
  BY <1>1 DEF HistoryInv
<1> QED
  BY <1>2 DEF Clear, SessionInv, MarkedSecretsLeaveOnce, HarmlessTurnsGoOn,
     HarmlessHistoryArrives, UpstreamAccepts, NoticesKeepTheirTurn, HarmlessTurn, BypassedOpening,
     LiveIndex, MarkedTurns

THEOREM SessionInvariant == Spec => []SessionInv
<1>1. Init => SessionInv
  BY SessionStarts
<1>2. SessionInv /\ [Next]_vars => SessionInv'
  <2> SUFFICES ASSUME SessionInv, [Next]_vars
               PROVE  SessionInv'
    OBVIOUS
  <2>1. ASSUME NEW m \in Turns, NEW off \in Outages, Exchange(m, off)
        PROVE  SessionInv'
    <3> DEFINE c == With(history, m)
    <3>1. /\ asked' = c /\ down' = off
          /\ RefuseTurn(c, off) \/ RefuseHistory(c, off) \/ Forward(c, off)
      BY <2>1 DEF Exchange
    <3> HIDE DEF c
    <3>2. c = With(history, m)
      BY DEF c
    <3> QED
      BY <3>1, <3>2, RefuseKeeps, ForwardKeeps
  <2>2. CASE UNCHANGED vars
    BY <2>2 DEF vars, SessionInv, HistoryInv, Dialogue, MarkedSecretsLeaveOnce,
       HarmlessTurnsGoOn, HarmlessHistoryArrives, UpstreamAccepts, NoticesKeepTheirTurn,
       HarmlessTurn, BypassedOpening, LiveIndex, MarkedTurns
  <2> QED
    BY <2>1, <2>2, ClearKeeps DEF Next
<1> QED
  BY <1>1, <1>2, PTL DEF Spec

(* A sensitive text leaves with the turn whose author marked it, and never *)
(* again, however many turns are blocked, bypassed, unavailable or failed. *)
THEOREM MarkedSecretsAreSentOnce == Spec => []MarkedSecretsLeaveOnce
<1>1. SessionInv => MarkedSecretsLeaveOnce
  BY DEF SessionInv
<1> QED
  BY <1>1, SessionInvariant, PTL

(* What was refused before does not stop a harmless turn, unless the       *)
(* history opens with what a bypass let through.                           *)
THEOREM HarmlessTurnsAreForwarded == Spec => []HarmlessTurnsGoOn
<1>1. SessionInv => HarmlessTurnsGoOn
  BY DEF SessionInv
<1> QED
  BY <1>1, SessionInvariant, PTL

(* Every inspected text that is not sensitive reaches the upstream.        *)
THEOREM HarmlessTextsArrive == Spec => []HarmlessHistoryArrives
<1>1. SessionInv => HarmlessHistoryArrives
  BY DEF SessionInv
<1> QED
  BY <1>1, SessionInvariant, PTL

(* What is forwarded is an array the upstream accepts.                     *)
THEOREM UpstreamTakesIt == Spec => []UpstreamAccepts
<1>1. SessionInv => UpstreamAccepts
  BY DEF SessionInv
<1> QED
  BY <1>1, SessionInvariant, PTL

(* A notice is never forwarded without what is left of its turn.           *)
THEOREM NoticesFollowTurns == Spec => []NoticesKeepTheirTurn
<1>1. SessionInv => NoticesKeepTheirTurn
  BY DEF SessionInv
<1> QED
  BY <1>1, SessionInvariant, PTL
=============================================================================
