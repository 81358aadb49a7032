--------------------------- MODULE Gateway_proofs ---------------------------
(***************************************************************************)
(* What leaves the machine, for every set of requests, texts, rules and    *)
(* conversations and every setting of the proxy.                           *)
(***************************************************************************)
EXTENDS Gateway, Conversation_proofs

USE TextsAssumption, GatewayAssumption

-----------------------------------------------------------------------------
(* Types *)

LEMMA ConversationsTyped ==
  ASSUME NEW c \in Inputs \cup {Unread}
  PROVE  IsConversation(c)
  BY DEF Unread, IsConversation

LEMMA HitTyped ==
  ASSUME NEW key \in Texts, Cache!CacheTypeOK, Cache!Hit(key)
  PROVE  Cache!CacheTypeOK' /\ entries[key] \in Verdict
<1> USE DEF Cache!CacheTypeOK, Cache!Hit, Cache!Cached
<1>1. ll' \in Seq(Texts)
  <2>1. \A i \in 1..Len(ll) : ll[i] \in Texts /\ (i # 1 => i - 1 \in 1..Len(ll))
    OBVIOUS
  <2> QED
    BY <2>1 DEF Cache!MovedToFront
<1> QED
  BY <1>1

LEMMA PutTyped ==
  ASSUME NEW key \in Texts, NEW v \in Verdict, Cache!CacheTypeOK, Cache!Put(key, v)
  PROVE  Cache!CacheTypeOK'
<1> USE DEF Cache!CacheTypeOK
<1>1. CASE Cache!PutDisabled(key, v)
  BY <1>1 DEF Cache!PutDisabled, Cache!cacheVars
<1>2. CASE Cache!PutOver(key, v)
  <2>1. \A i \in 1..Len(ll) : ll[i] \in Texts /\ (i # 1 => i - 1 \in 1..Len(ll))
    OBVIOUS
  <2>2. ll' \in Seq(Texts)
    BY <1>2, <2>1 DEF Cache!PutOver, Cache!MovedToFront
  <2> QED
    BY <1>2, <2>2 DEF Cache!PutOver, Cache!Cached
<1>3. CASE Cache!PutNew(key, v)
  <2> DEFINE pushed == <<key>> \o ll
  <2>1. pushed \in Seq(Texts) /\ Len(pushed) = Len(ll) + 1 /\ Len(ll) \in Nat
    OBVIOUS
  <2>2. /\ SubSeq(pushed, 1, Len(pushed)) \in Seq(Texts)
        /\ SubSeq(pushed, 1, Len(pushed) - 1) \in Seq(Texts)
    BY <2>1
  <2>3. ll' \in Seq(Texts)
    BY <1>3, <2>2 DEF Cache!PutNew
  <2>4. /\ DOMAIN entries' \subseteq DOMAIN entries \cup {key}
        /\ entries' = [k \in DOMAIN entries' |-> IF k = key THEN v ELSE entries[k]]
    BY <1>3 DEF Cache!PutNew
  <2> QED
    BY <2>3, <2>4
<1> QED
  BY <1>1, <1>2, <1>3 DEF Cache!Put

LEMMA InitTyped == Init => TypeOK
  BY DEF Init, TypeOK, Cache!CacheInit, Cache!CacheTypeOK, PCs, Kinds, Reasons, Replies, Event

LEMMA ConcludeTyped ==
  ASSUME TypeOK, NEW r \in Requests, NEW s \in todo[r], NEW v \in Verdict,
         Conclude(r, s, v)
  PROVE  /\ pc' \in [Requests -> PCs]
         /\ todo' \in [Requests -> SUBSET Segment]
         /\ ng' \in [Requests -> SUBSET Segment]
         /\ why' \in [Requests -> Reasons]
<1> USE DEF TypeOK, Conclude
<1>1. CASE Blocks(r, s, v)
  BY <1>1 DEF PCs, Reasons, Verdict
<1>2. CASE ~Blocks(r, s, v)
  BY <1>2 DEF PCs
<1> QED
  BY <1>1, <1>2

LEMMA ArriveTyped ==
  ASSUME TypeOK, NEW r \in Requests, Arrive(r)
  PROVE  TypeOK'
<1>1. ASSUME NEW code \in {"405", "400"}, Reject(r, code)
      PROVE  TypeOK'
  BY <1>1 DEF Reject, Replies, TypeOK, Goto, PCs, Cache!CacheTypeOK, cacheVars
<1>2. CASE Passthrough(r)
  BY <1>2 DEF Passthrough, Kinds, TypeOK, Goto, PCs, Cache!CacheTypeOK, cacheVars
<1>3. ASSUME NEW count \in BOOLEAN, RefuseUnparseable(r, count)
      PROVE  TypeOK'
  BY <1>3 DEF RefuseUnparseable, Kinds, Reasons, TypeOK, Goto, PCs, Cache!CacheTypeOK, cacheVars
<1>4. ASSUME NEW count \in BOOLEAN, ForwardUnparseable(r, count)
      PROVE  TypeOK'
  BY <1>4 DEF ForwardUnparseable, Kinds, TypeOK, Goto, PCs, Cache!CacheTypeOK, cacheVars
<1>5. ASSUME NEW count \in BOOLEAN, NEW c \in Inputs, NEW k \in {"bypass", "inspect"},
             NEW S \in SUBSET Segments(c), Begin(r, c, count, k, S)
      PROVE  TypeOK'
  <2>1. S \in SUBSET Segment
    BY SegmentsTyped, ConversationsTyped
  <2> QED
    BY <1>5, <2>1 DEF Begin, Kinds, TypeOK, Goto, PCs, Cache!CacheTypeOK, cacheVars
<1>6. ASSUME NEW count \in BOOLEAN, NEW c \in Inputs, BeginBypass(r, c, count)
      PROVE  TypeOK'
  <2>1. HistorySegments(c) \in SUBSET Segments(c)
    BY DEF HistorySegments
  <2> QED
    BY <1>5, <1>6, <2>1 DEF BeginBypass
<1>7. ASSUME NEW count \in BOOLEAN, NEW c \in Inputs, BeginInspection(r, c, count)
      PROVE  TypeOK'
  <2>1. Segments(c) \in SUBSET Segments(c)
    OBVIOUS
  <2> QED
    BY <1>5, <1>7, <2>1 DEF BeginInspection
<1> QED
  BY <1>1, <1>2, <1>3, <1>4, <1>6, <1>7 DEF Arrive

LEMMA ClassifyTyped ==
  ASSUME TypeOK, NEW r \in Requests, Classify(r)
  PROVE  TypeOK'
<1> PICK s \in todo[r] :
      \/ CacheHit(r, s)
      \/ CacheMiss(r, s)
      \/ MatchRule(r, s)
      \/ \E sensitive \in BOOLEAN : Judge(r, s, sensitive)
      \/ Unavailable(r, s)
  BY DEF Classify
<1>1. s \in Segment /\ s.text \in Texts
  BY DEF TypeOK, Segment
<1>2. ASSUME NEW v \in Verdict, Conclude(r, s, v), Cache!CacheTypeOK', vetted' \subseteq Texts
      PROVE  TypeOK'
  <2>1. UNCHANGED <<kind, conv, isCount, out, reply, sent, audit>>
    BY <1>2 DEF Conclude
  <2> QED
    BY <1>2, <2>1, ConcludeTyped DEF TypeOK
<1>3. CASE CacheHit(r, s)
  BY <1>1, <1>2, <1>3, HitTyped DEF CacheHit, TypeOK
<1>4. CASE CacheMiss(r, s)
  BY <1>4 DEF CacheMiss, Goto, PCs, TypeOK, Cache!Miss, Cache!cacheVars, Cache!CacheTypeOK
<1>5. CASE MatchRule(r, s)
  <2> DEFINE v == [block |-> TRUE, source |-> "rule"]
  <2>1. v \in Verdict /\ Cache!Put(s.text, v) /\ Conclude(r, s, v)
    BY <1>5 DEF MatchRule, Verdict
  <2> QED
    BY <1>1, <1>2, <1>5, <2>1, PutTyped DEF MatchRule, TypeOK
<1>6. ASSUME NEW sensitive \in BOOLEAN, Judge(r, s, sensitive)
      PROVE  TypeOK'
  <2> DEFINE v == [block |-> sensitive, source |-> "lfm"]
  <2>1. v \in Verdict /\ Cache!Put(s.text, v) /\ Conclude(r, s, v)
    BY <1>6 DEF Judge, Verdict
  <2>2. vetted' \subseteq Texts
    BY <1>1, <1>6 DEF Judge, TypeOK
  <2> QED
    BY <1>1, <1>2, <2>1, <2>2, PutTyped DEF TypeOK
<1>7. CASE Unavailable(r, s)
  <2> DEFINE v == [block |-> FailClosed, source |-> "classifier_unavailable"]
  <2>1. v \in Verdict /\ Conclude(r, s, v)
    BY <1>7 DEF Unavailable, Verdict
  <2> QED
    BY <1>2, <1>7, <2>1 DEF Unavailable, TypeOK, cacheVars, Cache!CacheTypeOK
<1> QED
  BY <1>3, <1>4, <1>5, <1>6, <1>7

LEMMA RecordTyped ==
  ASSUME TypeOK, NEW e \in Event, Record(e)
  PROVE  audit' \subseteq Event
  BY DEF TypeOK, Record

LEMMA FinishTyped ==
  ASSUME TypeOK, NEW r \in Requests, Finish(r)
  PROVE  TypeOK'
<1> USE DEF TypeOK, Goto, PCs, Cache!CacheTypeOK, cacheVars
<1>1. ASSUME NEW b, Approve(r, b)
      PROVE  TypeOK'
  BY <1>1 DEF Approve
<1>2. CASE RefuseHistory(r)
  BY <1>2 DEF RefuseHistory, Reasons
<1>3. CASE RecordBlock(r)
  <2>1. [req |-> r, decision |-> "BLOCK", source |-> why[r], upstream |-> FALSE] \in Event
    BY DEF Event
  <2> QED
    BY <1>3, <2>1, RecordTyped DEF RecordBlock
<1>4. CASE WriteBlock(r)
  BY <1>4 DEF WriteBlock, Replies, Refusals
<1>5. CASE Send(r)
  BY <1>5 DEF Send
<1>6. CASE UpstreamError(r)
  BY <1>6 DEF UpstreamError, Replies
<1>7. CASE Relay(r)
  BY <1>7 DEF Relay, Replies
<1>8. CASE RecordForward(r)
  <2>1. [req |-> r, decision |-> Decision(r), source |-> "none", upstream |-> pc[r] = "record"] \in Event
    BY DEF Event, Decision, Reasons
  <2> QED
    BY <1>8, <2>1, RecordTyped DEF RecordForward
<1> QED
  BY <1>1, <1>2, <1>3, <1>4, <1>5, <1>6, <1>7, <1>8 DEF Finish, ApproveAsIs, ApproveSanitized

LEMMA CrashTyped == TypeOK /\ Crash => TypeOK'
  BY DEF TypeOK, Crash, PCs, Cache!CacheTypeOK

(* Every variable keeps its type: in particular the verdict cache maps     *)
(* texts to verdicts (cache.go:22-27) and every audit row carries one of   *)
(* the four decisions (handler.go:299-338).                                *)
THEOREM TypeCorrect == Spec => []TypeOK
<1>1. Init => TypeOK
  BY InitTyped
<1>2. TypeOK /\ [Next]_vars => TypeOK'
  <2> SUFFICES ASSUME TypeOK, [Next]_vars
               PROVE  TypeOK'
    OBVIOUS
  <2>1. CASE Crash
    BY <2>1, CrashTyped
  <2>2. ASSUME NEW r \in Requests, Arrive(r) \/ Handle(r)
        PROVE  TypeOK'
    BY <2>2, ArriveTyped, ClassifyTyped, FinishTyped DEF Handle
  <2>3. CASE UNCHANGED vars
    BY <2>3 DEF vars, requestVars, cacheVars, TypeOK, Cache!CacheTypeOK
  <2> QED
    BY <2>1, <2>2, <2>3 DEF Next
<1> QED
  BY <1>1, <1>2, PTL DEF Spec

-----------------------------------------------------------------------------
(* Egress *)

RequestInv(r) ==
  PassedIsClear(r) /\ BodyIsClear(r) /\ HeldBack(r) /\ UnparsedIsRefused(r) /\ RefusalIsFinal(r)

LEMMA EgressInvParts == EgressInv <=> VerdictsClear /\ \A r \in Requests : RequestInv(r)
  BY DEF EgressInv, RequestInv

LEMMA InitClear == Init => EgressInv
  BY DEF Init, EgressInv, VerdictsClear, PassedIsClear, BodyIsClear, HeldBack, UnparsedIsRefused,
     RefusalIsFinal, Refusals, Cache!CacheInit

(* A request is not disturbed by the steps of another one: the texts found *)
(* harmless only grow.                                                     *)
LEMMA OthersUndisturbed ==
  ASSUME NEW r \in Requests, RequestInv(r), vetted \subseteq vetted',
         pc'[r] = pc[r], kind'[r] = kind[r], conv'[r] = conv[r], todo'[r] = todo[r],
         ng'[r] = ng[r], out'[r] = out[r], reply'[r] = reply[r],
         r \in sent' <=> r \in sent,
         \A e \in audit' : e.req = r => e \in audit
  PROVE  RequestInv(r)'
<1>1. \A t : Cleared(t) => Cleared(t)'
  BY DEF Cleared
<1>2. PassedIsClear(r)'
  BY <1>1 DEF RequestInv, PassedIsClear, ToClassify
<1>3. BodyIsClear(r)'
  BY <1>1 DEF RequestInv, BodyIsClear, IsLive
<1>4. HeldBack(r)' /\ UnparsedIsRefused(r)' /\ RefusalIsFinal(r)'
  BY DEF RequestInv, HeldBack, UnparsedIsRefused, RefusalIsFinal
<1> QED
  BY <1>2, <1>3, <1>4 DEF RequestInv

(* What Get returns was in the cache, and Put adds what it was given. *)
LEMMA CacheEntries ==
  ASSUME Cache!CacheTypeOK, NEW key \in Texts, NEW v \in Verdict, Cache!Put(key, v)
  PROVE  \A t \in DOMAIN entries' :
           \/ t \in DOMAIN entries /\ entries'[t] = entries[t]
           \/ t = key /\ entries'[t] = v
<1>1. CASE Cache!PutDisabled(key, v)
  BY <1>1 DEF Cache!PutDisabled, Cache!cacheVars
<1>2. CASE Cache!PutOver(key, v)
  BY <1>2 DEF Cache!PutOver, Cache!Cached, Cache!CacheTypeOK
<1>3. CASE Cache!PutNew(key, v)
  BY <1>3 DEF Cache!PutNew
<1> QED
  BY <1>1, <1>2, <1>3 DEF Cache!Put

(* A step of request r leaves the others alone. *)
StepOf(r) ==
  /\ vetted \subseteq vetted'
  /\ \A q \in Requests \ {r} :
       /\ pc'[q] = pc[q] /\ kind'[q] = kind[q] /\ conv'[q] = conv[q] /\ todo'[q] = todo[q]
       /\ ng'[q] = ng[q] /\ out'[q] = out[q] /\ reply'[q] = reply[q]
       /\ q \in sent' <=> q \in sent
       /\ \A e \in audit' : e.req = q => e \in audit

LEMMA OneRequestSteps ==
  ASSUME EgressInv, NEW r \in Requests, StepOf(r), VerdictsClear', RequestInv(r)'
  PROVE  EgressInv'
<1>1. ASSUME NEW q \in Requests, q # r
      PROVE  RequestInv(q)'
  <2>1. RequestInv(q)
    BY EgressInvParts
  <2>2. q \in Requests \ {r}
    BY <1>1
  <2> QED
    BY <2>1, <2>2, OthersUndisturbed DEF StepOf
<1>2. \A q \in Requests : RequestInv(q)'
  BY <1>1
<1>3. EgressInv' <=> (VerdictsClear' /\ \A q \in Requests : RequestInv(q)')
  BY DEF EgressInv, RequestInv
<1> QED
  BY <1>2, <1>3

LEMMA ArriveClear ==
  ASSUME TypeOK, EgressInv, NEW r \in Requests, Arrive(r)
  PROVE  EgressInv'
<1> USE DEF Goto, cacheVars
<1>0. RequestInv(r) /\ VerdictsClear /\ VerdictsClear'
  <2>1. UNCHANGED <<vetted, entries>>
    BY DEF Arrive, Reject, Passthrough, RefuseUnparseable, ForwardUnparseable,
       BeginBypass, BeginInspection, Begin
  <2> QED
    BY <2>1, EgressInvParts DEF VerdictsClear
<1>a. pc[r] = "idle" /\ r \notin sent /\ out[r] = Unread /\ reply[r] \notin Refusals
  <2>1. pc[r] = "idle"
    BY DEF Arrive, Reject, Passthrough, RefuseUnparseable, ForwardUnparseable,
       BeginBypass, BeginInspection, Begin
  <2> QED
    BY <1>0, <2>1 DEF RequestInv, HeldBack, RefusalIsFinal
<1>b. \A e \in audit : ~(e.req = r /\ e.decision = "BLOCK")
  BY <1>0, <1>a DEF RequestInv, RefusalIsFinal
<1>c. Segments(Unread) = {}
  BY DEF Segments, Unread
<1>1. ASSUME NEW code \in {"405", "400"}, Reject(r, code)
      PROVE  EgressInv'
  <2>1. StepOf(r)
    BY <1>1 DEF Reject, StepOf, TypeOK
  <2>2. RequestInv(r)'
    BY <1>0, <1>1, <1>a, <1>b DEF Reject, TypeOK, RequestInv, PassedIsClear, BodyIsClear, HeldBack,
       UnparsedIsRefused, RefusalIsFinal, Refusals
  <2> QED
    BY <1>0, <2>1, <2>2, OneRequestSteps
<1>2. CASE Passthrough(r)
  <2>1. StepOf(r)
    BY <1>2 DEF Passthrough, StepOf, TypeOK
  <2>2. RequestInv(r)'
    BY <1>0, <1>2, <1>a, <1>b, <1>c DEF Passthrough, TypeOK, RequestInv, PassedIsClear, BodyIsClear,
       HeldBack, UnparsedIsRefused, RefusalIsFinal
  <2> QED
    BY <1>0, <2>1, <2>2, OneRequestSteps
<1>3. ASSUME NEW count \in BOOLEAN, RefuseUnparseable(r, count)
      PROVE  EgressInv'
  <2>1. StepOf(r)
    BY <1>3 DEF RefuseUnparseable, StepOf, TypeOK
  <2>2. RequestInv(r)'
    BY <1>0, <1>3, <1>a, <1>b DEF RefuseUnparseable, TypeOK, RequestInv, PassedIsClear, BodyIsClear,
       HeldBack, UnparsedIsRefused, RefusalIsFinal
  <2> QED
    BY <1>0, <2>1, <2>2, OneRequestSteps
<1>4. ASSUME NEW count \in BOOLEAN, ForwardUnparseable(r, count)
      PROVE  EgressInv'
  <2>1. StepOf(r)
    BY <1>4 DEF ForwardUnparseable, StepOf, TypeOK
  <2>2. RequestInv(r)'
    BY <1>0, <1>4, <1>a, <1>b, <1>c DEF ForwardUnparseable, TypeOK, RequestInv, PassedIsClear,
       BodyIsClear, HeldBack, UnparsedIsRefused, RefusalIsFinal
  <2> QED
    BY <1>0, <2>1, <2>2, OneRequestSteps
<1>5. ASSUME NEW count \in BOOLEAN, NEW c \in Inputs, NEW k, NEW S, Begin(r, c, count, k, S),
             \/ k = "inspect" /\ S = Segments(c)
             \/ k = "bypass" /\ S = HistorySegments(c) /\ Overrides(c)
      PROVE  EgressInv'
  <2>1. StepOf(r)
    BY <1>5 DEF Begin, StepOf, TypeOK
  <2>2. pc'[r] = "lookup" /\ kind'[r] = k /\ conv'[r] = c /\ todo'[r] = S
    BY <1>5 DEF Begin, TypeOK
  <2>3. PassedIsClear(r)'
    BY <1>5, <2>2 DEF PassedIsClear, ToClassify
  <2>4. BodyIsClear(r)' /\ HeldBack(r)' /\ UnparsedIsRefused(r)' /\ RefusalIsFinal(r)'
    BY <1>5, <2>2, <1>0, <1>a, <1>b DEF Begin, BodyIsClear, HeldBack, UnparsedIsRefused, RefusalIsFinal
  <2> QED
    BY <1>0, <2>1, <2>3, <2>4, OneRequestSteps DEF RequestInv
<1>6. ASSUME NEW count \in BOOLEAN, NEW c \in Inputs,
             BeginBypass(r, c, count) \/ BeginInspection(r, c, count)
      PROVE  EgressInv'
  BY <1>5, <1>6 DEF BeginBypass, BeginInspection
<1> QED
  BY <1>1, <1>2, <1>3, <1>4, <1>6 DEF Arrive

(* A segment leaves the list with a verdict: it is clear, or it blocks.    *)
LEMMA ConcludeClear ==
  ASSUME TypeOK, EgressInv, NEW r \in Requests, NEW s \in todo[r], NEW v \in Verdict,
         pc[r] \in {"lookup", "classify"}, Conclude(r, s, v),
         vetted \subseteq vetted', VerdictsClear', v.block \/ Cleared(s.text)'
  PROVE  EgressInv'
<1>0. RequestInv(r)
  BY EgressInvParts
<1>1. StepOf(r)
  BY DEF Conclude, StepOf, TypeOK
<1>2. UNCHANGED <<kind, conv, out, reply, sent, audit>>
  BY DEF Conclude
<1>3. PassedIsClear(r)'
  <2>1. CASE Blocks(r, s, v)
    BY <2>1 DEF Conclude, TypeOK, PassedIsClear
  <2>2. CASE ~Blocks(r, s, v)
    <3>1. /\ pc'[r] = "lookup" /\ todo'[r] = todo[r] \ {s}
          /\ ng'[r] = IF v.block THEN ng[r] \cup {s} ELSE ng[r]
      BY <2>2 DEF Conclude, TypeOK
    <3>2. \A t : Cleared(t) => Cleared(t)'
      BY DEF Cleared
    <3>3. ToClassify(r)' = ToClassify(r)
      BY <1>2 DEF ToClassify
    <3>4. \A x \in ToClassify(r) \ (todo[r] \cup ng[r]) : Cleared(x.text)
      BY <1>0 DEF RequestInv, PassedIsClear
    <3>5. \A x \in ToClassify(r) \ (todo'[r] \cup ng'[r]) : x = s \/ Cleared(x.text)
      BY <3>1, <3>4
    <3>6. s \in ToClassify(r) \ (todo'[r] \cup ng'[r]) => Cleared(s.text)'
      BY <3>1
    <3> QED
      BY <1>0, <1>2, <3>2, <3>3, <3>5, <3>6 DEF RequestInv, PassedIsClear
  <2> QED
    BY <2>1, <2>2
<1>4. pc'[r] \in {"lookup", "block"}
  BY DEF Conclude, TypeOK
<1>5. BodyIsClear(r)' /\ HeldBack(r)' /\ UnparsedIsRefused(r)' /\ RefusalIsFinal(r)'
  BY <1>0, <1>2, <1>4 DEF RequestInv, PassedIsClear, BodyIsClear, HeldBack, UnparsedIsRefused,
     RefusalIsFinal
<1> QED
  BY <1>1, <1>3, <1>5, OneRequestSteps DEF RequestInv

LEMMA ClassifyClear ==
  ASSUME TypeOK, EgressInv, NEW r \in Requests, Classify(r)
  PROVE  EgressInv'
<1> PICK s \in todo[r] :
      \/ CacheHit(r, s)
      \/ CacheMiss(r, s)
      \/ MatchRule(r, s)
      \/ \E sensitive \in BOOLEAN : Judge(r, s, sensitive)
      \/ Unavailable(r, s)
  BY DEF Classify
<1>0. RequestInv(r) /\ VerdictsClear
  BY EgressInvParts
<1>a. s \in Segment /\ s.text \in Texts
  BY DEF TypeOK, Segment
<1>b. Cache!CacheTypeOK
  BY DEF TypeOK
<1>1. CASE CacheHit(r, s)
  <2>1. Cache!Hit(s.text) /\ Conclude(r, s, entries[s.text]) /\ UNCHANGED <<vetted, entries>>
    BY <1>1 DEF CacheHit, Cache!Hit
  <2>2. entries[s.text] \in Verdict /\ s.text \in DOMAIN entries
    BY <1>a, <1>b, <2>1, HitTyped DEF Cache!Hit, Cache!Cached
  <2>3. VerdictsClear'
    BY <1>0, <2>1 DEF VerdictsClear
  <2>4. entries[s.text].block \/ Cleared(s.text)'
    BY <1>0, <2>1, <2>2 DEF VerdictsClear, Cleared, Verdict
  <2> QED
    BY <1>1, <2>1, <2>2, <2>3, <2>4, ConcludeClear DEF CacheHit
<1>2. CASE CacheMiss(r, s)
  <2>1. UNCHANGED <<kind, conv, todo, ng, out, reply, sent, audit, vetted, entries>>
    BY <1>2 DEF CacheMiss, Cache!Miss, Cache!cacheVars
  <2>2. pc[r] = "lookup" /\ pc' = [pc EXCEPT ![r] = "classify"]
    BY <1>2 DEF CacheMiss, Goto
  <2>3. StepOf(r)
    BY <2>1, <2>2 DEF StepOf, TypeOK
  <2>4. pc'[r] = "classify"
    BY <2>2 DEF TypeOK
  <2>5. RequestInv(r)'
    BY <1>0, <2>1, <2>2, <2>4 DEF RequestInv, PassedIsClear, ToClassify, Cleared, BodyIsClear,
       HeldBack, UnparsedIsRefused, RefusalIsFinal
  <2>6. VerdictsClear'
    BY <1>0, <2>1 DEF VerdictsClear
  <2> QED
    BY <2>3, <2>5, <2>6, OneRequestSteps
<1>3. CASE MatchRule(r, s)
  <2> DEFINE v == [block |-> TRUE, source |-> "rule"]
  <2>1. v \in Verdict /\ v.block /\ Cache!Put(s.text, v) /\ Conclude(r, s, v) /\ UNCHANGED vetted
    BY <1>3 DEF MatchRule, Verdict
  <2> HIDE DEF v
  <2>2. VerdictsClear'
    BY <1>0, <1>a, <1>b, <2>1, CacheEntries DEF VerdictsClear
  <2> QED
    BY <1>3, <2>1, <2>2, ConcludeClear DEF MatchRule
<1>4. ASSUME NEW sensitive \in BOOLEAN, Judge(r, s, sensitive)
      PROVE  EgressInv'
  <2> DEFINE v == [block |-> sensitive, source |-> "lfm"]
  <2>1. v \in Verdict /\ v.block = sensitive /\ Cache!Put(s.text, v) /\ Conclude(r, s, v)
    BY <1>4 DEF Judge, Verdict
  <2>2. vetted' = (IF sensitive THEN vetted ELSE vetted \cup {s.text}) /\ ~HitsRule(s)
    BY <1>4 DEF Judge
  <2> HIDE DEF v
  <2>3. VerdictsClear'
    BY <1>0, <1>a, <1>b, <2>1, <2>2, CacheEntries DEF VerdictsClear, HitsRule
  <2>4. v.block \/ Cleared(s.text)'
    BY <2>1, <2>2 DEF Cleared, HitsRule
  <2> QED
    BY <1>4, <2>1, <2>2, <2>3, <2>4, ConcludeClear DEF Judge
<1>5. CASE Unavailable(r, s)
  <2> DEFINE v == [block |-> FailClosed, source |-> "classifier_unavailable"]
  <2>1. v \in Verdict /\ v.block = FailClosed /\ Conclude(r, s, v)
    BY <1>5 DEF Unavailable, Verdict
  <2>2. UNCHANGED <<vetted, entries>> /\ ~HitsRule(s)
    BY <1>5 DEF Unavailable, cacheVars
  <2> HIDE DEF v
  <2>3. VerdictsClear'
    BY <1>0, <2>2 DEF VerdictsClear
  <2>4. v.block \/ Cleared(s.text)'
    BY <2>1, <2>2 DEF Cleared, HitsRule
  <2> QED
    BY <1>5, <2>1, <2>2, <2>3, <2>4, ConcludeClear DEF Unavailable
<1> QED
  BY <1>1, <1>2, <1>3, <1>4, <1>5

(* What is approved is made of what was classified, less what was found    *)
(* sensitive.                                                              *)
LEMMA ApproveClear ==
  ASSUME TypeOK, EgressInv, NEW r \in Requests, NEW b, Approve(r, b),
         \/ ng[r] = {} /\ b = Rewritten(r)
         \/ b = Sanitized(Rewritten(r), ng[r])
  PROVE  EgressInv'
<1>0. RequestInv(r) /\ VerdictsClear
  BY EgressInvParts
<1>1. /\ pc[r] = "lookup" /\ todo[r] = {}
      /\ pc'[r] = "send" /\ out'[r] = b
      /\ UNCHANGED <<kind, conv, todo, ng, reply, sent, audit, vetted, entries>>
  BY DEF Approve, Classified, TypeOK, cacheVars
<1>2. StepOf(r)
  BY <1>1 DEF Approve, StepOf, TypeOK
<1>3. /\ kind[r] = "inspect" \/ (kind[r] = "bypass" /\ Overrides(conv[r]))
      /\ \A s \in ToClassify(r) \ ng[r] : Cleared(s.text)
      /\ r \notin sent
  BY <1>0, <1>1 DEF RequestInv, PassedIsClear, HeldBack
<1>4. Segments(b) \subseteq Segments(Rewritten(r)) \ ng[r]
  BY SanitizedSegments
<1>5. \A s \in Segments(b) : Cleared(s.text) \/ (kind[r] = "bypass" /\ IsLive(r, s))
  <2>1. CASE kind[r] = "inspect"
    BY <1>3, <1>4, <2>1 DEF Rewritten, ToClassify
  <2>2. CASE kind[r] = "bypass" /\ Overrides(conv[r])
    BY <1>3, <1>4, <2>2, StrippedSegments DEF Rewritten, ToClassify, IsLive
  <2> QED
    BY <1>3, <2>1, <2>2
<1>6. BodyIsClear(r)'
  BY <1>1, <1>5 DEF BodyIsClear, Cleared, IsLive
<1>7. PassedIsClear(r)' /\ HeldBack(r)' /\ UnparsedIsRefused(r)' /\ RefusalIsFinal(r)'
  BY <1>0, <1>1, <1>3 DEF RequestInv, PassedIsClear, HeldBack, UnparsedIsRefused, RefusalIsFinal
<1>8. VerdictsClear'
  BY <1>0, <1>1 DEF VerdictsClear
<1> QED
  BY <1>2, <1>6, <1>7, <1>8, OneRequestSteps DEF RequestInv

LEMMA RecordAdds ==
  ASSUME NEW event, Record(event)
  PROVE  \A e \in audit' : e \in audit \/ e = event
  BY DEF Record

LEMMA FinishClear ==
  ASSUME TypeOK, EgressInv, NEW r \in Requests, Finish(r)
  PROVE  EgressInv'
<1>0. RequestInv(r) /\ VerdictsClear
  BY EgressInvParts
<1>1. CASE ApproveAsIs(r) \/ ApproveSanitized(r)
  BY <1>1, ApproveClear DEF ApproveAsIs, ApproveSanitized
<1>2. CASE RefuseHistory(r)
  <2>1. StepOf(r) /\ VerdictsClear'
    BY <1>0, <1>2 DEF RefuseHistory, StepOf, TypeOK, VerdictsClear, cacheVars
  <2>2. RequestInv(r)'
    BY <1>0, <1>2 DEF RefuseHistory, Classified, TypeOK, RequestInv, PassedIsClear, BodyIsClear,
       HeldBack, UnparsedIsRefused, RefusalIsFinal
  <2> QED
    BY <2>1, <2>2, OneRequestSteps
<1>3. CASE RecordBlock(r)
  <2> DEFINE event == [req |-> r, decision |-> "BLOCK", source |-> why[r], upstream |-> FALSE]
  <2>1. \A e \in audit' : e \in audit \/ e = event
    BY <1>3, RecordAdds DEF RecordBlock
  <2>2. StepOf(r) /\ VerdictsClear'
    BY <1>0, <1>3, <2>1 DEF RecordBlock, Goto, StepOf, TypeOK, VerdictsClear, cacheVars
  <2>3. pc[r] = "block" /\ pc'[r] = "refuse" /\ UNCHANGED <<kind, conv, todo, ng, out, reply, sent>>
    BY <1>3 DEF RecordBlock, Goto, TypeOK
  <2>4. RequestInv(r)'
    BY <1>0, <2>3 DEF RequestInv, PassedIsClear, BodyIsClear, HeldBack, UnparsedIsRefused,
       RefusalIsFinal
  <2> QED
    BY <2>2, <2>4, OneRequestSteps
<1>4. CASE WriteBlock(r)
  <2>1. StepOf(r) /\ VerdictsClear'
    BY <1>0, <1>4 DEF WriteBlock, Goto, StepOf, TypeOK, VerdictsClear, cacheVars
  <2>2. RequestInv(r)'
    BY <1>0, <1>4 DEF WriteBlock, Goto, TypeOK, RequestInv, PassedIsClear, BodyIsClear, HeldBack,
       UnparsedIsRefused, RefusalIsFinal
  <2> QED
    BY <2>1, <2>2, OneRequestSteps
<1>5. CASE Send(r)
  <2>1. StepOf(r) /\ VerdictsClear'
    BY <1>0, <1>5 DEF Send, Goto, StepOf, TypeOK, VerdictsClear, cacheVars
  <2>2. /\ pc[r] = "send" /\ pc'[r] = "await" /\ sent' = sent \cup {r}
        /\ UNCHANGED <<kind, conv, todo, ng, out, reply, audit, vetted>>
    BY <1>5 DEF Send, Goto, TypeOK
  <2>3. BodyIsClear(r)'
    BY <1>0, <2>2 DEF RequestInv, BodyIsClear, Cleared, IsLive
  <2>4. PassedIsClear(r)' /\ HeldBack(r)' /\ UnparsedIsRefused(r)' /\ RefusalIsFinal(r)'
    BY <1>0, <2>2 DEF RequestInv, PassedIsClear, HeldBack, UnparsedIsRefused, RefusalIsFinal
  <2> QED
    BY <2>1, <2>3, <2>4, OneRequestSteps DEF RequestInv
<1>6. ASSUME NEW answer \in {"502", "relayed"}, NEW to \in {"record", "recordFailed"},
             pc[r] \in {"send", "await"}, pc' = [pc EXCEPT ![r] = to],
             reply' = [reply EXCEPT ![r] = answer],
             UNCHANGED <<kind, conv, todo, ng, out, sent, audit, vetted, entries>>
      PROVE  EgressInv'
  <2>1. StepOf(r) /\ VerdictsClear'
    BY <1>0, <1>6 DEF StepOf, TypeOK, VerdictsClear
  <2>2. pc'[r] = to /\ reply'[r] = answer
    BY <1>6 DEF TypeOK
  <2>3. BodyIsClear(r)'
    BY <1>0, <1>6, <2>2 DEF RequestInv, BodyIsClear, Cleared, IsLive
  <2>4. PassedIsClear(r)' /\ HeldBack(r)' /\ UnparsedIsRefused(r)' /\ RefusalIsFinal(r)'
    BY <1>0, <1>6, <2>2 DEF RequestInv, PassedIsClear, HeldBack, UnparsedIsRefused, RefusalIsFinal,
       Refusals
  <2> QED
    BY <2>1, <2>3, <2>4, OneRequestSteps DEF RequestInv
<1>7. CASE UpstreamError(r)
  BY <1>6, <1>7 DEF UpstreamError, Goto, cacheVars
<1>8. CASE Relay(r)
  BY <1>6, <1>8 DEF Relay, Goto, cacheVars
<1>9. CASE RecordForward(r)
  <2> DEFINE event == [req |-> r, decision |-> Decision(r), source |-> "none",
                       upstream |-> pc[r] = "record"]
  <2>1. event.decision # "BLOCK"
    BY DEF Decision
  <2>2. \A e \in audit' : e \in audit \/ e = event
    BY <1>9, RecordAdds DEF RecordForward
  <2>3. StepOf(r) /\ VerdictsClear'
    BY <1>0, <1>9, <2>2 DEF RecordForward, Goto, StepOf, TypeOK, VerdictsClear, cacheVars
  <2>4. /\ pc[r] \in {"record", "recordFailed"} /\ pc'[r] = "done"
        /\ UNCHANGED <<kind, conv, todo, ng, out, reply, sent, vetted>>
    BY <1>9 DEF RecordForward, Goto, TypeOK
  <2>5. PassedIsClear(r)' /\ BodyIsClear(r)' /\ HeldBack(r)' /\ UnparsedIsRefused(r)'
    BY <1>0, <2>4 DEF RequestInv, PassedIsClear, BodyIsClear, Cleared, IsLive, HeldBack,
       UnparsedIsRefused
  <2>6. RefusalIsFinal(r)'
    BY <1>0, <2>1, <2>2, <2>4 DEF RequestInv, RefusalIsFinal
  <2> QED
    BY <2>3, <2>5, <2>6, OneRequestSteps DEF RequestInv
<1> QED
  BY <1>1, <1>2, <1>3, <1>4, <1>5, <1>7, <1>8, <1>9 DEF Finish

LEMMA CrashClear ==
  ASSUME TypeOK, EgressInv, Crash
  PROVE  EgressInv'
<1>1. VerdictsClear'
  BY EgressInvParts DEF Crash, VerdictsClear
<1>2. ASSUME NEW r \in Requests
      PROVE  RequestInv(r)'
  <2>1. RequestInv(r)
    BY EgressInvParts
  <2>2. /\ pc'[r] = IF pc[r] \in {"idle", "done"} THEN pc[r] ELSE "dead"
        /\ UNCHANGED <<kind, conv, ng, out, reply, sent, audit, vetted>>
    BY DEF Crash
  <2>3. BodyIsClear(r)'
    BY <2>1, <2>2 DEF RequestInv, BodyIsClear, Cleared, IsLive
  <2>4. PassedIsClear(r)' /\ HeldBack(r)' /\ UnparsedIsRefused(r)' /\ RefusalIsFinal(r)'
    BY <2>1, <2>2 DEF RequestInv, PassedIsClear, HeldBack, UnparsedIsRefused, RefusalIsFinal
  <2> QED
    BY <2>3, <2>4 DEF RequestInv
<1> QED
  BY <1>1, <1>2 DEF EgressInv, RequestInv

(* The inductive invariant: what has passed the classification is clear,   *)
(* and a body is only ever made of what has passed (detector.go:82-133).   *)
THEOREM EgressInvariant == Spec => []EgressInv
<1>1. Init => EgressInv
  BY InitClear
<1>2. TypeOK /\ EgressInv /\ [Next]_vars => EgressInv'
  <2> SUFFICES ASSUME TypeOK, EgressInv, [Next]_vars
               PROVE  EgressInv'
    OBVIOUS
  <2>1. CASE Crash
    BY <2>1, CrashClear
  <2>2. ASSUME NEW r \in Requests, Arrive(r) \/ Handle(r)
        PROVE  EgressInv'
    BY <2>2, ArriveClear, ClassifyClear, FinishClear DEF Handle
  <2>3. CASE UNCHANGED vars
    <3>1. VerdictsClear'
      BY <2>3, EgressInvParts DEF vars, cacheVars, VerdictsClear
    <3>2. ASSUME NEW r \in Requests
          PROVE  RequestInv(r)'
      BY <2>3, EgressInvParts, OthersUndisturbed DEF vars, requestVars
    <3> QED
      BY <3>1, <3>2 DEF EgressInv, RequestInv
  <2> QED
    BY <2>1, <2>2, <2>3 DEF Next
<1> QED
  BY <1>1, <1>2, TypeCorrect, PTL DEF Spec

(* With fail_closed, whatever leaves has been found harmless, except the   *)
(* live turn of a bypass (handler.go:103-176, 212-235).                    *)
THEOREM UnvettedNeverLeaves == Spec => []NoUnvettedEgress
<1>1. TypeOK /\ EgressInv => NoUnvettedEgress
  BY DEF TypeOK, EgressInv, BodyIsClear, UnparsedIsRefused, NoUnvettedEgress, Cleared
<1> QED
  BY <1>1, TypeCorrect, EgressInvariant, PTL

(* A text the guardrail matches leaves in no body but a live turn its      *)
(* author marked (detector.go:38-44, cache.go:40-74).                      *)
THEOREM RuleSecretsNeverLeave == Spec => []NoRuleSecretEgress
<1>1. TypeOK /\ EgressInv => NoRuleSecretEgress
  BY DEF TypeOK, EgressInv, BodyIsClear, NoRuleSecretEgress, Cleared
<1> QED
  BY <1>1, TypeCorrect, EgressInvariant, PTL

(* Nothing is sent for a request that was refused or audited as blocked    *)
(* (handler.go:103-109, 138-156, 276-297).                                 *)
THEOREM RefusalsAreKept == Spec => []RefusedIsNeverSent
<1>1. EgressInv => RefusedIsNeverSent
  BY DEF EgressInv, RefusalIsFinal, RefusedIsNeverSent
<1> QED
  BY <1>1, EgressInvariant, PTL

-----------------------------------------------------------------------------
(* What the audit store and the verdict cache hold, failing inserts and a  *)
(* disabled cache included.                                                *)

BlockEvent(r) == [req |-> r, decision |-> "BLOCK", source |-> why[r], upstream |-> FALSE]

(* Of a request that is not finished nothing is recorded but its refusal,  *)
(* and what is recorded of a request is one event.                         *)
RecordedOnce(r) ==
  /\ pc[r] \notin {"refuse", "done", "dead"} => \A e \in audit : e.req # r
  /\ \A e, f \in audit : e.req = r /\ f.req = r => e = f
  /\ \A e \in audit : e.req = r /\ e.upstream => r \in sent
  /\ pc[r] \in {"await", "record"} => r \in sent

Accounted(r) ==
  ~AuditFails =>
    /\ pc[r] = "refuse" \/ reply[r] \in Refusals => BlockEvent(r) \in audit
    /\ r \in sent /\ pc[r] = "done" => \E e \in audit : e.req = r /\ e.decision = Decision(r)

AuditInv == \A r \in Requests : RecordedOnce(r) /\ Accounted(r)

-----------------------------------------------------------------------------
(* The audit trail *)

(* A step of request r writes no event of another one. *)
RecordsOf(r) ==
  \A q \in Requests \ {r} :
    /\ pc'[q] = pc[q] /\ kind'[q] = kind[q] /\ why'[q] = why[q] /\ reply'[q] = reply[q]
    /\ q \in sent' <=> q \in sent
    /\ \A e : e.req = q => (e \in audit' <=> e \in audit)

LEMMA OneRequestRecords ==
  ASSUME AuditInv, NEW r \in Requests, RecordsOf(r), RecordedOnce(r)', Accounted(r)'
  PROVE  AuditInv'
<1> SUFFICES ASSUME NEW q \in Requests, q # r
             PROVE  RecordedOnce(q)' /\ Accounted(q)'
  BY DEF AuditInv
<1>1. RecordedOnce(q) /\ Accounted(q)
  BY DEF AuditInv
<1>2. /\ pc'[q] = pc[q] /\ kind'[q] = kind[q] /\ why'[q] = why[q] /\ reply'[q] = reply[q]
      /\ q \in sent' <=> q \in sent
      /\ \A e : e.req = q => (e \in audit' <=> e \in audit)
  BY DEF RecordsOf
<1>3. RecordedOnce(q)'
  BY <1>1, <1>2 DEF RecordedOnce
<1>4. BlockEvent(q)' = BlockEvent(q) /\ BlockEvent(q).req = q /\ Decision(q)' = Decision(q)
  BY <1>2 DEF BlockEvent, Decision
<1>5. Accounted(q)'
  BY <1>1, <1>2, <1>4 DEF Accounted
<1> QED
  BY <1>3, <1>5

(* Until its outcome is clear, nothing is recorded of a request. *)
LEMMA UndecidedRecords ==
  ASSUME TypeOK, EgressInv, AuditInv, NEW r \in Requests,
         pc[r] \in {"idle", "lookup", "classify"},
         pc'[r] \in {"lookup", "classify", "block", "send", "done"},
         reply'[r] = reply[r] \/ reply'[r] \notin Refusals,
         UNCHANGED <<sent, audit>>, RecordsOf(r)
  PROVE  AuditInv'
<1>1. RecordedOnce(r) /\ HeldBack(r) /\ RefusalIsFinal(r)
  BY DEF AuditInv, EgressInv
<1>2. r \notin sent /\ reply'[r] \notin Refusals
  BY <1>1 DEF HeldBack, RefusalIsFinal
<1>3. RecordedOnce(r)'
  BY <1>1 DEF RecordedOnce
<1>4. Accounted(r)'
  BY <1>2 DEF Accounted
<1> QED
  BY <1>3, <1>4, OneRequestRecords

LEMMA ArriveRecords ==
  ASSUME TypeOK, EgressInv, AuditInv, NEW r \in Requests, Arrive(r)
  PROVE  AuditInv'
<1>1. /\ pc[r] = "idle" /\ pc'[r] \in {"lookup", "block", "send", "done"}
      /\ UNCHANGED <<sent, audit>> /\ RecordsOf(r)
      /\ reply'[r] = reply[r] \/ reply'[r] \notin Refusals
  BY DEF Arrive, Reject, Passthrough, RefuseUnparseable, ForwardUnparseable, BeginBypass,
     BeginInspection, Begin, Goto, TypeOK, RecordsOf, Refusals
<1> QED
  BY <1>1, UndecidedRecords

LEMMA ClassifyRecords ==
  ASSUME TypeOK, EgressInv, AuditInv, NEW r \in Requests, Classify(r)
  PROVE  AuditInv'
<1>1. ASSUME NEW s, NEW v, Conclude(r, s, v), pc[r] \in {"lookup", "classify"}
      PROVE  AuditInv'
  <2>1. /\ pc'[r] \in {"lookup", "block"} /\ reply'[r] = reply[r]
        /\ UNCHANGED <<sent, audit>> /\ RecordsOf(r)
    BY <1>1 DEF Conclude, TypeOK, RecordsOf
  <2> QED
    BY <1>1, <2>1, UndecidedRecords
<1>2. ASSUME NEW s, CacheMiss(r, s)
      PROVE  AuditInv'
  <2>1. /\ pc[r] = "lookup" /\ pc'[r] = "classify" /\ reply'[r] = reply[r]
        /\ UNCHANGED <<sent, audit>> /\ RecordsOf(r)
    BY <1>2 DEF CacheMiss, Goto, TypeOK, RecordsOf
  <2> QED
    BY <2>1, UndecidedRecords
<1> QED
  BY <1>1, <1>2 DEF Classify, CacheHit, MatchRule, Judge, Unavailable

LEMMA FinishRecords ==
  ASSUME TypeOK, EgressInv, AuditInv, NEW r \in Requests, Finish(r)
  PROVE  AuditInv'
<1>0. RecordedOnce(r) /\ Accounted(r) /\ HeldBack(r) /\ RefusalIsFinal(r)
  BY DEF AuditInv, EgressInv
<1>1. CASE ApproveAsIs(r) \/ ApproveSanitized(r) \/ RefuseHistory(r)
  <2>1. /\ pc[r] = "lookup" /\ pc'[r] \in {"send", "block"} /\ reply'[r] = reply[r]
        /\ UNCHANGED <<sent, audit>> /\ RecordsOf(r)
    BY <1>1 DEF ApproveAsIs, ApproveSanitized, Approve, RefuseHistory, Classified, TypeOK, RecordsOf
  <2> QED
    BY <2>1, UndecidedRecords
<1>2. CASE RecordBlock(r)
  <2>1. /\ pc[r] = "block" /\ pc'[r] = "refuse" /\ BlockEvent(r)' = BlockEvent(r)
        /\ audit' = audit \cup {BlockEvent(r)} \/ (AuditFails /\ audit' = audit)
        /\ UNCHANGED <<sent, reply>>
    BY <1>2 DEF RecordBlock, Record, Goto, TypeOK, BlockEvent
  <2>2. BlockEvent(r).req = r /\ ~BlockEvent(r).upstream
    BY DEF BlockEvent
  <2>3. RecordsOf(r)
    BY <1>2, <2>1, <2>2 DEF RecordBlock, Goto, TypeOK, RecordsOf
  <2>4. RecordedOnce(r)'
    BY <1>0, <2>1, <2>2 DEF RecordedOnce
  <2>5. Accounted(r)'
    BY <2>1 DEF Accounted
  <2> QED
    BY <2>3, <2>4, <2>5, OneRequestRecords
<1>3. CASE WriteBlock(r)
  <2>1. /\ pc[r] = "refuse" /\ pc'[r] = "done" /\ BlockEvent(r)' = BlockEvent(r)
        /\ UNCHANGED <<sent, audit>> /\ RecordsOf(r)
    BY <1>3 DEF WriteBlock, Goto, TypeOK, BlockEvent, RecordsOf
  <2>2. RecordedOnce(r)'
    BY <1>0, <2>1 DEF RecordedOnce
  <2>3. Accounted(r)'
    BY <1>0, <2>1 DEF Accounted, HeldBack
  <2> QED
    BY <2>1, <2>2, <2>3, OneRequestRecords
<1>4. CASE Send(r)
  <2>1. /\ pc[r] = "send" /\ pc'[r] = "await" /\ sent' = sent \cup {r}
        /\ UNCHANGED <<audit, reply>> /\ RecordsOf(r)
    BY <1>4 DEF Send, Goto, TypeOK, RecordsOf
  <2>2. RecordedOnce(r)'
    BY <1>0, <2>1 DEF RecordedOnce
  <2>3. Accounted(r)'
    BY <1>0, <2>1 DEF Accounted, RefusalIsFinal
  <2> QED
    BY <2>1, <2>2, <2>3, OneRequestRecords
<1>5. CASE UpstreamError(r) \/ Relay(r)
  <2>1. /\ pc[r] \in {"send", "await"} /\ pc'[r] \in {"record", "recordFailed"}
        /\ pc'[r] = "record" => pc[r] = "await"
        /\ reply'[r] \notin Refusals /\ UNCHANGED <<sent, audit>> /\ RecordsOf(r)
    BY <1>5 DEF UpstreamError, Relay, Goto, TypeOK, RecordsOf, Refusals
  <2>2. RecordedOnce(r)'
    BY <1>0, <2>1 DEF RecordedOnce
  <2>3. Accounted(r)'
    BY <2>1 DEF Accounted
  <2> QED
    BY <2>1, <2>2, <2>3, OneRequestRecords
<1>6. CASE RecordForward(r)
  <2> DEFINE event == [req |-> r, decision |-> Decision(r), source |-> "none",
                       upstream |-> pc[r] = "record"]
  <2>1. /\ pc[r] \in {"record", "recordFailed"} /\ pc'[r] = "done" /\ Decision(r)' = Decision(r)
        /\ audit' = audit \cup {event} \/ (AuditFails /\ audit' = audit)
        /\ UNCHANGED <<sent, reply>>
    BY <1>6 DEF RecordForward, Record, Goto, TypeOK, Decision
  <2>2. /\ event.req = r /\ event.decision = Decision(r)
        /\ event.upstream => pc[r] = "record"
    OBVIOUS
  <2> HIDE DEF event
  <2>3. RecordsOf(r)
    BY <1>6, <2>1, <2>2 DEF RecordForward, Goto, TypeOK, RecordsOf
  <2>4. RecordedOnce(r)'
    BY <1>0, <2>1, <2>2 DEF RecordedOnce
  <2>5. Accounted(r)'
    BY <1>0, <2>1, <2>2 DEF Accounted, RefusalIsFinal
  <2> QED
    BY <2>3, <2>4, <2>5, OneRequestRecords
<1> QED
  BY <1>1, <1>2, <1>3, <1>4, <1>5, <1>6 DEF Finish

LEMMA CrashRecords ==
  ASSUME TypeOK, AuditInv, Crash
  PROVE  AuditInv'
<1> SUFFICES ASSUME NEW r \in Requests
             PROVE  RecordedOnce(r)' /\ Accounted(r)'
  BY DEF AuditInv
<1>1. /\ RecordedOnce(r) /\ Accounted(r)
      /\ pc'[r] = IF pc[r] \in {"idle", "done"} THEN pc[r] ELSE "dead"
      /\ UNCHANGED <<kind, why, reply, sent, audit>>
  BY DEF AuditInv, Crash
<1>2. BlockEvent(r)' = BlockEvent(r) /\ Decision(r)' = Decision(r)
  BY <1>1 DEF BlockEvent, Decision
<1> QED
  BY <1>1, <1>2 DEF RecordedOnce, Accounted

(* While inserts succeed every refusal and every request that left and was *)
(* finished has its event; and, even if they fail, an event that says the  *)
(* upstream was called is true, and no request has two                     *)
(* (handler.go:105-110, 138-156, 176-183, 235-242, 260-267).               *)
THEOREM AuditTrailAgrees == Spec => []AuditAgrees
<1>1. Init => AuditInv
  BY DEF Init, AuditInv, RecordedOnce, Accounted, Refusals
<1>2. TypeOK /\ EgressInv /\ AuditInv /\ [Next]_vars => AuditInv'
  <2> SUFFICES ASSUME TypeOK, EgressInv, AuditInv, [Next]_vars
               PROVE  AuditInv'
    OBVIOUS
  <2>1. CASE Crash
    BY <2>1, CrashRecords
  <2>2. ASSUME NEW r \in Requests, Arrive(r) \/ Handle(r)
        PROVE  AuditInv'
    BY <2>2, ArriveRecords, ClassifyRecords, FinishRecords DEF Handle
  <2>3. CASE UNCHANGED vars
    BY <2>3 DEF vars, requestVars, AuditInv, RecordedOnce, Accounted, BlockEvent, Decision
  <2> QED
    BY <2>1, <2>2, <2>3 DEF Next
<1>3. TypeOK /\ AuditInv => AuditAgrees
  <2> SUFFICES ASSUME TypeOK, AuditInv
               PROVE  AuditAgrees
    OBVIOUS
  <2>1. \A e \in audit : e.req \in Requests
    BY DEF TypeOK, Event
  <2>2. \A e \in audit : e.upstream => e.req \in sent
    BY <2>1 DEF AuditInv, RecordedOnce
  <2>3. \A e, f \in audit : e.req = f.req => e = f
    BY <2>1 DEF AuditInv, RecordedOnce
  <2> QED
    BY <2>2, <2>3 DEF AuditAgrees, AuditInv, Accounted, BlockEvent
<1> QED
  BY <1>1, <1>2, <1>3, TypeCorrect, EgressInvariant, PTL DEF Spec

-----------------------------------------------------------------------------
(* The verdict cache *)

LEMMA StoredVerdict ==
  ASSUME TypeOK, CacheSound, NEW text \in Texts, NEW v \in Verdict, Cache!Put(text, v),
         vetted \subseteq vetted',
         v.source # "classifier_unavailable",
         RuleEnabled /\ text \in RuleHits => v.block,
         ~v.block => text \in vetted'
  PROVE  CacheSound'
<1>1. \A t \in DOMAIN entries' :
        \/ t \in DOMAIN entries /\ entries'[t] = entries[t]
        \/ t = text /\ entries'[t] = v
  BY CacheEntries DEF TypeOK
<1> QED
  BY <1>1 DEF CacheSound

LEMMA ClassifyStores ==
  ASSUME TypeOK, CacheSound, NEW r \in Requests, Classify(r)
  PROVE  CacheSound'
<1> PICK s \in todo[r] :
      \/ CacheHit(r, s)
      \/ CacheMiss(r, s)
      \/ MatchRule(r, s)
      \/ \E sensitive \in BOOLEAN : Judge(r, s, sensitive)
      \/ Unavailable(r, s)
  BY DEF Classify
<1>0. s.text \in Texts
  BY DEF TypeOK, Segment
<1>1. CASE CacheHit(r, s) \/ CacheMiss(r, s) \/ Unavailable(r, s)
  BY <1>1 DEF CacheHit, Cache!Hit, CacheMiss, Cache!Miss, Cache!cacheVars, Unavailable, cacheVars,
     CacheSound
<1>2. CASE MatchRule(r, s)
  <2> DEFINE v == [block |-> TRUE, source |-> "rule"]
  <2>1. v \in Verdict /\ v.block /\ v.source = "rule" /\ Cache!Put(s.text, v) /\ UNCHANGED vetted
    BY <1>2 DEF MatchRule, Verdict
  <2> HIDE DEF v
  <2> QED
    BY <1>0, <2>1, StoredVerdict
<1>3. ASSUME NEW sensitive \in BOOLEAN, Judge(r, s, sensitive)
      PROVE  CacheSound'
  <2> DEFINE v == [block |-> sensitive, source |-> "lfm"]
  <2>1. v \in Verdict /\ v.block = sensitive /\ v.source = "lfm" /\ Cache!Put(s.text, v)
    BY <1>3 DEF Judge, Verdict
  <2>2. /\ vetted' = IF sensitive THEN vetted ELSE vetted \cup {s.text}
        /\ ~(RuleEnabled /\ s.text \in RuleHits)
    BY <1>3 DEF Judge, HitsRule
  <2> HIDE DEF v
  <2> QED
    BY <1>0, <2>1, <2>2, StoredVerdict
<1> QED
  BY <1>1, <1>2, <1>3

(* What the cache returns is a verdict on the content: never the outcome   *)
(* of an outage, always a block for what a rule matches, and an allowance  *)
(* only of what the classifier judged harmless (detector.go:31-67).        *)
THEOREM CacheStaysSound == Spec => []CacheSound
<1>1. Init => CacheSound
  BY DEF Init, Cache!CacheInit, CacheSound
<1>2. TypeOK /\ CacheSound /\ [Next]_vars => CacheSound'
  <2> SUFFICES ASSUME TypeOK, CacheSound, [Next]_vars
               PROVE  CacheSound'
    OBVIOUS
  <2>1. CASE Crash
    BY <2>1 DEF Crash, CacheSound
  <2>2. ASSUME NEW r \in Requests, Arrive(r)
        PROVE  CacheSound'
    BY <2>2 DEF Arrive, Reject, Passthrough, RefuseUnparseable, ForwardUnparseable, BeginBypass,
       BeginInspection, Begin, cacheVars, CacheSound
  <2>3. ASSUME NEW r \in Requests, Finish(r)
        PROVE  CacheSound'
    BY <2>3 DEF Finish, ApproveAsIs, ApproveSanitized, Approve, RefuseHistory, RecordBlock,
       WriteBlock, Send, UpstreamError, Relay, RecordForward, cacheVars, CacheSound
  <2>4. CASE UNCHANGED vars
    BY <2>4 DEF vars, cacheVars, CacheSound
  <2> QED
    BY <2>1, <2>2, <2>3, <2>4, ClassifyStores DEF Next, Handle
<1> QED
  BY <1>1, <1>2, TypeCorrect, PTL DEF Spec

(* The list of the cache holds each cached key once, so that what is        *)
(* evicted to make room is another key than the one that is stored.        *)
Listed ==
  /\ \A k \in DOMAIN entries : \E i \in 1..Len(ll) : ll[i] = k
  /\ \A i \in 1..Len(ll) : ll[i] \in DOMAIN entries
  /\ \A i, j \in 1..Len(ll) : ll[i] = ll[j] => i = j

LEMMA MoveKeepsListed ==
  ASSUME Cache!CacheTypeOK, Listed, NEW key \in DOMAIN entries,
         ll' = Cache!MovedToFront(key), DOMAIN entries' = DOMAIN entries
  PROVE  Listed'
<1> DEFINE p == Cache!Position(key)
<1>1. Len(ll) \in Nat /\ DOMAIN ll = 1..Len(ll)
  BY DEF Cache!CacheTypeOK
<1>2. p \in 1..Len(ll) /\ ll[p] = key
  BY DEF Listed, Cache!Position
<1>3. ll' = [i \in 1..Len(ll) |-> IF i = 1 THEN key ELSE IF i <= p THEN ll[i - 1] ELSE ll[i]]
  BY DEF Cache!MovedToFront
<1> HIDE DEF p
<1>4. Len(ll') = Len(ll)
  BY <1>1, <1>3
<1> DEFINE Old(i) == IF i = 1 THEN p ELSE IF i <= p THEN i - 1 ELSE i
<1>5. \A i \in 1..Len(ll) : Old(i) \in 1..Len(ll) /\ ll'[i] = ll[Old(i)]
  BY <1>1, <1>2, <1>3
<1>6. ASSUME NEW j \in 1..Len(ll)
      PROVE  \E i \in 1..Len(ll) : ll'[i] = ll[j]
  <2>1. CASE j < p
    BY <1>1, <1>2, <1>3, <2>1, j + 1 \in 1..Len(ll)
  <2>2. CASE j = p
    BY <1>1, <1>2, <1>3, <2>2, 1 \in 1..Len(ll)
  <2>3. CASE j > p
    BY <1>1, <1>2, <1>3, <2>3
  <2> QED
    BY <1>1, <1>2, <2>1, <2>2, <2>3
<1>7. \A i, j \in 1..Len(ll) : Old(i) = Old(j) => i = j
  BY <1>1, <1>2
<1> HIDE DEF Old
<1>8. ASSUME NEW i \in 1..Len(ll), NEW j \in 1..Len(ll), ll'[i] = ll'[j]
      PROVE  i = j
  <2>1. /\ Old(i) \in 1..Len(ll) /\ Old(j) \in 1..Len(ll)
        /\ ll'[i] = ll[Old(i)] /\ ll'[j] = ll[Old(j)]
    BY <1>5
  <2>2. Old(i) = Old(j)
    BY <1>8, <2>1 DEF Listed
  <2> QED
    BY <1>7, <2>2
<1>9. \A i \in 1..Len(ll) : ll'[i] \in DOMAIN entries
  BY <1>5 DEF Listed
<1>10. \A k \in DOMAIN entries : \E i \in 1..Len(ll) : ll'[i] = k
  BY <1>6 DEF Listed
<1> QED
  BY <1>4, <1>8, <1>9, <1>10 DEF Listed

LEMMA PushKeepsListed ==
  ASSUME Cache!CacheTypeOK, Listed, NEW key, NEW v, Cache!PutNew(key, v)
  PROVE  Listed' /\ key \in DOMAIN entries' /\ entries'[key] = v
<1> DEFINE pushed == <<key>> \o ll
           full == Len(pushed) > CacheSize
           n == IF full THEN Len(ll) ELSE Len(ll) + 1
<1>1. Len(ll) \in Nat /\ \A i \in 1..Len(ll) : ll[i] \in Texts
  BY DEF Cache!CacheTypeOK
<1>2. /\ CacheSize > 0 /\ key \notin DOMAIN entries
      /\ Len(pushed) = Len(ll) + 1 /\ pushed[1] = key
      /\ \A i \in 2..Len(ll) + 1 : pushed[i] = ll[i - 1]
  BY <1>1 DEF Cache!PutNew, Cache!Enabled, Cache!CacheTypeOK
<1>3. /\ ll' = SubSeq(pushed, 1, n)
      /\ entries' = [k \in (DOMAIN entries \cup {key}) \ (IF full THEN {pushed[Len(pushed)]} ELSE {}) |->
                       IF k = key THEN v ELSE entries[k]]
  BY <1>1, <1>2 DEF Cache!PutNew
<1>4. n \in 1..Len(ll) + 1 /\ (full => n = Len(ll) /\ Len(ll) >= 1) /\ (~full => n = Len(ll) + 1)
  BY <1>1, <1>2
<1> HIDE DEF pushed, full, n
<1>5. Len(ll') = n /\ \A i \in 1..n : ll'[i] = pushed[i]
  BY <1>1, <1>2, <1>3, <1>4
<1>6. DOMAIN entries' = (DOMAIN entries \cup {key}) \ (IF full THEN {ll[Len(ll)]} ELSE {})
  <2>1. full => pushed[Len(pushed)] = ll[Len(ll)]
    BY <1>1, <1>2, <1>4
  <2> QED
    BY <1>3, <2>1
<1>7. \A i \in 1..Len(ll) : ll[i] # key
  BY <1>2 DEF Listed
<1>8. key \in DOMAIN entries' /\ entries'[key] = v
  BY <1>1, <1>3, <1>4, <1>6, <1>7
<1>9. ASSUME NEW k \in DOMAIN entries'
      PROVE  \E i \in 1..n : ll'[i] = k
  <2>1. CASE k = key
    BY <1>2, <1>4, <1>5, <2>1
  <2>2. CASE k # key
    <3>1. PICK j \in 1..Len(ll) : ll[j] = k
      BY <1>6, <2>2 DEF Listed
    <3>2. j + 1 \in 2..n
      BY <1>1, <1>4, <1>6, <3>1
    <3>3. j + 1 \in 1..n /\ ll'[j + 1] = pushed[j + 1] /\ j + 1 - 1 = j
      BY <1>1, <1>4, <1>5, <3>2
    <3>4. pushed[j + 1] = ll[j + 1 - 1]
      BY <1>1, <1>2, <1>4, <3>2
    <3> QED
      BY <3>1, <3>3, <3>4
  <2> QED
    BY <2>1, <2>2
<1>10. \A i \in 2..n : i \in 1..n /\ i - 1 \in 1..Len(ll) /\ ll'[i] = ll[i - 1]
  BY <1>1, <1>2, <1>4, <1>5
<1>11. 1 \in 1..n /\ ll'[1] = key /\ \A i \in 1..n : i = 1 \/ i \in 2..n
  BY <1>2, <1>4, <1>5
<1>12. ASSUME NEW i \in 1..n
       PROVE  ll'[i] \in DOMAIN entries'
  <2>1. CASE i = 1
    BY <1>8, <1>11, <2>1
  <2>2. CASE i \in 2..n
    <3>1. i - 1 # Len(ll) \/ ~full
      BY <1>1, <1>4, <2>2
    <3>2. full => Len(ll) \in 1..Len(ll) /\ i - 1 \in 1..Len(ll)
      BY <1>1, <1>4, <1>10, <2>2
    <3>3. full => ll[i - 1] # ll[Len(ll)]
      BY <3>1, <3>2 DEF Listed
    <3> QED
      BY <1>6, <1>10, <2>2, <3>3 DEF Listed
  <2> QED
    BY <1>11, <2>1, <2>2
<1>13. ASSUME NEW i \in 1..n, NEW j \in 1..n, ll'[i] = ll'[j]
       PROVE  i = j
  <2>1. CASE i \in 2..n /\ j \in 2..n
    <3>1. i - 1 = j - 1
      BY <1>10, <1>13, <2>1 DEF Listed
    <3> QED
      BY <3>1, <1>4
  <2>2. CASE i = 1 \/ j = 1
    BY <1>7, <1>10, <1>11, <1>13, <2>2
  <2> QED
    BY <1>11, <2>1, <2>2
<1> QED
  BY <1>5, <1>8, <1>9, <1>12, <1>13 DEF Listed

LEMMA PutKeepsListed ==
  ASSUME Cache!CacheTypeOK, Listed, NEW key \in Texts, NEW v, Cache!Put(key, v)
  PROVE  Listed' /\ (CacheSize > 0 => key \in DOMAIN entries' /\ entries'[key] = v)
<1>1. CASE Cache!PutDisabled(key, v)
  BY <1>1 DEF Cache!PutDisabled, Cache!cacheVars, Cache!Enabled, Listed
<1>2. CASE Cache!PutOver(key, v)
  <2>1. /\ key \in DOMAIN entries /\ ll' = Cache!MovedToFront(key)
        /\ entries' = [entries EXCEPT ![key] = v]
    BY <1>2 DEF Cache!PutOver, Cache!Cached
  <2>2. DOMAIN entries' = DOMAIN entries /\ entries'[key] = v
    BY <2>1 DEF Cache!CacheTypeOK
  <2> QED
    BY <2>1, <2>2, MoveKeepsListed
<1>3. CASE Cache!PutNew(key, v)
  BY <1>3, PushKeepsListed
<1> QED
  BY <1>1, <1>2, <1>3 DEF Cache!Put

(* What is classified is listed, and history an inspection takes out was   *)
(* judged sensitive: an outage refuses the request instead.                *)
LEMMA ClassifyLists ==
  ASSUME TypeOK, Listed, CacheSound, NEW r \in Requests, Classify(r)
  PROVE  /\ Listed'
         /\ \A q \in Requests \ {r} : ng'[q] = ng[q]
         /\ CacheSize > 0 /\ kind[r] = "inspect" => SanitizesVerdictsOnly(r)
<1> PICK s \in todo[r] :
      \/ CacheHit(r, s)
      \/ CacheMiss(r, s)
      \/ MatchRule(r, s)
      \/ \E sensitive \in BOOLEAN : Judge(r, s, sensitive)
      \/ Unavailable(r, s)
  BY DEF Classify
<1>0. s.text \in Texts /\ Cache!CacheTypeOK
  BY DEF TypeOK, Segment
<1>1. ASSUME NEW v, Conclude(r, s, v),
             kind[r] = "inspect" /\ CacheSize > 0 /\ v.block =>
               \/ v.source = "classifier_unavailable"
               \/ s.text \in DOMAIN entries' /\ entries'[s.text] = v
      PROVE  /\ \A q \in Requests \ {r} : ng'[q] = ng[q]
             /\ CacheSize > 0 /\ kind[r] = "inspect" => SanitizesVerdictsOnly(r)
  <2>1. \/ ng'[r] = ng[r]
        \/ ng'[r] = ng[r] \cup {s} /\ v.block /\ ~Blocks(r, s, v)
    BY <1>1 DEF Conclude, TypeOK
  <2>2. \A q \in Requests \ {r} : ng'[q] = ng[q]
    BY <1>1 DEF Conclude, TypeOK
  <2>3. kind[r] = "inspect" /\ v.block /\ ~Blocks(r, s, v) => v.source # "classifier_unavailable"
    BY DEF Blocks
  <2> QED
    BY <1>1, <2>1, <2>2, <2>3 DEF SanitizesVerdictsOnly
<1>2. CASE CacheHit(r, s)
  <2>1. Cache!Hit(s.text) /\ Conclude(r, s, entries[s.text])
    BY <1>2 DEF CacheHit
  <2>2. s.text \in DOMAIN entries /\ entries' = entries /\ ll' = Cache!MovedToFront(s.text)
    BY <2>1 DEF Cache!Hit, Cache!Cached
  <2>3. Listed'
    BY <1>0, <2>2, MoveKeepsListed
  <2> QED
    BY <1>1, <2>1, <2>2, <2>3
<1>3. CASE CacheMiss(r, s)
  BY <1>3 DEF CacheMiss, Cache!Miss, Cache!cacheVars, Listed, SanitizesVerdictsOnly
<1>4. CASE MatchRule(r, s)
  <2> DEFINE v == [block |-> TRUE, source |-> "rule"]
  <2>1. Cache!Put(s.text, v) /\ Conclude(r, s, v)
    BY <1>4 DEF MatchRule
  <2> HIDE DEF v
  <2> QED
    BY <1>0, <1>1, <2>1, PutKeepsListed
<1>5. ASSUME NEW sensitive \in BOOLEAN, Judge(r, s, sensitive)
      PROVE  /\ Listed'
             /\ \A q \in Requests \ {r} : ng'[q] = ng[q]
             /\ CacheSize > 0 /\ kind[r] = "inspect" => SanitizesVerdictsOnly(r)
  <2> DEFINE v == [block |-> sensitive, source |-> "lfm"]
  <2>1. Cache!Put(s.text, v) /\ Conclude(r, s, v)
    BY <1>5 DEF Judge
  <2> HIDE DEF v
  <2> QED
    BY <1>0, <1>1, <2>1, PutKeepsListed
<1>6. CASE Unavailable(r, s)
  <2> DEFINE v == [block |-> FailClosed, source |-> "classifier_unavailable"]
  <2>1. Conclude(r, s, v) /\ v.source = "classifier_unavailable" /\ UNCHANGED <<ll, entries>>
    BY <1>6 DEF Unavailable, cacheVars
  <2> HIDE DEF v
  <2> QED
    BY <1>1, <2>1 DEF Listed
<1> QED
  BY <1>2, <1>3, <1>4, <1>5, <1>6

(* With a cache, an inspection takes a unit out of the history only for a   *)
(* verdict that its content is sensitive, and that verdict is the cached    *)
(* one; an outage of the classifier never does (detector.go:97-116,         *)
(* types.go:36-43).                                                         *)
THEOREM OutagesCutNothing ==
  ASSUME CacheSize > 0
  PROVE  Spec => InspectionSanitizesVerdicts
<1> DEFINE Cut == \A r \in Requests : kind[r] = "inspect" => SanitizesVerdictsOnly(r)
<1>1. Init => Listed
  BY DEF Init, Cache!CacheInit, Listed
<1>2. TypeOK /\ CacheSound /\ Listed /\ [Next]_vars => Listed' /\ (Cut \/ UNCHANGED vars)
  <2> SUFFICES ASSUME TypeOK, CacheSound, Listed, [Next]_vars
               PROVE  Listed' /\ (Cut \/ UNCHANGED vars)
    OBVIOUS
  <2>1. CASE Crash
    <3>1. ll' = <<>> /\ DOMAIN entries' = {} /\ ng' = ng
      BY <2>1 DEF Crash
    <3> QED
      BY <3>1 DEF Listed, SanitizesVerdictsOnly
  <2>2. ASSUME NEW r \in Requests, Arrive(r) \/ Finish(r)
        PROVE  Listed' /\ Cut
    <3>1. UNCHANGED <<ng, ll, entries>>
      BY <2>2 DEF Arrive, Reject, Passthrough, RefuseUnparseable, ForwardUnparseable, BeginBypass,
         BeginInspection, Begin, Finish, ApproveAsIs, ApproveSanitized, Approve, RefuseHistory,
         RecordBlock, WriteBlock, Send, UpstreamError, Relay, RecordForward, cacheVars
    <3> QED
      BY <3>1 DEF Listed, SanitizesVerdictsOnly
  <2>3. ASSUME NEW r \in Requests, Classify(r)
        PROVE  Listed' /\ Cut
    BY <2>3, ClassifyLists DEF SanitizesVerdictsOnly
  <2>4. CASE UNCHANGED vars
    BY <2>4 DEF vars, cacheVars, Listed
  <2> QED
    BY <2>1, <2>2, <2>3, <2>4 DEF Next, Handle
<1> QED
  BY <1>1, <1>2, TypeCorrect, CacheStaysSound, PTL DEF Spec, InspectionSanitizesVerdicts

-----------------------------------------------------------------------------
(* The live turn goes on *)

(* Sanitizing history drops no block of a user's live turn, and its marker *)
(* can be stripped.                                                        *)
LEMMA LiveTurnStays ==
  ASSUME NEW c, EndsWithUserTurn(c), NEW ngs, \A s \in ngs : s.msg # LastIndex(c)
  PROVE  /\ LastIndex(c) \in DOMAIN Sanitized(c, ngs)
         /\ Sanitized(c, ngs)[LastIndex(c)] = c[LastIndex(c)]
<1> DEFINE l == LastIndex(c)
           m == c[l]
<1>1. /\ l \in DOMAIN c /\ m.role = "user" /\ m = SetBlocks(m, m.blocks)
      /\ DOMAIN m.blocks # {} /\ m.blocks = [b \in DOMAIN m.blocks |-> m.blocks[b]]
      /\ \A b \in DOMAIN m.blocks : m.blocks[b].type # "tool_use"
  BY DEF EndsWithUserTurn
<1>2. \A p \in BlocksOfType(c, {"tool_use"}) : p[1] # l
  <2> SUFFICES ASSUME NEW i \in DOMAIN c, NEW b \in DOMAIN c[i].blocks,
                      c[i].blocks[b].type \in {"tool_use"}
               PROVE  i # l
    BY DEF BlocksOfType
  <2> QED
    BY <1>1
<1>3. \A id : ToolUse(c, id) \subseteq BlocksOfType(c, {"tool_use"})
  BY DEF ToolUse
<1>4. \A b : <<l, b>> \notin DroppedBlocks(c, ngs)
  <2> SUFFICES ASSUME NEW b, <<l, b>> \in DroppedBlocks(c, ngs)
               PROVE  FALSE
    OBVIOUS
  <2>1. CASE \E s \in ngs : <<l, b>> = <<s.msg, s.block>>
    BY <2>1
  <2>2. CASE \E s \in ngs : <<l, b>> \in ToolUse(c, s.tool)
    BY <1>2, <1>3, <2>2
  <2> QED
    BY <2>1, <2>2 DEF DroppedBlocks
<1>5. KeptBlocks(c, ngs, l) = DOMAIN m.blocks
  BY <1>4 DEF KeptBlocks
<1>6. l \notin Emptied(c, ngs) \cup NoticesDropped(c, ngs)
  BY <1>1, <1>5 DEF Emptied, NoticesDropped
<1>7. l \in DOMAIN Sanitized(c, ngs)
      /\ Sanitized(c, ngs)[l] = SetBlocks(m, [b \in KeptBlocks(c, ngs, l) |-> c[l].blocks[b]])
  BY <1>1, <1>6 DEF Sanitized
<1> QED
  BY <1>1, <1>5, <1>7

LEMMA StrippedBlanks ==
  ASSUME NEW c, IsConversation(c), NEW i \in DOMAIN c
  PROVE  BlankTexts(StripMarker(c[i])) \subseteq BlankTexts(c[i])
<1> DEFINE m == c[i]
           Left(b) == Strip[m.blocks[b].text]
           kept == {b \in DOMAIN m.blocks : m.blocks[b].type = "text" => Left(b) \notin Blanks}
           New(b) == IF m.blocks[b].type = "text"
                     THEN [m.blocks[b] EXCEPT !.text = Left(b)]
                     ELSE m.blocks[b]
           bs == [b \in kept |-> New(b)]
<1>1. StripMarker(m) = IF kept = {} THEN m ELSE SetBlocks(m, bs)
  BY DEF StripMarker
<1>2. ASSUME NEW b \in kept, New(b).type = "text"
      PROVE  New(b).text \notin Blanks
  <2>1. m.blocks[b] \in Block
    BY DEF IsConversation, IsMessage
  <2>2. m.blocks[b].type = "text"
    BY <1>2, <2>1 DEF Block
  <2>3. New(b) = [m.blocks[b] EXCEPT !.text = Left(b)] /\ Left(b) \notin Blanks
    BY <2>2
  <2> QED
    BY <2>1, <2>3 DEF Block
<1>3. CASE kept = {}
  BY <1>1, <1>3
<1>4. CASE kept # {}
  <2>1. StripMarker(m).blocks = bs
    BY <1>1, <1>4 DEF SetBlocks
  <2>2. BlankTexts(StripMarker(m)) = {}
    <3> HIDE DEF New, Left
    <3> QED
      BY <1>2, <2>1 DEF BlankTexts
  <2> QED
    BY <2>2
<1> QED
  BY <1>3, <1>4

LEMMA StrippedEndsWithTurn ==
  ASSUME NEW c, IsConversation(c), EndsWithUserTurn(c)
  PROVE  EndsWithUserTurn(StripLiveTurn(c)) /\ LastIndex(StripLiveTurn(c)) = LastIndex(c)
<1> DEFINE l == LastIndex(c)
           m == c[l]
           d == StripLiveTurn(c)
<1>1. /\ l \in DOMAIN c /\ m.role = "user" /\ m = SetBlocks(m, m.blocks)
      /\ DOMAIN m.blocks # {} /\ m.blocks = [b \in DOMAIN m.blocks |-> m.blocks[b]]
      /\ \A b \in DOMAIN m.blocks : m.blocks[b].type # "tool_use"
  BY DEF EndsWithUserTurn
<1>2. DOMAIN d = DOMAIN c /\ d[l] = StripMarker(m)
  BY <1>1 DEF StripLiveTurn
<1>3. LastIndex(d) = l
  BY <1>2 DEF LastIndex
<1>4. /\ StripMarker(m).role = "user"
      /\ StripMarker(m) = SetBlocks(StripMarker(m), StripMarker(m).blocks)
      /\ DOMAIN StripMarker(m).blocks # {}
      /\ StripMarker(m).blocks = [b \in DOMAIN StripMarker(m).blocks |-> StripMarker(m).blocks[b]]
      /\ \A b \in DOMAIN StripMarker(m).blocks : StripMarker(m).blocks[b].type # "tool_use"
  <2> DEFINE Left(b) == Strip[m.blocks[b].text]
             kept == {b \in DOMAIN m.blocks : m.blocks[b].type = "text" => Left(b) \notin Blanks}
             New(b) == IF m.blocks[b].type = "text"
                       THEN [m.blocks[b] EXCEPT !.text = Left(b)]
                       ELSE m.blocks[b]
             bs == [b \in kept |-> New(b)]
  <2>1. StripMarker(m) = IF kept = {} THEN m ELSE SetBlocks(m, bs)
    BY DEF StripMarker
  <2>2. CASE kept = {}
    BY <1>1, <2>1, <2>2
  <2>3. CASE kept # {}
    <3>1. ASSUME NEW b \in kept
          PROVE  New(b).type # "tool_use"
      <4>1. m.blocks[b] \in Block /\ m.blocks[b].type # "tool_use"
        BY <1>1 DEF IsConversation, IsMessage
      <4>2. [m.blocks[b] EXCEPT !.text = Left(b)].type = m.blocks[b].type
        BY <4>1 DEF Block
      <4> QED
        BY <4>1, <4>2
    <3> HIDE DEF New, kept
    <3>2. DOMAIN bs = kept /\ \A b \in kept : bs[b] = New(b)
      OBVIOUS
    <3>3. bs = [b \in DOMAIN bs |-> bs[b]]
      BY Zenon
    <3>4. \A b \in kept : bs[b].type # "tool_use"
      BY <3>1, <3>2
    <3> HIDE DEF bs
    <3>5. /\ SetBlocks(m, bs).role = m.role /\ SetBlocks(m, bs).blocks = bs
          /\ SetBlocks(m, bs) = SetBlocks(SetBlocks(m, bs), bs)
      BY DEF SetBlocks
    <3> QED
      BY <1>1, <2>1, <2>3, <3>2, <3>3, <3>4, <3>5
  <2> QED
    BY <2>2, <2>3
<1> QED
  BY <1>1, <1>2, <1>3, <1>4 DEF EndsWithUserTurn

(* What is to be removed is history, and what leaves is the conversation   *)
(* without it.                                                             *)
Rewrites(r) ==
  \/ ng[r] = {} /\ out[r] = Rewritten(r)
  \/ /\ ng[r] # {} /\ CanSanitize(Rewritten(r), ng[r])
     /\ out[r] = Sanitized(Rewritten(r), ng[r])

TurnInvOf(r) ==
  /\ pc[r] = "idle" => kind[r] = "none" /\ ng[r] = {}
  /\ kind[r] \in {"inspect", "bypass"} => conv[r] \in Inputs
  /\ kind[r] = "bypass" => \A s \in todo[r] : ~IsLive(r, s)
  /\ \A s \in ng[r] : ~IsLive(r, s)
  /\ kind[r] \in {"inspect", "bypass"} /\ (pc[r] = "send" \/ r \in sent) => Rewrites(r)

TurnInv == \A r \in Requests : TurnInvOf(r)

(* A step of request r leaves what the others remember. *)
TurnOf(r) ==
  \A q \in Requests \ {r} :
    /\ pc'[q] = pc[q] /\ kind'[q] = kind[q] /\ conv'[q] = conv[q] /\ todo'[q] = todo[q]
    /\ ng'[q] = ng[q] /\ out'[q] = out[q]
    /\ q \in sent' <=> q \in sent

LEMMA SameTurn ==
  ASSUME NEW r, TurnInvOf(r),
         pc'[r] = pc[r], kind'[r] = kind[r], conv'[r] = conv[r], todo'[r] = todo[r],
         ng'[r] = ng[r], out'[r] = out[r], r \in sent' <=> r \in sent
  PROVE  TurnInvOf(r)'
<1>1. Rewrites(r)' <=> Rewrites(r)
  BY DEF Rewrites, Rewritten
<1> QED
  BY <1>1 DEF TurnInvOf, IsLive

LEMMA OneRequestTurns ==
  ASSUME TurnInv, NEW r \in Requests, TurnOf(r), TurnInvOf(r)'
  PROVE  TurnInv'
<1> SUFFICES ASSUME NEW q \in Requests, q # r
             PROVE  TurnInvOf(q)'
  BY DEF TurnInv
<1> QED
  BY SameTurn DEF TurnInv, TurnOf

LEMMA ArriveTurns ==
  ASSUME TypeOK, EgressInv, TurnInv, NEW r \in Requests, Arrive(r)
  PROVE  TurnInv'
<1> USE DEF Goto
<1>1. pc[r] = "idle" /\ kind[r] = "none" /\ ng[r] = {} /\ r \notin sent
  <2>1. pc[r] = "idle"
    BY DEF Arrive, Reject, Passthrough, RefuseUnparseable, ForwardUnparseable,
       BeginBypass, BeginInspection, Begin
  <2> QED
    BY <2>1 DEF TurnInv, TurnInvOf, EgressInv, HeldBack
<1>2. CASE \/ \E code \in {"405", "400"} : Reject(r, code)
           \/ Passthrough(r)
           \/ \E count \in BOOLEAN : RefuseUnparseable(r, count) \/ ForwardUnparseable(r, count)
  <2>1. /\ pc'[r] # "idle" /\ kind'[r] \in {"none", "raw", "passthrough"}
        /\ UNCHANGED <<ng, sent>>
    BY <1>1, <1>2 DEF Reject, Passthrough, RefuseUnparseable, ForwardUnparseable, TypeOK
  <2>2. TurnOf(r)
    BY <1>2 DEF Reject, Passthrough, RefuseUnparseable, ForwardUnparseable, TypeOK, TurnOf
  <2>3. TurnInvOf(r)'
    BY <1>1, <2>1 DEF TurnInvOf
  <2> QED
    BY <2>2, <2>3, OneRequestTurns
<1>3. ASSUME NEW c \in Inputs, NEW count, NEW k \in {"inspect", "bypass"}, NEW segments,
             Begin(r, c, count, k, segments),
             k = "bypass" => segments = HistorySegments(c)
      PROVE  TurnInv'
  <2>1. /\ pc'[r] = "lookup" /\ kind'[r] = k /\ conv'[r] = c /\ todo'[r] = segments
        /\ UNCHANGED <<ng, sent>>
    BY <1>3 DEF Begin, TypeOK
  <2>2. TurnOf(r)
    BY <1>3 DEF Begin, TypeOK, TurnOf
  <2>3. \A s \in HistorySegments(c) : s.msg # LastIndex(c)
    BY DEF HistorySegments, LiveSegments
  <2>4. TurnInvOf(r)'
    BY <1>1, <1>3, <2>1, <2>3 DEF TurnInvOf, IsLive
  <2> QED
    BY <2>2, <2>4, OneRequestTurns
<1> QED
  BY <1>2, <1>3 DEF Arrive, BeginBypass, BeginInspection

LEMMA ClassifyTurns ==
  ASSUME TypeOK, EgressInv, TurnInv, NEW r \in Requests, Classify(r)
  PROVE  TurnInv'
<1>0. TurnInvOf(r) /\ HeldBack(r) /\ PassedIsClear(r)
  BY DEF TurnInv, EgressInv
<1>1. ASSUME NEW s \in todo[r], NEW v, pc[r] \in {"lookup", "classify"}, Conclude(r, s, v)
      PROVE  TurnInv'
  <2>1. /\ pc'[r] \in {"lookup", "block"} /\ todo'[r] = todo[r] \ {s}
        /\ ng'[r] = ng[r] \/ (ng'[r] = ng[r] \cup {s} /\ v.block /\ ~Blocks(r, s, v))
        /\ UNCHANGED <<kind, conv, out, sent>>
    BY <1>1 DEF Conclude, TypeOK
  <2>2. TurnOf(r)
    BY <1>1 DEF Conclude, TypeOK, TurnOf
  <2>3. ng'[r] = ng[r] \/ (ng'[r] = ng[r] \cup {s} /\ ~IsLive(r, s))
    BY <1>0, <1>1, <2>1 DEF Blocks, PassedIsClear, TurnInvOf
  <2>4. \A x : IsLive(r, x)' <=> IsLive(r, x)
    BY <2>1 DEF IsLive
  <2>5. r \notin sent
    BY <1>0, <1>1 DEF HeldBack
  <2>6. TurnInvOf(r)'
    BY <1>0, <2>1, <2>3, <2>4, <2>5 DEF TurnInvOf
  <2> QED
    BY <2>2, <2>6, OneRequestTurns
<1>2. ASSUME NEW s, CacheMiss(r, s)
      PROVE  TurnInv'
  <2>1. pc[r] = "lookup" /\ pc'[r] = "classify" /\ UNCHANGED <<kind, conv, todo, ng, out, sent>>
    BY <1>2 DEF CacheMiss, Goto, TypeOK
  <2>2. TurnOf(r)
    BY <1>2 DEF CacheMiss, Goto, TypeOK, TurnOf
  <2>3. TurnInvOf(r)'
    BY <1>0, <2>1 DEF TurnInvOf, IsLive, HeldBack
  <2> QED
    BY <2>2, <2>3, OneRequestTurns
<1> PICK s \in todo[r] :
      \/ CacheHit(r, s)
      \/ CacheMiss(r, s)
      \/ MatchRule(r, s)
      \/ \E sensitive \in BOOLEAN : Judge(r, s, sensitive)
      \/ Unavailable(r, s)
  BY DEF Classify
<1>3. CASE CacheHit(r, s)
  BY <1>1, <1>3 DEF CacheHit
<1>4. CASE MatchRule(r, s)
  BY <1>1, <1>4 DEF MatchRule
<1>5. CASE \E sensitive \in BOOLEAN : Judge(r, s, sensitive)
  BY <1>1, <1>5 DEF Judge
<1>6. CASE Unavailable(r, s)
  BY <1>1, <1>6 DEF Unavailable
<1> QED
  BY <1>2, <1>3, <1>4, <1>5, <1>6

LEMMA FinishTurns ==
  ASSUME TypeOK, EgressInv, TurnInv, NEW r \in Requests, Finish(r)
  PROVE  TurnInv'
<1> USE DEF Goto
<1>0. TurnInvOf(r) /\ HeldBack(r)
  BY DEF TurnInv, EgressInv
<1>1. ASSUME NEW b, Approve(r, b),
             \/ ng[r] = {} /\ b = Rewritten(r)
             \/ /\ ng[r] # {} /\ CanSanitize(Rewritten(r), ng[r])
                /\ b = Sanitized(Rewritten(r), ng[r])
      PROVE  TurnInv'
  <2>1. /\ pc'[r] = "send" /\ out'[r] = b
        /\ UNCHANGED <<kind, conv, todo, ng, sent>>
    BY <1>1 DEF Approve, Classified, TypeOK
  <2>2. TurnOf(r)
    BY <1>1 DEF Approve, Classified, TypeOK, TurnOf
  <2>3. Rewrites(r)'
    BY <1>1, <2>1 DEF Rewrites, Rewritten
  <2>4. TurnInvOf(r)'
    BY <1>0, <2>1, <2>3 DEF TurnInvOf, IsLive
  <2> QED
    BY <2>2, <2>4, OneRequestTurns
<1>2. ASSUME UNCHANGED <<kind, conv, todo, ng, out>>, TurnOf(r),
             pc'[r] \notin {"idle", "send"},
             r \in sent' => pc[r] = "send" \/ r \in sent
      PROVE  TurnInv'
  <2>1. Rewrites(r)' <=> Rewrites(r)
    BY <1>2 DEF Rewrites, Rewritten
  <2>2. TurnInvOf(r)'
    BY <1>0, <1>2, <2>1 DEF TurnInvOf, IsLive
  <2> QED
    BY <1>2, <2>2, OneRequestTurns
<1>3. CASE \/ RefuseHistory(r) \/ RecordBlock(r) \/ WriteBlock(r) \/ UpstreamError(r)
           \/ Relay(r) \/ RecordForward(r)
  <2>1. /\ UNCHANGED <<kind, conv, todo, ng, out, sent>>
        /\ pc'[r] \notin {"idle", "send"}
    BY <1>3 DEF RefuseHistory, RecordBlock, WriteBlock, UpstreamError, Relay, RecordForward, TypeOK
  <2>2. TurnOf(r)
    BY <1>3 DEF RefuseHistory, RecordBlock, WriteBlock, UpstreamError, Relay, RecordForward, TypeOK,
       TurnOf
  <2> QED
    BY <1>2, <2>1, <2>2
<1>4. CASE Send(r)
  <2>1. /\ UNCHANGED <<kind, conv, todo, ng, out>> /\ pc[r] = "send" /\ pc'[r] = "await"
        /\ TurnOf(r)
    BY <1>4 DEF Send, TypeOK, TurnOf
  <2> QED
    BY <1>2, <2>1
<1> QED
  BY <1>1, <1>3, <1>4 DEF Finish, ApproveAsIs, ApproveSanitized

LEMMA CrashTurns ==
  ASSUME TypeOK, TurnInv, Crash
  PROVE  TurnInv'
<1> SUFFICES ASSUME NEW r \in Requests
             PROVE  TurnInvOf(r)'
  BY DEF TurnInv
<1>1. TurnInvOf(r)
  BY DEF TurnInv
<1>2. /\ pc'[r] \in {pc[r], "dead"} /\ todo'[r] = {}
      /\ UNCHANGED <<kind, conv, ng, out, sent>>
  BY DEF Crash, TypeOK
<1>3. Rewrites(r)' <=> Rewrites(r)
  BY <1>2 DEF Rewrites, Rewritten
<1> QED
  BY <1>1, <1>2, <1>3 DEF TurnInvOf, IsLive

(* What the sanitizer removes around it, the live turn is forwarded whole,  *)
(* without its marker if it has one, and a rewritten history starts with    *)
(* the user and pairs its tool calls (sanitizer.go:117-174), and stripping  *)
(* leaves no blank text (bypass.go:66-68): for every                        *)
(* client whose arrays end with the turn of its user.                       *)
THEOREM LiveTurnIsForwarded ==
  ASSUME \A c \in Inputs : DOMAIN c # {} => EndsWithUserTurn(c)
  PROVE  Spec => []ForwardedIsUsable
<1>1. Init => TurnInv
  BY DEF Init, TurnInv, TurnInvOf
<1>2. TypeOK /\ EgressInv /\ TurnInv /\ [Next]_vars => TurnInv'
  <2> SUFFICES ASSUME TypeOK, EgressInv, TurnInv, [Next]_vars
               PROVE  TurnInv'
    OBVIOUS
  <2>1. CASE UNCHANGED vars
    <3>1. UNCHANGED <<pc, kind, conv, todo, ng, out, sent>>
      BY <2>1 DEF vars, requestVars
    <3> QED
      BY <3>1, SameTurn DEF TurnInv
  <2>2. CASE Crash
    BY <2>2, CrashTurns
  <2>3. ASSUME NEW r \in Requests, Arrive(r) \/ Handle(r)
        PROVE  TurnInv'
    BY <2>3, ArriveTurns, ClassifyTurns, FinishTurns DEF Handle
  <2> QED
    BY <2>1, <2>2, <2>3 DEF Next
<1>3. TypeOK /\ TurnInv => ForwardedIsUsable
  <2> SUFFICES ASSUME TurnInv, NEW r \in sent, r \in Requests,
                      kind[r] \in {"inspect", "bypass"}, DOMAIN conv[r] # {}
               PROVE  LET live == LastIndex(conv[r])
                      IN /\ live \in DOMAIN out[r] /\ out[r][live] = Rewritten(r)[live]
                         /\ BlankTexts(out[r][live]) \subseteq BlankTexts(conv[r][live])
                         /\ ng[r] # {} => ValidStructure(out[r])
    BY DEF ForwardedIsUsable, TypeOK
  <2>1. conv[r] \in Inputs /\ Rewrites(r) /\ \A s \in ng[r] : s.msg # LastIndex(conv[r])
    BY DEF TurnInv, TurnInvOf, IsLive
  <2>2. EndsWithUserTurn(conv[r]) /\ IsConversation(conv[r])
    BY <2>1
  <2>3. EndsWithUserTurn(Rewritten(r)) /\ LastIndex(Rewritten(r)) = LastIndex(conv[r])
    BY <2>2, StrippedEndsWithTurn DEF Rewritten
  <2>6. BlankTexts(Rewritten(r)[LastIndex(conv[r])]) \subseteq BlankTexts(conv[r][LastIndex(conv[r])])
    <3>1. LastIndex(conv[r]) \in DOMAIN conv[r]
      BY <2>2 DEF EndsWithUserTurn
    <3> QED
      BY <2>2, <3>1, StrippedBlanks DEF Rewritten, StripLiveTurn
  <2>4. CASE ng[r] = {}
    BY <2>1, <2>3, <2>4, <2>6 DEF Rewrites, EndsWithUserTurn
  <2>5. CASE ng[r] # {}
    <3>1. CanSanitize(Rewritten(r), ng[r]) /\ out[r] = Sanitized(Rewritten(r), ng[r])
      BY <2>1, <2>5 DEF Rewrites
    <3>2. /\ LastIndex(Rewritten(r)) \in DOMAIN out[r]
          /\ out[r][LastIndex(Rewritten(r))] = Rewritten(r)[LastIndex(Rewritten(r))]
      BY <2>1, <2>3, <3>1, LiveTurnStays
    <3> QED
      BY <2>3, <2>6, <3>1, <3>2 DEF CanSanitize
  <2> QED
    BY <2>4, <2>5
<1> QED
  BY <1>1, <1>2, <1>3, TypeCorrect, EgressInvariant, PTL DEF Spec

-----------------------------------------------------------------------------
(* The proxy keeps the promise of DlpGate: the step simulation under the   *)
(* refinement mapping of Gateway.                                          *)

StatusOf == [r \in Requests |-> GateStatus(r)]
ChannelOf == [r \in Requests |-> IF kind[r] = "passthrough" THEN "other" ELSE "prompt"]
BodyOf == [r \in Requests |-> IF r \in sent THEN out[r] ELSE Unread]

-----------------------------------------------------------------------------
(* The operators of Conversation that DlpGate sees are those of Gateway.   *)

LEMMA SameConversations ==
  ASSUME NEW c
  PROVE  /\ Gate!LastIndex(c) = LastIndex(c)
         /\ Gate!Segments(c) = Segments(c)
         /\ Gate!Overrides(c) <=> Overrides(c)
         /\ Gate!StripLiveTurn(c) = StripLiveTurn(c)
<1>1. Gate!LastIndex(c) = LastIndex(c)
  BY DEF Gate!LastIndex, LastIndex
<1>2. Gate!Segments(c) = Segments(c)
  BY DEF Gate!Segments, Gate!SegmentAt, Gate!Inspected, Gate!SegmentTypes, Gate!Normalized,
         Segments, SegmentAt, Inspected, SegmentTypes, Normalized
<1>3. Gate!Overrides(c) <=> Overrides(c)
  BY <1>1 DEF Gate!Overrides, Gate!ContainsMarker, Overrides, ContainsMarker
<1>4. \A m : Gate!StripMarker(m) = StripMarker(m)
  BY DEF Gate!StripMarker, Gate!SetBlocks, StripMarker, SetBlocks
<1>5. Gate!StripLiveTurn(c) = StripLiveTurn(c)
  BY <1>1, <1>4 DEF Gate!StripLiveTurn, StripLiveTurn
<1> QED
  BY <1>1, <1>2, <1>3, <1>5

(* What is sanitized, or left as it is, is part of what was sent. *)
LEMMA PartOfItself ==
  ASSUME NEW c
  PROVE  Gate!PartOf(c, c)
  BY DEF Gate!PartOf

LEMMA SanitizedIsPart ==
  ASSUME NEW c, NEW ngs
  PROVE  Gate!PartOf(Sanitized(c, ngs), c)
<1> DEFINE d == Sanitized(c, ngs)
<1>1. DOMAIN d \subseteq DOMAIN c
  BY DEF Sanitized
<1>2. ASSUME NEW i \in DOMAIN d
      PROVE  /\ d[i].role = c[i].role
             /\ d[i].blocks = [b \in KeptBlocks(c, ngs, i) |-> c[i].blocks[b]]
  BY DEF Sanitized, SetBlocks
<1>3. ASSUME NEW i \in DOMAIN d, NEW b \in DOMAIN d[i].blocks
      PROVE  b \in DOMAIN c[i].blocks /\ d[i].blocks[b] = c[i].blocks[b]
  BY <1>2 DEF KeptBlocks
<1> HIDE DEF d
<1> QED
  BY <1>1, <1>2, <1>3 DEF Gate!PartOf, d

-----------------------------------------------------------------------------
(* What every step keeps *)

(* The body that is about to leave is the one the promise allows. *)
Releasable(r) ==
  \/ kind[r] = "inspect" /\ Gate!PartOf(out[r], conv[r])
  \/ /\ kind[r] = "bypass" /\ BypassEnabled /\ Overrides(conv[r])
     /\ Gate!PartOf(out[r], StripLiveTurn(conv[r]))
  \/ kind[r] = "raw" /\ ~FailClosed /\ out[r] = Unread
  \/ kind[r] = "passthrough" /\ out[r] = Unread

PromiseInvOf(r) ==
  /\ pc[r] = "idle" => kind[r] = "none" /\ conv[r] = Unread
  /\ pc[r] \in {"lookup", "classify"} =>
       \/ kind[r] = "inspect"
       \/ kind[r] = "bypass" /\ BypassEnabled /\ Overrides(conv[r])
  /\ pc[r] \in {"idle", "lookup", "classify", "send"} => why[r] = "none"
  /\ pc[r] \in {"block", "refuse"} => why[r] # "none"
  /\ pc[r] \in {"await", "record"} => r \in sent
  /\ pc[r] = "send" => Releasable(r)

PromiseInv == \A r \in Requests : PromiseInvOf(r)

(* A step of request r is seen of r alone. *)
SeenOf(r) ==
  /\ \A q \in Requests \ {r} :
       /\ pc'[q] = pc[q] /\ kind'[q] = kind[q] /\ conv'[q] = conv[q]
       /\ why'[q] = why[q] /\ out'[q] = out[q]
       /\ q \in sent' <=> q \in sent
  /\ conv' = [conv EXCEPT ![r] = conv'[r]]

LEMMA OneRequestPromises ==
  ASSUME PromiseInv, NEW r \in Requests, SeenOf(r), PromiseInvOf(r)'
  PROVE  PromiseInv'
<1> SUFFICES ASSUME NEW q \in Requests, q # r
             PROVE  PromiseInvOf(q)'
  BY DEF PromiseInv
<1>1. PromiseInvOf(q)
  BY DEF PromiseInv
<1>2. /\ pc'[q] = pc[q] /\ kind'[q] = kind[q] /\ conv'[q] = conv[q]
      /\ why'[q] = why[q] /\ out'[q] = out[q]
      /\ q \in sent' <=> q \in sent
  BY DEF SeenOf
<1>3. Gate!PartOf(out[q], conv[q])' <=> Gate!PartOf(out[q], conv[q])
  BY <1>2 DEF Gate!PartOf
<1>4. Gate!PartOf(out[q], StripLiveTurn(conv[q]))' <=> Gate!PartOf(out[q], StripLiveTurn(conv[q]))
  BY <1>2 DEF Gate!PartOf
<1>5. Releasable(q)' <=> Releasable(q)
  BY <1>2, <1>3, <1>4 DEF Releasable
<1> QED
  BY <1>1, <1>2, <1>5 DEF PromiseInvOf

(* How the step looks through the refinement mapping. *)
LEMMA SeenThrough ==
  ASSUME NEW r \in Requests, SeenOf(r)
  PROVE  /\ StatusOf' = [StatusOf EXCEPT ![r] = GateStatus(r)']
         /\ ChannelOf' = [ChannelOf EXCEPT ![r] = ChannelOf'[r]]
         /\ BodyOf' = [BodyOf EXCEPT ![r] = BodyOf'[r]]
         /\ conv' = [conv EXCEPT ![r] = conv'[r]]
<1>1. \A q \in Requests \ {r} : GateStatus(q)' = GateStatus(q)
  BY DEF SeenOf, GateStatus
<1>2. StatusOf' = [StatusOf EXCEPT ![r] = GateStatus(r)']
  BY <1>1 DEF StatusOf
<1>3. ChannelOf' = [ChannelOf EXCEPT ![r] = ChannelOf'[r]]
  BY DEF ChannelOf, SeenOf
<1>4. BodyOf' = [BodyOf EXCEPT ![r] = BodyOf'[r]]
  BY DEF BodyOf, SeenOf
<1> QED
  BY <1>2, <1>3, <1>4 DEF SeenOf

(* A step that the mapping hides. *)
Hidden(r) ==
  /\ GateStatus(r)' = GateStatus(r)
  /\ ChannelOf'[r] = ChannelOf[r] /\ conv'[r] = conv[r] /\ BodyOf'[r] = BodyOf[r]

LEMMA ShowsNothing ==
  ASSUME TypeOK, NEW r \in Requests, SeenOf(r), Hidden(r)
  PROVE  /\ UNCHANGED <<StatusOf, ChannelOf, BodyOf, conv>>
         /\ vetted' = vetted => UNCHANGED Gate!gateVars
<1>1. StatusOf' = StatusOf
  BY SeenThrough DEF Hidden, StatusOf
<1>2. ChannelOf' = ChannelOf
  <2>1. ChannelOf' = [ChannelOf EXCEPT ![r] = ChannelOf[r]]
    BY SeenThrough DEF Hidden
  <2>2. ChannelOf = [q \in Requests |-> ChannelOf[q]]
    BY DEF ChannelOf
  <2> QED
    BY <2>1, <2>2
<1>3. BodyOf' = BodyOf
  BY SeenThrough DEF Hidden, BodyOf
<1>4. conv' = conv
  BY DEF SeenOf, Hidden, TypeOK
<1> QED
  BY <1>1, <1>2, <1>3, <1>4 DEF Gate!gateVars, StatusOf, ChannelOf, BodyOf

LEMMA ShowsVet ==
  ASSUME TypeOK, NEW r \in Requests, SeenOf(r), Hidden(r),
         NEW t \in Texts, vetted' = vetted \cup {t}
  PROVE  Gate!GateNext
<1>1. Gate!Vet(t)
  BY ShowsNothing DEF Gate!Vet, StatusOf, ChannelOf, BodyOf
<1> QED
  BY <1>1 DEF Gate!GateNext

LEMMA ShowsOpen ==
  ASSUME NEW r \in Requests, SeenOf(r), GateStatus(r) = "new", GateStatus(r)' = "open",
         conv'[r] \in Inputs \cup {Unread}, BodyOf'[r] = BodyOf[r], vetted' = vetted
  PROVE  Gate!GateNext
<1>1. BodyOf' = BodyOf
  BY SeenThrough DEF BodyOf
<1>2. StatusOf[r] = "new"
  BY DEF StatusOf
<1>3. PICK c \in Inputs \cup {Unread} : c = conv'[r]
  OBVIOUS
<1>4. PICK ch \in {"prompt", "other"} : ch = ChannelOf'[r]
  BY DEF ChannelOf
<1>5. Gate!Open(r, c, ch)
  BY <1>1, <1>2, <1>3, <1>4, SeenThrough DEF Gate!Open, StatusOf, ChannelOf, BodyOf
<1>6. Gate!NoBody = Unread
  BY DEF Gate!NoBody, Unread
<1> QED
  BY <1>5, <1>6 DEF Gate!GateNext

LEMMA ShowsRefusal ==
  ASSUME TypeOK, NEW r \in Requests, SeenOf(r),
         GateStatus(r) \in {"new", "open"}, GateStatus(r)' = "refused",
         ChannelOf'[r] = ChannelOf[r], conv'[r] = conv[r], BodyOf'[r] = BodyOf[r], vetted' = vetted
  PROVE  Gate!GateNext
<1>1. UNCHANGED <<ChannelOf, BodyOf, conv>>
  BY SeenThrough DEF ChannelOf, BodyOf, SeenOf, TypeOK
<1>2. Gate!Refuse(r)
  BY <1>1, SeenThrough DEF Gate!Refuse, StatusOf, ChannelOf, BodyOf
<1> QED
  BY <1>2 DEF Gate!GateNext

LEMMA ShowsFailure ==
  ASSUME TypeOK, NEW r \in Requests, SeenOf(r),
         GateStatus(r) \in {"new", "open"}, GateStatus(r)' = "failed",
         ChannelOf'[r] = ChannelOf[r], conv'[r] = conv[r], BodyOf'[r] = BodyOf[r], vetted' = vetted
  PROVE  Gate!GateNext
<1>1. UNCHANGED <<ChannelOf, BodyOf, conv>>
  BY SeenThrough DEF ChannelOf, BodyOf, SeenOf, TypeOK
<1>2. StatusOf' = [q \in Requests |-> IF q \in {r} THEN "failed" ELSE StatusOf[q]]
  BY SeenThrough DEF StatusOf
<1>3. Gate!Fail({r})
  BY <1>1, <1>2 DEF Gate!Fail, StatusOf, ChannelOf, BodyOf
<1> QED
  BY <1>3 DEF Gate!GateNext

(* The body leaves: the promise is redeemed here. *)
LEMMA SendShows ==
  ASSUME TypeOK, EgressInv, PromiseInv, NEW r \in Requests, Send(r)
  PROVE  SeenOf(r) /\ PromiseInvOf(r)' /\ Gate!GateNext
<1>1. /\ pc[r] = "send" /\ pc' = [pc EXCEPT ![r] = "await"] /\ sent' = sent \cup {r}
      /\ UNCHANGED <<kind, conv, why, out, vetted>>
  BY DEF Send, Goto
<1>2. pc'[r] = "await" /\ r \notin sent /\ why[r] = "none" /\ Releasable(r) /\ BodyIsClear(r)
  BY <1>1 DEF TypeOK, EgressInv, HeldBack, PromiseInv, PromiseInvOf
<1>3. SeenOf(r)
  BY <1>1 DEF SeenOf, TypeOK
<1>4. PromiseInvOf(r)'
  BY <1>1, <1>2 DEF PromiseInvOf
<1>5. StatusOf[r] = "open" /\ BodyOf'[r] = out[r]
  BY <1>1, <1>2 DEF StatusOf, GateStatus, BodyOf
<1>6. ChannelOf' = ChannelOf /\ conv' = conv /\ vetted' = vetted
  BY <1>1 DEF ChannelOf
<1>7. PICK b \in {BodyOf'[r]} : b = out[r]
  BY <1>5
<1>8. CASE kind[r] = "inspect"
  <2>1. StatusOf' = [StatusOf EXCEPT ![r] = "released"]
    BY <1>1, <1>3, <1>8, SeenThrough DEF GateStatus
  <2>2. Gate!PartOf(b, conv[r])
    BY <1>2, <1>7, <1>8 DEF Releasable
  <2>3. Gate!Harmless(Gate!Segments(b))
    BY <1>1, <1>2, <1>7, <1>8, SameConversations DEF Gate!Harmless, BodyIsClear, Cleared
  <2>4. BodyOf' = [BodyOf EXCEPT ![r] = b]
    BY <1>3, <1>5, <1>7, SeenThrough
  <2>5. Gate!Release(r, b)
    BY <1>5, <1>6, <2>1, <2>2, <2>3, <2>4 DEF Gate!Release, StatusOf, ChannelOf, BodyOf
  <2> QED
    BY <1>3, <1>4, <2>5 DEF Gate!GateNext, BodyOf
<1>9. CASE kind[r] = "bypass"
  <2>1. StatusOf' = [StatusOf EXCEPT ![r] = "overridden"]
    BY <1>1, <1>3, <1>9, SeenThrough DEF GateStatus
  <2>2. /\ BypassEnabled /\ Gate!Overrides(conv[r])
        /\ Gate!PartOf(b, Gate!StripLiveTurn(conv[r]))
    BY <1>2, <1>7, <1>9, SameConversations DEF Releasable
  <2>3. Gate!Harmless({s \in Gate!Segments(b) : s.msg # Gate!LastIndex(conv[r])})
    BY <1>1, <1>2, <1>7, SameConversations DEF Gate!Harmless, BodyIsClear, Cleared, IsLive
  <2>4. BodyOf' = [BodyOf EXCEPT ![r] = b]
    BY <1>3, <1>5, <1>7, SeenThrough
  <2>5. Gate!ReleaseOverridden(r, b)
    BY <1>5, <1>6, <2>1, <2>2, <2>3, <2>4 DEF Gate!ReleaseOverridden, StatusOf, ChannelOf, BodyOf
  <2> QED
    BY <1>3, <1>4, <2>5 DEF Gate!GateNext, BodyOf
<1>10. CASE kind[r] \in {"raw", "passthrough"}
  <2>1. StatusOf' = [StatusOf EXCEPT ![r] = "uninspected"]
    BY <1>1, <1>3, <1>10, SeenThrough DEF GateStatus
  <2>2. out[r] = Unread /\ (FailClosed => ChannelOf[r] = "other")
    BY <1>2, <1>10 DEF Releasable, ChannelOf
  <2>3. BodyOf' = BodyOf
    BY <1>1, <2>2 DEF BodyOf
  <2>4. Gate!ReleaseUninspected(r)
    BY <1>5, <1>6, <2>1, <2>2, <2>3 DEF Gate!ReleaseUninspected, StatusOf, ChannelOf, BodyOf
  <2> QED
    BY <1>3, <1>4, <2>4 DEF Gate!GateNext
<1> QED
  BY <1>2, <1>8, <1>9, <1>10 DEF Releasable

LEMMA CrashShows ==
  ASSUME TypeOK, EgressInv, PromiseInv, Crash
  PROVE  PromiseInv' /\ Gate!GateNext
<1>1. /\ pc' = [r \in Requests |-> IF pc[r] \in {"idle", "done"} THEN pc[r] ELSE "dead"]
      /\ UNCHANGED <<kind, conv, why, out, sent, vetted>>
  BY DEF Crash
<1>2. PromiseInv'
  BY <1>1 DEF PromiseInv, PromiseInvOf
<1> DEFINE S == {r \in Requests : GateStatus(r) = "open"}
<1>3. ASSUME NEW r \in Requests
      PROVE  GateStatus(r)' = IF r \in S THEN "failed" ELSE GateStatus(r)
  BY <1>1 DEF GateStatus, PromiseInv, PromiseInvOf, TypeOK, PCs
<1>4. S \in SUBSET Requests /\ \A r \in S : StatusOf[r] = "open"
  BY DEF StatusOf
<1>5. StatusOf' = [r \in Requests |-> IF r \in S THEN "failed" ELSE StatusOf[r]]
  BY <1>3 DEF StatusOf
<1>6. UNCHANGED <<ChannelOf, BodyOf, conv, vetted>>
  BY <1>1 DEF ChannelOf, BodyOf
<1> HIDE DEF S
<1>7. Gate!Fail(S)
  BY <1>4, <1>5, <1>6 DEF Gate!Fail, StatusOf, ChannelOf, BodyOf
<1> QED
  BY <1>2, <1>4, <1>7 DEF Gate!GateNext

LEMMA ArriveShows ==
  ASSUME TypeOK, EgressInv, PromiseInv, NEW r \in Requests, Arrive(r)
  PROVE  SeenOf(r) /\ PromiseInvOf(r)' /\ Gate!GateNext
<1> USE DEF Goto
<1>1. /\ pc[r] = "idle"
      /\ kind[r] = "none" /\ conv[r] = Unread /\ why[r] = "none" /\ r \notin sent /\ out[r] = Unread
  <2>1. pc[r] = "idle"
    BY DEF Arrive, Reject, Passthrough, RefuseUnparseable, ForwardUnparseable,
       BeginBypass, BeginInspection, Begin
  <2> QED
    BY <2>1 DEF PromiseInv, PromiseInvOf, EgressInv, HeldBack
<1>2. GateStatus(r) = "new" /\ ChannelOf[r] = "prompt" /\ BodyOf[r] = Unread
  BY <1>1 DEF GateStatus, ChannelOf, BodyOf
<1>3. BodyOf'[r] = BodyOf[r] /\ UNCHANGED <<sent, out, vetted>>
  BY <1>1 DEF Arrive, Reject, Passthrough, RefuseUnparseable, ForwardUnparseable,
     BeginBypass, BeginInspection, Begin, BodyOf
<1>4. ASSUME NEW code \in {"405", "400"}, Reject(r, code)
      PROVE  SeenOf(r) /\ PromiseInvOf(r)' /\ Gate!GateNext
  <2>1. SeenOf(r)
    BY <1>4 DEF Reject, SeenOf, TypeOK
  <2>2. PromiseInvOf(r)'
    BY <1>1, <1>4 DEF Reject, PromiseInvOf, TypeOK
  <2>3. GateStatus(r)' = "failed" /\ ChannelOf'[r] = ChannelOf[r] /\ conv'[r] = conv[r]
    BY <1>1, <1>4 DEF Reject, GateStatus, ChannelOf, TypeOK
  <2> QED
    BY <1>2, <1>3, <2>1, <2>2, <2>3, ShowsFailure
<1>5. ASSUME NEW count \in BOOLEAN, RefuseUnparseable(r, count)
      PROVE  SeenOf(r) /\ PromiseInvOf(r)' /\ Gate!GateNext
  <2>1. SeenOf(r)
    BY <1>5 DEF RefuseUnparseable, SeenOf, TypeOK
  <2>2. PromiseInvOf(r)'
    BY <1>1, <1>5 DEF RefuseUnparseable, PromiseInvOf, TypeOK
  <2>3. GateStatus(r)' = "refused" /\ ChannelOf'[r] = ChannelOf[r] /\ conv'[r] = conv[r]
    BY <1>1, <1>5 DEF RefuseUnparseable, GateStatus, ChannelOf, TypeOK
  <2> QED
    BY <1>2, <1>3, <2>1, <2>2, <2>3, ShowsRefusal
<1>6. ASSUME NEW k \in {"raw", "passthrough"}, k = "raw" => ~FailClosed,
             pc' = [pc EXCEPT ![r] = "send"], kind' = [kind EXCEPT ![r] = k],
             UNCHANGED <<conv, why>>
      PROVE  SeenOf(r) /\ PromiseInvOf(r)' /\ Gate!GateNext
  <2>1. SeenOf(r)
    BY <1>3, <1>6 DEF SeenOf, TypeOK
  <2>2. pc'[r] = "send" /\ kind'[r] = k
    BY <1>6 DEF TypeOK
  <2>3. PromiseInvOf(r)'
    BY <1>1, <1>3, <1>6, <2>2 DEF PromiseInvOf, Releasable
  <2>4. GateStatus(r)' = "open" /\ conv'[r] \in Inputs \cup {Unread}
    BY <1>1, <1>3, <1>6, <2>2 DEF GateStatus
  <2> QED
    BY <1>2, <1>3, <2>1, <2>3, <2>4, ShowsOpen
<1>7. CASE Passthrough(r)
  BY <1>6, <1>7 DEF Passthrough
<1>8. ASSUME NEW count \in BOOLEAN, ForwardUnparseable(r, count)
      PROVE  SeenOf(r) /\ PromiseInvOf(r)' /\ Gate!GateNext
  BY <1>6, <1>8 DEF ForwardUnparseable
<1>9. ASSUME NEW count \in BOOLEAN, NEW c \in Inputs, NEW k, NEW segments, Begin(r, c, count, k, segments),
             k = "inspect" \/ (k = "bypass" /\ BypassEnabled /\ Overrides(c))
      PROVE  SeenOf(r) /\ PromiseInvOf(r)' /\ Gate!GateNext
  <2>1. SeenOf(r)
    BY <1>9 DEF Begin, SeenOf, TypeOK
  <2>2. pc'[r] = "lookup" /\ kind'[r] = k /\ conv'[r] = c /\ why'[r] = why[r]
    BY <1>9 DEF Begin, TypeOK
  <2>3. PromiseInvOf(r)'
    BY <1>1, <1>9, <2>2 DEF PromiseInvOf
  <2>4. GateStatus(r)' = "open" /\ conv'[r] \in Inputs \cup {Unread}
    BY <1>1, <1>3, <1>9, <2>2 DEF GateStatus
  <2> QED
    BY <1>2, <1>3, <2>1, <2>3, <2>4, ShowsOpen
<1>10. ASSUME NEW count \in BOOLEAN, NEW c \in Inputs,
              BeginBypass(r, c, count) \/ BeginInspection(r, c, count)
      PROVE  SeenOf(r) /\ PromiseInvOf(r)' /\ Gate!GateNext
  BY <1>9, <1>10 DEF BeginBypass, BeginInspection
<1> QED
  BY <1>4, <1>5, <1>7, <1>8, <1>10 DEF Arrive

(* A verdict: the request is refused, or goes on. *)
LEMMA ConcludeShows ==
  ASSUME TypeOK, EgressInv, PromiseInv, NEW r \in Requests, NEW s \in todo[r], NEW v \in Verdict,
         pc[r] \in {"lookup", "classify"}, Conclude(r, s, v)
  PROVE  /\ SeenOf(r) /\ PromiseInvOf(r)'
         /\ vetted' = vetted => Gate!GateNext \/ UNCHANGED Gate!gateVars
         /\ ~v.block => Hidden(r)
<1>1. UNCHANGED <<kind, conv, out, sent>>
  BY DEF Conclude
<1>2. r \notin sent /\ why[r] = "none" /\ GateStatus(r) = "open"
  BY DEF EgressInv, HeldBack, PromiseInv, PromiseInvOf, GateStatus
<1>3. SeenOf(r)
  BY DEF Conclude, SeenOf, TypeOK
<1>4. ChannelOf'[r] = ChannelOf[r] /\ conv'[r] = conv[r] /\ BodyOf'[r] = BodyOf[r]
  BY <1>1 DEF ChannelOf, BodyOf
<1>5. CASE Blocks(r, s, v)
  <2>1. pc'[r] = "block" /\ why'[r] = v.source /\ v.source # "none" /\ v.block
    BY <1>5 DEF Conclude, TypeOK, Verdict, Blocks
  <2>2. PromiseInvOf(r)'
    BY <2>1 DEF PromiseInvOf
  <2>3. GateStatus(r)' = "refused"
    BY <1>1, <1>2, <2>1 DEF GateStatus
  <2> QED
    BY <1>2, <1>3, <1>4, <2>1, <2>2, <2>3, ShowsRefusal
<1>6. CASE ~Blocks(r, s, v)
  <2>1. pc'[r] = "lookup" /\ why' = why
    BY <1>6 DEF Conclude, TypeOK
  <2>2. PromiseInvOf(r)'
    BY <1>1, <1>2, <2>1 DEF PromiseInv, PromiseInvOf
  <2>3. Hidden(r)
    BY <1>1, <1>2, <1>4, <2>1 DEF Hidden, GateStatus
  <2> QED
    BY <1>3, <2>2, <2>3, ShowsNothing
<1> QED
  BY <1>5, <1>6

LEMMA ClassifyShows ==
  ASSUME TypeOK, EgressInv, PromiseInv, NEW r \in Requests, Classify(r)
  PROVE  SeenOf(r) /\ PromiseInvOf(r)' /\ (Gate!GateNext \/ UNCHANGED Gate!gateVars)
<1> PICK s \in todo[r] :
      \/ CacheHit(r, s)
      \/ CacheMiss(r, s)
      \/ MatchRule(r, s)
      \/ \E sensitive \in BOOLEAN : Judge(r, s, sensitive)
      \/ Unavailable(r, s)
  BY DEF Classify
<1>0. s.text \in Texts
  BY DEF TypeOK, Segment
<1>1. CASE CacheHit(r, s)
  <2>1. Cache!Hit(s.text) /\ Conclude(r, s, entries[s.text]) /\ vetted' = vetted /\ pc[r] = "lookup"
    BY <1>1 DEF CacheHit
  <2>2. entries[s.text] \in Verdict
    BY <1>0, <2>1, HitTyped DEF TypeOK
  <2> QED
    BY <2>1, <2>2, ConcludeShows
<1>2. CASE CacheMiss(r, s)
  <2>1. /\ UNCHANGED <<kind, conv, why, out, sent, vetted>>
        /\ pc[r] = "lookup" /\ pc' = [pc EXCEPT ![r] = "classify"]
    BY <1>2 DEF CacheMiss, Goto
  <2>2. SeenOf(r) /\ pc'[r] = "classify"
    BY <2>1 DEF SeenOf, TypeOK
  <2>3. PromiseInvOf(r)'
    BY <2>1, <2>2 DEF PromiseInv, PromiseInvOf
  <2>4. Hidden(r)
    BY <2>1, <2>2 DEF Hidden, GateStatus, ChannelOf, BodyOf
  <2> QED
    BY <2>1, <2>2, <2>3, <2>4, ShowsNothing
<1>3. CASE MatchRule(r, s)
  <2> DEFINE v == [block |-> TRUE, source |-> "rule"]
  <2>1. v \in Verdict /\ Conclude(r, s, v) /\ vetted' = vetted /\ pc[r] = "classify"
    BY <1>3 DEF MatchRule, Verdict
  <2> HIDE DEF v
  <2> QED
    BY <2>1, ConcludeShows
<1>4. ASSUME NEW sensitive \in BOOLEAN, Judge(r, s, sensitive)
      PROVE  SeenOf(r) /\ PromiseInvOf(r)' /\ (Gate!GateNext \/ UNCHANGED Gate!gateVars)
  <2> DEFINE v == [block |-> sensitive, source |-> "lfm"]
  <2>1. v \in Verdict /\ v.block = sensitive /\ Conclude(r, s, v) /\ pc[r] = "classify"
    BY <1>4 DEF Judge, Verdict
  <2>2. vetted' = IF sensitive THEN vetted ELSE vetted \cup {s.text}
    BY <1>4 DEF Judge
  <2> HIDE DEF v
  <2>3. CASE sensitive
    BY <2>1, <2>2, <2>3, ConcludeShows
  <2>4. CASE ~sensitive
    BY <1>0, <2>1, <2>2, <2>4, ConcludeShows, ShowsVet
  <2> QED
    BY <2>3, <2>4
<1>5. CASE Unavailable(r, s)
  <2> DEFINE v == [block |-> FailClosed, source |-> "classifier_unavailable"]
  <2>1. v \in Verdict /\ Conclude(r, s, v) /\ vetted' = vetted /\ pc[r] = "classify"
    BY <1>5 DEF Unavailable, Verdict
  <2> HIDE DEF v
  <2> QED
    BY <2>1, ConcludeShows
<1> QED
  BY <1>1, <1>2, <1>3, <1>4, <1>5

LEMMA FinishShows ==
  ASSUME TypeOK, EgressInv, PromiseInv, NEW r \in Requests, Finish(r)
  PROVE  SeenOf(r) /\ PromiseInvOf(r)' /\ (Gate!GateNext \/ UNCHANGED Gate!gateVars)
<1> USE DEF Goto
<1>0. PromiseInvOf(r) /\ HeldBack(r)
  BY DEF PromiseInv, EgressInv
(* A step of r that moves it on and shows nothing. *)
<1>1. ASSUME NEW to, pc' = [pc EXCEPT ![r] = to],
             UNCHANGED <<kind, conv, why, out, sent, vetted>>,
             \/ pc[r] = "block" /\ to = "refuse"
             \/ pc[r] = "refuse" /\ to = "done"
             \/ pc[r] = "await" /\ to \in {"record", "recordFailed"}
             \/ pc[r] \in {"record", "recordFailed"} /\ to = "done"
      PROVE  SeenOf(r) /\ PromiseInvOf(r)' /\ (Gate!GateNext \/ UNCHANGED Gate!gateVars)
  <2>1. SeenOf(r) /\ pc'[r] = to
    BY <1>1 DEF SeenOf, TypeOK
  <2>2. PromiseInvOf(r)'
    BY <1>0, <1>1, <2>1 DEF PromiseInvOf
  <2>3. Hidden(r)
    BY <1>0, <1>1, <2>1 DEF PromiseInvOf, Hidden, GateStatus, ChannelOf, BodyOf
  <2> QED
    BY <1>1, <2>1, <2>2, <2>3, ShowsNothing
<1>2. ASSUME NEW b, Approve(r, b), b = Rewritten(r) \/ b = Sanitized(Rewritten(r), ng[r])
      PROVE  SeenOf(r) /\ PromiseInvOf(r)' /\ (Gate!GateNext \/ UNCHANGED Gate!gateVars)
  <2>1. /\ pc[r] = "lookup" /\ pc' = [pc EXCEPT ![r] = "send"] /\ out' = [out EXCEPT ![r] = b]
        /\ UNCHANGED <<kind, conv, why, sent, vetted>>
    BY <1>2 DEF Approve, Classified
  <2>2. pc'[r] = "send" /\ out'[r] = b /\ r \notin sent /\ why[r] = "none"
    BY <1>0, <2>1 DEF TypeOK, PromiseInvOf, HeldBack
  <2>3. SeenOf(r)
    BY <2>1 DEF SeenOf, TypeOK
  <2>4. Gate!PartOf(b, Rewritten(r))
    BY <1>2, PartOfItself, SanitizedIsPart
  <2>5. Gate!PartOf(out[r], Rewritten(r))'
    BY <2>1, <2>2, <2>4 DEF Rewritten, Gate!PartOf
  <2>6. Releasable(r)'
    BY <1>0, <2>1, <2>5 DEF Releasable, Rewritten, PromiseInvOf
  <2>7. PromiseInvOf(r)'
    BY <2>1, <2>2, <2>6 DEF PromiseInvOf
  <2>8. Hidden(r)
    BY <2>1, <2>2 DEF Hidden, GateStatus, ChannelOf, BodyOf
  <2> QED
    BY <2>1, <2>3, <2>7, <2>8, ShowsNothing
<1>3. CASE RefuseHistory(r)
  <2>1. /\ pc[r] = "lookup" /\ pc'[r] = "block" /\ why'[r] = "sanitize_failed"
        /\ UNCHANGED <<kind, conv, out, sent, vetted>>
    BY <1>3 DEF RefuseHistory, Classified, TypeOK
  <2>2. SeenOf(r)
    BY <1>3 DEF RefuseHistory, SeenOf, TypeOK
  <2>3. PromiseInvOf(r)'
    BY <2>1 DEF PromiseInvOf
  <2>4. GateStatus(r) = "open" /\ GateStatus(r)' = "refused"
    BY <1>0, <2>1 DEF GateStatus, HeldBack, PromiseInvOf
  <2>5. ChannelOf'[r] = ChannelOf[r] /\ conv'[r] = conv[r] /\ BodyOf'[r] = BodyOf[r]
    BY <2>1 DEF ChannelOf, BodyOf
  <2> QED
    BY <2>1, <2>2, <2>3, <2>4, <2>5, ShowsRefusal
<1>4. CASE RecordBlock(r)
  BY <1>1, <1>4 DEF RecordBlock
<1>5. CASE WriteBlock(r)
  BY <1>1, <1>5 DEF WriteBlock
<1>6. CASE Send(r)
  BY <1>6, SendShows
<1>7. CASE UpstreamError(r)
  <2>1. UNCHANGED <<kind, conv, why, out, sent, vetted>>
    BY <1>7 DEF UpstreamError
  <2>2. CASE pc[r] = "await" /\ pc' = [pc EXCEPT ![r] = "recordFailed"]
    BY <1>1, <2>1, <2>2
  <2>3. CASE pc[r] = "send" /\ pc' = [pc EXCEPT ![r] = "recordFailed"]
    <3>1. SeenOf(r) /\ pc'[r] = "recordFailed"
      BY <2>1, <2>3 DEF SeenOf, TypeOK
    <3>2. PromiseInvOf(r)'
      BY <3>1 DEF PromiseInvOf
    <3>3. GateStatus(r) = "open" /\ GateStatus(r)' = "failed"
      BY <1>0, <2>1, <2>3, <3>1 DEF GateStatus, HeldBack, PromiseInvOf
    <3>4. ChannelOf'[r] = ChannelOf[r] /\ conv'[r] = conv[r] /\ BodyOf'[r] = BodyOf[r]
      BY <2>1 DEF ChannelOf, BodyOf
    <3> QED
      BY <2>1, <3>1, <3>2, <3>3, <3>4, ShowsFailure
  <2> QED
    BY <1>7, <2>2, <2>3 DEF UpstreamError
<1>8. CASE Relay(r)
  BY <1>1, <1>8 DEF Relay
<1>9. CASE RecordForward(r)
  BY <1>1, <1>9 DEF RecordForward
<1>10. CASE ApproveAsIs(r) \/ ApproveSanitized(r)
  BY <1>2, <1>10 DEF ApproveAsIs, ApproveSanitized
<1> QED
  BY <1>3, <1>4, <1>5, <1>6, <1>7, <1>8, <1>9, <1>10 DEF Finish

-----------------------------------------------------------------------------
(* The simulation *)

LEMMA InitShows == Init => PromiseInv /\ Gate!GateInit
<1> SUFFICES ASSUME Init
             PROVE  PromiseInv /\ Gate!GateInit
  OBVIOUS
<1>1. PromiseInv
  BY DEF Init, PromiseInv, PromiseInvOf
<1>2. Gate!NoBody = Unread
  BY DEF Gate!NoBody, Unread
<1>3. Gate!GateInit
  BY <1>2 DEF Init, Gate!GateInit, GateStatus
<1> QED
  BY <1>1, <1>3

LEMMA StepShows ==
  ASSUME TypeOK, EgressInv, PromiseInv, [Next]_vars
  PROVE  PromiseInv' /\ (Gate!GateNext \/ UNCHANGED Gate!gateVars)
<1>1. CASE Crash
  BY <1>1, CrashShows
<1>2. ASSUME NEW r \in Requests, Arrive(r) \/ Handle(r)
      PROVE  PromiseInv' /\ (Gate!GateNext \/ UNCHANGED Gate!gateVars)
  BY <1>2, ArriveShows, ClassifyShows, FinishShows, OneRequestPromises DEF Handle
<1>3. CASE UNCHANGED vars
  <2>1. UNCHANGED <<pc, kind, conv, why, out, sent, vetted>>
    BY <1>3 DEF vars, requestVars
  <2>2. \A r \in Requests : Releasable(r)' <=> Releasable(r)
    BY <2>1 DEF Releasable, Gate!PartOf
  <2>3. PromiseInv'
    BY <2>1, <2>2 DEF PromiseInv, PromiseInvOf
  <2>4. UNCHANGED Gate!gateVars
    BY <2>1 DEF Gate!gateVars, GateStatus
  <2> QED
    BY <2>3, <2>4
<1> QED
  BY <1>1, <1>2, <1>3 DEF Next

(* The proxy implements DlpGate: whatever it does, its user sees requests  *)
(* that are refused, fail, or leave with a body made of parts of what was  *)
(* sent, whose inspected texts were found harmless before it left          *)
(* (handler.go:82-274, detector.go:82-133).                                *)
THEOREM PromiseKept == Spec => KeepsGatePromise
<1>1. Init => PromiseInv /\ Gate!GateInit
  BY InitShows
<1>2. TypeOK /\ EgressInv /\ PromiseInv /\ [Next]_vars
      => PromiseInv' /\ [Gate!GateNext]_(Gate!gateVars)
  BY StepShows
<1> QED
  BY <1>1, <1>2, TypeCorrect, EgressInvariant, PTL DEF Spec, KeepsGatePromise, Gate!GateSpec
=============================================================================
