------------------------------ MODULE Gateway -------------------------------
(***************************************************************************)
(* The request path of the proxy: the handler of internal/proxy, the       *)
(* detector of internal/dlp with its verdict cache, and, as they look from *)
(* the handler, the local classifier, the upstream API and the audit       *)
(* store.  Every request runs in a goroutine of its own; they share the    *)
(* cache, the upstream and the store.  A step of a request ends where it   *)
(* touches one of them or waits for an answer.                             *)
(***************************************************************************)
EXTENDS Conversation

CONSTANTS
  Requests,       \* HTTP requests, one goroutine each
  Inputs,         \* the message arrays clients send
  FailClosed,     \* dlp.fail_closed
  RuleEnabled,    \* dlp.rule_guardrail.enabled
  RuleHits,       \* texts a rule of the guardrail matches
  BypassEnabled,  \* dlp.bypass.enabled
  CacheSize,      \* dlp.cache.max_entries
  AuditFails      \* whether an insert into the audit store may fail

ASSUME GatewayAssumption ==
  /\ \A c \in Inputs : IsConversation(c)
  /\ FailClosed \in BOOLEAN
  /\ RuleEnabled \in BOOLEAN
  /\ BypassEnabled \in BOOLEAN
  /\ AuditFails \in BOOLEAN
  /\ RuleHits \subseteq Texts
  /\ CacheSize \in Int

VARIABLES
  pc,         \* request -> where its goroutine is
  kind,       \* request -> how it is treated
  conv,       \* request -> the message array it carried
  isCount,    \* request -> whether it came in on count_tokens
  todo,       \* request -> segments still to classify
  ng,         \* request -> history segments found sensitive
  why,        \* request -> reason of its refusal
  out,        \* request -> the body to forward
  reply,      \* request -> what the client was answered
  sent,       \* requests whose body the upstream received
  audit,      \* events in the audit store
  vetted,     \* history: texts the classifier has judged harmless
  ll, entries \* the verdict cache

requestVars == <<pc, kind, conv, isCount, todo, ng, why, out, reply>>
cacheVars == <<ll, entries>>
vars == <<requestVars, sent, audit, vetted, cacheVars>>

Verdict == [block : BOOLEAN, source : {"rule", "lfm", "classifier_unavailable"}]

Cache == INSTANCE LruCache WITH Keys <- Texts, Results <- Verdict, Capacity <- CacheSize

Unread == [i \in {} |-> i]

Kinds == {"none", "inspect", "bypass", "raw", "passthrough"}
Reasons == {"none", "request_unparseable", "rule", "lfm", "classifier_unavailable", "sanitize_failed"}
Refusals == {"notice", "warming", "estimate"}
Replies == Refusals \cup {"none", "405", "400", "502", "relayed"}
PCs == {"idle", "lookup", "classify", "block", "refuse", "send", "await",
        "record", "recordFailed", "done", "dead"}

Event == [req : Requests, decision : {"ALLOW", "BLOCK", "BYPASS", "PASSTHROUGH"},
          source : Reasons, upstream : BOOLEAN]

Init ==
  /\ pc = [r \in Requests |-> "idle"]
  /\ kind = [r \in Requests |-> "none"]
  /\ conv = [r \in Requests |-> Unread]
  /\ isCount = [r \in Requests |-> FALSE]
  /\ todo = [r \in Requests |-> {}]
  /\ ng = [r \in Requests |-> {}]
  /\ why = [r \in Requests |-> "none"]
  /\ out = [r \in Requests |-> Unread]
  /\ reply = [r \in Requests |-> "none"]
  /\ sent = {}
  /\ audit = {}
  /\ vetted = {}
  /\ Cache!CacheInit

Goto(r, from, to) == pc[r] = from /\ pc' = [pc EXCEPT ![r] = to]

-----------------------------------------------------------------------------
(* A request arrives: process (82-135) up to its first classification. *)

(* Another method than POST, or a body that cannot be read. *)
Reject(r, code) ==
  /\ Goto(r, "idle", "done")
  /\ reply' = [reply EXCEPT ![r] = code]
  /\ UNCHANGED <<kind, conv, isCount, todo, ng, why, out, sent, audit, vetted, cacheVars>>

RefuseUnparseable(r, count) ==
  /\ FailClosed
  /\ Goto(r, "idle", "block")
  /\ kind' = [kind EXCEPT ![r] = "raw"]
  /\ isCount' = [isCount EXCEPT ![r] = count]
  /\ why' = [why EXCEPT ![r] = "request_unparseable"]
  /\ UNCHANGED <<conv, todo, ng, out, reply, sent, audit, vetted, cacheVars>>

ForwardUnparseable(r, count) ==
  /\ ~FailClosed
  /\ Goto(r, "idle", "send")
  /\ kind' = [kind EXCEPT ![r] = "raw"]
  /\ isCount' = [isCount EXCEPT ![r] = count]
  /\ UNCHANGED <<conv, todo, ng, why, out, reply, sent, audit, vetted, cacheVars>>

Passthrough(r) ==
  /\ Goto(r, "idle", "send")
  /\ kind' = [kind EXCEPT ![r] = "passthrough"]
  /\ UNCHANGED <<conv, isCount, todo, ng, why, out, reply, sent, audit, vetted, cacheVars>>

Begin(r, c, count, k, segments) ==
  /\ Segmentable(c)
  /\ Goto(r, "idle", "lookup")
  /\ kind' = [kind EXCEPT ![r] = k]
  /\ conv' = [conv EXCEPT ![r] = c]
  /\ isCount' = [isCount EXCEPT ![r] = count]
  /\ todo' = [todo EXCEPT ![r] = segments]
  /\ UNCHANGED <<ng, why, out, reply, sent, audit, vetted, cacheVars>>

(* Broken variant: an inspection that skips the history. *)
BeginLiveOnly(r, c, count) ==
  /\ ~(BypassEnabled /\ Overrides(c))
  /\ Begin(r, c, count, "inspect", LiveSegments(c))

BeginBypass(r, c, count) ==
  /\ BypassEnabled /\ Overrides(c)
  /\ Begin(r, c, count, "bypass", HistorySegments(c))

BeginInspection(r, c, count) ==
  /\ ~(BypassEnabled /\ Overrides(c))
  /\ Begin(r, c, count, "inspect", Segments(c))

-----------------------------------------------------------------------------
(* Classification: Detector.Classify for one segment after the other, the  *)
(* live turn first, and what Evaluate and EvaluateHistoryOnly make of the  *)
(* result.                                                                 *)

IsLive(r, s) == s.msg = LastIndex(conv[r])

Earlier(r, s, t) ==
  \/ IsLive(r, s) /\ ~IsLive(r, t)
  \/ (IsLive(r, s) <=> IsLive(r, t)) /\ Precedes(<<s.msg, s.block>>, <<t.msg, t.block>>)

IsNext(r, s) == s \in todo[r] /\ \A t \in todo[r] \ {s} : Earlier(r, s, t)

(* Broken variant: an outage counts as a verdict on the history. *)
BlocksLiveOnly(r, s, v) == kind[r] = "inspect" /\ v.block /\ IsLive(r, s)

(* Evaluate returns a block: for the live turn, or for history that could *)
(* not be vetted.  EvaluateHistoryOnly never does.                        *)
Blocks(r, s, v) ==
  /\ kind[r] = "inspect"
  /\ v.block
  /\ IsLive(r, s) \/ v.source = "classifier_unavailable"

Conclude(r, s, v) ==
  /\ todo' = [todo EXCEPT ![r] = @ \ {s}]
  /\ IF Blocks(r, s, v)
     THEN /\ pc' = [pc EXCEPT ![r] = "block"]
          /\ why' = [why EXCEPT ![r] = v.source]
          /\ UNCHANGED ng
     ELSE /\ pc' = [pc EXCEPT ![r] = "lookup"]
          /\ ng' = [ng EXCEPT ![r] = IF v.block THEN @ \cup {s} ELSE @]
          /\ UNCHANGED why
  /\ UNCHANGED <<kind, conv, isCount, out, reply, sent, audit>>

CacheHit(r, s) ==
  /\ pc[r] = "lookup" /\ IsNext(r, s)
  /\ Cache!Hit(s.text)
  /\ Conclude(r, s, entries[s.text])
  /\ UNCHANGED vetted

CacheMiss(r, s) ==
  /\ Goto(r, "lookup", "classify") /\ IsNext(r, s)
  /\ Cache!Miss(s.text)
  /\ UNCHANGED <<kind, conv, isCount, todo, ng, why, out, reply, sent, audit, vetted>>

(* Broken variant: the rules see typed text only. *)
HitsRuleInTypedText(s) == RuleEnabled /\ s.type = "text" /\ s.text \in RuleHits

HitsRule(s) == RuleEnabled /\ s.text \in RuleHits

MatchRule(r, s) ==
  /\ pc[r] = "classify" /\ IsNext(r, s)
  /\ HitsRule(s)
  /\ LET v == [block |-> TRUE, source |-> "rule"]
     IN Cache!Put(s.text, v) /\ Conclude(r, s, v)
  /\ UNCHANGED vetted

(* The classifier answers; its verdict is cached. *)
Judge(r, s, sensitive) ==
  /\ pc[r] = "classify" /\ IsNext(r, s)
  /\ ~HitsRule(s)
  /\ LET v == [block |-> sensitive, source |-> "lfm"]
     IN Cache!Put(s.text, v) /\ Conclude(r, s, v)
  /\ vetted' = IF sensitive THEN vetted ELSE vetted \cup {s.text}

(* Broken variants: the outage is cached; it is asked about before the     *)
(* rules; the segment is retried until an answer comes.                    *)
UnavailableCached(r, s) ==
  /\ pc[r] = "classify" /\ IsNext(r, s)
  /\ ~HitsRule(s)
  /\ LET v == [block |-> FailClosed, source |-> "classifier_unavailable"]
     IN Cache!Put(s.text, v) /\ Conclude(r, s, v)
  /\ UNCHANGED vetted

UnavailableBeforeRules(r, s) ==
  /\ pc[r] = "classify" /\ IsNext(r, s)
  /\ Conclude(r, s, [block |-> FailClosed, source |-> "classifier_unavailable"])
  /\ UNCHANGED <<vetted, cacheVars>>

UnavailableRetried(r, s) ==
  /\ Goto(r, "classify", "lookup") /\ IsNext(r, s)
  /\ UNCHANGED <<kind, conv, isCount, todo, ng, why, out, reply, sent, audit, vetted, cacheVars>>

(* No answer: warming, down, timeout, or the client went away. *)
Unavailable(r, s) ==
  /\ pc[r] = "classify" /\ IsNext(r, s)
  /\ ~HitsRule(s)
  /\ Conclude(r, s, [block |-> FailClosed, source |-> "classifier_unavailable"])
  /\ UNCHANGED <<vetted, cacheVars>>

-----------------------------------------------------------------------------
(* The outcome of the classification: process (158-174), bypassForward     *)
(* (206-233).                                                              *)

Classified(r) == pc[r] = "lookup" /\ todo[r] = {}

(* Broken variant: the marker is not stripped. *)
RewrittenKeepingMarker(r) == conv[r]

Rewritten(r) == IF kind[r] = "bypass" THEN StripLiveTurn(conv[r]) ELSE conv[r]

Approve(r, b) ==
  /\ Classified(r)
  /\ pc' = [pc EXCEPT ![r] = "send"]
  /\ out' = [out EXCEPT ![r] = b]
  /\ UNCHANGED <<kind, conv, isCount, todo, ng, why, reply, sent, audit, vetted, cacheVars>>

ApproveAsIs(r) == ng[r] = {} /\ Approve(r, Rewritten(r))

ApproveSanitized(r) ==
  /\ ng[r] # {}
  /\ CanSanitize(Rewritten(r), ng[r])
  /\ Approve(r, Sanitized(Rewritten(r), ng[r]))

RefuseHistory(r) ==
  /\ Classified(r)
  /\ ng[r] # {}
  /\ ~CanSanitize(Rewritten(r), ng[r])
  /\ pc' = [pc EXCEPT ![r] = "block"]
  /\ why' = [why EXCEPT ![r] = "sanitize_failed"]
  /\ UNCHANGED <<kind, conv, isCount, todo, ng, out, reply, sent, audit, vetted, cacheVars>>

-----------------------------------------------------------------------------
(* Answering and auditing.  The handler ignores the error of Record. *)

Record(event) == audit' = audit \cup {event} \/ (AuditFails /\ UNCHANGED audit)

RecordBlock(r) ==
  /\ Goto(r, "block", "refuse")
  /\ Record([req |-> r, decision |-> "BLOCK", source |-> why[r], upstream |-> FALSE])
  /\ UNCHANGED <<kind, conv, isCount, todo, ng, why, out, reply, sent, vetted, cacheVars>>

(* Broken variant: the return after writeBlock is missing. *)
WriteBlockWithoutReturn(r) ==
  /\ Goto(r, "refuse", "send")
  /\ reply' = [reply EXCEPT ![r] = "notice"]
  /\ UNCHANGED <<kind, conv, isCount, todo, ng, why, out, sent, audit, vetted, cacheVars>>

WriteBlock(r) ==
  /\ Goto(r, "refuse", "done")
  /\ reply' = [reply EXCEPT ![r] = IF isCount[r] THEN "estimate"
                                   ELSE IF why[r] = "classifier_unavailable" THEN "warming"
                                   ELSE "notice"]
  /\ UNCHANGED <<kind, conv, isCount, todo, ng, why, out, sent, audit, vetted, cacheVars>>

(* The request reaches the upstream. *)
Send(r) ==
  /\ Goto(r, "send", "await")
  /\ sent' = sent \cup {r}
  /\ UNCHANGED <<kind, conv, isCount, todo, ng, why, out, reply, audit, vetted, cacheVars>>

(* Forward fails, before the body left (no route, refused) or after it did *)
(* (timeout, reset).                                                       *)
UpstreamError(r) ==
  /\ Goto(r, "send", "recordFailed") \/ Goto(r, "await", "recordFailed")
  /\ reply' = [reply EXCEPT ![r] = "502"]
  /\ UNCHANGED <<kind, conv, isCount, todo, ng, why, out, sent, audit, vetted, cacheVars>>

(* The upstream answers, and its answer is streamed to the client. *)
Relay(r) ==
  /\ Goto(r, "await", "record")
  /\ reply' = [reply EXCEPT ![r] = "relayed"]
  /\ UNCHANGED <<kind, conv, isCount, todo, ng, why, out, sent, audit, vetted, cacheVars>>

(* Broken variant: the kind is recorded for the decision. *)
DecisionAsKind(r) == kind[r]

Decision(r) ==
  IF kind[r] = "bypass" THEN "BYPASS"
  ELSE IF kind[r] = "passthrough" THEN "PASSTHROUGH" ELSE "ALLOW"

(* Broken variant: upstreamCalled is TRUE whatever happened. *)
RecordForwardAsCalled(r) ==
  /\ Goto(r, "record", "done") \/ Goto(r, "recordFailed", "done")
  /\ Record([req |-> r, decision |-> Decision(r), source |-> "none", upstream |-> TRUE])
  /\ UNCHANGED <<kind, conv, isCount, todo, ng, why, out, reply, sent, vetted, cacheVars>>

RecordForward(r) ==
  /\ Goto(r, "record", "done") \/ Goto(r, "recordFailed", "done")
  /\ Record([req |-> r, decision |-> Decision(r), source |-> "none", upstream |-> pc[r] = "record"])
  /\ UNCHANGED <<kind, conv, isCount, todo, ng, why, out, reply, sent, vetted, cacheVars>>

-----------------------------------------------------------------------------
(* The process is killed: goroutines and cache are gone, the store stays.  *)
(* The service manager starts a new process for the requests to come.      *)
Crash ==
  /\ pc' = [r \in Requests |-> IF pc[r] \in {"idle", "done"} THEN pc[r] ELSE "dead"]
  /\ todo' = [r \in Requests |-> {}]
  /\ ll' = <<>>
  /\ entries' = [k \in {} |-> k]
  /\ UNCHANGED <<kind, conv, isCount, ng, why, out, reply, sent, audit, vetted>>

Arrive(r) ==
  \/ \E code \in {"405", "400"} : Reject(r, code)
  \/ Passthrough(r)
  \/ \E count \in BOOLEAN :
       \/ RefuseUnparseable(r, count)
       \/ ForwardUnparseable(r, count)
       \/ \E c \in Inputs : BeginBypass(r, c, count) \/ BeginInspection(r, c, count)

Classify(r) ==
  \E s \in todo[r] :
    \/ CacheHit(r, s)
    \/ CacheMiss(r, s)
    \/ MatchRule(r, s)
    \/ \E sensitive \in BOOLEAN : Judge(r, s, sensitive)
    \/ Unavailable(r, s)

Finish(r) ==
  \/ ApproveAsIs(r) \/ ApproveSanitized(r) \/ RefuseHistory(r)
  \/ RecordBlock(r) \/ WriteBlock(r)
  \/ Send(r) \/ UpstreamError(r) \/ Relay(r) \/ RecordForward(r)

Handle(r) == Classify(r) \/ Finish(r)

Next == Crash \/ \E r \in Requests : Arrive(r) \/ Handle(r)

Spec == Init /\ [][Next]_vars

(* Calls to the classifier and the upstream time out, so a handler that    *)
(* has begun keeps going.                                                  *)
FairSpec == Spec /\ \A r \in Requests : WF_vars(Handle(r))

-----------------------------------------------------------------------------
(* Properties *)

TypeOK ==
  /\ pc \in [Requests -> PCs]
  /\ kind \in [Requests -> Kinds]
  /\ conv \in [Requests -> Inputs \cup {Unread}]
  /\ isCount \in [Requests -> BOOLEAN]
  /\ todo \in [Requests -> SUBSET Segment]
  /\ ng \in [Requests -> SUBSET Segment]
  /\ why \in [Requests -> Reasons]
  /\ out = [r \in Requests |-> out[r]]
  /\ reply \in [Requests -> Replies]
  /\ sent \subseteq Requests
  /\ audit \subseteq Event
  /\ vetted \subseteq Texts
  /\ Cache!CacheTypeOK

(* With fail_closed every inspected text of a body that left the machine   *)
(* has been judged harmless by the classifier, in this request or in an    *)
(* earlier one whose verdict was cached; only the live turn of a bypass is *)
(* exempt, and a body that could not be parsed does not leave              *)
(* (detector.go:79-133, handler.go:103-176, 212-235).                      *)
NoUnvettedEgress ==
  FailClosed =>
    \A r \in sent :
      /\ kind[r] # "raw"
      /\ kind[r] = "inspect" => \A s \in Segments(out[r]) : s.text \in vetted
      /\ kind[r] = "bypass" =>
           \A s \in Segments(out[r]) : IsLive(r, s) \/ s.text \in vetted

(* A text the rule guardrail matches leaves only in a live turn its author *)
(* marked, even when the proxy fails open (detector.go:38-44): no verdict  *)
(* of the classifier, no outage of it and no stale cache entry lets it by. *)
NoRuleSecretEgress ==
  RuleEnabled =>
    \A r \in sent :
      \A s \in Segments(out[r]) : s.text \in RuleHits => kind[r] = "bypass" /\ IsLive(r, s)

(* A client that is told its input was blocked, or is given a local token  *)
(* estimate, is told the truth: nothing of the request has been sent, and  *)
(* nothing will be (block.go:41-45, spec 19.1).                            *)
RefusedIsNeverSent ==
  \A r \in Requests :
    reply[r] \in Refusals \/ (\E e \in audit : e.req = r /\ e.decision = "BLOCK") => r \notin sent

(* While inserts succeed the audit trail agrees with what happened: every  *)
(* refusal the client sees was audited before with its reason, every       *)
(* request that left and was finished has the event of its decision, and   *)
(* an event that says the upstream was called is about a request that left *)
(* (handler.go:105-110, 138-156, 176-183, 235-242, 260-267).               *)
AuditAgrees ==
  /\ ~AuditFails => \A r \in Requests :
       /\ reply[r] \in Refusals =>
            [req |-> r, decision |-> "BLOCK", source |-> why[r], upstream |-> FALSE] \in audit
       /\ r \in sent /\ pc[r] = "done" =>
            \E e \in audit : e.req = r /\ e.decision = Decision(r)
  /\ \A e \in audit : e.upstream => e.req \in sent
  /\ \A e, f \in audit : e.req = f.req => e = f

(* The array ends with what its user has just said, as a JSON array of an  *)
(* agent does: no call of a tool, no call left unanswered by it.           *)
EndsWithUserTurn(c) ==
  LET m == c[LastIndex(c)]
  IN /\ LastIndex(c) \in DOMAIN c
     /\ m.role = "user" /\ m = SetBlocks(m, m.blocks)
     /\ DOMAIN m.blocks # {} /\ m.blocks = [b \in DOMAIN m.blocks |-> m.blocks[b]]
     /\ \A b \in DOMAIN m.blocks : m.blocks[b].type # "tool_use"

(* The live turn is forwarded whole, whatever the sanitizer removes around *)
(* it, and a history it rewrites is one the API accepts: it starts with a  *)
(* user message and pairs tool calls with results (sanitizer.go:117-174).  *)
(* Stripping the marker leaves no blank block behind (bypass.go:66-68).    *)
ForwardedIsUsable ==
  \A r \in sent :
    kind[r] \in {"inspect", "bypass"} /\ DOMAIN conv[r] # {} =>
      LET live == LastIndex(conv[r])
      IN /\ live \in DOMAIN out[r] /\ out[r][live] = Rewritten(r)[live]
         /\ BlankTexts(out[r][live]) \subseteq BlankTexts(conv[r][live])
         /\ ng[r] # {} => ValidStructure(out[r])

(* What the cache returns is a verdict on the content: the transient       *)
(* outcome of an outage is never stored (detector.go:31, 51-55), a rule    *)
(* hit is always a block, and an allowed text was judged harmless.         *)
CacheSound ==
  \A t \in DOMAIN entries :
    /\ entries[t].source # "classifier_unavailable"
    /\ RuleEnabled /\ t \in RuleHits => entries[t].block
    /\ ~entries[t].block => t \in vetted

SanitizesVerdictsOnly(r) ==
  \A s \in ng'[r] \ ng[r] : s.text \in DOMAIN entries' /\ entries'[s.text].block

(* Only a verdict that the content is sensitive takes a unit out of the    *)
(* history; the absence of a verdict never does (types.go:36-43): so an    *)
(* inspection does it, and so should a bypass.                             *)
InspectionSanitizesVerdicts ==
  [][\A r \in Requests : kind[r] = "inspect" => SanitizesVerdictsOnly(r)]_vars

BypassSanitizesVerdicts ==
  [][\A r \in Requests : kind[r] = "bypass" => SanitizesVerdictsOnly(r)]_vars

(* Every request the proxy has begun to handle is answered, unless the     *)
(* process dies (classify and upstream timeouts, config.go:165, 178).      *)
EveryRequestEnds == \A r \in Requests : pc[r] # "idle" ~> pc[r] \in {"done", "dead"}

-----------------------------------------------------------------------------
(* Why nothing sensitive leaves: what every step keeps. *)

Cleared(t) ==
  /\ FailClosed => t \in vetted
  /\ RuleEnabled => t \notin RuleHits

VerdictsClear ==
  /\ \A t \in vetted : RuleEnabled => t \notin RuleHits
  /\ \A t \in DOMAIN entries : ~entries[t].block => t \in vetted

ToClassify(r) == IF kind[r] = "bypass" THEN HistorySegments(conv[r]) ELSE Segments(conv[r])

(* What has been taken off the list is clear or will be sanitized. *)
PassedIsClear(r) ==
  pc[r] \in {"lookup", "classify"} =>
    /\ kind[r] = "inspect" \/ (kind[r] = "bypass" /\ Overrides(conv[r]))
    /\ \A s \in ToClassify(r) \ (todo[r] \cup ng[r]) : Cleared(s.text)

BodyIsClear(r) ==
  pc[r] = "send" \/ r \in sent =>
    \A s \in Segments(out[r]) : Cleared(s.text) \/ (kind[r] = "bypass" /\ IsLive(r, s))

HeldBack(r) ==
  /\ pc[r] \in {"idle", "lookup", "classify", "block", "refuse", "send"} => r \notin sent
  /\ pc[r] \in {"idle", "lookup", "classify"} => out[r] = Unread

UnparsedIsRefused(r) ==
  FailClosed /\ kind[r] = "raw" => pc[r] \in {"block", "refuse", "done", "dead"} /\ r \notin sent

RefusalIsFinal(r) ==
  /\ reply[r] \in Refusals => pc[r] = "done" /\ r \notin sent
  /\ \A e \in audit : e.req = r /\ e.decision = "BLOCK" =>
       pc[r] \in {"refuse", "done", "dead"} /\ r \notin sent

EgressInv ==
  /\ VerdictsClear
  /\ \A r \in Requests : PassedIsClear(r) /\ BodyIsClear(r) /\ HeldBack(r)
                        /\ UnparsedIsRefused(r) /\ RefusalIsFinal(r)

(* The proxy keeps the promise of DlpGate. *)
GateStatus(r) ==
  IF r \in sent
  THEN IF kind[r] = "inspect" THEN "released"
       ELSE IF kind[r] = "bypass" THEN "overridden" ELSE "uninspected"
  ELSE IF why[r] # "none" THEN "refused"
  ELSE IF pc[r] = "idle" THEN "new"
  ELSE IF pc[r] \in {"recordFailed", "done", "dead"} THEN "failed" ELSE "open"

Gate == INSTANCE DlpGate WITH
  Strict <- FailClosed,
  Override <- BypassEnabled,
  status <- [r \in Requests |-> GateStatus(r)],
  asked <- conv,
  channel <- [r \in Requests |-> IF kind[r] = "passthrough" THEN "other" ELSE "prompt"],
  body <- [r \in Requests |-> IF r \in sent THEN out[r] ELSE Unread]

KeepsGatePromise == Gate!GateSpec
=============================================================================
