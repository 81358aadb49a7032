----------------------------- MODULE Classifier -----------------------------
(***************************************************************************)
(* The way of a segment to a verdict of the model: concurrent calls of     *)
(* Detector.Classify on the shared cache, the client of the sidecar, and   *)
(* the profile that the configuration selects for the whole run of the     *)
(* proxy.  Rules and the fail-closed outcome are Gateway's.                *)
(***************************************************************************)
EXTENDS LruOrder, Verdict

CONSTANT Calls    \* the requests that are classifying a segment

ASSUME ResultsAssumption == {"ALLOW", "BLOCK"} \subseteq Results

VARIABLES
  backend,    \* the classifier of buildClassifier: "keyword" or a profile
  asked,      \* call -> set holding the text it waits for
  heard,      \* history: text -> the verdicts its replies were read as
  misread     \* history: the claims of the replies that were read as
              \*   something they do not say

clientVars == <<backend, asked, heard, misread>>
vars == <<orderVars, clientVars>>

-----------------------------------------------------------------------------
(* Configuration *)

Unset == "unset"

(* Default, as far as it concerns the classifier. *)
Defaults == [type |-> "llama_cpp_http", profile |-> "jp_confidential_extraction",
             enabled |-> TRUE, max |-> 4096]

(* Load: what the file sets replaces the default. *)
Load(file) == [f \in DOMAIN Defaults |-> IF file[f] = Unset THEN Defaults[f] ELSE file[f]]

CacheSize(cfg) == IF ~cfg.enabled THEN 0 ELSE IF cfg.max <= 0 THEN 4096 ELSE cfg.max

Mode(cfg, override) ==
  CASE override = "" -> cfg.type
    [] override = "keyword" -> "keyword"
    [] override = "llama" -> "llama_cpp_http"
    [] OTHER -> ""

BuildClassifier(cfg, override) ==
  IF Mode(cfg, override) = "keyword" THEN "keyword"
  ELSE IF cfg.profile \in Profiles THEN cfg.profile ELSE "reason_decision"

Types == {Unset, "llama_cpp_http", "keyword"}
ProfileNames == Profiles \cup {Unset, "", "unknown"}
Overrides == {"", "keyword", "llama", "unknown"}

Init ==
  /\ OrderInit
  /\ \E type \in Types, name \in ProfileNames, override \in Overrides :
       backend = BuildClassifier(Load([type |-> type, profile |-> name,
                                       enabled |-> Unset, max |-> Unset]), override)
  /\ asked = [c \in Calls |-> {}]
  /\ heard = [k \in Keys |-> {}]
  /\ misread = {}

-----------------------------------------------------------------------------
(* Calls *)

(* The cache has a verdict. *)
Reuse(c, k) ==
  /\ asked[c] = {}
  /\ GetHit(k)
  /\ UNCHANGED clientVars

(* It has none: the client posts the text to the sidecar. *)
Ask(c, k) ==
  /\ asked[c] = {}
  /\ Miss(k)
  /\ asked' = [asked EXCEPT ![c] = {k}]
  /\ UNCHANGED <<clock, used, stored, backend, heard, misread>>

(* Refused, timed out, a status other than 200, cut off, undecodable, or   *)
(* without a choice: nothing is stored.                                    *)
Fail(c) ==
  /\ asked[c] # {} /\ backend # "keyword"
  /\ asked' = [asked EXCEPT ![c] = {}]
  /\ UNCHANGED <<orderVars, backend, heard, misread>>

(* A reply is read and its verdict stored. *)
Judge(c, reply) ==
  \E k \in asked[c] :
    /\ heard' = [heard EXCEPT ![k] = @ \cup ({reply.verdict} \ {"error"})]
    /\ misread' = misread \cup (IF reply.verdict \in reply.read THEN {} ELSE {reply.claim})
    /\ asked' = [asked EXCEPT ![c] = {}]
    /\ IF reply.verdict = "error" THEN UNCHANGED orderVars ELSE PutResult(k, reply.verdict)
    /\ UNCHANGED backend

(* The keyword classifier says of a text always the same. *)
Match(c, verdict) ==
  \E k \in asked[c] :
    /\ backend = "keyword"
    /\ heard[k] \subseteq {verdict}
    /\ heard' = [heard EXCEPT ![k] = {verdict}]
    /\ asked' = [asked EXCEPT ![c] = {}]
    /\ PutResult(k, verdict)
    /\ UNCHANGED <<backend, misread>>

Next ==
  \E c \in Calls :
    \/ \E k \in Keys : Reuse(c, k) \/ Ask(c, k)
    \/ Fail(c)
    \/ backend \in Profiles /\ \E reply \in Readings[backend] : Judge(c, reply)
    \/ \E verdict \in Results : Match(c, verdict)

Spec == Init /\ [][Next]_vars

-----------------------------------------------------------------------------
(* A verdict is the one the model gave on this text: a reply that follows  *)
(* its contract, alone or in prose, is read as meant, one that is cut,     *)
(* deviates or says nothing gives the verdict the documentation gives it   *)
(* or none, and whatever the order in which concurrent calls return, what  *)
(* is cached for a text was said of it (profile.go:135-303,                *)
(* detector.go:46-66).  Except for the three claims below, which the       *)
(* parsers do not keep.                                                    *)
VerdictsAsMeant == misread \subseteq Claims /\ \A k \in DOMAIN entries : entries[k] \in heard[k]

(* Claimed, not kept, and in no run: "the verdict (NG) is driven ONLY by   *)
(* the JSON `decision` field" (profile_reason_decision_test.go:5-6), and   *)
(* truncated JSON fails closed (profile.go:27-28).                         *)
OnlyDecisionDecides == "reason" \notin misread

(* Claimed, not kept, and in no run: "Ambiguous (both present) or absent   *)
(* labels are an error so the caller fails closed" (profile.go:138-139).   *)
AmbiguousIsError == "ambiguous" \notin misread

(* Claimed, not kept, and in no run: a reply of which the verdict is       *)
(* unknown is a classification error and fails closed                      *)
(* (docs/spec-proxy.md:531), and one of the wrong type "must return an     *)
(* error so the detector fails closed (blocks) rather than allowing"       *)
(* (profile_jp_extraction_test.go:109-110).                                *)
UnsaidIsError == "unsaid" \notin misread
=============================================================================
