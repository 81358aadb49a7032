------------------------------ MODULE DlpGate -------------------------------
(***************************************************************************)
(* What the proxy promises its user, without saying how: a request is      *)
(* refused, or one body of it leaves the machine.  A body that leaves      *)
(* consists of parts of what the client sent, and every inspected text in  *)
(* it has been found harmless; the user may exempt his own live turn, and  *)
(* endpoints that carry no prompt are not inspected.                       *)
(***************************************************************************)
EXTENDS Conversation

CONSTANTS
  Requests,   \* HTTP requests
  Inputs,     \* conversations a client may send
  Strict,     \* fail closed: nothing leaves unless it was vetted
  Override    \* the user's override marker is honoured

VARIABLES
  status,     \* what became of a request
  asked,      \* the conversation it carried
  channel,    \* whether it came in on an endpoint that carries prompts
  body,       \* what left the machine on its behalf
  vetted      \* texts found harmless at some time

gateVars == <<status, asked, channel, body, vetted>>

NoBody == [i \in {} |-> i]

Statuses == {"new", "open", "refused", "released", "overridden", "uninspected", "failed"}

GateInit ==
  /\ status = [r \in Requests |-> "new"]
  /\ asked = [r \in Requests |-> NoBody]
  /\ channel = [r \in Requests |-> "prompt"]
  /\ body = [r \in Requests |-> NoBody]
  /\ vetted = {}

(* b consists of messages and blocks of c. *)
PartOf(b, c) ==
  /\ DOMAIN b \subseteq DOMAIN c
  /\ \A i \in DOMAIN b :
       /\ b[i].role = c[i].role
       /\ DOMAIN b[i].blocks \subseteq DOMAIN c[i].blocks
       /\ \A k \in DOMAIN b[i].blocks : b[i].blocks[k] = c[i].blocks[k]

Harmless(S) == Strict => \A s \in S : s.text \in vetted

Open(r, c, ch) ==
  /\ status[r] = "new"
  /\ status' = [status EXCEPT ![r] = "open"]
  /\ asked' = [asked EXCEPT ![r] = c]
  /\ channel' = [channel EXCEPT ![r] = ch]
  /\ UNCHANGED <<body, vetted>>

Vet(t) ==
  /\ vetted' = vetted \cup {t}
  /\ UNCHANGED <<status, asked, channel, body>>

Refuse(r) ==
  /\ status[r] \in {"new", "open"}
  /\ status' = [status EXCEPT ![r] = "refused"]
  /\ UNCHANGED <<asked, channel, body, vetted>>

Release(r, b) ==
  /\ status[r] = "open"
  /\ PartOf(b, asked[r])
  /\ Harmless(Segments(b))
  /\ status' = [status EXCEPT ![r] = "released"]
  /\ body' = [body EXCEPT ![r] = b]
  /\ UNCHANGED <<asked, channel, vetted>>

ReleaseOverridden(r, b) ==
  /\ Override
  /\ status[r] = "open"
  /\ Overrides(asked[r])
  /\ PartOf(b, StripLiveTurn(asked[r]))
  /\ Harmless({s \in Segments(b) : s.msg # LastIndex(asked[r])})
  /\ status' = [status EXCEPT ![r] = "overridden"]
  /\ body' = [body EXCEPT ![r] = b]
  /\ UNCHANGED <<asked, channel, vetted>>

ReleaseUninspected(r) ==
  /\ status[r] = "open"
  /\ Strict => channel[r] = "other"
  /\ status' = [status EXCEPT ![r] = "uninspected"]
  /\ UNCHANGED <<asked, channel, body, vetted>>

(* Requests end without an answer, alone or all at once. *)
Fail(S) ==
  /\ \A r \in S : status[r] \in {"new", "open"}
  /\ status' = [r \in Requests |-> IF r \in S THEN "failed" ELSE status[r]]
  /\ UNCHANGED <<asked, channel, body, vetted>>

(* The body a step releases is the one it leaves in body'. *)
GateNext ==
  \/ \E r \in Requests :
       \/ \E c \in Inputs \cup {NoBody}, ch \in {"prompt", "other"} : Open(r, c, ch)
       \/ Refuse(r)
       \/ \E b \in {body'[r]} : Release(r, b) \/ ReleaseOverridden(r, b)
       \/ ReleaseUninspected(r)
  \/ \E t \in Texts : Vet(t)
  \/ \E S \in SUBSET Requests : Fail(S)

GateSpec == GateInit /\ [][GateNext]_gateVars
=============================================================================
