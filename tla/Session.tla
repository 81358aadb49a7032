------------------------------ MODULE Session -------------------------------
(***************************************************************************)
(* A whole conversation of one client through the proxy.  The client keeps *)
(* the history and sends all of it with every turn, block notices and      *)
(* bypass markers included; the proxy keeps nothing of it between two      *)
(* requests.  So what one request did decides what a later one can do:     *)
(* one exchange is one action here (its steps are module Gateway), run     *)
(* with dlp.fail_closed and dlp.bypass on, their defaults.                 *)
(***************************************************************************)
EXTENDS Conversation

CONSTANTS
  Typed,      \* user messages a user may type
  ToolTurns,  \* user messages an agent may send to answer tool calls
  Replies,    \* assistant messages the upstream may answer with
  Notice,     \* the assistant message of a refusal
  Sensitive,  \* texts the classifier judges sensitive
  Outages,    \* sets of texts the classifier may give no verdict on
  MaxTurns    \* bound: messages in the history

VARIABLES
  history,    \* what the client will send with its next turn
  asked,      \* the conversation last sent
  down,       \* texts the classifier gave no verdict on then
  result,     \* what the proxy made of it
  body        \* what the upstream received of it

vars == <<history, asked, down, result, body>>

NoMessages == [i \in {} |-> i]

Init ==
  /\ history = NoMessages
  /\ asked = NoMessages
  /\ down = {}
  /\ result = "none"
  /\ body = NoMessages

With(c, m) ==
  [i \in DOMAIN c \cup {LastIndex(c) + 1} |-> IF i \in DOMAIN c THEN c[i] ELSE m]

Called(m) == {m.blocks[b].tool : b \in {k \in DOMAIN m.blocks : m.blocks[k].type = "tool_use"}}

Answered(m) == {m.blocks[b].tool : b \in {k \in DOMAIN m.blocks : m.blocks[k].type = "tool_result"}}

OpenTools(c) == IF DOMAIN c = {} THEN {} ELSE Called(c[LastIndex(c)])

OncePerTool(m, type) ==
  \A b, k \in DOMAIN m.blocks :
    m.blocks[b].type = type /\ m.blocks[k].type = type /\ m.blocks[b].tool = m.blocks[k].tool
      => b = k

(* What the API asks of both sides: users do not call tools and assistants *)
(* do not answer them, a message says something and names a tool call      *)
(* once.  A reply that quotes a notice goes where a notice goes, and is    *)
(* taken to call no tool.                                                  *)
ASSUME SessionAssumption ==
  /\ \A m \in Typed \cup ToolTurns :
       /\ IsMessage(m) /\ m.role = "user" /\ m.readable
       /\ DOMAIN m.blocks # {}
       /\ Called(m) = {} /\ OncePerTool(m, "tool_result")
  /\ \A a \in Replies :
       /\ IsMessage(a) /\ a.role = "assistant" /\ a.readable
       /\ Answered(a) = {} /\ OncePerTool(a, "tool_use")
       /\ HasBlockNotice(a) => Called(a) = {}
  /\ IsMessage(Notice) /\ Notice.role = "assistant"
  /\ HasBlockNotice(Notice) /\ Called(Notice) = {} /\ Answered(Notice) = {}

(* An agent answers the tool calls of the last reply, all of them, before  *)
(* its user types again.                                                   *)
Turns == {m \in Typed \cup ToolTurns : Answered(m) = OpenTools(history)}

-----------------------------------------------------------------------------
(* One request through Handler.process: c is the conversation it carries,  *)
(* off are the texts the classifier gives no verdict on while it runs.     *)

Judged(S, off) == {s \in S : s.text \in Sensitive \ off}

Unjudged(S, off) == {s \in S : s.text \in off}

FirstOf(S) == {s \in S : \A t \in S \ {s} : Precedes(<<s.msg, s.block>>, <<t.msg, t.block>>)}

(* The segments Evaluate may stop at. *)
BlockedBy(c, off) ==
  LET live == Judged(LiveSegments(c), off) \cup Unjudged(LiveSegments(c), off)
  IN IF Overrides(c) THEN {}
     ELSE IF live # {} THEN FirstOf(live)
     ELSE Unjudged(HistorySegments(c), off)

ToSanitize(c, off) ==
  Judged(HistorySegments(c), off)
    \cup IF Overrides(c) THEN Unjudged(HistorySegments(c), off) ELSE {}

ToForward(c) == IF Overrides(c) THEN StripLiveTurn(c) ELSE c

(* The refusal looks like an answer, and the client keeps it like one. *)
AnsweredLocally(c) == With(c, Notice)

Refuse(c, why) ==
  /\ result' = why
  /\ history' = AnsweredLocally(c)
  /\ body' = NoMessages

RefuseTurn(c, off) ==
  LET by == BlockedBy(c, off)
  IN /\ by # {}
     /\ Refuse(c, IF by = Unjudged(by, off) THEN "classifier_unavailable" ELSE "sensitive")

RefuseHistory(c, off) ==
  LET ng == ToSanitize(c, off)
  IN /\ BlockedBy(c, off) = {}
     /\ ng # {}
     /\ ~CanSanitize(ToForward(c), ng)
     /\ Refuse(c, "sanitize_failed")

(* The turn is forwarded; the upstream answers it (with tool ids of its    *)
(* own), or the forwarding fails and the client forgets the turn.          *)
Forward(c, off) ==
  LET ng == ToSanitize(c, off)
      NewReplies == {a \in Replies : \A i \in DOMAIN c : Called(a) \cap Called(c[i]) = {}}
  IN /\ BlockedBy(c, off) = {}
     /\ IF ng = {}
        THEN body' = ToForward(c)
        ELSE /\ CanSanitize(ToForward(c), ng)
             /\ body' = Sanitized(ToForward(c), ng)
     /\ result' = "forwarded"
     /\ history' \in {With(c, a) : a \in NewReplies} \cup {history}

Exchange(m, off) ==
  LET c == With(history, m)
  IN /\ LastIndex(c) < MaxTurns
     /\ asked' = c
     /\ down' = off
     /\ RefuseTurn(c, off) \/ RefuseHistory(c, off) \/ Forward(c, off)

(* The notice of a refused history asks the user to type /clear. *)
Clear ==
  /\ DOMAIN history # {}
  /\ history' = NoMessages
  /\ UNCHANGED <<asked, down, result, body>>

Next ==
  \/ Clear
  \/ \E m \in Turns, off \in Outages : Exchange(m, off)

Spec == Init /\ [][Next]_vars

-----------------------------------------------------------------------------
(* Properties *)

LiveIndex == LastIndex(asked)

(* The turns in which the user, not a tool, wrote the marker. *)
MarkedTurns ==
  {i \in DOMAIN asked :
     /\ asked[i].role = "user"
     /\ \E b \in DOMAIN asked[i].blocks :
          asked[i].blocks[b].type = "text" /\ asked[i].blocks[b].text \in Marked}

(* A sensitive text leaves with the turn whose author marked it, and never *)
(* again: every later request finds it in the history and removes it       *)
(* (decisions.md:116-117), whatever was blocked, bypassed, unavailable or  *)
(* failed in between.                                                      *)
MarkedSecretsLeaveOnce ==
  \A s \in Segments(body) :
    s.text \in Sensitive => s.msg = LiveIndex /\ s.msg \in MarkedTurns

SensitiveIn(c, i) == \E s \in Segments(c) : s.msg = i /\ s.text \in Sensitive

HarmlessTurn == result # "none" /\ ~SensitiveIn(asked, LiveIndex) /\ down = {}

(* The first turn the upstream answered was let through by the marker, and *)
(* it and the turns before it held nothing but sensitive texts.            *)
BypassedOpening ==
  \E i \in DOMAIN asked :
    /\ asked[i].role = "assistant" /\ asked[i] # Notice
    /\ \A k \in DOMAIN asked : k < i /\ asked[k].role = "user" =>
         \A b \in DOMAIN asked[k].blocks : Normalized(asked[k].blocks[b]) \in Sensitive

(* What was refused before does not stand in the way of a harmless turn:   *)
(* once the classifier answers, it is forwarded with the history that is   *)
(* left, unless its opening was let through by the marker and is sensitive *)
(* (sanitizer.go:117-121 wants a user message at the start).               *)
HarmlessTurnsGoOn == HarmlessTurn /\ ~BypassedOpening => result = "forwarded"

(* A user whose input was blocked wrongly marks it and goes on             *)
(* (decisions.md:135).                                                     *)
BypassLetsSessionGoOn == HarmlessTurn => result = "forwarded"

(* Nothing else gets lost on the way: every inspected text that is not     *)
(* sensitive, of every turn, is in what the upstream receives.             *)
HarmlessHistoryArrives ==
  result = "forwarded" /\ down = {} =>
    \A s \in Segments(ToForward(asked)) : s.text \notin Sensitive => s \in Segments(body)

(* The upstream never receives an array it would reject, although notices, *)
(* refused tool results and removed turns have piled up in the history.    *)
UpstreamAccepts == result = "forwarded" => ValidStructure(body)

(* A notice the upstream receives stands behind (what is left of) the turn *)
(* it speaks of: where all of the turn went, the notice went too           *)
(* (sanitizer.go:3-5).                                                     *)
NoticesKeepTheirTurn ==
  \A i \in DOMAIN body : body[i] = Notice => i - 1 \in DOMAIN body

(* "Remove the marker so Claude never sees it; keep it only if stripping   *)
(* would leave the message empty" (handler.go:204-205).                    *)
MarkerNeverSeen ==
  \A i \in DOMAIN body :
    body[i].role = "user" /\ ContainsMarker(body[i]) => StripMarker(body[i]) = body[i]
=============================================================================
