----------------------------- MODULE Extension ------------------------------
(***************************************************************************)
(* What the VS Code extension shows of the proxy.  A timer and the refresh *)
(* command each begin a poll, whether or not one is still waiting; a poll  *)
(* asks for the model, the statistics and the newest events at once, and   *)
(* shows something only when all three have come.                          *)
(***************************************************************************)
EXTENDS AuditTable

CONSTANTS
  Polls,       \* polls that may wait at a time
  LogLimit     \* the events a poll asks for

ASSUME ExtensionAssumption == LogLimit \in 1..MaxPage

VARIABLES
  poll,       \* poll -> what it has got
  log,        \* the activity log
  alive,      \* what the status bar says
  lastBlock,  \* lastBlockEventId: the set of it
  popped,     \* history: ids of the blocks the user was warned of
  again,      \* history: whether he was warned of one of them again
  overtaken   \* history: a page was shown after one that was read later

extensionVars == <<poll, log, alive, lastBlock, popped, again, overtaken>>

(* History: the polls whose page was read before and is not yet shown, and *)
(* whether a page that was read later is shown.                            *)
Idle == [at |-> "idle", events |-> {}, before |-> {}, late |-> FALSE]

ExtensionInit ==
  /\ poll = [p \in Polls |-> Idle]
  /\ log = {}
  /\ alive = FALSE
  /\ lastBlock = {}
  /\ popped = {}
  /\ again = FALSE
  /\ overtaken = FALSE

BeginPoll(p) ==
  /\ poll[p].at = "idle"
  /\ poll' = [poll EXCEPT ![p].at = "asked"]
  /\ UNCHANGED <<log, alive, lastBlock, popped, again, overtaken>>

(* The proxy reads the events; the answer, and the others, come later. *)
ReadEvents(p) ==
  /\ poll[p].at = "asked"
  /\ poll' = [poll EXCEPT ![p] = [at |-> "read", events |-> Page(rows, AnyDecision, LogLimit, 0),
                                   before |-> {q \in Polls : poll[q].at = "read"}, late |-> FALSE]]
  /\ UNCHANGED <<log, alive, lastBlock, popped, again, overtaken>>

(* p is done; the polls in late are overtaken. *)
Done(p, late) ==
  poll' = [q \in Polls |->
             IF q = p THEN Idle
             ELSE [poll[q] EXCEPT !.before = @ \ {p}, !.late = @ \/ q \in late]]

(* One of the three fails or times out: the log stays. *)
PollFails(p) ==
  /\ poll[p].at # "idle"
  /\ Done(p, {})
  /\ alive' = FALSE
  /\ UNCHANGED <<log, lastBlock, popped, again, overtaken>>

(* The proxy answers with an error: httpGet takes any JSON for the answer, *)
(* so that the log is emptied, and looking for the newest event throws.    *)
ShowError(p) ==
  /\ poll[p].at = "asked"
  /\ Done(p, {})
  /\ log' = {}
  /\ alive' = TRUE
  /\ UNCHANGED <<lastBlock, popped, again, overtaken>>

(* Broken variant: the newest event is warned of whatever was before. *)
ToWarnOfAlways(p) ==
  {e \in poll[p].events : Position(poll[p].events, e) = 1 /\ e.decision = "BLOCK"}

(* The newest event, if it is a block the user was not warned of last. *)
ToWarnOf(p) ==
  {e \in poll[p].events : Position(poll[p].events, e) = 1 /\ e.decision = "BLOCK"
                          /\ e.id \notin lastBlock}

Show(p) ==
  LET new == IdsOf(ToWarnOf(p))
  IN /\ poll[p].at = "read"
     /\ log' = poll[p].events
     /\ alive' = TRUE
     /\ lastBlock' = IF new = {} THEN lastBlock ELSE new
     /\ popped' = popped \cup new
     /\ again' = (again \/ new \cap popped # {})
     /\ overtaken' = (overtaken \/ poll[p].late)
     /\ Done(p, poll[p].before)

ExtensionNext ==
  \E p \in Polls : BeginPoll(p) \/ ReadEvents(p) \/ PollFails(p) \/ ShowError(p) \/ Show(p)

-----------------------------------------------------------------------------
(* The user is warned of a block once, although only the last id is        *)
(* remembered and the newest event need not be the one inserted last, as   *)
(* long as no poll is overtaken by one that was read later                 *)
(* (extension.ts:340-344).                                                 *)
WarnedOnce == again => overtaken
=============================================================================
