----------------------------- MODULE AuditTable -----------------------------
(***************************************************************************)
(* Who writes the audit table: the request handlers, each of which stamps  *)
(* its event and inserts it afterwards, and the restart of the proxy,      *)
(* which drops the rows that are too old.                                  *)
(***************************************************************************)
EXTENDS AuditStore

CONSTANTS
  Ids,         \* event ids
  Instants     \* the times at which something happens

ASSUME TableAssumption ==
  Ids \subseteq Nat /\ Instants \subseteq Nat /\ Instants # {} /\ \A t \in Instants : t % Second = 0

VARIABLES
  now,      \* the clock
  ids,      \* ids used
  writing,  \* events stamped and not yet inserted
  rows      \* audit_events

storeVars == <<now, ids, writing, rows>>

StoreInit == now = Min(Instants) /\ ids = {} /\ writing = {} /\ rows = {}

IdsOf(events) == {e.id : e \in events}

Tick ==
  /\ \E t \in Instants : t > now
  /\ now' = Min({t \in Instants : t > now})
  /\ UNCHANGED <<ids, writing, rows>>

(* A handler makes an event: its id is random, its time is now. *)
Stamp(id, decision) ==
  /\ id \notin ids
  /\ ids' = ids \cup {id}
  /\ writing' = writing \cup {[id |-> id, at |-> now, decision |-> decision]}
  /\ UNCHANGED <<now, rows>>

Insert(e) ==
  /\ e \in writing
  /\ writing' = writing \ {e}
  /\ rows' = rows \cup {e}
  /\ UNCHANGED <<now, ids>>

(* The handler ignores the error. *)
InsertFails(e) ==
  /\ e \in writing
  /\ writing' = writing \ {e}
  /\ UNCHANGED <<now, ids, rows>>

(* The proxy restarts: what was being written is lost, Open brings the     *)
(* table up to date and applies the retention.                             *)
Open ==
  /\ writing' = {}
  /\ rows' = ApplyRetention(rows, now)
  /\ UNCHANGED <<now, ids>>

StoreNext ==
  \/ Tick
  \/ \E id \in Ids, d \in {"ALLOW", "BLOCK"} : Stamp(id, d)
  \/ \E e \in writing : Insert(e) \/ InsertFails(e)
  \/ Open
=============================================================================
