----------------------------- MODULE AuditStore -----------------------------
(***************************************************************************)
(* internal/storage: the table of audit events, the page and the           *)
(* statistics the admin API reads from it.  An event is a record           *)
(* [id, at, decision]; an id is random and at most a number to order by, a *)
(* time is a number of time units since Go's zero time.  created_at is     *)
(* text, but every writer formats it the same way (UTC, whole seconds).  A *)
(* bound is any RFC 3339 text: [at, zone, plain], the time it means, its   *)
(* offset from UTC, and whether it is written the way created_at is.       *)
(***************************************************************************)
EXTENDS Integers, FiniteSets, FiniteSetsExt, Sequences

CONSTANTS
  Second,        \* time units in a second, the step of created_at
  Hour,          \* time units in an hour
  Retention,     \* storage.retention_days, in time units
  MaxPage,       \* the limit of a page: 500
  MaxBuckets     \* the limit of a series: maxBuckets

ASSUME StoreAssumption ==
  /\ Second \in Nat \ {0} /\ Hour \in Nat \ {0} /\ Hour % Second = 0
  /\ Retention \in Nat
  /\ MaxPage \in Nat \ {0} /\ MaxBuckets \in Nat \ {0}

AnyDecision == "" \* an empty decision

Unbounded == [at |-> -1, zone |-> 0, plain |-> FALSE]   \* an empty from or to

(* The bounds that mean one of these times, written with these offsets. *)
Bounds(times, zones) ==
  {b \in [at : times, zone : zones, plain : BOOLEAN] : b.plain => b.zone = 0 /\ b.at % Second = 0}

(* What a restart leaves of the table. *)
ApplyRetention(rows, now) == {e \in rows : Retention = 0 \/ e.at >= now - Retention}

Truncate(t, width) == t - (t % width)

(* The time a bound shows.  A fraction, and an offset, sort before "Z". *)
Digits(bound) == Truncate(bound.at + bound.zone, Second)

InRange(e, from, to) ==
  /\ from = Unbounded \/ e.at >= Digits(from)
  /\ to = Unbounded \/ e.at < Digits(to) \/ (e.at = Digits(to) /\ to.plain)

Matching(rows, decision) == {e \in rows : decision = AnyDecision \/ e.decision = decision}

(* ORDER BY created_at DESC, event_id DESC *)
Newer(e, f) == e.at > f.at \/ (e.at = f.at /\ e.id > f.id)

Position(rows, e) == 1 + Cardinality({f \in rows : Newer(f, e)})

Clamp(limit) == IF limit > MaxPage THEN MaxPage ELSE limit

Page(rows, decision, limit, offset) ==
  LET hits == Matching(rows, decision)
  IN {e \in hits : Position(hits, e) - offset \in 1..Clamp(limit)}

-----------------------------------------------------------------------------
(* Statistics *)

BucketDuration(span) ==
  IF span <= 48 * Hour THEN Hour ELSE IF span <= 60 * 24 * Hour THEN 24 * Hour ELSE 7 * 24 * Hour

Tally(events) ==
  [allow |-> Cardinality({e \in events : e.decision # "BLOCK"}),
   block |-> Cardinality({e \in events : e.decision = "BLOCK"})]

(* Where the time series begins and ends: the bounds asked for, or else    *)
(* the events.                                                             *)
Span(events, from, to) ==
  LET times == {e.at : e \in events}
      a == IF from = Unbounded THEN Min(times) ELSE from.at
      b == IF to = Unbounded THEN Max(times) ELSE to.at
  IN IF b < a THEN [lo |-> b, hi |-> a] ELSE [lo |-> a, hi |-> b]

(* Broken variant: the last bucket is left out. *)
SeriesUntilEnd(events, from, to) ==
  IF events = {} THEN <<>>
  ELSE LET s == Span(events, from, to)
           width == BucketDuration(s.hi - s.lo)
           start == Truncate(s.lo, width)
           n == Min({MaxBuckets, (Truncate(s.hi, width) - start) \div width})
       IN [k \in 1..n |-> Tally({e \in events : Truncate(e.at, width) = start + (k - 1) * width})]

BuildSeries(events, from, to) ==
  IF events = {} THEN <<>>
  ELSE LET s == Span(events, from, to)
           width == BucketDuration(s.hi - s.lo)
           start == Truncate(s.lo, width)
           n == Min({MaxBuckets, 1 + (Truncate(s.hi, width) - start) \div width})
       IN [k \in 1..n |-> Tally({e \in events : Truncate(e.at, width) = start + (k - 1) * width})]

Stats(rows, from, to) ==
  LET events == {e \in rows : InRange(e, from, to)}
      tally == Tally(events)
  IN [total |-> Cardinality(events), allowed |-> tally.allow, blocked |-> tally.block,
      series |-> BuildSeries(events, from, to)]
=============================================================================
