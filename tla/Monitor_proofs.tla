--------------------------- MODULE Monitor_proofs ---------------------------
(***************************************************************************)
(* What the readers of the audit table may rely on, and that nothing the   *)
(* extension started is abandoned, for every number of events, feeds,      *)
(* polls and runs of the start script and every size of a page.            *)
(***************************************************************************)
EXTENDS Monitor, FiniteSetTheorems, WellFoundedInduction, TLAPS

-----------------------------------------------------------------------------
(* Positions in a table *)

Event == [id : Ids, at : Instants, decision : {"ALLOW", "BLOCK"}]

Above(table, e) == {f \in table : Newer(f, e)}

LEMMA EventNumbers ==
  ASSUME NEW e \in Event
  PROVE  e.id \in Nat /\ e.at \in Nat /\ e.id \in Ids /\ e.at \in Instants
  BY TableAssumption DEF Event

(* A set of times has a first one, so that the clock shows one of them. *)
LEMMA FirstOfTimes ==
  ASSUME NEW T \in SUBSET Nat, T # {}
  PROVE  Min(T) \in T /\ \A y \in T : Min(T) <= y
<1> DEFINE R == OpToRel(<, Nat)
<1>1. IsWellFoundedOn(R, Nat)
  BY NatLessThanWellFounded
<1>2. \A x, y \in Nat : x < y => <<x, y>> \in R
  BY DEF OpToRel
<1> HIDE DEF R
<1>3. PICK x \in T : \A y \in T : ~(<<y, x>> \in R)
  BY <1>1, WFMin
<1>4. ASSUME NEW y \in T
      PROVE  x <= y
  <2>1. x \in Nat /\ y \in Nat
    BY <1>3, <1>4
  <2>2. ~(y < x)
    BY <1>2, <1>3, <2>1
  <2> QED
    BY <2>1, <2>2
<1> QED
  BY <1>3, <1>4 DEF Min

LEMMA PositionIsCount ==
  ASSUME NEW table, IsFiniteSet(table), NEW e
  PROVE  /\ IsFiniteSet(Above(table, e))
         /\ Cardinality(Above(table, e)) \in Nat
         /\ Position(table, e) = 1 + Cardinality(Above(table, e))
         /\ Position(table, e) \in Nat \ {0}
<1>1. Above(table, e) \in SUBSET table
  BY DEF Above
<1>2. IsFiniteSet(Above(table, e)) /\ Cardinality(Above(table, e)) \in Nat
  BY <1>1, FS_Subset, FS_CardinalityType
<1>3. Position(table, e) = 1 + Cardinality(Above(table, e))
  BY DEF Position, Above
<1> QED
  BY <1>2, <1>3

(* With more above it, an event is farther down. *)
LEMMA PositionGrows ==
  ASSUME NEW table, NEW larger, IsFiniteSet(larger), IsFiniteSet(table), NEW e,
         Above(table, e) \subseteq Above(larger, e)
  PROVE  Position(table, e) <= Position(larger, e)
<1>1. Cardinality(Above(table, e)) <= Cardinality(Above(larger, e))
  BY PositionIsCount, FS_Subset
<1> QED
  BY <1>1, PositionIsCount

(* Two events do not share a position: the newer one comes first. *)
LEMMA NewerComesFirst ==
  ASSUME NEW table \in SUBSET Event, IsFiniteSet(table),
         NEW e \in table, NEW f \in Event, Newer(e, f)
  PROVE  Position(table, e) < Position(table, f)
<1>1. Above(table, e) \cup {e} \subseteq Above(table, f)
  BY EventNumbers DEF Above, Newer
<1>2. e \notin Above(table, e)
  BY EventNumbers DEF Above, Newer
<1>3. IsFiniteSet(Above(table, e)) /\ IsFiniteSet(Above(table, f))
  BY PositionIsCount
<1>4. Cardinality(Above(table, e) \cup {e}) = Cardinality(Above(table, e)) + 1
  BY <1>2, <1>3, FS_AddElement
<1>5. Cardinality(Above(table, e) \cup {e}) <= Cardinality(Above(table, f))
  BY <1>1, <1>3, FS_Subset
<1> QED
  BY <1>4, <1>5, PositionIsCount

LEMMA NewestIsOne ==
  ASSUME NEW table \in SUBSET Event, IsFiniteSet(table),
         NEW e \in table, NEW f \in table, Position(table, e) = 1, Position(table, f) = 1
  PROVE  e.id = f.id
<1>1. ~Newer(e, f) /\ ~Newer(f, e)
  BY NewerComesFirst, PositionIsCount
<1> QED
  BY <1>1, EventNumbers DEF Newer

LEMMA MatchingSubset ==
  ASSUME NEW table \in SUBSET Event, IsFiniteSet(table), NEW decision
  PROVE  Matching(table, decision) \in SUBSET Event /\ IsFiniteSet(Matching(table, decision))
<1>1. Matching(table, decision) \in SUBSET table
  BY DEF Matching
<1> QED
  BY <1>1, FS_Subset

LEMMA MatchingAll ==
  ASSUME NEW table
  PROVE  Matching(table, AnyDecision) = table
  BY DEF Matching

(* A page holds what stands behind its offset, up to its limit. *)
LEMMA PagePositions ==
  ASSUME NEW table \in SUBSET Event, IsFiniteSet(table), NEW decision,
         NEW limit \in 1..MaxPage, NEW offset \in Nat,
         NEW e \in Matching(table, decision)
  PROVE  LET n == Position(Matching(table, decision), e)
         IN e \in Page(table, decision, limit, offset) <=> n > offset /\ n <= offset + limit
<1>1. Position(Matching(table, decision), e) \in Nat
  BY MatchingSubset, PositionIsCount
<1>2. Clamp(limit) = limit
  BY StoreAssumption DEF Clamp
<1>3. e \in Page(table, decision, limit, offset)
        <=> Position(Matching(table, decision), e) - offset \in 1..limit
  BY <1>2 DEF Page
<1> QED
  BY <1>1, <1>3

LEMMA PageSubset ==
  ASSUME NEW table, NEW decision, NEW limit, NEW offset
  PROVE  /\ Page(table, decision, limit, offset) \subseteq Matching(table, decision)
         /\ Page(table, decision, limit, offset) \subseteq table
  BY DEF Page, Matching

-----------------------------------------------------------------------------
(* The table *)

(* The ids of events that are not about to be inserted: those of the rows, *)
(* and of what was dropped or lost.                                        *)
Settled == ids \ IdsOf(writing)

StoreInv ==
  /\ now \in Instants
  /\ ids \subseteq Ids
  /\ rows \subseteq Event /\ IsFiniteSet(rows)
  /\ writing \subseteq Event
  /\ IdsOf(writing) \subseteq ids
  /\ IdsOf(rows) \subseteq Settled
  /\ \A e, f \in writing : e.id = f.id => e = f

LEMMA StoreInitKept == StoreInit => StoreInv
<1> SUFFICES ASSUME StoreInit
             PROVE  StoreInv
  OBVIOUS
<1>1. now \in Instants
  BY FirstOfTimes, TableAssumption DEF StoreInit
<1> QED
  BY <1>1, FS_EmptySet DEF StoreInit, StoreInv, Settled, IdsOf

LEMMA StoreKeeps ==
  ASSUME StoreInv, [StoreNext]_storeVars
  PROVE  StoreInv' /\ Settled \subseteq Settled'
<1> USE DEF StoreInv, Settled, IdsOf
<1>1. CASE UNCHANGED storeVars
  BY <1>1 DEF storeVars
<1>2. CASE Tick
  <2>1. {t \in Instants : t > now} \in SUBSET Nat /\ {t \in Instants : t > now} # {}
    BY <1>2, TableAssumption DEF Tick
  <2>2. now' \in Instants
    BY <1>2, <2>1, FirstOfTimes DEF Tick
  <2> QED
    BY <1>2, <2>2 DEF Tick
<1>3. ASSUME NEW id \in Ids, NEW d \in {"ALLOW", "BLOCK"}, Stamp(id, d)
      PROVE  StoreInv' /\ Settled \subseteq Settled'
  <2>1. [id |-> id, at |-> now, decision |-> d] \in Event
    BY DEF Event
  <2> QED
    BY <1>3, <2>1 DEF Stamp
<1>4. ASSUME NEW e \in writing, Insert(e)
      PROVE  StoreInv' /\ Settled \subseteq Settled'
  <2>1. IsFiniteSet(rows')
    BY <1>4, FS_AddElement DEF Insert
  <2>2. e.id \in Settled'
    BY <1>4 DEF Insert
  <2> QED
    BY <1>4, <2>1, <2>2 DEF Insert
<1>5. ASSUME NEW e \in writing, InsertFails(e)
      PROVE  StoreInv' /\ Settled \subseteq Settled'
  BY <1>5 DEF InsertFails
<1>6. CASE Open
  <2>1. rows' \in SUBSET rows
    BY <1>6 DEF Open, ApplyRetention
  <2>2. IsFiniteSet(rows')
    BY <2>1, FS_Subset
  <2> QED
    BY <1>6, <2>1, <2>2 DEF Open
<1> QED
  BY <1>1, <1>2, <1>3, <1>4, <1>5, <1>6 DEF StoreNext

(* A row that appears was not settled before. *)
LEMMA NewRowsUnsettled ==
  ASSUME StoreInv, [StoreNext]_storeVars, NEW e \in rows'
  PROVE  e \in rows \/ e.id \notin Settled
  BY DEF StoreInv, StoreNext, storeVars, Tick, Stamp, Insert, InsertFails, Open, ApplyRetention,
         Settled, IdsOf

(* Whatever is inserted, and whatever a restart drops, what stays does not *)
(* come closer to the top: what is dropped is older than what stays.       *)
LEMMA RowsSink ==
  ASSUME StoreInv, [StoreNext]_storeVars, NEW e \in rows, e \in rows', NEW decision
  PROVE  Position(Matching(rows, decision), e) <= Position(Matching(rows', decision), e)
<1>0. StoreInv'
  BY StoreKeeps
<1>1. /\ IsFiniteSet(Matching(rows, decision)) /\ IsFiniteSet(Matching(rows', decision))
      /\ Matching(rows, decision) \subseteq Event
      /\ e \in Event
  BY <1>0, MatchingSubset DEF StoreInv
<1>2. Above(Matching(rows, decision), e) \subseteq Above(Matching(rows', decision), e)
  <2> SUFFICES ASSUME NEW f \in Matching(rows, decision), Newer(f, e)
               PROVE  f \in Matching(rows', decision)
    BY DEF Above
  <2>1. f \in rows /\ (f \in rows' => f \in Matching(rows', decision))
    BY DEF Matching
  <2>2. f.at \in Nat /\ e.at \in Nat /\ f.at >= e.at
    BY <1>1, EventNumbers DEF Newer
  <2>3. CASE Open
    <3>1. Retention = 0 \/ e.at >= now - Retention
      BY <2>3 DEF Open, ApplyRetention
    <3>2. now \in Nat /\ Retention \in Nat
      BY StoreAssumption, TableAssumption DEF StoreInv
    <3>3. Retention = 0 \/ f.at >= now - Retention
      BY <3>1, <3>2, <2>2
    <3> QED
      BY <2>1, <2>3, <3>3 DEF Open, ApplyRetention
  <2>4. CASE ~Open
    <3>1. rows \subseteq rows'
      BY <2>4 DEF StoreNext, storeVars, Tick, Stamp, Insert, InsertFails
    <3> QED
      BY <2>1, <3>1
  <2> QED
    BY <2>3, <2>4
<1> QED
  BY <1>1, <1>2, PositionGrows

-----------------------------------------------------------------------------
(* The feeds *)

FeedPage == [ready : BOOLEAN, events : SUBSET Event, table : SUBSET Ids]

FeedType ==
  /\ feed \in [Feeds -> [seen : SUBSET Ids, initialized : BOOLEAN]]
  /\ page \in [Feeds -> FeedPage]
  /\ noted \in [Feeds -> SUBSET Ids] /\ twice \in [Feeds -> BOOLEAN]
  /\ old \in [Feeds -> SUBSET Ids] /\ upTo \in [Feeds -> SUBSET Ids]

(* As many others as a page of the feed holds are above the row. *)
Pushed(f, e) ==
  e \in Matching(rows, Wanted[f]) => Position(Matching(rows, Wanted[f]), e) > FeedLimit[f]

FeedSettled(f) == noted[f] \cup upTo[f] \cup page[f].table \subseteq Settled

BeforeBaseline(f) == ~feed[f].initialized => noted[f] = {} /\ upTo[f] = {}

(* What was announced is remembered until it has left the page for good. *)
RememberedOrPushed(f) ==
  \A e \in rows : e.id \in noted[f] => e.id \in feed[f].seen \/ Pushed(f, e)

SeenIsKnown(f) == feed[f].initialized => feed[f].seen \subseteq noted[f] \cup old[f]

(* A page that waits repeats what was announced only as far as that is     *)
(* remembered, and what it left out has no way back.                       *)
WaitingPage(f) ==
  page[f].ready =>
    /\ IdsOf(page[f].events) \subseteq page[f].table
    /\ IdsOf(page[f].events) \cap noted[f] \subseteq feed[f].seen
    /\ \A e \in rows : e.id \in noted[f] => e.id \in page[f].table
    /\ \A e \in rows : e.id \in page[f].table => e.id \in IdsOf(page[f].events) \/ Pushed(f, e)

MissedIsPushed(f) ==
  \A e \in rows : e.id \in (upTo[f] \ old[f]) \ noted[f] => Pushed(f, e)

FeedOk(f) ==
  /\ FeedSettled(f)
  /\ BeforeBaseline(f)
  /\ RememberedOrPushed(f)
  /\ SeenIsKnown(f)
  /\ WaitingPage(f)
  /\ MissedIsPushed(f)
  /\ ~twice[f]

FeedInv == FeedType /\ \A f \in Feeds : FeedOk(f)

LEMMA FeedInitKept == StoreInit /\ FeedInit => FeedInv
  BY DEF StoreInit, FeedInit, FeedInv, FeedType, FeedPage, FeedOk, FeedSettled, BeforeBaseline, RememberedOrPushed,
         SeenIsKnown, WaitingPage, MissedIsPushed, Forgetful, Nothing, IdsOf, Settled

LEMMA PushedStays ==
  ASSUME StoreInv, [StoreNext]_storeVars, NEW f \in Feeds, NEW e \in rows, e \in rows', Pushed(f, e)
  PROVE  Pushed(f, e)'
<1>1. StoreInv'
  BY StoreKeeps
<1> SUFFICES ASSUME e \in Matching(rows', Wanted[f])
             PROVE  Position(Matching(rows', Wanted[f]), e) > FeedLimit[f]
  BY DEF Pushed
<1>2. e \in Matching(rows, Wanted[f])
  BY DEF Matching
<1>3. Position(Matching(rows, Wanted[f]), e) > FeedLimit[f]
  BY <1>2 DEF Pushed
<1>4. Position(Matching(rows, Wanted[f]), e) <= Position(Matching(rows', Wanted[f]), e)
  BY RowsSink
<1>5. Position(Matching(rows, Wanted[f]), e) \in Nat /\ Position(Matching(rows', Wanted[f]), e) \in Nat
  BY <1>1, MatchingSubset, PositionIsCount DEF StoreInv
<1>6. FeedLimit[f] \in Nat
  BY FeedAssumption
<1> QED
  BY <1>3, <1>4, <1>5, <1>6

LEMMA TableKeepsFeeds ==
  ASSUME StoreInv, [StoreNext]_storeVars, FeedInv, UNCHANGED feedVars
  PROVE  FeedInv'
<1>1. FeedType'
  BY DEF FeedInv, FeedType, FeedPage, feedVars
<1> SUFFICES ASSUME NEW f \in Feeds
             PROVE  FeedOk(f)'
  BY <1>1 DEF FeedInv
<1>2. FeedOk(f)
  BY DEF FeedInv
<1>3. UNCHANGED <<feed[f], page[f], noted[f], twice[f], old[f], upTo[f]>>
  BY DEF feedVars
<1>4. FeedSettled(f)'
  BY <1>2, <1>3, StoreKeeps DEF FeedOk, FeedSettled
<1>5. ASSUME NEW e \in rows'
      PROVE  \/ e.id \notin noted[f] \cup upTo[f] \cup page[f].table
             \/ e \in rows /\ (Pushed(f, e) => Pushed(f, e)')
  BY <1>2, NewRowsUnsettled, PushedStays DEF FeedOk, FeedSettled
<1>6. BeforeBaseline(f)' /\ SeenIsKnown(f)' /\ ~twice'[f]
  BY <1>2, <1>3 DEF FeedOk, BeforeBaseline, SeenIsKnown
<1>7. RememberedOrPushed(f)'
  BY <1>2, <1>3, <1>5 DEF FeedOk, RememberedOrPushed
<1>8. MissedIsPushed(f)'
  BY <1>2, <1>3, <1>5 DEF FeedOk, MissedIsPushed
<1>9. WaitingPage(f)'
  <2> SUFFICES ASSUME page[f].ready
               PROVE  WaitingPage(f)'
    BY <1>3 DEF WaitingPage
  <2>1. /\ IdsOf(page[f].events) \subseteq page[f].table
        /\ IdsOf(page[f].events) \cap noted[f] \subseteq feed[f].seen
    BY <1>2 DEF FeedOk, WaitingPage
  <2>2. ASSUME NEW e \in rows', e.id \in noted[f]
        PROVE  e.id \in page[f].table
    BY <1>2, <1>5, <2>2 DEF FeedOk, WaitingPage
  <2>3. ASSUME NEW e \in rows', e.id \in page[f].table
        PROVE  e.id \in IdsOf(page[f].events) \/ Pushed(f, e)'
    BY <1>2, <1>5, <2>3 DEF FeedOk, WaitingPage
  <2> QED
    BY <1>3, <2>1, <2>2, <2>3 DEF WaitingPage, IdsOf
<1> QED
  BY <1>4, <1>6, <1>7, <1>8, <1>9 DEF FeedOk

(* A row that a feed's page leaves out is pushed. *)
LEMMA LeftOutIsPushed ==
  ASSUME StoreInv, NEW f \in Feeds, NEW e \in rows,
         e \notin Page(rows, Wanted[f], FeedLimit[f], 0)
  PROVE  Pushed(f, e)
<1> SUFFICES ASSUME e \in Matching(rows, Wanted[f])
             PROVE  Position(Matching(rows, Wanted[f]), e) > FeedLimit[f]
  BY DEF Pushed
<1>1. FeedLimit[f] \in 1..MaxPage /\ FeedLimit[f] \in Nat
  BY FeedAssumption, StoreAssumption
<1>2. Position(Matching(rows, Wanted[f]), e) \in Nat \ {0}
  BY MatchingSubset, PositionIsCount DEF StoreInv
<1>3. ~(Position(Matching(rows, Wanted[f]), e) > 0
        /\ Position(Matching(rows, Wanted[f]), e) <= 0 + FeedLimit[f])
  BY <1>1, PagePositions DEF StoreInv
<1> QED
  BY <1>1, <1>2, <1>3

LEMMA FeedKeeps ==
  ASSUME StoreInv, FeedInv, NEW f \in Feeds, FeedNext(f), UNCHANGED storeVars
  PROVE  FeedInv'
<1>1. FeedOk(f) /\ FeedType
  BY DEF FeedInv
<1>2. UNCHANGED <<rows, Settled>> /\ \A e : Pushed(f, e)' = Pushed(f, e)
  BY DEF storeVars, Settled, Pushed
<1> DEFINE got == Page(rows, Wanted[f], FeedLimit[f], 0)
<1>3. got \in SUBSET Event /\ got \subseteq rows /\ IdsOf(rows) \in SUBSET Ids
  BY PageSubset, EventNumbers DEF StoreInv, IdsOf
<1>4. \A e \in rows : e \notin got => Pushed(f, e)
  BY LeftOutIsPushed
<1> HIDE DEF got
<1>5. ASSUME NEW g \in Feeds, UNCHANGED <<feed[g], page[g], noted[g], twice[g], old[g], upTo[g]>>
      PROVE  FeedOk(g)'
  BY <1>2, <1>5 DEF FeedInv, FeedOk, FeedSettled, BeforeBaseline, RememberedOrPushed, SeenIsKnown,
                    WaitingPage, MissedIsPushed, Pushed, IdsOf
<1>6. CASE Fetch(f)
  <2>1. page' = [page EXCEPT ![f] = [ready |-> TRUE, table |-> IdsOf(rows), events |-> got]]
    BY <1>6 DEF Fetch, got
  <2>2. FeedType'
    BY <1>1, <1>3, <1>6, <2>1 DEF Fetch, FeedType, FeedPage
  <2>3. page'[f] = [ready |-> TRUE, table |-> IdsOf(rows), events |-> got]
    BY <1>1, <2>1 DEF FeedType, FeedPage
  <2>4. WaitingPage(f)'
    <3>1. IdsOf(got) \subseteq IdsOf(rows)
      BY <1>3 DEF IdsOf
    <3>2. IdsOf(got) \cap noted[f] \subseteq feed[f].seen
      <4> SUFFICES ASSUME NEW e \in got, e.id \in noted[f], e.id \notin feed[f].seen
                   PROVE  FALSE
        BY DEF IdsOf
      <4>1. Pushed(f, e) /\ e \in Matching(rows, Wanted[f])
        BY <1>1, <1>3, PageSubset DEF FeedOk, RememberedOrPushed, got
      <4>2. Position(Matching(rows, Wanted[f]), e) \in Nat
        BY MatchingSubset, PositionIsCount DEF StoreInv
      <4>3. FeedLimit[f] \in 1..MaxPage /\ FeedLimit[f] \in Nat
        BY FeedAssumption, StoreAssumption
      <4>4. Position(Matching(rows, Wanted[f]), e) <= 0 + FeedLimit[f]
        BY <4>1, <4>3, PagePositions DEF StoreInv, got
      <4> QED
        BY <4>1, <4>2, <4>3, <4>4 DEF Pushed
    <3>3. \A e \in rows : e.id \in IdsOf(rows) /\ (e.id \in IdsOf(got) \/ Pushed(f, e))
      BY <1>4 DEF IdsOf
    <3>4. noted'[f] = noted[f] /\ feed'[f] = feed[f]
      BY <1>6 DEF Fetch
    <3> QED
      BY <1>2, <2>3, <3>1, <3>2, <3>3, <3>4 DEF WaitingPage, IdsOf
  <2>5. FeedOk(f)'
    BY <1>1, <1>2, <1>6, <2>3, <2>4 DEF Fetch, FeedOk, FeedSettled, BeforeBaseline, RememberedOrPushed,
                                      SeenIsKnown, MissedIsPushed, StoreInv
  <2>6. \A g \in Feeds \ {f} : page'[g] = page[g]
    BY <1>1, <2>1 DEF FeedType, FeedPage
  <2> QED
    BY <1>6, <1>5, <2>2, <2>5, <2>6 DEF Fetch, FeedInv
<1>7. CASE FetchFails(f)
  <2>1. page' = [page EXCEPT ![f] = Nothing] /\ Nothing \in FeedPage
    BY <1>7 DEF FetchFails, Nothing, FeedPage
  <2>2. FeedType'
    BY <1>1, <1>7, <2>1 DEF FetchFails, FeedType, FeedPage
  <2>3. page'[f] = Nothing /\ ~Nothing.ready /\ Nothing.table = {}
    BY <1>1, <2>1 DEF FeedType, FeedPage, Nothing
  <2>4. FeedOk(f)'
    BY <1>1, <1>2, <1>7, <2>3 DEF FetchFails, FeedOk, FeedSettled, BeforeBaseline, RememberedOrPushed,
                                 SeenIsKnown, MissedIsPushed, WaitingPage
  <2>5. \A g \in Feeds \ {f} : page'[g] = page[g]
    BY <1>1, <2>1 DEF FeedType, FeedPage
  <2> QED
    BY <1>7, <1>5, <2>2, <2>4, <2>5 DEF FetchFails, FeedInv
<1>8. CASE Seed(f)
  <2> DEFINE ev == page[f].events
             tab == page[f].table
  <2>1. /\ page' = [page EXCEPT ![f] = Nothing]
        /\ upTo' = [upTo EXCEPT ![f] = tab]
        /\ old' = [old EXCEPT ![f] = tab]
        /\ feed' = [feed EXCEPT ![f] = [seen |-> IdsOf(ev), initialized |-> TRUE]]
        /\ UNCHANGED <<noted, twice>>
        /\ page[f].ready /\ ~feed[f].initialized
    BY <1>8 DEF Seed, Looked
  <2>2. tab \subseteq Ids /\ IdsOf(ev) \subseteq tab /\ tab \subseteq Settled /\ noted[f] = {}
    BY <1>1, <2>1 DEF FeedType, FeedPage, FeedOk, WaitingPage, FeedSettled, BeforeBaseline
  <2>3. Nothing \in FeedPage /\ ~Nothing.ready /\ Nothing.table = {}
    BY DEF Nothing, FeedPage
  <2>4. FeedType'
    BY <1>1, <2>1, <2>2, <2>3 DEF FeedType, FeedPage
  <2>5. /\ page'[f] = Nothing /\ upTo'[f] = tab /\ old'[f] = tab /\ noted'[f] = {} /\ twice'[f] = twice[f]
        /\ feed'[f].seen = IdsOf(ev) /\ feed'[f].initialized
    BY <1>1, <2>1, <2>2 DEF FeedType, FeedPage
  <2>6. FeedOk(f)'
    BY <1>1, <1>2, <2>2, <2>3, <2>5 DEF FeedOk, FeedSettled, BeforeBaseline, RememberedOrPushed,
                                 SeenIsKnown, MissedIsPushed, WaitingPage
  <2>7. \A g \in Feeds \ {f} : UNCHANGED <<feed[g], page[g], noted[g], twice[g], old[g], upTo[g]>>
    BY <1>1, <2>1 DEF FeedType, FeedPage
  <2> QED
    BY <1>5, <2>4, <2>6, <2>7 DEF FeedInv
<1>9. CASE Announce(f)
  <2> DEFINE ev == page[f].events
             tab == page[f].table
             fresh == IdsOf(ev) \ feed[f].seen
  <2>1. /\ page' = [page EXCEPT ![f] = Nothing]
        /\ upTo' = [upTo EXCEPT ![f] = tab]
        /\ old' = old
        /\ feed' = [feed EXCEPT ![f] = [seen |-> IdsOf(ev), initialized |-> TRUE]]
        /\ noted' = [noted EXCEPT ![f] = @ \cup fresh]
        /\ twice' = [twice EXCEPT ![f] = @ \/ fresh \cap noted[f] # {}]
        /\ page[f].ready /\ feed[f].initialized
    BY <1>9 DEF Announce, Looked
  <2>2. /\ tab \subseteq Ids /\ IdsOf(ev) \subseteq tab /\ tab \subseteq Settled
        /\ noted[f] \subseteq Settled /\ noted[f] \subseteq Ids
        /\ IdsOf(ev) \cap noted[f] \subseteq feed[f].seen
        /\ feed[f].seen \subseteq noted[f] \cup old[f]
    BY <1>1, <2>1 DEF FeedType, FeedPage, FeedOk, WaitingPage, FeedSettled, SeenIsKnown
  <2>3. Nothing \in FeedPage /\ ~Nothing.ready /\ Nothing.table = {}
    BY DEF Nothing, FeedPage
  <2>4. \A e \in rows : (e.id \in noted[f] => e.id \in tab) /\ (e.id \in tab => e.id \in IdsOf(ev) \/ Pushed(f, e))
    BY <1>1, <2>1 DEF FeedOk, WaitingPage
  <2> HIDE DEF ev, tab
  <2>5. FeedType'
    <3>1. feed' \in [Feeds -> [seen : SUBSET Ids, initialized : BOOLEAN]]
      BY <1>1, <2>1, <2>2 DEF FeedType, FeedPage
    <3>2. page' \in [Feeds -> FeedPage]
      BY <1>1, <2>1, <2>3 DEF FeedType, FeedPage
    <3>3. noted' \in [Feeds -> SUBSET Ids] /\ twice' \in [Feeds -> BOOLEAN] /\ upTo' \in [Feeds -> SUBSET Ids]
      BY <1>1, <2>1, <2>2 DEF FeedType, FeedPage
    <3> QED
      BY <1>1, <2>1, <3>1, <3>2, <3>3 DEF FeedType, FeedPage
  <2>6. /\ page'[f] = Nothing /\ upTo'[f] = tab /\ noted'[f] = noted[f] \cup fresh
        /\ feed'[f].seen = IdsOf(ev) /\ feed'[f].initialized
        /\ fresh \cap noted[f] = {} /\ twice'[f] = twice[f]
    BY <1>1, <2>1, <2>2 DEF FeedType, FeedPage
  <2>7. FeedOk(f)'
    <3>1. FeedSettled(f)' /\ BeforeBaseline(f)' /\ SeenIsKnown(f)' /\ WaitingPage(f)' /\ ~twice'[f]
      BY <1>1, <1>2, <2>1, <2>2, <2>3, <2>6 DEF FeedOk, FeedSettled, BeforeBaseline, SeenIsKnown, WaitingPage
    <3>2. RememberedOrPushed(f)'
      BY <1>2, <2>2, <2>4, <2>6 DEF RememberedOrPushed
    <3>3. MissedIsPushed(f)'
      BY <1>2, <2>1, <2>2, <2>4, <2>6 DEF MissedIsPushed
    <3> QED
      BY <3>1, <3>2, <3>3 DEF FeedOk
  <2>8. \A g \in Feeds \ {f} : UNCHANGED <<feed[g], page[g], noted[g], twice[g], old[g], upTo[g]>>
    BY <1>1, <2>1 DEF FeedType, FeedPage
  <2> QED
    BY <1>5, <2>5, <2>7, <2>8 DEF FeedInv
<1> QED
  BY <1>6, <1>7, <1>8, <1>9 DEF FeedNext

(* What a feed has missed is pushed, and as many others are at least as new. *)
LEMMA PushedInBurst ==
  ASSUME StoreInv, NEW f \in Feeds, NEW e \in Matching(rows, Wanted[f]), Pushed(f, e)
  PROVE  Cardinality({g \in Matching(rows, Wanted[f]) : g.at >= e.at}) > FeedLimit[f]
<1> DEFINE hits == Matching(rows, Wanted[f])
           burst == {g \in hits : g.at >= e.at}
<1>1. hits \in SUBSET Event /\ IsFiniteSet(hits) /\ e \in Event
  BY MatchingSubset DEF StoreInv
<1>2. Position(hits, e) > FeedLimit[f]
  BY DEF Pushed
<1>3. Above(hits, e) \cup {e} \in SUBSET burst
  BY <1>1, EventNumbers DEF Above, Newer
<1>4. e \notin Above(hits, e)
  BY <1>1, EventNumbers DEF Above, Newer
<1>5. burst \in SUBSET hits
  OBVIOUS
<1> HIDE DEF hits, burst
<1>6. IsFiniteSet(burst) /\ Cardinality(burst) \in Nat
  BY <1>1, <1>5, FS_Subset, FS_CardinalityType
<1>7. Cardinality(Above(hits, e) \cup {e}) = Cardinality(Above(hits, e)) + 1
  BY <1>1, <1>4, PositionIsCount, FS_AddElement
<1>8. Position(hits, e) <= Cardinality(burst)
  BY <1>1, <1>3, <1>6, <1>7, PositionIsCount, FS_Subset
<1>9. FeedLimit[f] \in Nat /\ Position(hits, e) \in Nat
  BY <1>1, FeedAssumption, PositionIsCount
<1>10. Cardinality(burst) > FeedLimit[f]
  BY <1>2, <1>6, <1>8, <1>9
<1> QED
  BY <1>10 DEF burst, hits

-----------------------------------------------------------------------------
(* The history page *)

HistoryType ==
  /\ reader \in [at : {"closed", "asked", "counted", "shown"}, limit : Nat, offset : Nat,
                 count : Nat, total : Nat, totals : SUBSET Nat, filled : BOOLEAN, error : BOOLEAN,
                 began : SUBSET Event, read : SUBSET Event, reach : Nat, hurried : BOOLEAN]
  /\ reader.at = "closed" => ~reader.filled
  /\ reader.at # "closed" => reader.limit \in Nat \ {0}

(* He who lets every page appear, and whose limit is that of the pages. *)
Steady == ~reader.hurried /\ reader.limit <= MaxPage

Unread == (reader.began \cap rows) \ reader.read

HistoryInv ==
  /\ HistoryType
  /\ IdsOf(reader.began) \subseteq Settled
  /\ Steady => reader.offset <= reader.reach
  /\ Steady => \A e \in Unread : Position(rows, e) > reader.reach

LEMMA HistoryInitKept == HistoryInit => HistoryInv
<1> SUFFICES ASSUME HistoryInit
             PROVE  HistoryInv
  OBVIOUS
<1>1. reader = Closed
  BY DEF HistoryInit
<1>2. HistoryType
  BY <1>1 DEF Closed, HistoryType
<1>3. reader.began = {} /\ reader.offset = 0 /\ reader.reach = 0
  BY <1>1 DEF Closed
<1> QED
  BY <1>2, <1>3 DEF HistoryInv, IdsOf, Unread

LEMMA TableKeepsHistory ==
  ASSUME StoreInv, [StoreNext]_storeVars, HistoryInv, UNCHANGED reader
  PROVE  HistoryInv'
<1>1. StoreInv' /\ Settled \subseteq Settled'
  BY StoreKeeps
<1>2. (Steady' <=> Steady) /\ reader.reach \in Nat
  BY DEF HistoryInv, HistoryType, Steady
<1>3. ASSUME Steady, NEW e \in Unread'
      PROVE  Position(rows', e) > reader.reach
  <2>1. e \in reader.began /\ e \in rows' /\ e \notin reader.read
    BY <1>3 DEF Unread
  <2>2. e.id \in Settled
    BY <2>1 DEF HistoryInv, IdsOf
  <2>3. e \in rows
    BY <2>1, <2>2, NewRowsUnsettled
  <2>4. Position(rows, e) > reader.reach
    BY <1>3, <2>1, <2>3 DEF HistoryInv, Unread
  <2>5. Position(rows, e) <= Position(rows', e)
    BY <2>1, <2>3, RowsSink, MatchingAll
  <2>6. Position(rows, e) \in Nat /\ Position(rows', e) \in Nat
    BY <1>1, PositionIsCount DEF StoreInv
  <2> QED
    BY <1>2, <2>4, <2>5, <2>6
<1>4. HistoryType' /\ IdsOf(reader'.began) \subseteq Settled'
  BY <1>1 DEF HistoryInv, HistoryType, IdsOf
<1> QED
  BY <1>1, <1>2, <1>3, <1>4 DEF HistoryInv

LEMMA HistoryKeeps ==
  ASSUME StoreInv, HistoryInv, HistoryNext, UNCHANGED storeVars
  PROVE  HistoryInv'
<1>0. UNCHANGED <<rows, Settled>>
  BY DEF storeVars, Settled
<1>1. MaxPage \in Nat \ {0} /\ PageLimits \subseteq Nat \ {0}
  BY HistoryAssumption, StoreAssumption
<1>2. rows \in SUBSET Event /\ IsFiniteSet(rows) /\ IdsOf(rows) \subseteq Settled
  BY DEF StoreInv
<1>3. \A e \in rows : Position(rows, e) \in Nat \ {0}
  BY <1>2, PositionIsCount
<1>4. HistoryType /\ reader.offset \in Nat /\ reader.limit \in Nat /\ reader.reach \in Nat
  BY DEF HistoryInv, HistoryType
<1>5. CASE OpenHistory
  <2>1. PICK limit \in PageLimits :
          reader' = [reader EXCEPT !.at = "asked", !.limit = limit, !.offset = 0, !.error = FALSE,
                                   !.began = rows, !.read = {}, !.reach = 0, !.hurried = FALSE]
    BY <1>5 DEF OpenHistory
  <2>2. HistoryType'
    BY <1>1, <1>2, <1>4, <2>1 DEF HistoryType
  <2>3. reader'.began = rows /\ reader'.offset = 0 /\ reader'.reach = 0
    BY <1>4, <2>1 DEF HistoryType
  <2> QED
    BY <1>0, <1>2, <1>3, <2>2, <2>3 DEF HistoryInv, IdsOf, Unread
<1>6. ASSUME reader'.began = reader.began, reader'.read = reader.read, reader'.reach = reader.reach,
             HistoryType', Steady' => Steady /\ reader'.offset <= reader.reach
      PROVE  HistoryInv'
  <2>1. Unread' = Unread
    BY <1>0, <1>6 DEF Unread
  <2> QED
    BY <1>0, <1>6, <2>1 DEF HistoryInv, IdsOf
<1>7. CASE CountRows
  <2>1. Cardinality(rows) \in Nat
    BY <1>2, FS_CardinalityType
  <2>2. reader' = [reader EXCEPT !.at = "counted", !.count = Cardinality(rows)] /\ reader.at = "asked"
    BY <1>7 DEF CountRows
  <2>3. /\ HistoryType'
        /\ UNCHANGED <<reader.began, reader.read, reader.reach, reader.offset, Steady>>
    BY <1>4, <2>1, <2>2 DEF HistoryType, Steady
  <2> QED
    BY <1>6, <2>3 DEF HistoryInv
<1>8. CASE PageFails
  <2>1. reader' = [reader EXCEPT !.at = "shown", !.error = TRUE] /\ reader.at \in {"asked", "counted"}
    BY <1>8 DEF PageFails
  <2>2. /\ HistoryType'
        /\ UNCHANGED <<reader.began, reader.read, reader.reach, reader.offset, Steady>>
    BY <1>4, <2>1 DEF HistoryType, Steady
  <2> QED
    BY <1>6, <2>2 DEF HistoryInv
<1>9. CASE Refresh
  <2>1. reader' = [reader EXCEPT !.at = "asked"] /\ reader.at = "shown"
    BY <1>9 DEF Refresh
  <2>2. /\ HistoryType'
        /\ UNCHANGED <<reader.began, reader.read, reader.reach, reader.offset, Steady>>
    BY <1>4, <2>1 DEF HistoryType, Steady
  <2> QED
    BY <1>6, <2>2 DEF HistoryInv
<1>10. ASSUME NEW offset \in Nat, Buttons, TurnTo(offset)
       PROVE  /\ HistoryType'
              /\ UNCHANGED <<reader.began, reader.read, reader.reach, reader.limit>>
              /\ reader'.offset = offset
              /\ reader'.hurried <=>
                   reader.hurried \/ (/\ offset > reader.offset
                                     /\ reader.offset + reader.limit > reader.reach)
  <2>1. PICK total \in reader.totals :
          reader' = [reader EXCEPT !.at = "asked", !.offset = offset, !.total = total,
                                   !.hurried = @ \/ (/\ offset > reader.offset
                                                    /\ reader.offset + reader.limit > reader.reach)]
    BY <1>10 DEF TurnTo
  <2>2. total \in Nat /\ reader.limit \in Nat \ {0}
    BY <1>4, <1>10 DEF HistoryType, Buttons
  <2> DEFINE late == /\ offset > reader.offset
                     /\ reader.offset + reader.limit > reader.reach
  <2>3. late \in BOOLEAN /\ reader' = [reader EXCEPT !.at = "asked", !.offset = offset, !.total = total,
                                                    !.hurried = @ \/ late]
    BY <2>1
  <2> HIDE DEF late
  <2>4. /\ HistoryType'
        /\ UNCHANGED <<reader.began, reader.read, reader.reach, reader.limit>>
        /\ reader'.offset = offset
        /\ reader'.hurried <=> (reader.hurried \/ late)
    <3>1. (reader.hurried \/ late) \in BOOLEAN
      BY <1>4, <2>3 DEF HistoryType
    <3> DEFINE h == (reader.hurried \/ late)
    <3>2. h \in BOOLEAN /\ reader' = [reader EXCEPT !.at = "asked", !.offset = offset, !.total = total,
                                                  !.hurried = h]
      BY <2>3, <3>1
    <3> HIDE DEF h
    <3>3. /\ HistoryType'
          /\ UNCHANGED <<reader.began, reader.read, reader.reach, reader.limit>>
          /\ reader'.offset = offset /\ reader'.hurried = h
      BY <1>4, <1>10, <2>2, <3>2 DEF HistoryType
    <3> QED
      BY <3>3 DEF h
  <2> QED
    BY <2>4 DEF late
<1>11. CASE NextPage
  <2> DEFINE forth == reader.offset + reader.limit
  <2>1. Buttons /\ TurnTo(forth) /\ forth \in Nat /\ forth > reader.offset
    BY <1>4, <1>11 DEF NextPage, HistoryType, Buttons
  <2>2. /\ HistoryType'
        /\ UNCHANGED <<reader.began, reader.read, reader.reach, reader.limit>>
        /\ reader'.offset = forth
        /\ reader'.hurried <=>
             reader.hurried \/ (/\ forth > reader.offset
                               /\ reader.offset + reader.limit > reader.reach)
    BY <1>10, <2>1
  <2>3. Steady' => Steady /\ reader'.offset <= reader.reach
    BY <1>4, <2>1, <2>2 DEF Steady
  <2> QED
    BY <1>6, <2>2, <2>3
<1>12. CASE PreviousPage
  <2> DEFINE back == Max({0, reader.offset - reader.limit})
  <2>2. \E x \in {0, reader.offset - reader.limit} : \A y \in {0, reader.offset - reader.limit} : x >= y
    BY <1>4
  <2>3. back \in {0, reader.offset - reader.limit} /\ back >= 0
    BY <2>2 DEF Max
  <2>1. Buttons /\ TurnTo(back)
    BY <1>12 DEF PreviousPage
  <2> HIDE DEF back
  <2>4. back \in Nat /\ back <= reader.offset
    BY <1>4, <2>3
  <2>5. /\ HistoryType'
        /\ UNCHANGED <<reader.began, reader.read, reader.reach, reader.limit>>
        /\ reader'.offset = back
        /\ reader'.hurried <=>
             reader.hurried \/ (/\ back > reader.offset
                               /\ reader.offset + reader.limit > reader.reach)
    BY <1>10, <2>1, <2>4
  <2>6. Steady' => Steady
    BY <1>4, <2>4, <2>5 DEF Steady
  <2>7. Steady' => reader'.offset <= reader.reach
    BY <1>4, <2>4, <2>5, <2>6 DEF HistoryInv
  <2> QED
    BY <1>6, <2>5, <2>6, <2>7
<1>13. CASE ListRows
  <2> DEFINE got == Page(rows, AnyDecision, reader.limit, reader.offset)
             ends == reader.offset + reader.limit
             reach == Max({reader.reach, ends})
  <2>1. reader.at = "counted" /\ reader.limit \in Nat \ {0}
    BY <1>4, <1>13 DEF ListRows, HistoryType
  <2>2. reader' = [reader EXCEPT !.at = "shown", !.total = reader.count, !.totals = @ \cup {reader.count},
                                 !.filled = got # {}, !.error = FALSE,
                                 !.read = @ \cup (got \cap reader.began), !.reach = reach]
    BY <1>13 DEF ListRows
  <2>3. ends \in Nat
    BY <1>4
  <2>4. reach \in {reader.reach, ends} /\ reach >= reader.reach /\ reach >= ends
    <3>1. \E x \in {reader.reach, ends} : \A y \in {reader.reach, ends} : x >= y
      BY <1>4, <2>3
    <3> QED
      BY <3>1 DEF Max
  <2>5. reader.limit <= MaxPage =>
          \A e \in rows : e \in got <=> Position(rows, e) > reader.offset /\ Position(rows, e) <= ends
    <3>1. SUFFICES ASSUME reader.limit <= MaxPage, NEW e \in rows
                   PROVE  e \in got <=> Position(rows, e) > reader.offset /\ Position(rows, e) <= ends
      OBVIOUS
    <3>2. reader.limit \in 1..MaxPage
      BY <1>1, <2>1, <3>1
    <3>3. Matching(rows, AnyDecision) = rows
      BY MatchingAll
    <3>4. LET n == Position(Matching(rows, AnyDecision), e)
          IN e \in got <=> n > reader.offset /\ n <= reader.offset + reader.limit
      BY <1>2, <1>4, <3>1, <3>2, <3>3, PagePositions
    <3> QED
      BY <3>3, <3>4
  <2> DEFINE filled == got # {}
  <2>6. filled \in BOOLEAN /\ (got # {} <=> filled)
    OBVIOUS
  <2> HIDE DEF got, ends, reach, filled
  <2>7. reader' = [reader EXCEPT !.at = "shown", !.total = reader.count, !.totals = @ \cup {reader.count},
                                 !.filled = filled, !.error = FALSE,
                                 !.read = @ \cup (got \cap reader.began), !.reach = reach]
    BY <2>2 DEF filled
  <2>8. /\ HistoryType' /\ (Steady' <=> Steady)
        /\ UNCHANGED <<reader.began, reader.offset>>
        /\ reader'.read = reader.read \cup (got \cap reader.began) /\ reader'.reach = reach
    BY <1>4, <2>1, <2>3, <2>4, <2>6, <2>7 DEF HistoryType, Steady
  <2>9. Steady => reader.offset <= reach
    BY <1>4, <2>3, <2>4 DEF HistoryInv
  <2>10. ASSUME Steady, NEW e \in Unread'
         PROVE  Position(rows, e) > reach
    <3>1. e \in Unread /\ e \in rows /\ e \notin got
      BY <1>0, <2>8, <2>10 DEF Unread
    <3>2. Position(rows, e) > reader.reach /\ reader.offset <= reader.reach
      BY <2>10, <3>1 DEF HistoryInv
    <3>3. Position(rows, e) \in Nat
      BY <1>3, <3>1
    <3>4. Position(rows, e) > ends
      BY <1>4, <2>3, <2>5, <2>10, <3>1, <3>2, <3>3 DEF Steady
    <3> QED
      BY <2>4, <3>2, <3>4
  <2> QED
    BY <1>0, <2>8, <2>9, <2>10 DEF HistoryInv, IdsOf
<1> QED
  BY <1>5, <1>7, <1>8, <1>9, <1>11, <1>12, <1>13 DEF HistoryNext

-----------------------------------------------------------------------------
(* The polls of the extension *)

(* The id of the newest of these events. *)
TopOf(events) == IdsOf({e \in events : Position(events, e) = 1})

Top(p) == TopOf(poll[p].events)

Reading == {p \in Polls : poll[p].at = "read"}

Covered(e) == Position(rows, e) > 1

PollRecord ==
  [at : {"idle", "asked", "read"}, events : SUBSET Event, before : SUBSET Polls, late : BOOLEAN]

PollType ==
  /\ poll \in [Polls -> PollRecord]
  /\ \A p \in Polls : IsFiniteSet(poll[p].events) /\ poll[p].before \subseteq Reading

PollsSettled ==
  /\ popped \subseteq Settled
  /\ \A p \in Reading : Top(p) \subseteq Settled

(* All the user was warned of, but the last, has another row above it. *)
WarnedCovered == \A e \in rows : e.id \in popped \ lastBlock => Covered(e)

(* A page that is not overtaken has seen what the user was warned of: what *)
(* is not its newest had a row above it, and what is was the last.         *)
PagesFollowWarnings ==
  \A p \in Reading : ~poll[p].late =>
    /\ \A e \in rows : e.id \in popped \ Top(p) => Covered(e)
    /\ Top(p) \cap popped \subseteq lastBlock

(* p was read after q: what was the newest then, or was warned of before,  *)
(* is the newest still, or does not become it again.                       *)
PagesInTurn ==
  \A q, p \in Reading : p # q /\ p \notin poll[q].before =>
    /\ \A e \in rows : e.id \in Top(q) \ Top(p) => Covered(e)
    /\ ~poll[q].late => Top(p) \cap popped \subseteq Top(q)

(* What is the newest of two pages is the newest of those in between. *)
NewestStays ==
  \A r, q, p \in Reading :
    r # q /\ q # p /\ r # p /\ q \notin poll[r].before /\ p \notin poll[q].before =>
      Top(r) \cap Top(p) \subseteq Top(q)

InOrder == ~again /\ WarnedCovered /\ PagesFollowWarnings /\ PagesInTurn /\ NewestStays

ExtensionInv == PollType /\ PollsSettled /\ (~overtaken => InOrder)

LEMMA ExtensionInitKept == ExtensionInit => ExtensionInv
<1> SUFFICES ASSUME ExtensionInit
             PROVE  ExtensionInv
  OBVIOUS
<1>1. Idle \in PollRecord
      /\ Idle.events = {} /\ Idle.before = {} /\ Idle.at = "idle"
  BY DEF Idle, PollRecord
<1>2. \A p \in Polls : poll[p] = Idle
  BY DEF ExtensionInit
<1>3. Reading = {}
  BY <1>1, <1>2 DEF Reading
<1>4. PollType
  BY <1>1, <1>2, FS_EmptySet DEF ExtensionInit, PollType, PollRecord
<1> QED
  BY <1>3, <1>4 DEF ExtensionInit, ExtensionInv, PollsSettled, InOrder, WarnedCovered,
                    PagesFollowWarnings, PagesInTurn, NewestStays

LEMMA TopOne ==
  ASSUME NEW events \in SUBSET Event, IsFiniteSet(events),
         NEW x \in TopOf(events), NEW y \in TopOf(events)
  PROVE  x = y
  BY NewestIsOne DEF TopOf, IdsOf

(* The newest event of a page is the newest of the table. *)
LEMMA TopOfPage ==
  ASSUME NEW table \in SUBSET Event, IsFiniteSet(table), NEW e \in table,
         NEW limit \in 1..MaxPage
  PROVE  LET events == Page(table, AnyDecision, limit, 0)
         IN /\ Position(table, e) = 1 => e \in events /\ Position(events, e) = 1
            /\ e \in events /\ Position(events, e) = 1 => Position(table, e) = 1
<1> DEFINE events == Page(table, AnyDecision, limit, 0)
<1>1. limit \in Nat \ {0}
  BY StoreAssumption
<1>2. events \in SUBSET table
  BY PageSubset
<1>3. \A f \in table : f \in events <=> Position(table, f) > 0 /\ Position(table, f) <= 0 + limit
  BY PagePositions, MatchingAll
<1> HIDE DEF events
<1>4. IsFiniteSet(events) /\ events \in SUBSET Event
  BY <1>2, FS_Subset
<1>5. Above(events, e) \subseteq Above(table, e)
  BY <1>2 DEF Above
<1>6. (Above(table, e) = {} <=> Position(table, e) = 1) /\ (Above(events, e) = {} <=> Position(events, e) = 1)
  BY <1>4, PositionIsCount, FS_EmptySet
<1>7. Position(table, e) = 1 => e \in events /\ Position(events, e) = 1
  BY <1>1, <1>3, <1>5, <1>6
<1>8. ASSUME e \in events, Above(events, e) = {}
      PROVE  Above(table, e) = {}
  <2> SUFFICES ASSUME NEW f \in Above(table, e)
               PROVE  FALSE
    OBVIOUS
  <2>1. f \in table /\ Newer(f, e)
    BY DEF Above
  <2>2. Position(table, f) < Position(table, e)
    BY <2>1, NewerComesFirst
  <2>3. Position(table, f) \in Nat \ {0} /\ Position(table, e) \in Nat
    BY PositionIsCount
  <2>4. f \in events
    BY <1>1, <1>3, <1>8, <2>1, <2>2, <2>3
  <2> QED
    BY <1>8, <2>1, <2>4 DEF Above
<1> QED
  BY <1>6, <1>7, <1>8 DEF events

LEMMA TableKeepsExtension ==
  ASSUME StoreInv, [StoreNext]_storeVars, ExtensionInv, UNCHANGED extensionVars
  PROVE  ExtensionInv'
<1>1. StoreInv' /\ Settled \subseteq Settled'
  BY StoreKeeps
<1>2. UNCHANGED <<poll, lastBlock, popped, again, overtaken, Reading>>
      /\ \A p : Top(p)' = Top(p)
  BY DEF extensionVars, Reading, Top
<1>3. PollType' /\ PollsSettled'
  BY <1>1, <1>2 DEF ExtensionInv, PollType, PollRecord, PollsSettled
<1>4. ASSUME NEW e \in rows', e.id \in Settled
      PROVE  e \in rows /\ (Covered(e) => Covered(e)')
  <2>1. e \in rows
    BY <1>4, NewRowsUnsettled
  <2>2. Position(rows, e) <= Position(rows', e)
    BY <2>1, RowsSink, MatchingAll
  <2>3. Position(rows, e) \in Nat /\ Position(rows', e) \in Nat
    BY <1>1, PositionIsCount DEF StoreInv
  <2> QED
    BY <2>1, <2>2, <2>3 DEF Covered
<1>5. ASSUME InOrder
      PROVE  InOrder'
  <2>1. WarnedCovered' /\ ~again'
    BY <1>2, <1>4, <1>5 DEF InOrder, WarnedCovered, ExtensionInv, PollsSettled
  <2>2. PagesFollowWarnings'
    BY <1>2, <1>4, <1>5 DEF InOrder, PagesFollowWarnings, ExtensionInv, PollsSettled
  <2>3. PagesInTurn'
    BY <1>2, <1>4, <1>5 DEF InOrder, PagesInTurn, ExtensionInv, PollsSettled
  <2>4. NewestStays'
    BY <1>2, <1>5 DEF InOrder, NewestStays
  <2> QED
    BY <2>1, <2>2, <2>3, <2>4 DEF InOrder
<1> QED
  BY <1>2, <1>3, <1>5 DEF ExtensionInv

(* A poll that begins or ends leaves the order of the others. *)
LEMMA FewerPolls ==
  ASSUME ExtensionInv, InOrder, UNCHANGED <<rows, popped, lastBlock, again>>,
         Reading' \subseteq Reading,
         \A q \in Reading' : Top(q)' = Top(q) /\ (poll[q].late => poll'[q].late),
         \A q, p \in Reading' : p \in poll[q].before => p \in poll'[q].before
  PROVE  InOrder'
<1>0. \A e : Covered(e)' = Covered(e)
  BY DEF Covered
<1>1. WarnedCovered' /\ ~again'
  BY <1>0 DEF InOrder, WarnedCovered
<1>2. PagesFollowWarnings'
  BY <1>0 DEF InOrder, PagesFollowWarnings
<1>3. PagesInTurn'
  BY <1>0 DEF InOrder, PagesInTurn
<1>4. NewestStays'
  BY DEF InOrder, NewestStays
<1> QED
  BY <1>1, <1>2, <1>3, <1>4 DEF InOrder

LEMMA DoneLeaves ==
  ASSUME PollType, NEW p \in Polls, NEW late, Done(p, late)
  PROVE  /\ PollType'
         /\ Reading' = Reading \ {p}
         /\ \A q \in Reading' :
              /\ Top(q)' = Top(q)
              /\ poll'[q].late = (poll[q].late \/ q \in late)
              /\ poll'[q].before = poll[q].before \ {p}
<1>1. Idle \in PollRecord
      /\ Idle.events = {} /\ Idle.before = {} /\ Idle.at = "idle"
  BY DEF Idle, PollRecord
<1>2. poll' = [q \in Polls |-> IF q = p THEN Idle
                               ELSE [poll[q] EXCEPT !.before = @ \ {p}, !.late = @ \/ q \in late]]
  BY DEF Done
<1>3. ASSUME NEW q \in Polls, q # p
      PROVE  /\ poll'[q] \in PollRecord
             /\ poll'[q].at = poll[q].at /\ poll'[q].events = poll[q].events
             /\ poll'[q].late = (poll[q].late \/ q \in late)
             /\ poll'[q].before = poll[q].before \ {p}
  <2> DEFINE rest == poll[q].before \ {p}
             old_q == poll[q]
             is == poll[q].late \/ q \in late
  <2>1. poll'[q] = [old_q EXCEPT !.before = rest, !.late = is]
    BY <1>2, <1>3
  <2>2. old_q \in PollRecord
    BY DEF PollType, PollRecord
  <2>3. rest \in SUBSET Polls /\ is \in BOOLEAN
    BY <2>2 DEF PollRecord
  <2> HIDE DEF rest, is, old_q
  <2>4. poll'[q] \in PollRecord
        /\ poll'[q].at = old_q.at /\ poll'[q].events = old_q.events /\ poll'[q].late = is /\ poll'[q].before = rest
    BY <2>1, <2>2, <2>3 DEF PollRecord
  <2> QED
    BY <2>4 DEF rest, is, old_q
<1>4. poll'[p] = Idle
  BY <1>2
<1>5. Reading' = Reading \ {p}
  BY <1>1, <1>3, <1>4 DEF Reading
<1>6. poll' \in [Polls -> PollRecord]
  <2>1. \A q \in Polls : poll'[q] \in PollRecord
    BY <1>1, <1>3, <1>4
  <2> QED
    BY <1>2, <2>1
<1>7. ASSUME NEW q \in Polls
      PROVE  IsFiniteSet(poll'[q].events) /\ poll'[q].before \subseteq Reading'
  <2>1. IsFiniteSet(poll[q].events) /\ poll[q].before \subseteq Reading
    BY DEF PollType, PollRecord
  <2>2. CASE q = p
    BY <1>1, <1>4, <2>2, FS_EmptySet
  <2>3. CASE q # p
    <3>1. poll'[q].events = poll[q].events /\ poll'[q].before = poll[q].before \ {p}
      BY <1>3, <2>3
    <3> QED
      BY <1>5, <2>1, <3>1
  <2> QED
    BY <2>2, <2>3
<1>8. \A q \in Reading' : q \in Polls /\ q # p
  BY <1>5 DEF Reading
<1>9. \A q \in Reading' : Top(q)' = Top(q)
  BY <1>3, <1>8 DEF Top
<1> QED
  BY <1>3, <1>5, <1>6, <1>7, <1>8, <1>9 DEF PollType, PollRecord

LEMMA ShowKeeps ==
  ASSUME StoreInv, ExtensionInv, NEW p \in Polls, Show(p), UNCHANGED storeVars
  PROVE  ExtensionInv'
<1> DEFINE new == IdsOf(ToWarnOf(p))
<1>1. /\ p \in Reading
      /\ lastBlock' = IF new = {} THEN lastBlock ELSE new
      /\ popped' = popped \cup new
      /\ again' = (again \/ new \cap popped # {})
      /\ overtaken' = (overtaken \/ poll[p].late)
      /\ Done(p, poll[p].before)
  BY DEF Show, Reading
<1>2. new \subseteq Top(p) /\ new \cap lastBlock = {}
  BY DEF ToWarnOf, IdsOf, Top, TopOf
<1>3. \A x \in new, y \in Top(p) : x = y
  BY <1>2, TopOne DEF Top, ExtensionInv, PollType, PollRecord
<1> HIDE DEF new
<1>4. UNCHANGED <<rows, Settled>> /\ \A e : Covered(e)' = Covered(e)
  BY DEF storeVars, Settled, Covered
<1>5. /\ PollType'
      /\ Reading' = Reading \ {p}
      /\ \A q \in Reading' :
           /\ Top(q)' = Top(q)
           /\ poll'[q].late = (poll[q].late \/ q \in poll[p].before)
           /\ poll'[q].before = poll[q].before \ {p}
  BY <1>1, DoneLeaves DEF ExtensionInv
<1>6. PollsSettled'
  BY <1>1, <1>2, <1>4, <1>5 DEF ExtensionInv, PollsSettled
<1>7. ASSUME ~overtaken'
      PROVE  InOrder'
  <2>1. InOrder /\ ~poll[p].late
    BY <1>1, <1>7 DEF ExtensionInv
  <2>2. /\ \A e \in rows : e.id \in popped \ Top(p) => Covered(e)
        /\ Top(p) \cap popped \subseteq lastBlock
    BY <1>1, <2>1 DEF InOrder, PagesFollowWarnings
  <2>3. new \cap popped = {}
    BY <1>2, <2>2
  <2>4. ~again'
    BY <1>1, <2>1, <2>3 DEF InOrder
  <2>5. WarnedCovered'
    <3>1. ASSUME NEW e \in rows, e.id \in popped' \ lastBlock'
          PROVE  Covered(e)
      <4>1. CASE new = {}
        BY <1>1, <2>1, <3>1, <4>1 DEF InOrder, WarnedCovered
      <4>2. CASE new # {}
        <5>1. e.id \in popped /\ e.id \notin new
          BY <1>1, <3>1, <4>2
        <5>2. e.id \notin Top(p)
          BY <1>3, <4>2, <5>1
        <5> QED
          BY <2>2, <5>1, <5>2
      <4> QED
        BY <4>1, <4>2
    <3> QED
      BY <1>4, <3>1 DEF WarnedCovered
  <2>6. ASSUME NEW q \in Reading', ~poll'[q].late
        PROVE  /\ q \in Reading /\ q # p /\ q \notin poll[p].before /\ ~poll[q].late
               /\ \A e \in rows : e.id \in Top(p) \ Top(q) => Covered(e)
               /\ Top(q) \cap popped \subseteq Top(p)
    <3>1. q \in Reading /\ q # p /\ q \notin poll[p].before /\ ~poll[q].late
      BY <1>5, <2>6
    <3> QED
      BY <1>1, <2>1, <3>1 DEF InOrder, PagesInTurn
  <2>7. PagesFollowWarnings'
    <3> SUFFICES ASSUME NEW q \in Reading', ~poll'[q].late
                 PROVE  /\ \A e \in rows : e.id \in popped' \ Top(q) => Covered(e)
                        /\ Top(q) \cap popped' \subseteq lastBlock'
      BY <1>4, <1>5 DEF PagesFollowWarnings
    <3>1. /\ \A e \in rows : e.id \in popped \ Top(q) => Covered(e)
          /\ Top(q) \cap popped \subseteq lastBlock
      BY <2>1, <2>6 DEF InOrder, PagesFollowWarnings
    <3>2. \A e \in rows : e.id \in new \ Top(q) => Covered(e)
      BY <1>2, <2>6
    <3>3. Top(q) \cap popped' \subseteq lastBlock'
      BY <1>1, <1>3, <2>6, <3>1
    <3> QED
      BY <1>1, <3>1, <3>2, <3>3
  <2>8. PagesInTurn'
    <3> SUFFICES ASSUME NEW q \in Reading', NEW r \in Reading', r # q, r \notin poll'[q].before
                 PROVE  /\ \A e \in rows : e.id \in Top(q) \ Top(r) => Covered(e)
                        /\ ~poll'[q].late => Top(r) \cap popped' \subseteq Top(q)
      BY <1>4, <1>5 DEF PagesInTurn
    <3>1. r \in Reading /\ q \in Reading /\ r # p /\ q # p /\ r \notin poll[q].before
      BY <1>5
    <3>2. /\ \A e \in rows : e.id \in Top(q) \ Top(r) => Covered(e)
          /\ ~poll[q].late => Top(r) \cap popped \subseteq Top(q)
      BY <2>1, <3>1 DEF InOrder, PagesInTurn
    <3>3. ASSUME ~poll'[q].late
          PROVE  Top(r) \cap popped' \subseteq Top(q)
      <4>1. Top(p) \cap Top(r) \subseteq Top(q)
        BY <1>1, <2>1, <2>6, <3>1, <3>3 DEF InOrder, NewestStays
      <4> QED
        BY <1>1, <1>2, <2>6, <3>2, <3>3, <4>1
    <3> QED
      BY <3>2, <3>3
  <2>9. NewestStays'
    <3> SUFFICES ASSUME NEW r \in Reading', NEW q \in Reading', NEW t \in Reading',
                        r # q, q # t, r # t, q \notin poll'[r].before, t \notin poll'[q].before
                 PROVE  Top(r) \cap Top(t) \subseteq Top(q)
      BY <1>5 DEF NewestStays
    <3>1. r \in Reading /\ q \in Reading /\ t \in Reading /\ q \notin poll[r].before /\ t \notin poll[q].before
      BY <1>5
    <3> QED
      BY <2>1, <3>1 DEF InOrder, NewestStays
  <2> QED
    BY <2>4, <2>5, <2>7, <2>8, <2>9 DEF InOrder
<1> QED
  BY <1>5, <1>6, <1>7 DEF ExtensionInv

LEMMA ReadKeeps ==
  ASSUME StoreInv, ExtensionInv, NEW p \in Polls, ReadEvents(p), UNCHANGED storeVars
  PROVE  ExtensionInv'
<1> DEFINE got == Page(rows, AnyDecision, LogLimit, 0)
<1>1. /\ poll[p].at = "asked"
      /\ poll' = [poll EXCEPT ![p] = [at |-> "read", events |-> got, before |-> Reading, late |-> FALSE]]
      /\ UNCHANGED <<lastBlock, popped, again, overtaken>>
  BY DEF ReadEvents, Reading
<1>2. got \in SUBSET rows /\ rows \in SUBSET Event /\ IsFiniteSet(rows)
  BY PageSubset DEF StoreInv
<1>3. \A e \in rows : /\ Position(rows, e) = 1 => e \in got /\ Position(got, e) = 1
                      /\ e \in got /\ Position(got, e) = 1 => Position(rows, e) = 1
  BY <1>2, TopOfPage, ExtensionAssumption
<1> HIDE DEF got
<1>4. UNCHANGED <<rows, Settled>> /\ \A e : Covered(e)' = Covered(e)
  BY DEF storeVars, Settled, Covered
<1>5. \A e \in rows : Position(rows, e) \in Nat \ {0}
  BY <1>2, PositionIsCount
<1>6. Reading \subseteq Polls /\ p \notin Reading
  BY <1>1 DEF Reading
<1>7. poll'[p] = [at |-> "read", events |-> got, before |-> Reading, late |-> FALSE]
      /\ \A q \in Polls \ {p} : poll'[q] = poll[q]
  BY <1>1 DEF ExtensionInv, PollType, PollRecord
<1>8. Reading' = Reading \cup {p}
  BY <1>7 DEF Reading
<1>9. \A q \in Reading : Top(q)' = Top(q) /\ poll'[q] = poll[q] /\ p \notin poll[q].before
  BY <1>6, <1>7 DEF Top, ExtensionInv, PollType, PollRecord
<1>10. Top(p)' = TopOf(got)
  BY <1>7 DEF Top
<1>11. \A e \in rows : e.id \notin TopOf(got) => Covered(e)
  BY <1>3, <1>5 DEF TopOf, IdsOf, Covered
<1>12. \A x \in TopOf(got) : \E e \in rows : e.id = x /\ ~Covered(e)
  BY <1>2, <1>3 DEF TopOf, IdsOf, Covered
<1>13. PollType'
  <2>1. IsFiniteSet(got)
    BY <1>2, FS_Subset
  <2>2. poll' \in [Polls -> PollRecord]
    BY <1>1, <1>2, <1>6 DEF ExtensionInv, PollType, PollRecord
  <2>3. \A q \in Polls : IsFiniteSet(poll'[q].events) /\ poll'[q].before \subseteq Reading'
    BY <1>7, <1>8, <2>1 DEF ExtensionInv, PollType, PollRecord
  <2> QED
    BY <2>2, <2>3 DEF PollType, PollRecord
<1>14. PollsSettled'
  <2>1. TopOf(got) \subseteq Settled
    BY <1>12 DEF StoreInv, IdsOf
  <2> QED
    BY <1>1, <1>4, <1>8, <1>9, <1>10, <2>1 DEF ExtensionInv, PollsSettled
<1>15. ASSUME InOrder
       PROVE  InOrder'
  <2>1. WarnedCovered' /\ ~again'
    BY <1>1, <1>4, <1>15 DEF InOrder, WarnedCovered
  <2>2. PagesFollowWarnings'
    <3>1. TopOf(got) \cap popped \subseteq lastBlock
      BY <1>12, <1>15 DEF InOrder, WarnedCovered
    <3> QED
      BY <1>1, <1>4, <1>8, <1>9, <1>10, <1>11, <1>15, <3>1 DEF InOrder, PagesFollowWarnings
  <2>3. PagesInTurn'
    <3> SUFFICES ASSUME NEW q \in Reading', NEW r \in Reading', r # q, r \notin poll'[q].before
                 PROVE  /\ \A e \in rows : e.id \in Top(q)' \ Top(r)' => Covered(e)
                        /\ ~poll'[q].late => Top(r)' \cap popped \subseteq Top(q)'
      BY <1>1, <1>4 DEF PagesInTurn
    <3>1. q \in Reading
      BY <1>7, <1>8
    <3>2. CASE r = p
      <4>1. ASSUME ~poll[q].late
            PROVE  TopOf(got) \cap popped \subseteq Top(q)
        BY <1>12, <1>15, <3>1, <4>1 DEF InOrder, PagesFollowWarnings
      <4> QED
        BY <1>9, <1>10, <1>11, <3>1, <3>2, <4>1
    <3>3. CASE r # p
      BY <1>8, <1>9, <1>15, <3>1, <3>3 DEF InOrder, PagesInTurn
    <3> QED
      BY <3>2, <3>3
  <2>4. NewestStays'
    <3> SUFFICES ASSUME NEW r \in Reading', NEW q \in Reading', NEW t \in Reading',
                        r # q, q # t, r # t, q \notin poll'[r].before, t \notin poll'[q].before
                 PROVE  Top(r)' \cap Top(t)' \subseteq Top(q)'
      BY DEF NewestStays
    <3>1. r \in Reading /\ q \in Reading
      BY <1>7, <1>8
    <3>2. CASE t = p
      BY <1>9, <1>10, <1>12, <1>15, <3>1, <3>2 DEF InOrder, PagesInTurn
    <3>3. CASE t # p
      BY <1>8, <1>9, <1>15, <3>1, <3>3 DEF InOrder, NewestStays
    <3> QED
      BY <3>2, <3>3
  <2> QED
    BY <2>1, <2>2, <2>3, <2>4 DEF InOrder
<1> QED
  BY <1>1, <1>13, <1>14, <1>15 DEF ExtensionInv

LEMMA ExtensionKeeps ==
  ASSUME StoreInv, ExtensionInv, ExtensionNext, UNCHANGED storeVars
  PROVE  ExtensionInv'
<1>1. UNCHANGED <<rows, Settled>>
  BY DEF storeVars, Settled
<1>2. ASSUME NEW p \in Polls, BeginPoll(p)
      PROVE  ExtensionInv'
  <2>1. /\ poll[p].at = "idle" /\ poll' = [poll EXCEPT ![p].at = "asked"]
        /\ UNCHANGED <<lastBlock, popped, again, overtaken>>
    BY <1>2 DEF BeginPoll
  <2>2. \A q \in Polls : /\ poll'[q].events = poll[q].events /\ poll'[q].before = poll[q].before
                         /\ poll'[q].late = poll[q].late
                         /\ poll'[q].at = IF q = p THEN "asked" ELSE poll[q].at
    BY <2>1 DEF ExtensionInv, PollType, PollRecord
  <2>3. Reading' = Reading /\ \A q \in Polls : Top(q)' = Top(q)
    BY <2>1, <2>2 DEF Reading, Top
  <2>4. PollType'
    BY <2>1, <2>2, <2>3 DEF ExtensionInv, PollType, PollRecord
  <2>5. PollsSettled'
    BY <1>1, <2>1, <2>3 DEF ExtensionInv, PollsSettled, Reading
  <2>6. InOrder => InOrder'
    BY <1>1, <2>1, <2>2, <2>3, FewerPolls DEF Reading
  <2> QED
    BY <2>1, <2>4, <2>5, <2>6 DEF ExtensionInv
<1>3. ASSUME NEW p \in Polls, PollFails(p) \/ ShowError(p)
      PROVE  ExtensionInv'
  <2>1. Done(p, {}) /\ UNCHANGED <<lastBlock, popped, again, overtaken>>
    BY <1>3 DEF PollFails, ShowError
  <2>2. /\ PollType'
        /\ Reading' = Reading \ {p}
        /\ \A q \in Reading' :
             /\ Top(q)' = Top(q)
             /\ poll'[q].late = (poll[q].late \/ q \in {})
             /\ poll'[q].before = poll[q].before \ {p}
    BY <2>1, DoneLeaves DEF ExtensionInv
  <2>3. PollsSettled'
    BY <1>1, <2>1, <2>2 DEF ExtensionInv, PollsSettled
  <2>4. InOrder => InOrder'
    BY <1>1, <2>1, <2>2, FewerPolls
  <2> QED
    BY <2>1, <2>2, <2>3, <2>4 DEF ExtensionInv
<1> QED
  BY <1>2, <1>3, ReadKeeps, ShowKeeps DEF ExtensionNext

-----------------------------------------------------------------------------
(* The commands of the extension *)

Phases == Running \cup {"new", "failed", "exited", "gone"}

LauncherType ==
  /\ handle \subseteq Scripts
  /\ script \in [Scripts -> Phases]
  /\ sidecar \in [Scripts -> {"none", "loading", "ready"}]
  /\ web \subseteq Scripts /\ proxy \subseteq Scripts

(* A script that does not run has left nothing behind: each of its parts   *)
(* belongs to certain phases, and the last phase ends what is left.        *)
NothingLeft ==
  \A s \in Scripts :
    /\ sidecar[s] # "none" => script[s] \in Running
    /\ s \in web => script[s] \in {"run", "serving", "finally"}
    /\ s \in proxy => script[s] = "serving"

LauncherInv == LauncherType /\ NothingLeft /\ NothingAbandoned

(* A script that does not run needs nobody who could stop it. *)
LEMMA AliveRuns ==
  ASSUME NothingLeft, NEW s \in Scripts
  PROVE  Alive(s) => script[s] \in Running
  BY DEF NothingLeft, Alive, Running

LEMMA LauncherInitKept == LauncherInit => LauncherInv
  BY DEF LauncherInit, LauncherInv, LauncherType, Phases, NothingLeft, NothingAbandoned, Alive, Running

(* Starting, stopping, reloading, and what taskkill makes of it. *)
LEMMA CommandKeeps ==
  ASSUME LauncherInv,
         \/ StopCommand \/ Deactivate \/ Activate
         \/ \E s \in Scripts : StartProxy(s) \/ Exit(s) \/ KillTree(s) \/ KillFails(s)
  PROVE  LauncherInv'
<1> USE DEF LauncherInv, LauncherType, NothingLeft, NothingAbandoned, Alive, Phases, Running, To
<1>1. CASE StopCommand
  BY <1>1 DEF StopCommand, StopProxy
<1>2. CASE Deactivate
  BY <1>2 DEF Deactivate, StopProxy
<1>3. CASE Activate
  BY <1>3 DEF Activate
<1>4. ASSUME NEW s \in Scripts, StartProxy(s)
      PROVE  LauncherInv'
  BY <1>4 DEF StartProxy
<1>5. ASSUME NEW s \in Scripts, Exit(s)
      PROVE  LauncherInv'
  BY <1>5 DEF Exit
<1>6. ASSUME NEW s \in Scripts, KillTree(s)
      PROVE  LauncherInv'
  BY <1>6 DEF KillTree
<1>7. ASSUME NEW s \in Scripts, KillFails(s)
      PROVE  LauncherInv'
  BY <1>7 DEF KillFails
<1> QED
  BY <1>1, <1>2, <1>3, <1>4, <1>5, <1>6, <1>7

(* What the script and the processes it started do. *)
LEMMA ScriptKeeps ==
  ASSUME LauncherInv, NEW s \in Scripts, ScriptNext(s)
  PROVE  LauncherInv'
<1> USE DEF LauncherInv, LauncherType, NothingLeft, NothingAbandoned, Alive, Phases, Running, To, extensionState
<1>1. CASE ReuseSidecar(s)
  BY <1>1 DEF ReuseSidecar
<1>2. CASE StartSidecar(s)
  BY <1>2 DEF StartSidecar
<1>3. CASE NoSidecar(s)
  BY <1>3 DEF NoSidecar
<1>4. CASE GiveUp(s)
  BY <1>4 DEF GiveUp
<1>5. CASE StartWeb(s)
  BY <1>5 DEF StartWeb
<1>6. CASE RunProxy(s)
  BY <1>6 DEF RunProxy
<1>7. CASE ProxyEnds(s)
  BY <1>7 DEF ProxyEnds
<1>8. CASE Finally(s)
  BY <1>8 DEF Finally
<1>9. CASE SidecarLoads(s)
  BY <1>9 DEF SidecarLoads
<1>10. CASE SidecarDies(s)
  BY <1>10 DEF SidecarDies
<1>11. CASE WebDies(s)
  BY <1>11 DEF WebDies
<1> QED
  BY <1>1, <1>2, <1>3, <1>4, <1>5, <1>6, <1>7, <1>8, <1>9, <1>10, <1>11 DEF ScriptNext

LEMMA LauncherKeeps ==
  ASSUME LauncherInv, [LauncherNext]_launcherVars
  PROVE  LauncherInv'
<1>1. CASE UNCHANGED launcherVars
  BY <1>1 DEF launcherVars, LauncherInv, LauncherType, NothingLeft, NothingAbandoned, Alive
<1> QED
  BY <1>1, CommandKeeps, ScriptKeeps DEF LauncherNext

-----------------------------------------------------------------------------
(* The statistics: a series counts what its buckets hold *)

(* Induction, with the property given as a set. *)
LEMMA Induction ==
  ASSUME NEW p, 0 \in p, \A n \in Nat : n \in p => n + 1 \in p
  PROVE  \A n \in Nat : n \in p
<1> SUFFICES ASSUME Nat \ p # {}
             PROVE  FALSE
  OBVIOUS
<1>1. IsWellFoundedOn(OpToRel(<, Nat), Nat)
  BY NatLessThanWellFounded
<1>2. PICK n \in Nat \ p : \A m \in Nat \ p : ~(<<m, n>> \in OpToRel(<, Nat))
  BY <1>1, WFMin
<1>3. \A m \in Nat \ p : ~(m < n)
  BY <1>2 DEF OpToRel
<1>4. n # 0 /\ n - 1 \in Nat /\ n - 1 < n
  OBVIOUS
<1>5. n - 1 \in p
  BY <1>3, <1>4
<1> QED
  BY <1>4, <1>5

(* A whole is as many as its parts together: FoldSet adds them up.         *)
Within(E, b, s) == {e \in E : b[e] \in s}

LEMMA OneMorePart ==
  ASSUME NEW E, IsFiniteSet(E), NEW b, NEW s, NEW x \in s
  PROVE  /\ Cardinality(Within(E, b, s)) = Cardinality(Within(E, b, s \ {x})) + Cardinality(Within(E, b, {x}))
         /\ Cardinality(Within(E, b, s)) \in Nat
<1>1. \A t : Within(E, b, t) \in SUBSET E /\ IsFiniteSet(Within(E, b, t))
  BY FS_Subset DEF Within
<1>2. Within(E, b, s) = Within(E, b, s \ {x}) \cup Within(E, b, {x})
  BY DEF Within
<1>3. Within(E, b, s \ {x}) \cap Within(E, b, {x}) = {}
  BY DEF Within
<1>4. \A t : Cardinality(Within(E, b, t)) \in Nat
  BY <1>1, FS_CardinalityType
<1>5. Cardinality(Within(E, b, s)) = Cardinality(Within(E, b, s \ {x})) + Cardinality(Within(E, b, {x})) - Cardinality({})
  BY <1>1, <1>2, <1>3, FS_Union
<1>6. Cardinality({}) = 0
  BY FS_EmptySet
<1> QED
  BY <1>4, <1>5, <1>6

Summed(g, S, series, field) ==
  g = [s \in SUBSET S |-> IF s = {} THEN 0
                          ELSE g[s \ {CHOOSE x \in s : TRUE}] + series[CHOOSE x \in s : TRUE][field]]

LEMMA FoldIsUnique ==
  ASSUME NEW S, IsFiniteSet(S), NEW series, NEW field, NEW g, NEW h, Summed(g, S, series, field), Summed(h, S, series, field)
  PROVE  g[S] = h[S]
<1> DEFINE p == {m \in Nat : \A s \in SUBSET S : Cardinality(s) = m => g[s] = h[s]}
           Any(s) == CHOOSE x \in s : TRUE
<1>1. \A s \in SUBSET S : /\ IsFiniteSet(s) /\ Cardinality(s) \in Nat
                          /\ Cardinality(s) = 0 <=> s = {}
  BY FS_Subset, FS_CardinalityType, FS_EmptySet
<1>2. \A s \in SUBSET S : /\ s = {} => g[s] = 0 /\ h[s] = 0
                          /\ s # {} => g[s] = g[s \ {Any(s)}] + series[Any(s)][field] /\ h[s] = h[s \ {Any(s)}] + series[Any(s)][field]
  BY Zenon DEF Summed
<1>3. \A s \in SUBSET S : s # {} => Any(s) \in s
  OBVIOUS
<1> HIDE DEF Any
<1>4. 0 \in p
  BY <1>1, <1>2
<1>5. ASSUME NEW m \in Nat, m \in p
      PROVE  m + 1 \in p
  <2> SUFFICES ASSUME NEW s \in SUBSET S, Cardinality(s) = m + 1
               PROVE  g[s] = h[s]
    OBVIOUS
  <2>1. s # {} /\ Any(s) \in s /\ IsFiniteSet(s)
    BY <1>1, <1>3
  <2>2. Cardinality(s \ {Any(s)}) = Cardinality(s) - 1
    BY <2>1, FS_RemoveElement
  <2>3. s \ {Any(s)} \in SUBSET S /\ Cardinality(s \ {Any(s)}) = m
    BY <2>2
  <2>4. g[s \ {Any(s)}] = h[s \ {Any(s)}]
    BY <1>5, <2>3
  <2> QED
    BY <1>2, <2>1, <2>4
<1>6. \A m \in Nat : m \in p
  <2> HIDE DEF p
  <2> QED
    BY <1>4, <1>5, Induction
<1> QED
  BY <1>1, <1>6

(* The field of each bucket is the number of events b puts into it. *)
Counted(series, field, E, b) ==
  \A k \in DOMAIN series : series[k][field] = Cardinality({e \in E : b[e] = k})

LEMMA PartsAddUp ==
  ASSUME NEW E, IsFiniteSet(E), NEW series, IsFiniteSet(DOMAIN series), NEW field,
         NEW b, Counted(series, field, E, b)
  PROVE  /\ SeriesTotal(series, field) <= Cardinality(E)
         /\ (\A e \in E : b[e] \in DOMAIN series) => SeriesTotal(series, field) = Cardinality(E)
<1> DEFINE S == DOMAIN series
<1>0. \A k \in S : series[k][field] = Cardinality({e \in E : b[e] = k})
  BY DEF Counted
<1> HIDE DEF S
<1> DEFINE h == [s \in SUBSET S |-> Cardinality(Within(E, b, s))]
           g == CHOOSE q : Summed(q, S, series, field)
<1>1. \A k \in S : series[k][field] = Cardinality(Within(E, b, {k}))
  <2>1. \A k : Within(E, b, {k}) = {e \in E : b[e] = k}
    BY DEF Within
  <2> QED
    BY <1>0, <2>1
<1>2. Summed(h, S, series, field)
  <2> SUFFICES ASSUME NEW s \in SUBSET S
               PROVE  h[s] = IF s = {} THEN 0
                             ELSE h[s \ {CHOOSE x \in s : TRUE}] + series[CHOOSE x \in s : TRUE][field]
    BY Zenon DEF Summed
  <2>1. CASE s = {}
    <3>1. Within(E, b, {}) = {}
      BY DEF Within
    <3> QED
      BY <2>1, <3>1, FS_EmptySet
  <2>2. ASSUME s # {}, NEW x, x = CHOOSE y \in s : TRUE
        PROVE  h[s] = h[s \ {x}] + series[x][field]
    <3>1. x \in s /\ x \in S /\ s \ {x} \in SUBSET S
      BY <2>2
    <3>2. Cardinality(Within(E, b, s)) = Cardinality(Within(E, b, s \ {x})) + Cardinality(Within(E, b, {x}))
      BY <3>1, OneMorePart
    <3> QED
      BY <1>1, <3>1, <3>2
  <2> QED
    BY <2>1, <2>2, Zenon
<1>3. Summed(g, S, series, field)
  BY <1>2, Zenon
<1>4. SeriesTotal(series, field) = g[S]
  BY Zenon DEF S, SeriesTotal, FoldSet, MapThenFoldSet, Summed
<1> HIDE DEF g
<1>5. g[S] = h[S]
  <2> HIDE DEF h
  <2> QED
    BY <1>2, <1>3, FoldIsUnique DEF S
<1>6. Within(E, b, S) \in SUBSET E /\ S = DOMAIN series
  BY DEF Within, S
<1>7. Cardinality(Within(E, b, S)) <= Cardinality(E)
  BY <1>6, FS_Subset
<1>8. (\A e \in E : b[e] \in S) => Within(E, b, S) = E
  BY DEF Within
<1> QED
  BY <1>4, <1>5, <1>6, <1>7, <1>8

-----------------------------------------------------------------------------
(* Times, rounded down *)

Widths == {w \in Nat \ {0} : \E m \in Nat \ {0} : w = m * Second}

LEMMA Rounded ==
  ASSUME NEW t \in Int, NEW w \in Nat \ {0}
  PROVE  /\ Truncate(t, w) \in Int /\ Truncate(t, w) <= t
         /\ \E q \in Int : Truncate(t, w) = q * w /\ t < (q + 1) * w
<1>1. \E q \in Int : t \div w = q /\ Truncate(t, w) = q * w /\ q * w <= t /\ t < (q + 1) * w
  BY DEF Truncate
<1> QED
  BY <1>1

LEMMA GreatestMultiple ==
  ASSUME NEW t \in Int, NEW w \in Nat \ {0}, NEW q \in Int, q * w <= t
  PROVE  q * w <= Truncate(t, w)
<1>1. PICK r \in Int : Truncate(t, w) = r * w /\ t < (r + 1) * w
  BY Rounded
<1>2. q * w \in Int /\ (r + 1) * w \in Int /\ r + 1 \in Int
  OBVIOUS
<1>3. q * w < (r + 1) * w
  BY <1>1, <1>2
<1>4. q < r + 1
  BY <1>3
<1>5. q <= r
  BY <1>4
<1>6. q * w <= r * w
  BY <1>5
<1> QED
  BY <1>1, <1>6

(* What is not before a time to the second is not in an earlier bucket.    *)
LEMMA CoarserRounding ==
  ASSUME NEW x \in Int, NEW t \in Int, NEW w \in Widths, Truncate(x, Second) <= t
  PROVE  Truncate(x, w) <= Truncate(t, w)
<1>1. PICK m \in Nat \ {0} : w = m * Second
  BY DEF Widths
<1>2. w \in Nat \ {0} /\ Second \in Nat \ {0}
  BY StoreAssumption DEF Widths
<1>3. PICK q \in Int : Truncate(x, w) = q * w
  BY <1>2, Rounded
<1>4. q * w \in Int /\ q * w <= x
  BY <1>2, <1>3, Rounded
<1>5. q * w = (q * m) * Second /\ q * m \in Int
  BY <1>1, <1>2
<1>6. q * w <= Truncate(x, Second)
  <2>1. (q * m) * Second <= x
    BY <1>4, <1>5
  <2>2. (q * m) * Second <= Truncate(x, Second)
    BY <1>2, <1>5, <2>1, GreatestMultiple
  <2> QED
    BY <1>5, <2>2
<1>7. q * w <= t
  <2>1. Truncate(x, Second) \in Int
    BY <1>2, Rounded
  <2> QED
    BY <1>4, <1>6, <2>1
<1> QED
  BY <1>2, <1>3, <1>7, GreatestMultiple

LEMMA RoundingKeepsOrder ==
  ASSUME NEW x \in Int, NEW t \in Int, NEW w \in Nat \ {0}, x <= t
  PROVE  Truncate(x, w) <= Truncate(t, w)
<1>1. PICK q \in Int : Truncate(x, w) = q * w
  BY Rounded
<1>2. q * w \in Int /\ q * w <= x
  BY <1>1, Rounded
<1>3. q * w <= t
  BY <1>2
<1> QED
  BY <1>1, <1>3, GreatestMultiple

(* The number of the bucket a time falls into. *)
Bucket(t, lo, w) == 1 + (Truncate(t, w) - Truncate(lo, w)) \div w

LEMMA BucketOfTime ==
  ASSUME NEW t \in Int, NEW lo \in Int, NEW w \in Nat \ {0}
  PROVE  /\ Bucket(t, lo, w) \in Int
         /\ Truncate(lo, w) <= Truncate(t, w) => 1 <= Bucket(t, lo, w)
         /\ \A k \in Int : Truncate(t, w) = Truncate(lo, w) + (k - 1) * w <=> k = Bucket(t, lo, w)
<1>1. PICK p \in Int : Truncate(lo, w) = p * w
  BY Rounded
<1>2. PICK q \in Int : Truncate(t, w) = q * w
  BY Rounded
<1>3. Truncate(lo, w) <= Truncate(t, w) => p <= q
  BY <1>1, <1>2
<1>4. Bucket(t, lo, w) = 1 + (q - p)
  <2>1. q * w - p * w = (q - p) * w
    OBVIOUS
  <2>2. \A n \in Int : (n * w) \div w = n
    OBVIOUS
  <2>3. q - p \in Int
    OBVIOUS
  <2>4. ((q - p) * w) \div w = q - p
    BY <2>2, <2>3
  <2> QED
    BY <1>1, <1>2, <2>1, <2>4 DEF Bucket
<1>5. ASSUME NEW k \in Int
      PROVE  Truncate(t, w) = Truncate(lo, w) + (k - 1) * w <=> k = 1 + (q - p)
  <2>1. p * w + (k - 1) * w = (p + (k - 1)) * w
    OBVIOUS
  <2>2. \A m, n \in Int : m * w = n * w => m = n
    OBVIOUS
  <2>3. q * w = (p + (k - 1)) * w <=> q = p + (k - 1)
    BY <2>2
  <2>4. q = p + (k - 1) <=> k = 1 + (q - p)
    OBVIOUS
  <2> QED
    BY <1>1, <1>2, <2>1, <2>3, <2>4
<1> QED
  BY <1>3, <1>4, <1>5

(* Later times are in later buckets. *)
LEMMA LaterBucket ==
  ASSUME NEW t \in Int, NEW hi \in Int, NEW lo \in Int, NEW w \in Nat \ {0},
         Truncate(t, w) <= Truncate(hi, w)
  PROVE  Bucket(t, lo, w) <= Bucket(hi, lo, w)
<1>1. PICK q \in Int : Truncate(t, w) = q * w
  BY Rounded
<1>2. PICK r \in Int : Truncate(hi, w) = r * w
  BY Rounded
<1>3. PICK p \in Int : Truncate(lo, w) = p * w
  BY Rounded
<1>4. q <= r
  BY <1>1, <1>2
<1>5. \A n \in Int : (n * w) \div w = n
  OBVIOUS
<1>6. q * w - p * w = (q - p) * w /\ r * w - p * w = (r - p) * w /\ q - p \in Int /\ r - p \in Int
  OBVIOUS
<1>7. Bucket(t, lo, w) = 1 + (q - p) /\ Bucket(hi, lo, w) = 1 + (r - p)
  BY <1>1, <1>2, <1>3, <1>5, <1>6 DEF Bucket
<1> QED
  BY <1>4, <1>7

(* A finite set of times has a last one. *)
LEMMA LastOfTimes ==
  ASSUME NEW T \in SUBSET Nat, T # {}, IsFiniteSet(T)
  PROVE  Max(T) \in T /\ \A y \in T : y <= Max(T)
<1> DEFINE HasLast(s) == s # {} => \E x \in s : \A y \in s : y <= x
           p == {m \in Nat : \A s \in SUBSET T : Cardinality(s) = m => HasLast(s)}
<1>1. \A s \in SUBSET T : IsFiniteSet(s) /\ Cardinality(s) \in Nat /\ (Cardinality(s) = 0 <=> s = {})
  BY FS_Subset, FS_CardinalityType, FS_EmptySet
<1>2. 0 \in p
  BY <1>1
<1>3. ASSUME NEW m \in Nat, m \in p
      PROVE  m + 1 \in p
  <2> SUFFICES ASSUME NEW s \in SUBSET T, Cardinality(s) = m + 1
               PROVE  \E x \in s : \A y \in s : y <= x
    OBVIOUS
  <2>1. PICK z \in s : TRUE
    BY <1>1
  <2>2. s \ {z} \in SUBSET T /\ Cardinality(s \ {z}) = m
    <3>1. IsFiniteSet(s)
      BY <1>1
    <3>2. Cardinality(s \ {z}) = Cardinality(s) - 1
      BY <2>1, <3>1, FS_RemoveElement
    <3> QED
      BY <3>2
  <2>3. HasLast(s \ {z})
    BY <1>3, <2>2
  <2> QED
    BY <2>1, <2>3
<1>4. \A m \in Nat : m \in p
  <2> HIDE DEF p
  <2> QED
    BY <1>2, <1>3, Induction
<1>5. \E x \in T : \A y \in T : y <= x
  <2>1. Cardinality(T) \in p /\ T \in SUBSET T
    BY <1>1, <1>4
  <2> QED
    BY <2>1
<1>6. PICK x \in T : \A y \in T : x >= y
  BY <1>5
<1> QED
  BY <1>6 DEF Max

LEMMA WidthsOfBuckets ==
  ASSUME NEW span \in Int
  PROVE  BucketDuration(span) \in Widths
<1>1. \E h \in Nat \ {0} : Hour = h * Second
  <2>1. Second \in Nat \ {0} /\ Hour \in Nat \ {0} /\ Hour \in Int /\ Hour % Second = 0
    BY StoreAssumption
  <2>2. Truncate(Hour, Second) = Hour
    BY <2>1 DEF Truncate
  <2>3. PICK q \in Int : Truncate(Hour, Second) = q * Second
    BY <2>1, Rounded
  <2>4. Hour = q * Second
    BY <2>2, <2>3
  <2>5. 0 * Second < q * Second
    BY <2>1, <2>4
  <2>6. 0 < q
    BY <2>1, <2>5
  <2> QED
    BY <2>4, <2>6
<1>2. PICK h \in Nat \ {0} : Hour = h * Second
  BY <1>1
<1>3. Second \in Nat \ {0}
  BY StoreAssumption
<1>4. \A c \in Nat \ {0} : (c * h) \in Nat \ {0} /\ c * Hour = (c * h) * Second /\ c * Hour \in Nat \ {0}
  BY <1>2, <1>3
<1>5. \A c \in Nat \ {0} : c * Hour \in Widths
  BY <1>4 DEF Widths
<1>6. Hour = 1 * Hour /\ 7 * 24 * Hour = 168 * Hour
  BY StoreAssumption
<1>7. Hour \in Widths /\ 24 * Hour \in Widths /\ 7 * 24 * Hour \in Widths
  BY <1>5, <1>6
<1> QED
  BY <1>7 DEF BucketDuration

(* A bound, and one that does not reach beyond the time it means, at either end. *)
Bound(b) == b = Unbounded \/ (b.at \in Nat /\ b.zone \in Int)
LowerBound(from) == from = Unbounded \/ (from.at \in Nat /\ from.zone \in Nat)
UpperBound(to) == to = Unbounded \/ (to.at \in Nat /\ to.zone \in Int /\ to.zone <= 0)

LEMMA FirstAndLast ==
  ASSUME NEW events, events # {}, IsFiniteSet(events), \A e \in events : e.at \in Nat
  PROVE  LET times == {e.at : e \in events}
         IN /\ Min(times) \in Nat /\ \A e \in events : Min(times) <= e.at
            /\ Max(times) \in Nat /\ \A e \in events : e.at <= Max(times)
<1> DEFINE times == {e.at : e \in events}
           f == [e \in events |-> e.at]
<1>1. f \in Surjection(events, times)
  BY DEF Surjection
<1>2. IsFiniteSet(times)
  BY <1>1, FS_Surjection, Zenon
<1>3. times \in SUBSET Nat /\ times # {}
  OBVIOUS
<1>4. Min(times) \in Nat /\ \A e \in events : Min(times) <= e.at
  BY <1>3, FirstOfTimes
<1>5. Max(times) \in Nat /\ \A e \in events : e.at <= Max(times)
  BY <1>2, <1>3, LastOfTimes
<1> QED
  BY <1>4, <1>5

(* What is counted lies within the series. *)
LEMMA WithinSpan ==
  ASSUME NEW events, events # {}, IsFiniteSet(events), \A e \in events : e.at \in Nat,
         NEW from, NEW to, LowerBound(from), UpperBound(to),
         \A e \in events : InRange(e, from, to)
  PROVE  LET s == Span(events, from, to)
         IN /\ s.lo \in Int /\ s.hi \in Int
            /\ \A e \in events : Truncate(s.lo, Second) <= e.at /\ e.at <= s.hi
<1> DEFINE times == {e.at : e \in events}
           a == IF from = Unbounded THEN Min(times) ELSE from.at
           b == IF to = Unbounded THEN Max(times) ELSE to.at
<1>0. Second \in Nat \ {0}
  BY StoreAssumption
<1>2. Min(times) \in Nat /\ \A e \in events : Min(times) <= e.at
  BY FirstAndLast
<1>3. Max(times) \in Nat /\ \A e \in events : e.at <= Max(times)
  BY FirstAndLast
<1> HIDE DEF times
<1>4. a \in Int /\ \A e \in events : Truncate(a, Second) <= e.at
  <2>1. CASE from = Unbounded
    <3>1. a = Min(times) /\ a \in Int
      BY <1>2, <2>1
    <3>2. Truncate(a, Second) \in Int /\ Truncate(a, Second) <= a
      BY <1>0, <3>1, Rounded
    <3> HIDE DEF a
    <3>3. ASSUME NEW e \in events
          PROVE  Truncate(a, Second) <= e.at
      <4>1. a <= e.at /\ e.at \in Int
        BY <1>2, <3>1
      <4> QED
        BY <3>1, <3>2, <4>1
    <3> QED
      BY <3>1, <3>3
  <2>2. CASE from # Unbounded
    <3>1. a = from.at /\ a \in Int /\ from.at + from.zone \in Int /\ a <= from.at + from.zone
      BY <2>2 DEF LowerBound
    <3>2. Truncate(a, Second) <= Truncate(from.at + from.zone, Second)
      BY <1>0, <3>1, RoundingKeepsOrder
    <3>3. Truncate(a, Second) \in Int /\ Truncate(from.at + from.zone, Second) \in Int
      BY <1>0, <3>1, Rounded
    <3> HIDE DEF a
    <3>4. ASSUME NEW e \in events
          PROVE  Truncate(a, Second) <= e.at
      <4>1. e.at >= Truncate(from.at + from.zone, Second) /\ e.at \in Int
        BY <2>2 DEF InRange, Digits
      <4> QED
        BY <3>2, <3>3, <4>1
    <3> QED
      BY <3>1, <3>4
  <2> QED
    BY <2>1, <2>2
<1>5. b \in Int /\ \A e \in events : e.at <= b
  <2>1. CASE to = Unbounded
    BY <1>3, <2>1
  <2>2. CASE to # Unbounded
    <3>1. b = to.at /\ b \in Int /\ to.at + to.zone \in Int /\ to.at + to.zone <= b
      BY <2>2 DEF UpperBound
    <3>2. Truncate(to.at + to.zone, Second) \in Int
          /\ Truncate(to.at + to.zone, Second) <= to.at + to.zone
      BY <1>0, <3>1, Rounded
    <3> HIDE DEF b
    <3>3. ASSUME NEW e \in events
          PROVE  e.at <= b
      <4>1. e.at <= Truncate(to.at + to.zone, Second) /\ e.at \in Int
        <5>1. e.at \in Int /\ (e.at < Digits(to) \/ e.at = Digits(to))
          BY <2>2 DEF InRange
        <5> QED
          BY <3>2, <5>1 DEF Digits
      <4> QED
        BY <3>1, <3>2, <4>1
    <3> QED
      BY <3>1, <3>3
  <2> QED
    BY <2>1, <2>2
<1>6. Span(events, from, to) = IF b < a THEN [lo |-> b, hi |-> a] ELSE [lo |-> a, hi |-> b]
  BY Zenon DEF Span, times
<1> HIDE DEF a, b
<1>7. CASE b < a
  <2>1. Truncate(b, Second) <= Truncate(a, Second)
    BY <1>0, <1>4, <1>5, <1>7, RoundingKeepsOrder
  <2>2. Truncate(b, Second) \in Int /\ Truncate(a, Second) \in Int
    BY <1>0, <1>4, <1>5, Rounded
  <2>3. ASSUME NEW e \in events
        PROVE  Truncate(b, Second) <= e.at /\ e.at <= a
    <3>1. e.at \in Int /\ Truncate(a, Second) <= e.at /\ e.at <= b
      BY <1>4, <1>5
    <3> QED
      BY <1>4, <1>5, <1>7, <2>1, <2>2, <3>1
  <2> QED
    BY <1>4, <1>5, <1>6, <1>7, <2>3
<1>8. CASE ~(b < a)
  BY <1>4, <1>5, <1>6, <1>8
<1> QED
  BY <1>7, <1>8

LEMMA SmallerOf ==
  ASSUME NEW x \in Nat, NEW y \in Nat
  PROVE  Min({x, y}) = IF x <= y THEN x ELSE y
<1>1. Min({x, y}) \in {x, y} /\ Min({x, y}) <= x /\ Min({x, y}) <= y
  BY FirstOfTimes
<1> QED
  BY <1>1

LEMMA SpanIsOrdered ==
  ASSUME NEW events, events # {}, IsFiniteSet(events), \A e \in events : e.at \in Nat,
         NEW from, NEW to, Bound(from), Bound(to)
  PROVE  LET s == Span(events, from, to) IN s.lo \in Int /\ s.hi \in Int /\ s.lo <= s.hi
<1> DEFINE times == {e.at : e \in events}
           a == IF from = Unbounded THEN Min(times) ELSE from.at
           b == IF to = Unbounded THEN Max(times) ELSE to.at
<1>1. Min(times) \in Nat /\ Max(times) \in Nat
  BY FirstAndLast
<1> HIDE DEF times
<1>2. a \in Int /\ b \in Int
  BY <1>1 DEF Bound
<1>3. Span(events, from, to) = IF b < a THEN [lo |-> b, hi |-> a] ELSE [lo |-> a, hi |-> b]
  BY Zenon DEF Span, times
<1> HIDE DEF a, b
<1> QED
  BY <1>2, <1>3

(* b puts the events into buckets, of which the series has the first n.    *)
Bucketed(series, n, events, b) ==
  /\ DOMAIN series = 1..n
  /\ \A k \in 1..n : series[k] = Tally({e \in events : b[e] = k})

InBounds(events, from, to) ==
  LowerBound(from) /\ UpperBound(to) /\ \A e \in events : InRange(e, from, to)

(* The buckets are as many as there are from the first time to the last,   *)
(* unless there are too many, and each event is in one of them.            *)
LEMMA BucketsHoldEvents ==
  ASSUME NEW events, events # {}, IsFiniteSet(events), \A e \in events : e.at \in Nat,
         NEW from, NEW to, Bound(from), Bound(to),
         NEW series, series = BuildSeries(events, from, to)
  PROVE  \E b : \E n \in Nat :
           /\ Bucketed(series, n, events, b)
           /\ Len(series) < MaxBuckets /\ InBounds(events, from, to) => \A e \in events : b[e] \in 1..n
<1> DEFINE s == Span(events, from, to)
           w == BucketDuration(s.hi - s.lo)
           start == Truncate(s.lo, w)
           last == Bucket(s.hi, s.lo, w)
           n == Min({MaxBuckets, last})
           b == [e \in events |-> Bucket(e.at, s.lo, w)]
<1>1. s.lo \in Int /\ s.hi \in Int /\ s.lo <= s.hi
  BY SpanIsOrdered
<1>2. InBounds(events, from, to) => \A e \in events : Truncate(s.lo, Second) <= e.at /\ e.at <= s.hi
  BY WithinSpan DEF InBounds
<1>3. series = [k \in 1..n |-> Tally({e \in events : Truncate(e.at, w) = start + (k - 1) * w})]
  BY Zenon DEF BuildSeries, Bucket
<1> HIDE DEF s
<1>4. w \in Widths /\ w \in Nat \ {0}
  <2>1. s.hi - s.lo \in Int
    BY <1>1
  <2>2. w \in Widths
    BY <2>1, WidthsOfBuckets
  <2> QED
    BY <2>2 DEF Widths
<1> HIDE DEF w
<1>5. last \in Nat
  <2>1. Truncate(s.lo, w) <= Truncate(s.hi, w)
    BY <1>1, <1>4, RoundingKeepsOrder
  <2>2. last \in Int /\ 1 <= last
    BY <1>1, <1>4, <2>1, BucketOfTime, Zenon
  <2> HIDE DEF last
  <2> QED
    BY <2>2
<1>6. n \in Nat /\ Len(series) = n /\ DOMAIN series = 1..n
  <2>1. n \in Nat
    <3> HIDE DEF last
    <3> QED
      BY <1>5, SmallerOf, StoreAssumption
  <2> HIDE DEF n
  <2> QED
    BY <1>3, <2>1
<1>7. Len(series) < MaxBuckets => n = last
  <2> HIDE DEF last
  <2> QED
    BY <1>5, <1>6, SmallerOf, StoreAssumption
<1> HIDE DEF n
<1>8. ASSUME Len(series) < MaxBuckets, InBounds(events, from, to), NEW e \in events
      PROVE  b[e] \in 1..n
  <2>1. e.at \in Int /\ Truncate(s.lo, w) <= Truncate(e.at, w)
    BY <1>1, <1>2, <1>4, <1>8, CoarserRounding
  <2>2. Truncate(e.at, w) <= Truncate(s.hi, w)
    BY <1>1, <1>2, <1>4, <1>8, RoundingKeepsOrder
  <2>3. Bucket(e.at, s.lo, w) \in Int /\ 1 <= Bucket(e.at, s.lo, w) /\ Bucket(e.at, s.lo, w) <= last
    BY <1>1, <1>4, <2>1, <2>2, BucketOfTime, LaterBucket
  <2> HIDE DEF last
  <2> QED
    BY <1>5, <1>7, <1>8, <2>3
<1>9. ASSUME NEW k \in 1..n
      PROVE  series[k] = Tally({e \in events : b[e] = k})
  <2>1. \A e \in events : Truncate(e.at, w) = start + (k - 1) * w <=> k = Bucket(e.at, s.lo, w)
    <3> SUFFICES ASSUME NEW e \in events
                 PROVE  Truncate(e.at, w) = start + (k - 1) * w <=> k = Bucket(e.at, s.lo, w)
      BY Zenon
    <3>1. e.at \in Int /\ k \in Int
      BY <1>6
    <3> QED
      BY <1>1, <1>4, <3>1, BucketOfTime, Zenon
  <2>2. {e \in events : Truncate(e.at, w) = start + (k - 1) * w} = {e \in events : b[e] = k}
    BY <2>1
  <2> QED
    BY <1>3, <2>2, Zenon
<1> HIDE DEF b
<1>10. Bucketed(series, n, events, b)
  BY <1>6, <1>9, Zenon DEF Bucketed
<1> QED
  BY <1>6, <1>8, <1>10, Zenon

LEMMA AskedBounds ==
  ASSUME NEW b \in Asked
  PROVE  Bound(b) /\ (b.zone >= 0 => LowerBound(b)) /\ (b.zone <= 0 => UpperBound(b))
<1> DEFINE T == {t + d : t \in Instants, d \in {0, 1}}
<1>1. T \subseteq Nat
  BY TableAssumption
<1>2. Asked = {Unbounded} \cup Bounds(T, Zones)
  BY DEF Asked
<1> HIDE DEF T
<1>3. CASE b = Unbounded
  BY <1>3 DEF Bound, LowerBound, UpperBound
<1>4. CASE b \in Bounds(T, Zones)
  <2>1. b.at \in Nat /\ b.zone \in Int
    BY <1>1, <1>4, ZonesAssumption DEF Bounds
  <2> QED
    BY <2>1 DEF Bound, LowerBound, UpperBound
<1>5. b = Unbounded \/ b \in Bounds(T, Zones)
  BY <1>2, Zenon
<1> QED
  BY <1>3, <1>4, <1>5

(* What the sums and the totals of the statistics have to do with each other. *)
LEMMA SeriesCounts ==
  ASSUME NEW table, IsFiniteSet(table), \A e \in table : e.at \in Nat,
         NEW from, NEW to, Bound(from), Bound(to),
         NEW stats, stats = Stats(table, from, to)
  PROVE  /\ SeriesTotal(stats.series, "allow") <= stats.allowed
         /\ SeriesTotal(stats.series, "block") <= stats.blocked
         /\ LowerBound(from) /\ UpperBound(to) /\ Len(stats.series) < MaxBuckets =>
              /\ SeriesTotal(stats.series, "allow") = stats.allowed
              /\ SeriesTotal(stats.series, "block") = stats.blocked
<1> DEFINE events == {e \in table : InRange(e, from, to)}
           series == BuildSeries(events, from, to)
           allow == {e \in events : e.decision # "BLOCK"}
           block == {e \in events : e.decision = "BLOCK"}
           whole == Len(series) < MaxBuckets /\ InBounds(events, from, to)
<1>1. stats.allowed = Cardinality(allow) /\ stats.blocked = Cardinality(block) /\ stats.series = series
  BY DEF Stats, Tally
<1>2. IsFiniteSet(events) /\ IsFiniteSet(allow) /\ IsFiniteSet(block)
  BY FS_Subset
<1>3. PICK b : \E n \in Nat :
           Bucketed(series, n, events, b) /\ (whole => \A e \in events : b[e] \in 1..n)
  <2>1. CASE events = {}
    <3>1. series = <<>>
      BY <2>1 DEF BuildSeries
    <3>2. DOMAIN series = 1..0 /\ 0 \in Nat /\ \A k \in 1..0 : FALSE
      BY <3>1
    <3> HIDE DEF series, events, whole
    <3>3. \A c : Bucketed(series, 0, events, c)
      BY <2>1, <3>2 DEF Bucketed
    <3> QED
      BY <2>1, <3>2, <3>3, Zenon
  <2>2. CASE events # {}
    <3>1. \A e \in events : e.at \in Nat
      OBVIOUS
    <3>2. series = BuildSeries(events, from, to)
      OBVIOUS
    <3> HIDE DEF events, series
    <3> QED
      BY <1>2, <2>2, <3>1, <3>2, BucketsHoldEvents
  <2> QED
    BY <2>1, <2>2
<1>4. PICK n \in Nat : Bucketed(series, n, events, b) /\ (whole => \A e \in events : b[e] \in 1..n)
  BY <1>3, Zenon
<1>5. /\ DOMAIN series = 1..n
      /\ \A k \in 1..n : series[k] = Tally({e \in events : b[e] = k})
  BY <1>4, Zenon DEF Bucketed
<1>6. IsFiniteSet(1..n)
  BY FS_Interval
<1>7. LowerBound(from) /\ UpperBound(to) /\ Len(stats.series) < MaxBuckets => whole
  BY <1>1 DEF InBounds
<1> HIDE DEF series, whole
<1>8. \A k \in 1..n : /\ series[k]["allow"] = Cardinality({e \in allow : b[e] = k})
                       /\ series[k]["block"] = Cardinality({e \in block : b[e] = k})
  <2> SUFFICES ASSUME NEW k \in 1..n
               PROVE  /\ series[k]["allow"] = Cardinality({e \in allow : b[e] = k})
                      /\ series[k]["block"] = Cardinality({e \in block : b[e] = k})
    OBVIOUS
  <2> DEFINE part == {e \in events : b[e] = k}
  <2>1. {e \in part : e.decision # "BLOCK"} = {e \in allow : b[e] = k}
        /\ {e \in part : e.decision = "BLOCK"} = {e \in block : b[e] = k}
    OBVIOUS
  <2>2. series[k] = Tally(part)
    BY <1>5
  <2>3. /\ series[k]["allow"] = Cardinality({e \in part : e.decision # "BLOCK"})
        /\ series[k]["block"] = Cardinality({e \in part : e.decision = "BLOCK"})
    <3> HIDE DEF part
    <3> QED
      BY <2>2 DEF Tally
  <2> HIDE DEF part, allow, block
  <2> QED
    BY <2>1, <2>3, Zenon
<1>9. whole => (\A e \in allow : b[e] \in DOMAIN series) /\ (\A e \in block : b[e] \in DOMAIN series)
  BY <1>4, <1>5
<1> HIDE DEF allow, block, events
<1>10. Counted(series, "allow", allow, b) /\ Counted(series, "block", block, b) /\ IsFiniteSet(DOMAIN series)
  BY <1>5, <1>6, <1>8, Zenon DEF Counted
<1>11. /\ SeriesTotal(series, "allow") <= Cardinality(allow)
       /\ whole => SeriesTotal(series, "allow") = Cardinality(allow)
  BY <1>2, <1>9, <1>10, PartsAddUp, Zenon
<1>12. /\ SeriesTotal(series, "block") <= Cardinality(block)
       /\ whole => SeriesTotal(series, "block") = Cardinality(block)
  BY <1>2, <1>9, <1>10, PartsAddUp, Zenon
<1> QED
  BY <1>1, <1>7, <1>11, <1>12, Zenon

-----------------------------------------------------------------------------
(* The theorems *)

MonitorInv == StoreInv /\ FeedInv /\ HistoryInv /\ ExtensionInv /\ LauncherInv

LEMMA MonitorInvariant == Spec => []MonitorInv
<1>1. Init => MonitorInv
  BY StoreInitKept, FeedInitKept, HistoryInitKept, ExtensionInitKept, LauncherInitKept DEF Init, MonitorInv
<1>2. MonitorInv /\ [Next]_vars => MonitorInv'
  <2> SUFFICES ASSUME MonitorInv, [Next]_vars
               PROVE  MonitorInv'
    OBVIOUS
  <2>1. StoreInv /\ FeedInv /\ HistoryInv /\ ExtensionInv /\ LauncherInv
    BY DEF MonitorInv
  <2>2. ASSUME [StoreNext]_storeVars, UNCHANGED clientVars
        PROVE  MonitorInv'
    BY <2>1, <2>2, StoreKeeps, TableKeepsFeeds, TableKeepsHistory, TableKeepsExtension, LauncherKeeps
       DEF clientVars, MonitorInv
  <2>3. CASE TableStep \/ UNCHANGED vars
    BY <2>2, <2>3 DEF TableStep, vars
  <2>4. CASE FeedStep
    BY <2>1, <2>4, StoreKeeps, FeedKeeps, TableKeepsHistory, TableKeepsExtension, LauncherKeeps
       DEF FeedStep, MonitorInv
  <2>5. CASE HistoryStep
    BY <2>1, <2>5, StoreKeeps, TableKeepsFeeds, HistoryKeeps, TableKeepsExtension, LauncherKeeps
       DEF HistoryStep, MonitorInv
  <2>6. CASE ExtensionStep
    BY <2>1, <2>6, StoreKeeps, TableKeepsFeeds, TableKeepsHistory, ExtensionKeeps, LauncherKeeps
       DEF ExtensionStep, MonitorInv
  <2>7. CASE LauncherStep
    BY <2>1, <2>7, StoreKeeps, TableKeepsFeeds, TableKeepsHistory, TableKeepsExtension, LauncherKeeps
       DEF LauncherStep, MonitorInv
  <2> QED
    BY <2>3, <2>4, <2>5, <2>6, <2>7 DEF Next
<1> QED
  BY <1>1, <1>2, PTL DEF Spec

(* A feed that remembers only its last page announces nothing twice: what  *)
(* has left the page does not come back, since rows are only pushed down   *)
(* and a restart drops from the other end                                  *)
(* (LiveDetectionWatcher.tsx:13-14).                                       *)
THEOREM AnnouncesOnce == Spec => []AnnouncedOnce
<1>1. MonitorInv => AnnouncedOnce
  BY DEF MonitorInv, FeedInv, FeedOk, AnnouncedOnce
<1> QED
  BY <1>1, MonitorInvariant, PTL

(* What a feed never announces was pushed off its page by as many others   *)
(* (LiveDetectionWatcher.tsx:25-43).                                       *)
THEOREM MissesOnlyInBursts == Spec => []MissedOnlyInBursts
<1>1. MonitorInv => MissedOnlyInBursts
  <2> SUFFICES ASSUME MonitorInv, NEW f \in Feeds, NEW e \in Matching(rows, Wanted[f]),
                      e.id \in (upTo[f] \ old[f]) \ noted[f]
               PROVE  Cardinality({g \in Matching(rows, Wanted[f]) : g.at >= e.at}) > FeedLimit[f]
    BY DEF MissedOnlyInBursts
  <2>1. StoreInv /\ Pushed(f, e)
    BY DEF MonitorInv, FeedInv, FeedOk, MissedIsPushed, Matching
  <2> QED
    BY <2>1, PushedInBurst
<1> QED
  BY <1>1, MonitorInvariant, PTL

(* The time series and the totals of the overview count the same events,   *)
(* however the bounds are written, for every limit of its length, and no   *)
(* event more when it is cut off (query.go:143-150, 342-401).              *)
THEOREM SeriesAndTotalsAgree == Spec => []SeriesAddsUp
<1>1. MonitorInv => SeriesAddsUp
  <2> SUFFICES ASSUME MonitorInv, NEW from \in Asked, NEW to \in Asked
               PROVE  LET s == Stats(rows, from, to)
                          allow == SeriesTotal(s.series, "allow")
                          block == SeriesTotal(s.series, "block")
                      IN /\ allow <= s.allowed /\ block <= s.blocked
                         /\ from.zone >= 0 /\ to.zone <= 0 /\ Len(s.series) < MaxBuckets =>
                              allow = s.allowed /\ block = s.blocked
    BY Zenon DEF SeriesAddsUp
  <2> DEFINE s == Stats(rows, from, to)
  <2>1. IsFiniteSet(rows) /\ \A e \in rows : e.at \in Nat
    BY EventNumbers DEF MonitorInv, StoreInv
  <2>2. Bound(from) /\ Bound(to)
    BY AskedBounds
  <2>3. /\ SeriesTotal(s.series, "allow") <= s.allowed
        /\ SeriesTotal(s.series, "block") <= s.blocked
        /\ LowerBound(from) /\ UpperBound(to) /\ Len(s.series) < MaxBuckets =>
             /\ SeriesTotal(s.series, "allow") = s.allowed
             /\ SeriesTotal(s.series, "block") = s.blocked
    BY <2>1, <2>2, SeriesCounts, Zenon
  <2>4. (from.zone >= 0 => LowerBound(from)) /\ (to.zone <= 0 => UpperBound(to))
    BY AskedBounds, Zenon
  <2> HIDE DEF s
  <2> QED
    BY <2>3, <2>4, Zenon DEF s
<1> QED
  BY <1>1, MonitorInvariant, PTL

(* Turning the pages, each of which is let appear, skips no row that was   *)
(* there from the beginning (query.go:97-111), for every limit that is     *)
(* not beyond the rows of a page.                                          *)
THEOREM TurningSkipsNothing == Spec => []PagesSkipNothing
<1>1. MonitorInv => PagesSkipNothing
  BY DEF MonitorInv, HistoryInv, Steady, Unread, PagesSkipNothing
<1> QED
  BY <1>1, MonitorInvariant, PTL

(* The user is warned of a block once, unless a poll is overtaken          *)
(* (extension.ts:340-344).                                                 *)
THEOREM WarnsOnce == Spec => []WarnedOnce
<1>1. MonitorInv => WarnedOnce
  BY DEF MonitorInv, ExtensionInv, InOrder, WarnedOnce
<1> QED
  BY <1>1, MonitorInvariant, PTL

(* However often the proxy is started and stopped from VS Code, and in     *)
(* whatever order exits, kills and reloads come, what was started can be   *)
(* stopped, is being stopped or has stopped (extension.ts:202-228).        *)
THEOREM StartedIsStoppable == Spec => []NothingAbandoned
<1>1. MonitorInv => NothingAbandoned
  BY DEF MonitorInv, LauncherInv
<1> QED
  BY <1>1, MonitorInvariant, PTL
=============================================================================
