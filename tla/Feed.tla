-------------------------------- MODULE Feed --------------------------------
(***************************************************************************)
(* The feeds of the browser: each polls its page of newest events (toasts  *)
(* the blocked ones, the packets of the network flow all of them) and      *)
(* announces what its previous page did not hold.                          *)
(***************************************************************************)
EXTENDS AuditTable

CONSTANTS
  Feeds,       \* the feeds
  Wanted,      \* feed -> the decision it asks for
  FeedLimit    \* feed -> the rows it asks for

ASSUME FeedAssumption == FeedLimit \in [Feeds -> 1..MaxPage]

VARIABLES
  feed,       \* feed -> what it remembers
  page,       \* feed -> the answer it has not looked at, or Nothing
  noted,      \* history: feed -> ids it announced
  twice,      \* history: feed -> whether it announced one of them again
  old, upTo   \* history: feed -> the table when its first, its last page was read

feedVars == <<feed, page, noted, twice, old, upTo>>

Nothing == [ready |-> FALSE, events |-> {}, table |-> {}]
Forgetful == [seen |-> {}, initialized |-> FALSE]

FeedInit ==
  /\ feed = [f \in Feeds |-> Forgetful]
  /\ page = [f \in Feeds |-> Nothing]
  /\ noted = [f \in Feeds |-> {}]
  /\ twice = [f \in Feeds |-> FALSE]
  /\ old = [f \in Feeds |-> {}]
  /\ upTo = [f \in Feeds |-> {}]

Fetch(f) ==
  /\ ~page[f].ready
  /\ page' = [page EXCEPT ![f] = [ready |-> TRUE, table |-> IdsOf(rows),
                                   events |-> Page(rows, Wanted[f], FeedLimit[f], 0)]]
  /\ UNCHANGED <<feed, noted, twice, old, upTo>>

(* The answer is lost, late or not what it should be: the feed keeps what  *)
(* it has.                                                                 *)
FetchFails(f) ==
  /\ page[f].ready
  /\ page' = [page EXCEPT ![f] = Nothing]
  /\ UNCHANGED <<feed, noted, twice, old, upTo>>

Looked(f) ==
  /\ page' = [page EXCEPT ![f] = Nothing]
  /\ upTo' = [upTo EXCEPT ![f] = page[f].table]
  /\ feed' = [feed EXCEPT ![f] = [seen |-> IdsOf(page[f].events), initialized |-> TRUE]]

(* Broken variant: an empty first page is no baseline. *)
SeedUnlessEmpty(f) ==
  /\ page[f].ready
  /\ ~feed[f].initialized
  /\ page' = [page EXCEPT ![f] = Nothing]
  /\ upTo' = [upTo EXCEPT ![f] = page[f].table]
  /\ feed' = IF page[f].events = {} THEN feed
             ELSE [feed EXCEPT ![f] = [seen |-> IdsOf(page[f].events), initialized |-> TRUE]]
  /\ old' = IF upTo[f] = {} THEN [old EXCEPT ![f] = page[f].table] ELSE old
  /\ UNCHANGED <<noted, twice>>

(* The first page is the baseline. *)
Seed(f) ==
  /\ page[f].ready
  /\ ~feed[f].initialized
  /\ Looked(f)
  /\ old' = [old EXCEPT ![f] = page[f].table]
  /\ UNCHANGED <<noted, twice>>

(* Broken variant: only the new ones are remembered. *)
AnnounceForgetting(f) ==
  LET fresh == IdsOf(page[f].events) \ feed[f].seen
  IN /\ page[f].ready
     /\ feed[f].initialized
     /\ page' = [page EXCEPT ![f] = Nothing]
     /\ upTo' = [upTo EXCEPT ![f] = page[f].table]
     /\ feed' = [feed EXCEPT ![f].seen = fresh]
     /\ noted' = [noted EXCEPT ![f] = @ \cup fresh]
     /\ twice' = [twice EXCEPT ![f] = @ \/ fresh \cap noted[f] # {}]
     /\ UNCHANGED old

Announce(f) ==
  LET fresh == IdsOf(page[f].events) \ feed[f].seen
  IN /\ page[f].ready
     /\ feed[f].initialized
     /\ Looked(f)
     /\ noted' = [noted EXCEPT ![f] = @ \cup fresh]
     /\ twice' = [twice EXCEPT ![f] = @ \/ fresh \cap noted[f] # {}]
     /\ UNCHANGED old

FeedNext(f) == Fetch(f) \/ FetchFails(f) \/ Seed(f) \/ Announce(f)

-----------------------------------------------------------------------------
(* Properties *)

(* No event is announced twice as long as it is open, although a feed      *)
(* remembers no more than its last page, ids come in no order and a row    *)
(* may be inserted after rows with a later time                            *)
(* (LiveDetectionWatcher.tsx:13-14).                                       *)
AnnouncedOnce == \A f \in Feeds : ~twice[f]

(* An event that reached the table after a feed's first page and before    *)
(* its last one goes unannounced only when as many others of its time or   *)
(* later fill the page (LiveDetectionWatcher.tsx:25-43).                   *)
MissedOnlyInBursts ==
  \A f \in Feeds : \A e \in Matching(rows, Wanted[f]) :
    e.id \in (upTo[f] \ old[f]) \ noted[f] =>
      Cardinality({g \in Matching(rows, Wanted[f]) : g.at >= e.at}) > FeedLimit[f]
=============================================================================
