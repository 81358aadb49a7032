------------------------------ MODULE History -------------------------------
(***************************************************************************)
(* The history page of the dashboard, which its reader turns back and      *)
(* forth while it refreshes itself.  COUNT and SELECT are two statements.  *)
(* While a page is asked for, the one before and the buttons stay, and     *)
(* the answer to a page turned away from is not shown.                     *)
(***************************************************************************)
EXTENDS AuditTable

CONSTANT PageLimits    \* what the limit in the URL may be

ASSUME HistoryAssumption == PageLimits \subseteq Nat \ {0}

VARIABLE reader    \* at: what the request for the page is at
                   \* limit, offset: of the URL
                   \* count: what COUNT said; total: of the page in place
                   \* totals: of this and the pages that are cached
                   \* filled: it has rows; error: the request failed
                   \* history, since the reader began - began: the rows
                   \*   then; read: those of them he has seen; reach: the
                   \*   end of the last page that appeared; hurried: he
                   \*   has turned on from a page before it appeared

Closed ==
  [at |-> "closed", limit |-> 0, offset |-> 0, count |-> 0, total |-> 0, totals |-> {},
   filled |-> FALSE, error |-> FALSE, began |-> {}, read |-> {}, reach |-> 0, hurried |-> FALSE]

HistoryInit == reader = Closed

(* The page is opened, or its filter or its limit changed: the first page  *)
(* is asked for, and any that was in place stays.                          *)
OpenHistory ==
  \E limit \in PageLimits :
    reader' = [reader EXCEPT !.at = "asked", !.limit = limit, !.offset = 0, !.error = FALSE,
                             !.began = rows, !.read = {}, !.reach = 0, !.hurried = FALSE]

CountRows ==
  /\ reader.at = "asked"
  /\ reader' = [reader EXCEPT !.at = "counted", !.count = Cardinality(rows)]

ListRows ==
  LET page == Page(rows, AnyDecision, reader.limit, reader.offset)
  IN /\ reader.at = "counted"
     /\ reader' = [reader EXCEPT !.at = "shown", !.total = reader.count, !.totals = @ \cup {reader.count},
                                 !.filled = page # {}, !.error = FALSE,
                                 !.read = @ \cup (page \cap reader.began),
                                 !.reach = Max({@, reader.offset + reader.limit})]

(* An error is shown in place of the rows and the buttons. *)
PageFails ==
  /\ reader.at \in {"asked", "counted"}
  /\ reader' = [reader EXCEPT !.at = "shown", !.error = TRUE]

Refresh ==
  /\ reader.at = "shown"
  /\ reader' = [reader EXCEPT !.at = "asked"]

(* The page at another offset is asked for; until it is there, the one     *)
(* before or what is cached of it is in place.                             *)
TurnTo(offset) ==
  \E total \in reader.totals :
    reader' = [reader EXCEPT !.at = "asked", !.offset = offset, !.total = total,
                             !.hurried = @ \/ (/\ offset > reader.offset
                                              /\ reader.offset + reader.limit > reader.reach)]

Buttons == reader.filled /\ ~reader.error

(* Broken variant: the offset of the second page is one too large. *)
NextPageOffByOne ==
  /\ Buttons /\ reader.offset + reader.limit < reader.total
  /\ TurnTo(reader.offset + reader.limit + 1)

NextPage ==
  /\ Buttons /\ reader.offset + reader.limit < reader.total
  /\ TurnTo(reader.offset + reader.limit)

PreviousPage ==
  /\ Buttons /\ reader.offset > 0
  /\ TurnTo(Max({0, reader.offset - reader.limit}))

HistoryNext ==
  OpenHistory \/ CountRows \/ ListRows \/ PageFails \/ Refresh \/ NextPage \/ PreviousPage

-----------------------------------------------------------------------------
(* Turning the pages skips nothing: of the rows that were there when the   *)
(* reader began he has seen all that come before the end of the last page  *)
(* that appeared, whatever is inserted or dropped, and however often he    *)
(* goes back, meanwhile (query.go:97-111).  Not covered: who turns a page  *)
(* before it appeared, the buttons being those of the page before          *)
(* (swr.ts:73), and a limit in the URL beyond the rows of a page, by which *)
(* the offset is moved all the same (HistoryClient.tsx:14, query.go:97).   *)
PagesSkipNothing ==
  ~reader.hurried /\ reader.limit <= MaxPage =>
    \A e \in (reader.began \cap rows) \ reader.read : Position(rows, e) > reader.reach
=============================================================================
