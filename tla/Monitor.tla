------------------------------ MODULE Monitor -------------------------------
(***************************************************************************)
(* The audit table with one of its readers, which see nothing of each      *)
(* other: a feed, the history page, the overview (which keeps nothing of   *)
(* what it reads) or the polls of the extension; or the commands of the    *)
(* extension, which read nothing of the table.                             *)
(***************************************************************************)
EXTENDS Feed, History, Extension, Launcher

CONSTANTS
  Zones,            \* offsets from UTC
  HistoryDecisions, \* bound: what is decided while the history page is read
  Clients           \* who may be open: a feed, "history", "overview", "extension"
                    \*   or "commands"

ASSUME ZonesAssumption == Zones \subseteq Int

VARIABLE client    \* the one that is open

clientVars == <<feedVars, reader, extensionVars, launcherVars>>
vars == <<storeVars, clientVars, client>>

Init ==
  /\ StoreInit /\ FeedInit /\ HistoryInit /\ ExtensionInit /\ LauncherInit
  /\ client \in Clients

TableStep ==
  /\ client # "commands" /\ StoreNext
  /\ client = "history" => \A e \in writing' : e.decision \in HistoryDecisions
  /\ UNCHANGED <<clientVars, client>>

FeedStep ==
  /\ client \in Feeds /\ FeedNext(client)
  /\ UNCHANGED <<storeVars, reader, extensionVars, launcherVars, client>>

HistoryStep ==
  /\ client = "history" /\ HistoryNext
  /\ UNCHANGED <<storeVars, feedVars, extensionVars, launcherVars, client>>

ExtensionStep ==
  /\ client = "extension" /\ ExtensionNext
  /\ UNCHANGED <<storeVars, feedVars, reader, launcherVars, client>>

LauncherStep ==
  /\ client = "commands" /\ LauncherNext
  /\ UNCHANGED <<storeVars, feedVars, reader, extensionVars, client>>

Next == TableStep \/ FeedStep \/ HistoryStep \/ ExtensionStep \/ LauncherStep

Spec == Init /\ [][Next]_vars

-----------------------------------------------------------------------------
(* The bounds a user may ask for. *)
Asked == {Unbounded} \cup Bounds({t + d : t \in Instants, d \in {0, 1}}, Zones)

SeriesTotal(series, field) == FoldSet(LAMBDA k, n : n + series[k][field], 0, DOMAIN series)

(* The time series holds no event the totals do not count, and all that    *)
(* these count, although they compare the bounds as text and it as times:  *)
(* unless it is cut off at its limit, for any bounds whose text does not   *)
(* reach beyond the time they mean (query.go:143-150, 342-401).  Not       *)
(* covered: a from with a negative and a to with a positive offset, whose  *)
(* totals count more.                                                      *)
SeriesAddsUp ==
  client = "overview" =>
    \A from, to \in Asked :
      LET s == Stats(rows, from, to)
          allow == SeriesTotal(s.series, "allow")
          block == SeriesTotal(s.series, "block")
      IN /\ allow <= s.allowed /\ block <= s.blocked
         /\ from.zone >= 0 /\ to.zone <= 0 /\ Len(s.series) < MaxBuckets =>
              allow = s.allowed /\ block = s.blocked
=============================================================================
