----------------------------- MODULE MCMonitor ------------------------------
EXTENDS Monitor

(* Quarters of an hour; created_at is read off a clock that shows halves. *)
Day == 96
Start == 15200 * 7 * Day   \* about 2024
MCInstants == {Start, Start + 194, Start + 62 * Day}
MCZones == {-36, 0, 36}

MCClients == Feeds \cup {"history", "overview", "extension", "commands"}
MCFeeds == {"toasts", "packets"}
MCWanted == [f \in Feeds |-> IF f = "toasts" THEN "BLOCK" ELSE AnyDecision]
MCFeedLimit == [f \in Feeds |-> IF f = "toasts" THEN 1 ELSE 2]
=============================================================================
