SPECIFICATION Spec
CONSTANTS
  Second = 2
  Hour = 4
  Retention = 2880
  MaxPage = 2
  MaxBuckets = 10
  Ids = {1, 2, 3}
  Instants <- MCInstants
  Feeds <- MCFeeds
  Wanted <- MCWanted
  FeedLimit <- MCFeedLimit
  PageLimits = {1, 2}
  Zones <- MCZones
  HistoryDecisions = {"BLOCK"}
  Clients <- MCClients
  Polls = {p1, p2}
  Scripts = {s1, s2, s3}
  LogLimit = 1
INVARIANTS
  AnnouncedOnce
  MissedOnlyInBursts
  PagesSkipNothing
  WarnedOnce
  SeriesAddsUp
  NothingAbandoned
