SPECIFICATION FairSpec
CONSTANTS
  UserLines = {"localhost", "intranet"}
  NonAscii = {"intranet"}
  Hosts <- MCHosts
  MaxLines = 4
INVARIANTS
  RedirectHasListener
  OneFreshBlock
  UserLinesKept
  DependentsStopped
  UninstallRestoresNames
PROPERTY EveryStopEnds
CHECK_DEADLOCK FALSE
