SPECIFICATION FairSpec
CONSTANTS
  Texts <- MCTexts
  Empty <- MCEmpty
  Blanks <- MCBlanks
  Norm <- MCNorm
  Marked <- MCMarked
  Strip <- MCStrip
  Notices <- MCNotices
  ToolIds <- MCToolIds
  NoTool <- MCNoTool
  RuleHits <- MCRuleHits
  Requests = {r1, r2}
  Inputs <- OpenInputs
  FailClosed = FALSE
  RuleEnabled = TRUE
  BypassEnabled = TRUE
  CacheSize = 0
  AuditFails = TRUE
PROPERTIES
  EveryRequestEnds
