SPECIFICATION Spec
CONSTANTS
  Texts <- MCTexts
  Empty <- MCEmpty
  Blanks <- MCBlanks
  Norm <- MCNorm
  Marked <- MCMarked
  Strip <- MCStrip
  Notices <- MCNotices
  ToolIds <- MCToolIds
  NoTool <- MCNoTool
  RuleHits <- MCRuleHits
  Requests = {r1, r2}
  Inputs <- OverrideInputs
  FailClosed = TRUE
  RuleEnabled = TRUE
  BypassEnabled = TRUE
  CacheSize = 2
  AuditFails = FALSE
PROPERTIES
  BypassSanitizesVerdicts
SYMMETRY Symmetry
