SPECIFICATION Spec
CONSTANTS
  Texts <- MCTexts
  Empty <- MCEmpty
  Blanks <- MCBlanks
  Norm <- MCNorm
  Marked <- MCMarked
  Strip <- MCStrip
  Notices <- MCNotices
  ToolIds <- MCToolIds
  NoTool <- MCNoTool
  RuleHits <- MCRuleHits
  Requests = {r1, r2}
  Inputs <- AllInputs
  FailClosed = TRUE
  RuleEnabled = TRUE
  BypassEnabled = TRUE
  CacheSize = 2
  AuditFails = FALSE
INVARIANTS
  TypeOK
  NoUnvettedEgress
  NoRuleSecretEgress
  RefusedIsNeverSent
  AuditAgrees
  ForwardedIsUsable
  CacheSound
PROPERTIES
  KeepsGatePromise
  InspectionSanitizesVerdicts
SYMMETRY Symmetry
