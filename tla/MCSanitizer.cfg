SPECIFICATION SanitizerSpec
CONSTANTS
  Texts <- MCTexts
  Empty <- MCEmpty
  Blanks <- MCBlanks
  Norm <- MCNorm
  Marked <- MCMarked
  Strip <- MCStrip
  Notices <- MCNotices
  ToolIds <- MCToolIds
  NoTool <- MCNoTool
  Inputs <- MCInputs
  MaxMiddle = 2
INVARIANTS
  ReturnsSanitized
  ExactlySensitiveLost
  FailsOnlyAtStart
CHECK_DEADLOCK FALSE
