SPECIFICATION Spec
CONSTANTS
  Texts <- MCTexts
  Empty <- MCEmpty
  Blanks <- MCBlanks
  Norm <- MCNorm
  Marked <- MCMarked
  Strip <- MCStrip
  Notices <- MCNotices
  ToolIds <- MCToolIds
  NoTool <- MCNoTool
  Typed <- MCTyped
  ToolTurns <- MCToolTurns
  Replies <- MCReplies
  Notice <- MCNotice
  Sensitive <- MCSensitive
  Outages <- MCOutages
  MaxTurns = 4
INVARIANT MarkerNeverSeen
