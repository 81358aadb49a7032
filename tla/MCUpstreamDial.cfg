SPECIFICATION Spec
CONSTANTS
  Dials = {d1, d2}
  Names <- MCNames
  Lower <- MCLower
  Undotted <- MCUndotted
  Intercepted = {"api"}
  Loopback <- Home
  Moves <- MCMoves
  Responses <- MCResponses
  Cuts = {0, 3, 20}
  MinTTL = 30
  MaxTTL = 120
  MaxDial = 30
  Step = 30
  MaxTime = 270
SYMMETRY Interchangeable
INVARIANTS
  NeverLoopsBack
  ReadsWhatWasMeant
PROPERTY FollowsTheUpstream
