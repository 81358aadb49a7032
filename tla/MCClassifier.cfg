SPECIFICATION Spec
CONSTANTS
  Keys = {k1, k2, k3, k4}
  Results = {"ALLOW", "BLOCK"}
  Capacity <- MCCapacity
  MaxOps = 6
  Calls = {c1, c2}
INVARIANTS
  ListMatchesMap
  KeepsMostRecent
  HitIsFreshest
  VerdictsAsMeant
SYMMETRY Symmetry
CHECK_DEADLOCK FALSE
