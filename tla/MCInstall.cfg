SPECIFICATION Spec
CONSTANTS
  MaxPairs = 3
  MaxFaults = 3
INVARIANTS
  ServedCertTrusted
  ServedKeyMatches
  TrustedOnce
