SPECIFICATION Spec
CONSTANTS
  Signals = TRUE
  Tears = TRUE
  MaxFaults = 3
INVARIANT TypeOK
INVARIANT RestoredIsWhole
INVARIANT Recoverable
INVARIANT SignedOnlySettled
INVARIANT RestoredAtExit
