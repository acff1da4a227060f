SPECIFICATION FairSpec
CONSTANTS
  Scenarios <- Usual
  HelloTries = 2
  Tries = 3
  MaxLosses = 1
INVARIANTS TypeOK KeysAgree InitiatorIsLast NeverCrashes
PROPERTIES AlwaysReturns LossIsRepaired
CHECK_DEADLOCK FALSE
