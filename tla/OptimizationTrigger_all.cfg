SPECIFICATION FairSpec
CONSTANTS
  Kinds <- AllKinds
  Period = 4
  ShortPeriod = 3
  RetryPeriod = 2
  MaxRetries = 2
  Rate = {low, high}
  High = {high}
  MaxSignals = 4
INVARIANTS TypeOK NoLostWakeup RetryBudget
PROPERTIES Paced KeepsOptimizing
