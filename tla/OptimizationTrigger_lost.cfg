SPECIFICATION Spec
CONSTANTS
  Kinds <- OnlyPerformance
  Period = 4
  ShortPeriod = 3
  RetryPeriod = 2
  MaxRetries = 2
  Rate = {low, high}
  High = {high}
  MaxSignals = 4
INVARIANT OptimizesImmediately
