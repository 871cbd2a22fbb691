\* One task whose dispatch fails, succeeds, and fails again after its lease ran out.
CONSTANTS
  t1 = t1
  NoOne = NoOne
  Tasks = {t1}
  Workers = {w1}
  Tickers = {i1}
  LowRisk = {t1}
  Priority <- Urgency
  MaxRetries = 2
  AttemptCap = 2
SPECIFICATION StreakSpec
INVARIANT PausedAfterConsecutive
