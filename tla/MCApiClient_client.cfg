SPECIFICATION FairClientSpec
CONSTANTS
  w1 = w1 w2 = w2
  Workers <- TwoWorkers
  MaxRetries = 1
  TTL = 6
  Margin = 5
  Slack = 1
  MaxCalls = 1
  MaxTime = 6
CHECK_DEADLOCK FALSE
INVARIANTS ClientInv TokenMatchesExpiry RequestsBearLiveTokens OutcomeIsTrue
PROPERTIES NoEarlySurrender CallsEnd
