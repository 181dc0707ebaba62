SPECIFICATION FairSpec
CONSTANTS
  r1 = r1
  r2 = r2
  r3 = r3
  w1 = w1
  w2 = w2
  k1 = k1
  NoKey = NoKey
  NoWait = NoWait
  NoRun = NoRun
  Requests = {r1, r2, r3}
  Workers = {w1, w2}
  Keys = {k1}
  MaxWaitSec = 30
  Calls <- LongCalls
  Outcomes <- OneOutcome
  ConsoleFails = TRUE
  MaxRestarts = 0
  MaxLog = 0
CHECK_DEADLOCK FALSE
PROPERTIES CallIsAnswered SubmittedRunEnds EndIsLogged
