SPECIFICATION FairClientSpec
CONSTANTS
  r1 = r1
  r2 = r2
  w1 = w1
  k1 = k1
  NoKey = NoKey
  NoWait = NoWait
  NoRun = NoRun
  Requests = {r1, r2}
  Workers = {w1}
  Keys = {k1}
  MaxWaitSec = 30
  Calls <- Commands
  Outcomes <- StepOutcome
  ConsoleFails = TRUE
  MaxRestarts = 1
  MaxLog = 2
CHECK_DEADLOCK FALSE
INVARIANTS ClientTypeOK ExitTellsEnd ExitZeroOncePerKey AtMostOnce LogFollowsLifecycle
PROPERTIES RunLifecycle PollsMoveForward CommandsEnd
