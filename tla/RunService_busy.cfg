SPECIFICATION Spec
CONSTANTS
  r1 = r1
  r2 = r2
  r3 = r3
  w1 = w1
  w2 = w2
  k1 = k1
  NoKey = NoKey
  NoWait = NoWait
  NoRun = NoRun
  Requests = {r1, r2, r3}
  Workers = {w1, w2}
  Keys = {k1}
  MaxWaitSec = 30
  Calls <- BusyCalls
  Outcomes <- AnyOutcome
  ConsoleFails = FALSE
  MaxRestarts = 0
  MaxLog = 2
CHECK_DEADLOCK FALSE
SYMMETRY Interchangeable
INVARIANTS TypeOK OneRunPerKey AnswerTellsOutcome AnsweredLogIsComplete NoTaskLost
PROPERTY ImplementsContract
