SPECIFICATION Spec
CONSTANTS
  r1 = r1
  r2 = r2
  w1 = w1
  k1 = k1
  NoKey = NoKey
  NoWait = NoWait
  NoRun = NoRun
  Requests = {r1, r2}
  Workers = {w1}
  Keys = {k1}
  MaxWaitSec = 30
  Calls <- AllCalls
  Outcomes <- AnyOutcome
  ConsoleFails = FALSE
  MaxRestarts = 1
  MaxLog = 2
CHECK_DEADLOCK FALSE
SYMMETRY Interchangeable
INVARIANTS ConflictIsReal AcceptedIsTracked
PROPERTY ImplementsContract
