SPECIFICATION FairLocalSpec
CONSTANTS
  Ids = {"a", "b", "c", "d", "unknown"}
  Statuses = {200, 401, 500}
  NoResponse = NoResponse
  NoExpr = NoExpr
  Malformed = Malformed
  NoId = NoId
  NoRule = NoRule
  NoMerge = NoMerge
  Absent = Absent
  Null = Null
  NoFile = NoFile
  Unparsable = Unparsable
  WithBrowser = FALSE
  Scenarios <- Loadable
  Files <- Directory
  Parsed <- Parser
  Commands <- CommandLines
  Pages <- SomePages
CHECK_DEADLOCK FALSE
INVARIANT RepeatedNamesAreSent
