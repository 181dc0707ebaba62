---------------------------- MODULE MCScenarioRun ----------------------------
(* Instances of ScenarioRun for TLC.                                        *)
EXTENDS ScenarioRun, MCStepExecutor

\* Scenarios with browser steps, on and off, around a step that may end the
\* run in every way.
BrowserScenarios ==
  {<<first, step, last>> :
     first \in {Plain("a", "http", "last"), Plain("a", "browser", "other"),
                Disabled(Plain("a", "browser", "other"))},
     step \in {Plain("b", "scrape", "css"), Assertion("b", <<Malformed>>, <<>>),
               Assertion("b", <<Is200>>, Else("retry")),
               With(Plain("b", "http", "last"), 1, <<>>, <<>>),
               With(Plain("b", "log", "other"), 0, <<>>, <<Rule(NoExpr, "goto", "c")>>),
               With(Plain("b", "log", "other"), 0, <<>>, <<Rule(NoExpr, "goto", "a")>>)},
     last \in {Plain("c", "result", "other"), Plain("c", "browser", "other"),
               [Plain("c", "browser", "other") EXCEPT !.enabled = "null"]}}
=============================================================================
