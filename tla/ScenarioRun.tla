----------------------------- MODULE ScenarioRun -----------------------------
(***************************************************************************)
(* _execute_scenario (src/api/main.py): the components of a run are built, *)
(* a browser among them if a step needs one, StepExecutor walks the steps, *)
(* the outcome is told and the browser is closed, in this order.  The body *)
(* of the try statement is stages "build" to "execute", its finally is     *)
(* "close".                                                                *)
(***************************************************************************)
EXTENDS StepExecutor, ExecutionOutcome

VARIABLES
  stage,   \* where _execute_scenario is
  browser, \* the Playwright processes of the run
  built,   \* a RunContext exists
  report   \* the ExecutionOutcome returned, with its error_detail

run == <<stage, browser, built, report>>
vars == <<executor, run>>

Codes == {"none", "step_failed", "exception"}
ReportSet ==
  [ok: BOOLEAN, result: {"none", "value"}, code: Codes, step: Ids \cup {NoId},
   last_status: Statuses \cup {NoResponse}]
NoReport ==
  [ok |-> FALSE, result |-> "none", code |-> "none", step |-> NoId,
   last_status |-> NoResponse]

RunInit ==
  /\ Init
  /\ stage = "build"
  /\ browser = "none"
  /\ built = FALSE
  /\ report = NoReport

-----------------------------------------------------------------------------
(* _build_execution_components *)

\* build_from_exception: the result of a run that has none yet is None.
ExceptionReport(hasContext) ==
  [ok |-> FALSE,
   result |-> IF hasContext THEN "value" ELSE "none",
   code |-> "exception",
   step |-> NoId,
   last_status |-> IF hasContext THEN StatusOf(ctx) ELSE NoResponse]

\* An unknown secret_ref, or an artifact directory that cannot be made.
BuildRaises ==
  /\ stage = "build"
  /\ report' = ExceptionReport(FALSE)
  /\ stage' = "close"
  /\ UNCHANGED <<executor, browser, built>>

Build ==
  /\ stage = "build"
  /\ IF NeedsBrowser
       THEN stage' = "launch" /\ UNCHANGED built
       ELSE stage' = "execute" /\ built' = TRUE
  /\ UNCHANGED <<executor, browser, report>>

\* The constructor raises at the import, or after it has started processes,
\* which nobody can close then: browser_client is not assigned.
LaunchRaises ==
  /\ stage = "launch"
  /\ browser' \in {"none", "orphaned"}
  /\ report' = ExceptionReport(FALSE)
  /\ stage' = "close"
  /\ UNCHANGED <<executor, built>>

Launch ==
  /\ stage = "launch"
  /\ browser' = "open"
  /\ built' = TRUE
  /\ stage' = "execute"
  /\ UNCHANGED <<executor, report>>

-----------------------------------------------------------------------------
Execute ==
  /\ stage = "execute"
  /\ Next
  /\ UNCHANGED run

\* Mutant: a failure report without the partial result.
ResultReport_Bare ==
  [ok |-> result.ok,
   result |-> IF result.ok THEN "value" ELSE "none",
   code |-> IF result.ok THEN "none" ELSE "step_failed",
   step |-> result.step,
   last_status |-> StatusOf(ctx)]

ResultReport ==
  [ok |-> result.ok,
   result |-> "value",
   code |-> IF result.ok THEN "none" ELSE "step_failed",
   step |-> result.step,
   last_status |-> IF result.ok THEN NoResponse ELSE StatusOf(ctx)]

Report ==
  /\ stage = "execute"
  /\ \/ pc = "ended" /\ report' = ResultReport
     \/ pc = "raised" /\ report' = ExceptionReport(TRUE)
  /\ stage' = "close"
  /\ UNCHANGED <<executor, browser, built>>

\* Mutant: the browser is closed only after a run that did not raise.
Close_NotOnException ==
  /\ stage = "close"
  /\ browser' = IF browser = "open" /\ report.code # "exception" THEN "closed" ELSE browser
  /\ stage' = "done"
  /\ UNCHANGED <<executor, built, report>>

Close ==
  /\ stage = "close"
  /\ browser' = IF browser = "open" THEN "closed" ELSE browser
  /\ stage' = "done"
  /\ UNCHANGED <<executor, built, report>>

RunNext ==
  BuildRaises \/ Build \/ LaunchRaises \/ Launch \/ Execute \/ Report \/ Close

RunSpec == RunInit /\ [][RunNext]_vars

\* The thread that runs the scenario goes on, and the handlers it calls return.
FairRunSpec == RunSpec /\ WF_vars(RunNext)

-----------------------------------------------------------------------------
(* Correctness *)

\* Every variable of _execute_scenario keeps its type.
RunTypeOK ==
  /\ TypeOK
  /\ stage \in {"build", "launch", "execute", "close", "done"}
  /\ browser \in {"none", "open", "closed", "orphaned"}
  /\ built \in BOOLEAN
  /\ report \in ReportSet

Told == stage \in {"close", "done"}

\* A browser step is handled with a running browser only, although the
\* builder and the executor test step.enabled differently.
BrowserIsReady ==
  pc = "handled" /\ Current.kind = "browser" => browser = "open"

\* When the run is over no browser runs that the run could close; processes
\* are left only by a constructor that failed half-way.
BrowserIsClosed ==
  stage = "done" =>
    /\ browser # "open"
    /\ browser = "orphaned" => ~built /\ report.code = "exception"

\* How RunService sees a report.
OutcomeOf(rep) ==
  [success |-> rep.ok,
   result |-> rep.result,
   error |-> IF rep.ok THEN "none" ELSE "message"]

\* RunService takes every execution to come to one of three outcomes: it
\* does, and success is told of exactly the executions that passed.
ReportIsOutcome ==
  Told =>
    OutcomeOf(report) =
      IF ~built THEN BuildRaised
      ELSE IF pc = "ended" /\ result.ok THEN Succeeded
      ELSE StepFailed

\* A run whose gotos all lead on is over at some time, with its browser closed.
ForwardRunsEnd == Forward ~> (stage = "done" /\ browser # "open")
=============================================================================
