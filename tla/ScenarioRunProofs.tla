------------------------- MODULE ScenarioRunProofs --------------------------
(***************************************************************************)
(* The safety properties of ScenarioRun, proved for every scenario on top  *)
(* of the invariant of StepExecutor.                                       *)
(***************************************************************************)
EXTENDS ScenarioRun, StepExecutorProofs

-----------------------------------------------------------------------------
(* The inductive invariant *)

\* The executor has not begun before the components are built.
BuildComesFirst ==
  stage \in {"build", "launch"} => ~built /\ pc = "loop" /\ browser = "none"

\* A browser is launched only if one is needed.
LaunchIsNeeded == stage = "launch" => NeedsBrowser

\* It walks with its components built, the browser among them if needed.
WalksBuilt ==
  stage = "execute" => built /\ browser = IF NeedsBrowser THEN "open" ELSE "none"

\* Handlers return while the executor walks only, and a browser step has a
\* handler only if a browser was asked for.
HandlersAreRegistered ==
  pc = "handled" =>
    /\ stage = "execute"
    /\ Current.kind = "browser" => NeedsBrowser

\* What is told is told of a walk that is over, or of a build that failed.
ToldWhenOver ==
  Told => IF built THEN pc \in {"ended", "raised"} ELSE report.code = "exception"

\* A browser is closed last, and orphaned by its constructor only.
BrowserFollowsStages ==
  /\ browser = "open" => stage \in {"execute", "close"}
  /\ browser = "orphaned" => Told /\ ~built
  /\ browser = "closed" => stage = "done"

RunIInv ==
  /\ IInv
  /\ RunTypeOK
  /\ BuildComesFirst
  /\ LaunchIsNeeded
  /\ WalksBuilt
  /\ HandlersAreRegistered
  /\ ToldWhenOver
  /\ BrowserFollowsStages
  /\ ReportIsOutcome

-----------------------------------------------------------------------------
(* The reports *)

LEMMA StatusType ==
  ASSUME TypeOK
  PROVE  StatusOf(ctx) \in Statuses \cup {NoResponse}
BY DEF TypeOK, Contexts, Responses, StatusOf

LEMMA ExceptionReportTells ==
  ASSUME TypeOK, NEW hasContext \in BOOLEAN
  PROVE  /\ ExceptionReport(hasContext) \in ReportSet
         /\ ExceptionReport(hasContext).code = "exception"
         /\ OutcomeOf(ExceptionReport(hasContext)) =
              IF hasContext THEN StepFailed ELSE BuildRaised
<1>1. ExceptionReport(hasContext) \in ReportSet
  BY StatusType DEF ExceptionReport, ReportSet, Codes
<1> QED BY <1>1 DEF ExceptionReport, OutcomeOf, StepFailed, BuildRaised

LEMMA ResultReportTells ==
  ASSUME TypeOK
  PROVE  /\ ResultReport \in ReportSet
         /\ OutcomeOf(ResultReport) = IF result.ok THEN Succeeded ELSE StepFailed
<1>1. result.ok \in BOOLEAN /\ result.step \in Ids \cup {NoId}
  BY DEF TypeOK, ResultSet
<1>2. ResultReport \in ReportSet
  BY <1>1, StatusType DEF ResultReport, ReportSet, Codes
<1> QED BY <1>1, <1>2 DEF ResultReport, OutcomeOf, StepFailed, Succeeded

-----------------------------------------------------------------------------
(* Every step keeps the invariant *)

\* A step that leaves the executor alone leaves its invariant alone.
LEMMA ExecutorRests ==
  ASSUME RunIInv, UNCHANGED executor
  PROVE  /\ IInv' /\ TypeOK'
         /\ NeedsBrowser' = NeedsBrowser /\ Current' = Current
         /\ UNCHANGED <<scenario, pc, ctx, result>>
<1>1. UNCHANGED <<scenario, pc, index, ctx, result>>
  BY DEF executor, machine
<1>2. NeedsBrowser' = NeedsBrowser /\ Current' = Current
  BY <1>1 DEF NeedsBrowser, Positions, Current
<1>3. IInv'
  BY StutterKeeps DEF RunIInv
<1> QED BY <1>1, <1>2, <1>3 DEF IInv

LEMMA RunInitHolds == RunInit => RunIInv
<1> SUFFICES ASSUME RunInit PROVE RunIInv
  OBVIOUS
<1>1. IInv /\ TypeOK /\ pc = "loop"
  BY InitHolds DEF RunInit, IInv, Init
<1>2. NoReport \in ReportSet
  BY DEF NoReport, ReportSet, Codes
<1> QED BY <1>1, <1>2 DEF RunInit, RunIInv, RunTypeOK, BuildComesFirst, LaunchIsNeeded, WalksBuilt,
       HandlersAreRegistered, ToldWhenOver, BrowserFollowsStages, ReportIsOutcome, Told

\* A build that raises tells BuildRaised.
LEMMA FailedBuildKeeps ==
  ASSUME RunIInv, stage \in {"build", "launch"}, UNCHANGED <<executor, built>>,
         browser' \in {"none", "orphaned"},
         report' = ExceptionReport(FALSE), stage' = "close"
  PROVE  RunIInv'
<1>1. /\ ~built /\ built \in BOOLEAN /\ pc = "loop" /\ TypeOK
  BY DEF RunIInv, BuildComesFirst, RunTypeOK
<1>2. /\ IInv' /\ TypeOK' /\ pc' = "loop"
  BY <1>1, ExecutorRests
<1>3. /\ report' \in ReportSet /\ report'.code = "exception"
      /\ OutcomeOf(report') = BuildRaised
  BY <1>1, ExceptionReportTells
<1>4. ReportIsOutcome'
  BY <1>1, <1>3 DEF ReportIsOutcome, OutcomeOf
<1> QED BY <1>1, <1>2, <1>3, <1>4 DEF RunIInv, RunTypeOK, BuildComesFirst, LaunchIsNeeded, WalksBuilt,
       HandlersAreRegistered, ToldWhenOver, BrowserFollowsStages, Told

LEMMA BuildKeeps == ASSUME RunIInv, Build \/ Launch PROVE RunIInv'
<1>1. /\ stage \in {"build", "launch"} /\ stage' \in {"launch", "execute"}
      /\ UNCHANGED <<executor, report>>
  BY DEF Build, Launch
<1>2. /\ ~built /\ pc = "loop" /\ browser = "none" /\ built \in BOOLEAN
      /\ report \in ReportSet
  BY <1>1 DEF RunIInv, BuildComesFirst, RunTypeOK
<1>3. IInv' /\ TypeOK' /\ pc' = "loop" /\ NeedsBrowser' = NeedsBrowser
  BY <1>1, <1>2, ExecutorRests
<1>4. ~Told' 
  BY <1>1 DEF Told
<1>5. stage = "launch" => NeedsBrowser
  BY DEF RunIInv, LaunchIsNeeded
<1> QED BY <1>1, <1>2, <1>3, <1>4, <1>5 DEF Build, Launch, RunIInv, RunTypeOK, BuildComesFirst,
       WalksBuilt, HandlersAreRegistered, ToldWhenOver, BrowserFollowsStages, ReportIsOutcome,
       LaunchIsNeeded
LEMMA ExecuteKeeps == ASSUME RunIInv, Execute PROVE RunIInv'
<1>1. /\ stage = "execute" /\ Next /\ UNCHANGED <<stage, browser, built, report>>
  BY DEF Execute, run
<1>2. IInv' /\ TypeOK'
  BY <1>1, NextKeeps DEF RunIInv, IInv
<1>3. scenario' = scenario
  BY <1>1, ScenarioIsFixed
<1>4. NeedsBrowser' = NeedsBrowser
  BY <1>3 DEF NeedsBrowser, Positions
<1>5. pc' = "handled" => (Current.kind = "browser" => NeedsBrowser)'
  <2> SUFFICES ASSUME pc' = "handled" PROVE (Current.kind = "browser" => NeedsBrowser)'
    OBVIOUS
  <2>1. Handle
    BY <1>1 DEF Next, Skip, Advance, SelectRaises, Retry, GiveUp, Goto, GotoNowhere, Abort,
       Finish, Arrive, End, Raise
  <2>2. UNCHANGED <<scenario, index>>
    BY <2>1 DEF Handle
  <2>3. HasHandler(Current)
    BY <2>1 DEF Handle, Raised, Raise
  <2> QED BY <1>4, <2>2, <2>3 DEF HasHandler, Current
<1> QED BY <1>1, <1>2, <1>4, <1>5 DEF RunIInv, RunTypeOK, BuildComesFirst, LaunchIsNeeded,
       WalksBuilt, HandlersAreRegistered, ToldWhenOver, BrowserFollowsStages, ReportIsOutcome, Told

LEMMA ReportKeeps == ASSUME RunIInv, Report PROVE RunIInv'
<1>1. /\ stage = "execute" /\ stage' = "close" /\ UNCHANGED <<executor, browser, built>>
      /\ \/ pc = "ended" /\ report' = ResultReport
         \/ pc = "raised" /\ report' = ExceptionReport(TRUE)
  BY DEF Report
<1>2. /\ built /\ built \in BOOLEAN /\ TypeOK /\ browser \in {"none", "open"}
  BY <1>1 DEF RunIInv, RunTypeOK, WalksBuilt
<1>3. IInv' /\ TypeOK' /\ UNCHANGED <<pc, result>>
  BY <1>1, ExecutorRests
<1>4. /\ report' \in ReportSet
      /\ OutcomeOf(report') = IF pc = "ended" /\ result.ok THEN Succeeded ELSE StepFailed
  BY <1>1, <1>2, ResultReportTells, ExceptionReportTells
<1>5. ReportIsOutcome'
  BY <1>1, <1>2, <1>3, <1>4 DEF ReportIsOutcome, OutcomeOf
<1> QED BY <1>1, <1>2, <1>3, <1>4, <1>5 DEF RunIInv, RunTypeOK, BuildComesFirst, LaunchIsNeeded,
       WalksBuilt, HandlersAreRegistered, ToldWhenOver, BrowserFollowsStages, Told

\* A step of the executor's bookkeeping apart, closing or none at all.
LEMMA CloseKeeps ==
  ASSUME RunIInv, UNCHANGED <<executor, built, report>>,
         \/ UNCHANGED <<stage, browser>>
         \/ /\ stage = "close" /\ stage' = "done"
            /\ browser' = IF browser = "open" THEN "closed" ELSE browser
  PROVE  RunIInv'
<1>1. /\ IInv' /\ TypeOK' /\ UNCHANGED <<pc, result>>
      /\ NeedsBrowser' = NeedsBrowser /\ Current' = Current
  BY ExecutorRests
<1>2. Told => Told'
  BY DEF Told
<1>3. Told' => Told
  BY DEF Told
<1>4. ReportIsOutcome'
  BY <1>1, <1>3 DEF RunIInv, ReportIsOutcome, OutcomeOf
<1> QED BY <1>1, <1>2, <1>3, <1>4 DEF RunIInv, RunTypeOK, BuildComesFirst, LaunchIsNeeded,
       WalksBuilt, HandlersAreRegistered, ToldWhenOver, BrowserFollowsStages

-----------------------------------------------------------------------------
(* Theorems *)

\* The inductive invariant holds in every state of a run.
THEOREM RunInvariance == RunSpec => []RunIInv
<1>1. RunIInv /\ [RunNext]_vars => RunIInv'
  <2> SUFFICES ASSUME RunIInv, [RunNext]_vars PROVE RunIInv'
    OBVIOUS
  <2>1. CASE BuildRaises
    <3>1. browser = "none"
      BY <2>1 DEF BuildRaises, RunIInv, BuildComesFirst
    <3> QED BY <2>1, <3>1, FailedBuildKeeps DEF BuildRaises
  <2>2. CASE LaunchRaises
    BY <2>2, FailedBuildKeeps DEF LaunchRaises
  <2>3. CASE Close
    BY <2>3, CloseKeeps DEF Close
  <2>4. CASE UNCHANGED vars
    BY <2>4, CloseKeeps DEF vars, run
  <2> QED BY <2>1, <2>2, <2>3, <2>4, BuildKeeps, ExecuteKeeps, ReportKeeps DEF RunNext
<1> QED BY <1>1, RunInitHolds, PTL DEF RunSpec

\* Type correctness of a run.
THEOREM RunTypeCorrect == RunSpec => []RunTypeOK
<1>1. RunIInv => RunTypeOK
  BY DEF RunIInv
<1> QED BY <1>1, RunInvariance, PTL

\* A browser step never runs without a browser, although the builder asks
\* whether enabled is true and the executor whether it is False.
THEOREM BrowserStepsHaveBrowser == RunSpec => []BrowserIsReady
<1>1. RunIInv => BrowserIsReady
  BY DEF RunIInv, HandlersAreRegistered, WalksBuilt, BrowserIsReady
<1> QED BY <1>1, RunInvariance, PTL

\* No browser a run could close outlives it.
THEOREM BrowsersAreClosed == RunSpec => []BrowserIsClosed
<1>1. RunIInv => BrowserIsClosed
  BY DEF RunIInv, BrowserFollowsStages, ToldWhenOver, BrowserIsClosed, Told
<1> QED BY <1>1, RunInvariance, PTL

\* A run tells one of the three outcomes RunService builds on, and tells
\* success of exactly the executions that passed.
THEOREM ReportsAreOutcomes == RunSpec => []ReportIsOutcome
<1>1. RunIInv => ReportIsOutcome
  BY DEF RunIInv
<1> QED BY <1>1, RunInvariance, PTL

\* What _execute_scenario does to the executor is what StepExecutor does on
\* its own: no stage before or after moves it.
THEOREM RunsExecuteSteps == RunSpec => Spec
<1>1. RunInit => Init
  BY DEF RunInit
<1>2. [RunNext]_vars => [Next]_executor
  BY DEF RunNext, BuildRaises, Build, LaunchRaises, Launch, Execute, Report, Close, vars
<1> QED BY <1>1, <1>2, PTL DEF RunSpec, Spec

\* So a run, too, walks its steps as the scenario allows.
THEOREM RunsImplementWalk == RunSpec => ImplementsWalk
BY RunsExecuteSteps, ExecutorImplementsWalk, PTL
=============================================================================
