---------------------------- MODULE StepExecutor ----------------------------
(***************************************************************************)
(* StepExecutor.execute (src/application/executor/step_executor.py): one   *)
(* thread walks the steps of one scenario.  A step that fails is retried,  *)
(* left by a goto, or ends the execution, as its on_error rules say.       *)
(*                                                                         *)
(* Indices count from 1.  A visit of a step lasts from the arrival of      *)
(* index at it until index is assigned again; its retries are one visit.   *)
(* No handler of the application returns None, so that error is left out.  *)
(***************************************************************************)
EXTENDS StepHandlers, FiniteSetsExt

CONSTANTS
  Scenarios,   \* the scenarios that may be executed
  WithBrowser, \* whoever builds the registry knows of the browser handler
  NoRule       \* no on_error rule applies

ASSUME BrowserAssumption == WithBrowser \in BOOLEAN
ASSUME ScenariosAssumption == Scenarios \subseteq Seq(StepSet)
ASSUME NoRuleAssumption == NoRule \notin RuleSet

VARIABLES
  scenario, \* the steps
  pc,       \* where execute is
  index,    \* the step it is at
  retries,  \* retry_counts; 0 where it has no entry
  ctx,      \* the RunContext
  outcome,  \* what the handler returned
  result,   \* the ExecutionResult
  attempts, \* history: calls of the handler in this visit
  waits,    \* history: the backoffs slept in this visit
  passed,   \* history: the steps whose last visit ended ok
  jumped    \* history: the steps a goto passed over

machine == <<scenario, pc, index, retries, ctx, outcome, result>>
history == <<attempts, waits, passed, jumped>>
executor == <<machine, history>>

Messages == {"none", "step", "goto_missing", "goto_not_found"}
ResultSet == [ok: BOOLEAN, step: Ids \cup {NoId}, message: Messages]
NoResult == [ok |-> FALSE, step |-> NoId, message |-> "none"]

Init ==
  /\ scenario \in Scenarios
  /\ pc = "loop"
  /\ index = 1
  /\ retries = [id \in Ids |-> 0]
  /\ ctx = NewContext
  /\ outcome = "none"
  /\ result = NoResult
  /\ attempts = 0
  /\ waits = <<>>
  /\ passed = {}
  /\ jumped = {}

-----------------------------------------------------------------------------
(* Lookups *)

Positions == 1..Len(scenario)
Current == scenario[index]
Enabled(step) == step.enabled # "false"

\* A browser step enabled by truth value, whereas the executor skips a step
\* only if its enabled is False.
NeedsBrowser ==
  \E i \in Positions : scenario[i].kind = "browser" /\ scenario[i].enabled = "true"

\* Mutant: the browser handler is registered in any case.
HasHandler_Always(step) == TRUE

\* The API registers a browser handler only if one is needed, the command
\* line never does.
HasHandler(step) == step.kind = "browser" => WithBrowser /\ NeedsBrowser

\* Mutant: positions are taken to count from 0.
IndexOf_Before(id) == Max({i \in Positions : scenario[i].id = id}) - 1

\* step_index_by_id keeps the last of the steps that share an id.
IndexOf(id) == Max({i \in Positions : scenario[i].id = id})
Known(id) == \E i \in Positions : scenario[i].id = id

\* _select_on_error_rule: the first rule whose condition holds, else the
\* first fallback.
Applies(i) == Current.rules[i].when # NoExpr /\ Holds(Current.rules[i].when, ctx)
Applying == {i \in DOMAIN Current.rules : Applies(i)}
Fallbacks == {i \in DOMAIN Current.rules : Current.rules[i].when = NoExpr}

SelectedRule ==
  IF Applying # {} THEN Current.rules[Min(Applying)]
  ELSE IF Fallbacks # {} THEN Current.rules[Min(Fallbacks)]
  ELSE NoRule

SelectionRaises ==
  \E i \in DOMAIN Current.rules :
    Current.rules[i].when = Malformed /\ \A j \in 1..(i - 1) : ~Applies(j)

\* Mutant: a step is retried only if a rule says so.
DefaultAction_Abort == "abort"

DefaultAction == IF Current.max > 0 THEN "retry" ELSE "abort"

Action ==
  IF SelectedRule = NoRule \/ SelectedRule.action = "none"
    THEN DefaultAction
    ELSE SelectedRule.action

\* Mutant: the schedule is read one too late.
Backoff_Late(step, n) ==
  IF step.backoff = <<>> THEN 0
  ELSE Max({0, step.backoff[Min({n + 2, Len(step.backoff)})]})

\* The seconds slept before retry n + 1.
Backoff(step, n) ==
  IF step.backoff = <<>> THEN 0
  ELSE Max({0, step.backoff[Min({n + 1, Len(step.backoff)})]})

-----------------------------------------------------------------------------
(* One turn of the loop *)

AtStep == pc = "loop" /\ index \in Positions
HandlerFailed == pc = "handled" /\ outcome = "failed" /\ ~SelectionRaises

\* Mutant: the retry count of the step left behind stays.
Pop_Keeps == retries
Pop == [retries EXCEPT ![Current.id] = 0]

Arrive(i) ==
  /\ index' = i
  /\ pc' = "loop"
  /\ outcome' = "none"
  /\ attempts' = 0
  /\ waits' = <<>>

End(res) ==
  /\ pc' = "ended"
  /\ result' = res
  /\ UNCHANGED <<scenario, index, ctx, outcome, history>>

FailedResult(message) == [ok |-> FALSE, step |-> Current.id, message |-> message]

Raise == pc' = "raised"

\* Mutant: a disabled step is skipped without going on to the next.
Skip_Stays ==
  /\ AtStep
  /\ ~Enabled(Current)
  /\ Arrive(index)
  /\ UNCHANGED <<scenario, retries, ctx, result, passed, jumped>>

Skip ==
  /\ AtStep
  /\ ~Enabled(Current)
  /\ Arrive(index + 1)
  /\ UNCHANGED <<scenario, retries, ctx, result, passed, jumped>>

Handle ==
  /\ AtStep
  /\ Enabled(Current)
  /\ \E end \in (IF HasHandler(Current) THEN Handled(Current, ctx) ELSE {Raised(ctx)}) :
       /\ ctx' = end.ctx
       /\ outcome' = end.outcome
       /\ IF end.outcome = "raised" THEN Raise ELSE pc' = "handled"
  /\ attempts' = attempts + 1
  /\ UNCHANGED <<scenario, index, retries, result, waits, passed, jumped>>

\* Mutant: a failed step without rules is passed.
Advance_OnFailure ==
  /\ pc = "handled"
  /\ outcome = "ok" \/ Current.rules = <<>>
  /\ retries' = Pop
  /\ passed' = IF outcome = "ok" THEN passed \cup {index} ELSE passed
  /\ jumped' = jumped \ {index}
  /\ Arrive(index + 1)
  /\ UNCHANGED <<scenario, ctx, result>>

Advance ==
  /\ pc = "handled"
  /\ outcome = "ok"
  /\ retries' = Pop
  /\ passed' = passed \cup {index}
  /\ jumped' = jumped \ {index}
  /\ Arrive(index + 1)
  /\ UNCHANGED <<scenario, ctx, result>>

SelectRaises ==
  /\ pc = "handled"
  /\ outcome = "failed"
  /\ SelectionRaises
  /\ Raise
  /\ UNCHANGED <<scenario, index, retries, ctx, outcome, result, history>>

\* Mutant: one retry too many.
MayRetry_OneMore == retries[Current.id] <= Current.max
Counted == [retries EXCEPT ![Current.id] = @ + 1]

MayRetry == retries[Current.id] < Current.max

Retry ==
  /\ HandlerFailed
  /\ Action = "retry"
  /\ MayRetry
  /\ retries' = Counted
  /\ waits' = Append(waits, Backoff(Current, retries[Current.id]))
  /\ pc' = "loop"
  /\ outcome' = "none"
  /\ UNCHANGED <<scenario, index, ctx, result, attempts, passed, jumped>>

GiveUp ==
  /\ HandlerFailed
  /\ Action = "retry"
  /\ ~MayRetry
  /\ End(FailedResult("step"))
  /\ UNCHANGED retries

Goto ==
  /\ HandlerFailed
  /\ Action = "goto"
  /\ SelectedRule.target # NoId
  /\ Known(SelectedRule.target)
  /\ retries' = Pop
  /\ LET to == IndexOf(SelectedRule.target) IN
       /\ Arrive(to)
       /\ passed' = {i \in passed : i < to} \ {index}
       /\ jumped' = {i \in jumped : i < to} \cup (index..(to - 1))
  /\ UNCHANGED <<scenario, ctx, result>>

GotoNowhere ==
  /\ HandlerFailed
  /\ Action = "goto"
  /\ retries' = Pop
  /\ \/ /\ SelectedRule.target = NoId
        /\ End(FailedResult("goto_missing"))
     \/ /\ SelectedRule.target # NoId
        /\ ~Known(SelectedRule.target)
        /\ End(FailedResult("goto_not_found"))

Abort ==
  /\ HandlerFailed
  /\ Action = "abort"
  /\ retries' = Pop
  /\ End(FailedResult("step"))

Finish ==
  /\ pc = "loop"
  /\ index \notin Positions
  /\ End([ok |-> TRUE, step |-> NoId, message |-> "none"])
  /\ UNCHANGED retries

Next ==
  \/ Skip \/ Handle \/ Advance \/ SelectRaises
  \/ Retry \/ GiveUp \/ Goto \/ GotoNowhere \/ Abort \/ Finish

Spec == Init /\ [][Next]_executor

\* Handlers return: their requests and browser actions have timeouts.
FairSpec == Spec /\ WF_executor(Next)

-----------------------------------------------------------------------------
(* Correctness *)

\* Every variable of execute keeps its type.
TypeOK ==
  /\ scenario \in Scenarios
  /\ pc \in {"loop", "handled", "ended", "raised"}
  /\ index \in 1..(Len(scenario) + 1)
  /\ retries \in [Ids -> Nat]
  /\ ctx \in Contexts
  /\ outcome \in {"none", "ok", "failed", "raised"}
  /\ result \in ResultSet
  /\ attempts \in Nat
  /\ waits \in Seq(Nat)
  /\ passed \subseteq Positions
  /\ jumped \subseteq Positions

Budget(step) == IF step.max > 0 THEN step.max ELSE 0

\* No retry count outlives the visit it was counted in, whatever gotos do and
\* even where steps share an id: at any point of the loop the step it is at
\* has as many retries counted as it has had failed attempts in this visit,
\* every other step none.
CountersFollowVisits ==
  pc \in {"loop", "handled"} =>
    \A id \in Ids :
      retries[id] =
        IF index \notin Positions \/ id # Current.id THEN 0
        ELSE IF pc = "handled" THEN attempts - 1 ELSE attempts

\* In one visit a handler is called at most once more than its step's
\* retry.max: a request that fails is not sent more often than that.
RetriesAreBounded ==
  index \in Positions => attempts <= 1 + Budget(Current)

\* A failed execution names an enabled step that failed, and one that ended
\* for want of retries had used all the retries of its step in this visit.
FailureIsJust ==
  pc = "ended" /\ ~result.ok =>
    /\ index \in Positions
    /\ Enabled(Current)
    /\ result.step = Current.id
    /\ outcome = "failed"
    /\ Action = "retry" => attempts = 1 + Budget(Current)

\* Success means that every enabled step was passed on its last visit or lies
\* behind a goto that jumped over it: no failure is swallowed on the way.
SuccessIsEarned ==
  pc = "ended" /\ result.ok =>
    \A i \in Positions : Enabled(scenario[i]) => i \in passed \cup jumped

\* "If the backoff array is shorter than retries, the last value is reused",
\* docs/NextAction.md:333; a negative one does not sleep.
BackoffIsReused ==
  index \in Positions =>
    \A i \in DOMAIN waits :
      LET schedule == Current.backoff IN
      waits[i] =
        IF schedule = <<>> THEN 0
        ELSE LET value == IF i <= Len(schedule) THEN schedule[i] ELSE schedule[Len(schedule)]
             IN IF value < 0 THEN 0 ELSE value

Done == pc \in {"ended", "raised"}

\* All gotos lead on.
Forward ==
  \A i \in Positions : \A k \in DOMAIN scenario[i].rules :
    LET rule == scenario[i].rules[k] IN
    rule.action = "goto" /\ Known(rule.target) => IndexOf(rule.target) > i

\* A scenario whose gotos all lead on comes to an end, however its steps fail.
ForwardScenariosEnd == Forward ~> Done

\* Only gotos can keep a scenario from ending: retries, which a goto resets,
\* cannot do so alone.
EndsOrJumps == <>Done \/ []<><<Goto>>_executor

-----------------------------------------------------------------------------
(* What the scenario says, as ScenarioWalk states it *)

EndOf ==
  IF pc = "raised" THEN "raised"
  ELSE IF pc # "ended" THEN "no"
  ELSE IF result.ok THEN "ok" ELSE "failed"

Walk == INSTANCE ScenarioWalk WITH
  steps <- scenario, at <- index, tries <- attempts, end <- EndOf, blame <- result.step

\* The executor, with its retry counts by id, its index by id and its choice
\* among rules, goes only where the steps at hand let it go.
ImplementsWalk == Walk!Spec

-----------------------------------------------------------------------------
(* What the documents say *)

\* "css command returns empty string/list when no match is found (not a
\* failure)", docs/NextAction.md:647.
CssMissIsNoFailure ==
  pc = "handled" /\ Current.kind = "scrape" /\ Current.arg = "css" /\ attempts = 1 =>
    ~(outcome = "failed" /\ ctx.saved[Current.id] = "missed")

\* "Use on_error rules to handle HTTP failures", docs/NextAction.md:475, by the
\* status of the response: an http step whose response one of its rules is
\* about is not passed as a success.
HttpFailuresAreHandled ==
  pc = "handled" /\ Current.kind = "http" /\ Current.arg = "last" /\ outcome = "ok" =>
    Applying = {}
=============================================================================
