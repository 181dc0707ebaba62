---------------------------- MODULE StepHandlers ----------------------------
(***************************************************************************)
(* The step handlers of src/application/handlers, as the set of ends a     *)
(* call handle(step, ctx, deps) may come to.  An end is what the call      *)
(* returned or raised, with the RunContext it leaves behind.               *)
(*                                                                         *)
(* Of a response only its status class and the step that asked for it are  *)
(* kept.  A condition of an assert step or an on_error rule is the set of  *)
(* the status classes it holds for, NoResponse among them where it does    *)
(* not need a response.  The name a step saves under is its own id.        *)
(***************************************************************************)
EXTENDS Integers, Sequences, FiniteSets

CONSTANTS
  Ids,        \* step ids
  Statuses,   \* classes of HTTP status
  NoResponse, \* ctx.last is None
  NoExpr,     \* a rule without expr: a fallback
  Malformed,  \* an expr that is not a string: its evaluation raises
  NoId        \* no goto_step_id

ASSUME NoResponseAssumption ==
  NoResponse \notin Statuses \cup [status: Statuses, by: Ids]
ASSUME NoIdAssumption == NoId \notin Ids

Conditions == SUBSET (Statuses \cup {NoResponse}) \cup {Malformed}

\* A condition, the set of the statuses it holds for, is none of the two others.
ASSUME ConditionsAssumption ==
  \A S \in SUBSET (Statuses \cup {NoResponse}) : S # Malformed /\ S # NoExpr

RuleSet == [when: Conditions \cup {NoExpr},
            action: {"abort", "retry", "goto", "none"},
            target: Ids \cup {NoId}]

Kinds == {"http", "scrape", "assert", "result", "log", "browser"}

\* A loaded step.  enabled may be true, false or null in the file; arg is
\* what the handler of its kind goes by.
StepSet ==
  [id: Ids,
   kind: Kinds,
   arg: {"last", "discard", "hidden_inputs", "css", "label_next_td", "all", "any", "other"},
   conditions: Seq(Conditions),
   fail_fast: BOOLEAN,
   enabled: {"true", "false", "null"},
   max: Int,
   backoff: Seq(Int),
   rules: Seq(RuleSet)]

-----------------------------------------------------------------------------
(* RunContext *)

Responses == [status: Statuses, by: Ids]

Contexts ==
  [last: Responses \cup {NoResponse},
   saved: [Ids -> {"absent", "missed", "found"}], \* vars and state, by step
   result: SUBSET Ids,                            \* the result steps merged
   screenshots: SUBSET Ids]                       \* state[<id>_error_screenshot]

NewContext ==
  [last |-> NoResponse,
   saved |-> [id \in Ids |-> "absent"],
   result |-> {},
   screenshots |-> {}]

Saved(step, ctx, what) == [ctx EXCEPT !.saved[step.id] = what]

StatusOf(ctx) == IF ctx.last = NoResponse THEN NoResponse ELSE ctx.last.status

\* eval_condition, on an expr that is a string.
Holds(condition, ctx) == condition # Malformed /\ StatusOf(ctx) \in condition

-----------------------------------------------------------------------------
(* Ends *)

Ends == [outcome: {"ok", "failed", "raised"}, ctx: Contexts]

Ok(ctx) == [outcome |-> "ok", ctx |-> ctx]
Failed(ctx) == [outcome |-> "failed", ctx |-> ctx]
Raised(ctx) == [outcome |-> "raised", ctx |-> ctx]

\* Any status is a success, and only a response that has been traced and
\* logged becomes ctx.last.  The request may have been sent when it fails.
HandleHttp(step, ctx) ==
  {Failed(ctx)} \cup
  IF step.arg = "last"
    THEN {Ok([ctx EXCEPT !.last = response]) : response \in [status: Statuses, by: {step.id}]}
    ELSE {Ok(ctx)}

\* How a scrape step may save: with which outcome, and what.  Something is
\* logged after the save, and that may raise.  It always does after a css
\* selector found nothing: it calls logger.warning, which no logger has.
\* hidden_inputs may save an empty dict; label_next_td saves what it finds.
Savings(step, ctx) ==
  IF ctx.last = NoResponse THEN {}
  ELSE CASE step.arg = "hidden_inputs" -> {"ok", "failed"} \X {"found", "missed"}
         [] step.arg = "css" -> ({"ok", "failed"} \X {"found"}) \cup {<<"failed", "missed">>}
         [] step.arg = "label_next_td" -> {"ok", "failed"} \X {"found"}
         [] OTHER -> {}

HandleScrape(step, ctx) ==
  {Failed(ctx)} \cup
  {[outcome |-> s[1], ctx |-> Saved(step, ctx, s[2])] : s \in Savings(step, ctx)}

\* The i-th condition is evaluated unless fail_fast has decided before it.
Evaluated(step, ctx, i) ==
  step.fail_fast =>
    \A j \in 1..(i - 1) : Holds(step.conditions[j], ctx) <=> step.arg = "all"

\* The one handler with no try of its own.
HandleAssert(step, ctx) ==
  LET conditions == DOMAIN step.conditions
      holds == {i \in conditions : Holds(step.conditions[i], ctx)}
  IN
  IF step.arg \notin {"all", "any"} THEN {Failed(ctx)}
  ELSE IF \E i \in conditions :
            step.conditions[i] = Malformed /\ Evaluated(step, ctx, i)
    THEN {Raised(ctx)}
  ELSE IF IF step.arg = "all" THEN holds = conditions ELSE holds # {}
    THEN {Ok(ctx)}
  ELSE {Failed(ctx)}

\* All fields are rendered before any is merged; logging them may raise then.
HandleResult(step, ctx) ==
  LET merged == [ctx EXCEPT !.result = @ \cup {step.id}]
  IN {Failed(ctx), Failed(merged), Ok(merged)}

HandleLog(step, ctx) == {Ok(ctx), Failed(ctx)}

\* A failing browser action leaves a screenshot if that succeeds.
HandleBrowser(step, ctx) ==
  {Ok(ctx), Ok(Saved(step, ctx, "found")),
   Failed(ctx), Failed([ctx EXCEPT !.screenshots = @ \cup {step.id}])}

Handled(step, ctx) ==
  CASE step.kind = "http" -> HandleHttp(step, ctx)
    [] step.kind = "scrape" -> HandleScrape(step, ctx)
    [] step.kind = "assert" -> HandleAssert(step, ctx)
    [] step.kind = "result" -> HandleResult(step, ctx)
    [] step.kind = "log" -> HandleLog(step, ctx)
    [] step.kind = "browser" -> HandleBrowser(step, ctx)
=============================================================================
