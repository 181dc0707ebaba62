--------------------------- MODULE MCStepExecutor ---------------------------
(* Instances of StepExecutor for TLC: the scenarios each run executes.     *)
EXTENDS StepExecutor

\* Ids and status classes are strings, so that scenarios read like files.
StepIds == {"a", "b", "c"}
StatusClasses == {"2xx", "401", "5xx"}

\* Conditions: ${last.status}==200, ==401, >=500, and one without operator,
\* which holds whatever it says.
Is200 == {"2xx"}
Is401 == {"401"}
Is5xx == {"5xx"}
Truthy == StatusClasses \cup {NoResponse}

Rule(when, action, target) == [when |-> when, action |-> action, target |-> target]
Else(action) == <<Rule(NoExpr, action, NoId)>>

\* A step with the loader's defaults.
Plain(id, kind, arg) ==
  [id |-> id, kind |-> kind, arg |-> arg, conditions |-> <<>>, fail_fast |-> TRUE,
   enabled |-> "true", max |-> 0, backoff |-> <<>>, rules |-> <<>>]

With(step, max, backoff, rules) ==
  [step EXCEPT !.max = max, !.backoff = backoff, !.rules = rules]

Disabled(step) == [step EXCEPT !.enabled = "false"]

Assertion(id, conditions, rules) ==
  [Plain(id, "assert", "all") EXCEPT !.conditions = conditions, !.rules = rules]

\* The ways a step may be written to deal with its failures.
RetryPlans == {<<0, <<>>>>, <<2, <<1>>>>, <<2, <<-1, 3>>>>, <<-1, <<1>>>>}
RulePlans ==
  {<<>>, Else("abort"), Else("retry"), Else("none"),
   <<Rule(Is5xx, "retry", NoId), Rule(NoExpr, "abort", NoId)>>,
   <<Rule(Is401, "goto", "a"), Rule(NoExpr, "retry", NoId)>>,
   <<Rule(NoExpr, "goto", "b"), Rule(Is5xx, "abort", NoId)>>,
   <<Rule(NoExpr, "goto", NoId)>>, <<Rule(NoExpr, "goto", "c")>>,
   <<Rule(Malformed, "retry", NoId), Rule(NoExpr, "goto", "a")>>}

\* a asks, b deals with what it got in every way, and the third step may have
\* the id of the second, be off or be missing.
Tails ==
  {<<>>, <<Plain("b", "result", "other")>>, <<Disabled(Plain("c", "log", "other"))>>}

Mixed ==
  {<<With(Plain("a", "http", "last"), 1, <<1, 2>>, <<>>),
     With(step, plan[1], plan[2], rules)>> \o tail :
     step \in {Plain("b", "http", "last"), Plain("b", "log", "other")},
     plan \in RetryPlans, rules \in RulePlans, tail \in Tails}

\* One of each kind of step, in each way it may be given.
Handlers ==
  {<<first, step, Plain("c", "result", "other")>> :
     first \in {Plain("a", "http", "last"), Plain("a", "http", "discard"),
                Disabled(Plain("a", "browser", "other"))},
     step \in {Plain("b", kind, "other") : kind \in Kinds}
              \cup {Plain("b", "scrape", arg) : arg \in {"hidden_inputs", "css", "label_next_td"}}
              \cup {[Plain("b", "browser", "other") EXCEPT !.enabled = "null"]}
              \cup {[Assertion("b", conditions, Else("retry"))
                       EXCEPT !.arg = arg, !.fail_fast = fail_fast] :
                      arg \in {"all", "any"}, fail_fast \in BOOLEAN,
                      conditions \in {<<>>, <<Is200, Truthy>>, <<Is401, Malformed>>}}}

\* scenarios/fun_navi_reserve.yaml, without the log and the second assertion,
\* whose condition matches(...) holds for every response.
Reserve ==
  <<With(Plain("login_get", "http", "last"), 1, <<1>>, Else("abort")),
    With(Plain("scrape", "scrape", "hidden_inputs"), 0, <<>>, Else("abort")),
    With(Plain("login_post", "http", "last"), 1, <<1>>,
         <<Rule(Is5xx, "retry", NoId), Rule(NoExpr, "abort", NoId)>>),
    Assertion("assert_login", <<Is200>>, Else("abort")),
    With(Plain("reserve_post", "http", "last"), 2, <<1, 3>>,
         <<Rule(Is401, "goto", "login_get"), Rule(Is5xx, "retry", NoId),
           Rule(NoExpr, "abort", NoId)>>),
    With(Plain("extract", "scrape", "label_next_td"), 0, <<>>, Else("abort")),
    Plain("result", "result", "other")>>

ReserveIds == {Reserve[i].id : i \in DOMAIN Reserve}

AllScenarios == Mixed \cup Handlers
OneScenario == {Reserve}
=============================================================================
