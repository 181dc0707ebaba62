---------------------------- MODULE ScenarioWalk ----------------------------
(***************************************************************************)
(* What the steps of a scenario allow their execution to do (retry and     *)
(* on_error of a step, as StepExecutor.execute reads them): a walk along   *)
(* the list, with the tries, the gotos and the ends each step allows.      *)
(*                                                                         *)
(* Nothing is said of contexts, conditions or handlers: which of the rules *)
(* of a step applies to a failure is left open, and so is whether a try    *)
(* succeeds.  There are no retry counts by id and no index by id, with     *)
(* which the executor keeps to this.                                       *)
(***************************************************************************)
EXTENDS Integers, Sequences

CONSTANTS
  NoExpr, \* a rule without expr: a fallback
  NoId    \* no step

VARIABLES
  steps, \* the list of steps
  at,    \* where the walk is: a place, or behind the last one
  tries, \* how often the step there has been tried in this visit
  end,   \* how the walk ended: "no", "ok", "failed" or "raised"
  blame  \* the id of the step it failed at

walk == <<steps, at, tries, end, blame>>

Places == 1..Len(steps)
Here == steps[at]
On(step) == step.enabled # "false"

Init ==
  /\ at = 1
  /\ tries = 0
  /\ end = "no"
  /\ blame = NoId

-----------------------------------------------------------------------------
(* What a step allows after a failed try *)

RulesOf(step) == {step.rules[k] : k \in DOMAIN step.rules}
Declares(step, action) == \E rule \in RulesOf(step) : rule.action = action

\* No rule may apply, or one that names no action.
IsOpen(step) ==
  Declares(step, "none") \/ \A rule \in RulesOf(step) : rule.when # NoExpr

AllowsRetry(step) == Declares(step, "retry") \/ (IsOpen(step) /\ step.max > 0)
AllowsAbort(step) == Declares(step, "abort") \/ (IsOpen(step) /\ step.max <= 0)
Targets(step) == {rule.target : rule \in {r \in RulesOf(step) : r.action = "goto"}}
Exists(id) == \E i \in Places : steps[i].id = id

-----------------------------------------------------------------------------
Walking == end = "no" /\ at \in Places
Tried == Walking /\ tries > 0

\* The first try needs no leave; each further one is a retry, of which there
\* are at most max.
MayTry ==
  /\ Walking
  /\ On(Here)
  /\ tries = 0 \/ (AllowsRetry(Here) /\ tries <= Here.max)

GoTo(place) == at' = place /\ tries' = 0 /\ UNCHANGED <<steps, end, blame>>
EndAs(how) == end' = how /\ UNCHANGED <<steps, at>>

Try ==
  /\ MayTry
  /\ tries' = tries + 1
  /\ UNCHANGED <<steps, at, end, blame>>

\* A step is left behind if it was tried, or is off.
Pass ==
  /\ Walking
  /\ On(Here) <=> tries > 0
  /\ GoTo(at + 1)

Jump ==
  /\ Tried
  /\ \E place \in Places : steps[place].id \in Targets(Here) /\ GoTo(place)

\* All retries are used, the step says abort, or a goto leads nowhere.
Fail ==
  /\ Tried
  /\ \/ AllowsAbort(Here)
     \/ AllowsRetry(Here) /\ tries > Here.max
     \/ \E id \in Targets(Here) : ~Exists(id)
  /\ EndAs("failed")
  /\ blame' = Here.id
  /\ UNCHANGED tries

\* An exception, in a try or in the evaluation of a rule after one.
Raise ==
  /\ EndAs("raised")
  /\ UNCHANGED blame
  /\ \/ MayTry /\ tries' = tries + 1
     \/ Tried /\ UNCHANGED tries

Succeed ==
  /\ end = "no"
  /\ at \notin Places
  /\ EndAs("ok")
  /\ UNCHANGED <<tries, blame>>

Next == Try \/ Pass \/ Jump \/ Fail \/ Raise \/ Succeed

Spec == Init /\ [][Next]_walk
=============================================================================
