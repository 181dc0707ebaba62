---------------------------- MODULE MCRunService ----------------------------
(* Instances of RunService for TLC: the calls each run lets clients make.  *)
EXTENDS RunServiceInvariant, TLC

CONSTANTS k1

AnyOutcome == {Succeeded, StepFailed, BuildRaised}

\* Which of them a scenario comes to makes no difference to the steps a thread
\* has left: one is enough for progress.
OneOutcome == {StepFailed}

CallOf(key, wait, scenario) == [key |-> key, wait |-> wait, scenario |-> scenario]

\* Every kind of call, with one key.
AllCalls ==
  {CallOf(key, wait, scenario) :
     key \in {k1, NoKey}, wait \in {NoWait, 0, 30, 31}, scenario \in ScenarioKinds}

\* The calls that reach the stores.
BusyCalls ==
  {CallOf(k1, NoWait, "finite"), CallOf(k1, 30, "finite"), CallOf(NoKey, 30, "finite")}

\* A waiting call, one that runs in its handler, and an accepted one whose run
\* never ends.
LongCalls ==
  {CallOf(NoKey, 30, "finite"), CallOf(NoKey, NoWait, "finite"), CallOf(NoKey, 0, "endless")}

\* Two clients using one key.
KeyedCalls == {CallOf(k1, NoWait, "finite"), CallOf(k1, 0, "finite"), CallOf(k1, 30, "finite")}

\* Requests and workers are interchangeable (safety runs only).
Interchangeable == Permutations(Requests) \cup Permutations(Workers)
=============================================================================
