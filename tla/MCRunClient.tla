----------------------------- MODULE MCRunClient -----------------------------
(* Instances of RunClient for TLC: the commands each run lets users type.   *)
EXTENDS RunClient

CONSTANTS k1

StepOutcome == {Succeeded, StepFailed}

CallOf(key, wait, scenario) == [key |-> key, wait |-> wait, scenario |-> scenario]

\* run with --wait-sec 30, which answers like start when the wait times out,
\* and without, which runs the scenario in the handler; a start of a run that
\* never ends; and a run of a file that does not load.
Commands ==
  {CallOf(k1, 30, "finite"), CallOf(k1, NoWait, "finite"),
   CallOf(NoKey, 0, "endless"), CallOf(NoKey, NoWait, "unloadable")}
=============================================================================
