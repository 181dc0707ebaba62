-------------------------- MODULE ExecutionOutcome --------------------------
(* ExecutionOutcome of src/api/main.py: what one execution of a scenario    *)
(* comes to, as far as the run API and its clients tell outcomes apart.     *)

\* ctx.result and an error message.
Results == {"none", "value"}
Errors == {"none", "message"}

\* Also the body of a 200 response.
OutcomeSet == [success: BOOLEAN, result: Results, error: Errors]
Succeeded == [success |-> TRUE, result |-> "value", error |-> "none"]
StepFailed == [success |-> FALSE, result |-> "value", error |-> "message"]
\* An exception before the RunContext exists: an unknown secret_ref, or a
\* browser that does not start.
BuildRaised == [success |-> FALSE, result |-> "none", error |-> "message"]
NoOutcome == [success |-> FALSE, result |-> "none", error |-> "none"]
=============================================================================
