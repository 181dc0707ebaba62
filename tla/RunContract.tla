----------------------------- MODULE RunContract -----------------------------
(***************************************************************************)
(* What POST /scenarios/{id}/runs promises its callers, with none of the   *)
(* stores, threads and queues of src/api/main.py that keep the promise.    *)
(*                                                                         *)
(* A request is refused, or admitted if no request admitted since the last *)
(* restart has its key.  An admitted request runs once, at once or later,  *)
(* and is told either that it was accepted or what its run came to.        *)
(***************************************************************************)
CONSTANTS
  Requests, \* the POST requests
  Keys,     \* idempotency keys
  NoKey     \* a request without one

VARIABLES
  key,    \* key[r]: the idempotency key of r, or NoKey
  phase,  \* phase[r]: what has become of r
  answer  \* answer[r]: what its client was told

vars == <<key, phase, answer>>

Ends == {"succeeded", "failed"}
Phases == {"new", "refused", "admitted", "running", "lost"} \cup Ends
Answers == {"none", "refused", "accepted"} \cup Ends

\* Admitted by this process.
Live(r) == phase[r] \in {"admitted", "running"} \cup Ends
Rival(r, s) == r # s /\ key[r] = key[s] /\ key[r] # NoKey

Init ==
  /\ key \in [Requests -> Keys \cup {NoKey}]
  /\ phase = [r \in Requests |-> "new"]
  /\ answer = [r \in Requests |-> "none"]

Move(r, to, told) ==
  /\ phase' = [phase EXCEPT ![r] = to]
  /\ answer' = [answer EXCEPT ![r] = told]
  /\ UNCHANGED key

Refuse(r) ==
  /\ phase[r] = "new"
  /\ answer[r] = "none"
  /\ Move(r, "refused", "refused")

\* A synchronous call is running at once.
Admit(r) ==
  /\ phase[r] = "new"
  /\ answer[r] = "none"
  /\ \A s \in Requests : Rival(r, s) => ~Live(s)
  /\ \E to \in {"admitted", "running"} : Move(r, to, "none")

Start(r) ==
  /\ phase[r] = "admitted"
  /\ Move(r, "running", answer[r])

\* A synchronous call is answered as its run ends.
End(r) ==
  /\ phase[r] = "running"
  /\ \E to \in Ends :
       \/ Move(r, to, answer[r])
       \/ answer[r] = "none" /\ Move(r, to, to)

Accept(r) ==
  /\ Live(r)
  /\ answer[r] = "none"
  /\ Move(r, phase[r], "accepted")

Report(r) ==
  /\ phase[r] \in Ends
  /\ answer[r] = "none"
  /\ Move(r, phase[r], phase[r])

\* The process restarts and forgets what it admitted.
Forget ==
  /\ phase' = [r \in Requests |-> IF Live(r) THEN "lost" ELSE phase[r]]
  /\ UNCHANGED <<key, answer>>

Next ==
  \/ \E r \in Requests :
       Refuse(r) \/ Admit(r) \/ Start(r) \/ End(r) \/ Accept(r) \/ Report(r)
  \/ Forget

Spec == Init /\ [][Next]_vars

-----------------------------------------------------------------------------
\* Every variable keeps its type.
TypeOK ==
  /\ key \in [Requests -> Keys \cup {NoKey}]
  /\ phase \in [Requests -> Phases]
  /\ answer \in [Requests -> Answers]

\* At any time one process has at most one run for a key ("Requests with a
\* reused idempotency_key return HTTP 409", src/api/main.py:200).
OneLivePerKey ==
  \A r, s \in Requests : Rival(r, s) => ~(Live(r) /\ Live(s))

\* An answer that names an end names the end of the caller's own run, or of a
\* run that has been lost in a restart since.
AnswersAreTrue ==
  \A r \in Requests : answer[r] \in Ends => phase[r] \in {answer[r], "lost"}
=============================================================================
