------------------------ MODULE RunServiceInvariant ------------------------
(***************************************************************************)
(* The inductive invariant of RunService: what the handler of a request,   *)
(* its record, its future and the worker that holds it say of each other.  *)
(***************************************************************************)
EXTENDS RunService

\* A busy worker holds one run, whose future is running; no two hold the
\* same.
WorkersHoldRuns ==
  /\ \A w \in Workers :
       IF wpc[w] = "idle"
         THEN job[w] = NoRun
         ELSE job[w] \in Requests /\ future[job[w]] = "running"
  /\ \A v, w \in Workers : job[v] = job[w] /\ job[v] # NoRun => v = w

\* The queue holds pending futures, each once.
QueueHoldsPending ==
  /\ \A i \in 1..Len(queue) : future[queue[i]] = "pending"
  /\ \A i, j \in 1..Len(queue) : queue[i] = queue[j] => i = j

\* A request that has not passed validation has left no trace in the stores.
Unadmitted(r) ==
  /\ pc[r] \in {"idle", "register", "done", "lost"}
  /\ executions[r] = 0
  /\ future[r] = "none"
  /\ runs[r] = NoRecord
  /\ logs[r] = <<>>

\* A request of an earlier process is forgotten by all structures.
Forgotten(r) ==
  /\ pc[r] \in {"done", "lost"}
  /\ executions[r] <= 1
  /\ future[r] = "none"
  /\ runs[r] = NoRecord

InHandlerThread(r) ==
  /\ pc[r] \in {"execute", "done"}
  /\ executions[r] = 1
  /\ future[r] = "none"
  /\ runs[r] = NoRecord

\* The record, the future and the handler of an asynchronous run agree.
Scheduled(r) ==
  /\ pc[r] \in {"create", "submit", "wait", "check", "read", "done"}
  /\ (pc[r] = "create") <=> (runs[r] = NoRecord)
  /\ (pc[r] \in {"create", "submit"}) <=> (future[r] = "none")
  /\ pc[r] = "read" => FutureDone(r)
  /\ future[r] \in {"none", "pending"} => runs[r] \in {NoRecord, NewRecord} /\ logs[r] = <<>>
  /\ executions[r] = IF runs[r].status \in {"absent", "queued"} THEN 0 ELSE 1
  /\ future[r] = "raised" => ConsoleFails

\* Every request is in one of these four conditions.
Consistent(r) ==
  /\ pc[r] \in {"idle", "register"} => admitted[r] = -1
  /\ admitted[r] <= epoch
  /\ admitted[r] >= -1
  /\ admitted[r] = -1 => Unadmitted(r)
  /\ admitted[r] # -1 /\ admitted[r] < epoch => Forgotten(r)
  /\ Current(r) /\ Synchronous(r) => InHandlerThread(r)
  /\ Current(r) /\ ~Synchronous(r) => Scheduled(r)

RequestsAreConsistent == \A r \in Requests : Consistent(r)

\* The record holds exactly the outcome of the execution.
Recorded(r) ==
  /\ Terminal(r)
  /\ BodyOf(runs[r]) = outcome[r]
  /\ outcome[r] # NoOutcome

LogIsComplete(r) ==
  /\ Len(logs[r]) >= 2
  /\ logs[r][1] = "run.start"
  /\ logs[r][Len(logs[r])] = "run.end"

LogIsStarted(r) == Len(logs[r]) >= 1 /\ logs[r][1] = "run.start"

\* Each stage of _execute_async_run finds the record and the log as the stage
\* before left them.
AtStage(stage, r) ==
  /\ stage = "start" => runs[r] = NewRecord /\ logs[r] = <<>>
  /\ stage = "transition" => runs[r] = NewRecord /\ LogIsStarted(r)
  /\ stage = "execute" =>
       /\ runs[r] = [NewRecord EXCEPT !.status = "running"]
       /\ LogIsStarted(r)
  /\ stage = "end" => Recorded(r) /\ LogIsStarted(r)

WorkersAreInStep == \A w \in Workers : AtStage(wpc[w], job[w])

FinishedIsRecorded ==
  \A r \in Requests : future[r] = "finished" => Recorded(r) /\ LogIsComplete(r)

\* What has been answered, and what it was answered from.
Founded(r) ==
  /\ (pc[r] = "done") <=> (reply[r].code # 0)
  /\ Admitted(r) => reply[r].code \in {0, 200, 202, 500}
  /\ Admitted(r) /\ reply[r].code = 202 => ~Synchronous(r)
  /\ Admitted(r) /\ reply[r].code = 500 => Synchronous(r) /\ ConsoleFails
  /\ ~ConsoleFails /\ Admitted(r) /\ reply[r].code = 200 =>
       /\ executions[r] = 1
       /\ outcome[r] # NoOutcome
       /\ reply[r].body = outcome[r]
       /\ Current(r) /\ ~Synchronous(r) => future[r] = "finished"

RepliesAreFounded == \A r \in Requests : Founded(r)

\* The store holds the keys of the requests this process admitted, no others.
KeysHaveOwners ==
  /\ \A r \in Requests : Current(r) /\ call[r].key # NoKey => call[r].key \in keys
  /\ \A k \in keys : \E r \in Requests : call[r].key = k /\ Current(r)

IInv ==
  /\ TypeOK
  /\ WorkersHoldRuns
  /\ QueueHoldsPending
  /\ RequestsAreConsistent
  /\ WorkersAreInStep
  /\ FinishedIsRecorded
  /\ RepliesAreFounded
  /\ KeysHaveOwners
  /\ OneRunPerKey
  /\ ConflictIsReal
=============================================================================
