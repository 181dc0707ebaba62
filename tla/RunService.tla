----------------------------- MODULE RunService -----------------------------
(***************************************************************************)
(* The run API of WebPost (src/api/main.py) over its four in-memory        *)
(* structures: the idempotency store, the run repository, the run log      *)
(* store and the scheduler (a pool of worker threads over a FIFO queue).   *)
(*                                                                         *)
(* A request is one POST /scenarios/{id}/runs.  FastAPI gives each its own *)
(* handler thread, whose program counter is pc[r]; pool worker w has the   *)
(* program counter wpc[w].  The run_id drawn for a request is a fresh      *)
(* uuid4, so the request itself names its run.  What a scenario's steps do *)
(* is abstracted to the outcome of its execution; ScenarioRun models it.   *)
(***************************************************************************)
EXTENDS Integers, Sequences, FiniteSets, ExecutionOutcome

CONSTANTS
  Requests,     \* the POST requests of the clients
  Workers,      \* the threads of the scheduler's pool (max_workers)
  Keys,         \* idempotency keys
  NoKey,        \* no idempotency_key in the request
  NoWait,       \* no wait_sec in the request
  NoRun,        \* no run in a worker's hands
  MaxWaitSec,   \* MAX_WAIT_SEC
  Calls,        \* the calls clients may make, records of CallSet
  ConsoleFails, \* TRUE when a write of ConsoleLogger may raise
  Outcomes,     \* what an execution may come to
  MaxRestarts,  \* bound: restarts of the process
  MaxLog        \* bound: length of a run's log kept by the model

ScenarioKinds ==
  {"missing",     \* no file: HTTP 404
   "unloadable",  \* the loader raises: 200 with success = false
   "incomplete",  \* a required input is missing, or the key is blank: HTTP 400
   "finite",      \* every execution ends
   "endless"}     \* a goto cycle that never ends

CallSet == [key: Keys \cup {NoKey}, wait: Nat \cup {NoWait}, scenario: ScenarioKinds]

ASSUME CallsAssumption == Calls \subseteq CallSet
ASSUME ConsoleAssumption == ConsoleFails \in BOOLEAN
ASSUME BoundAssumption ==
  /\ MaxWaitSec \in Nat
  /\ MaxRestarts \in Nat
  /\ MaxLog \in Nat
ASSUME NoWaitAssumption == NoWait \notin Nat
ASSUME NoKeyAssumption == NoKey \notin Keys
ASSUME NoRunAssumption == NoRun \notin Requests

-----------------------------------------------------------------------------
(* Data *)

Statuses == {"queued", "running", "succeeded", "failed"}
TerminalStatuses == {"succeeded", "failed"}

ASSUME OutcomesAssumption == Outcomes \subseteq {Succeeded, StepFailed, BuildRaised}

\* A RunRecord; "absent" when the repository has none for the run id.
RecordSet == [status: Statuses \cup {"absent"}, result: Results, error: Errors]
NoRecord == [status |-> "absent", result |-> "none", error |-> "none"]
\* Mutant: a record that skips QUEUED.
NewRecord_Running == [status |-> "running", result |-> "none", error |-> "none"]
NewRecord == [status |-> "queued", result |-> "none", error |-> "none"]

\* HTTP replies; code 0 stands for no reply (yet, or the process died).
Codes == {0, 200, 202, 400, 404, 409, 500}
ReplySet == [code: Codes, body: OutcomeSet]
Reply(code, body) == [code |-> code, body |-> body]
NoReply == Reply(0, NoOutcome)

Events == {"run.start", "run.transition_failed", "step", "run.end"}

RequestPCs == {"idle", "register", "create", "submit", "wait", "check",
               "read", "execute", "done", "lost"}
WorkerPCs == {"idle", "start", "transition", "execute", "end"}
FutureStates == {"none", "pending", "running", "finished", "raised"}

VARIABLES
  call,       \* call[r]: the parameters of request r
  pc,         \* pc[r]: where its handler thread is
  reply,      \* reply[r]: what it answered
  keys,       \* InMemoryIdempotencyStore._keys
  runs,       \* InMemoryRunRepository._runs
  logs,       \* InMemoryRunLogStore._logs
  future,     \* InMemoryRunScheduler._futures: the state of each Future
  queue,      \* the work queue of the ThreadPoolExecutor
  wpc,        \* wpc[w]: where pool worker w is
  job,        \* job[w]: the run worker w is busy with, or NoRun
  epoch,      \* restarts so far
  admitted,   \* history: the epoch in which r passed validation, or -1
  executions, \* history: how often r's scenario was started
  outcome     \* history: what r's execution came to, or NoOutcome

store == <<keys, runs, logs>>
pool == <<future, queue, wpc, job>>
history == <<admitted, executions, outcome>>
vars == <<call, pc, reply, store, pool, epoch, history>>

Init ==
  /\ call \in [Requests -> Calls]
  /\ pc = [r \in Requests |-> "idle"]
  /\ reply = [r \in Requests |-> NoReply]
  /\ keys = {}
  /\ runs = [r \in Requests |-> NoRecord]
  /\ logs = [r \in Requests |-> <<>>]
  /\ future = [r \in Requests |-> "none"]
  /\ queue = <<>>
  /\ wpc = [w \in Workers |-> "idle"]
  /\ job = [w \in Workers |-> NoRun]
  /\ epoch = 0
  /\ admitted = [r \in Requests |-> -1]
  /\ executions = [r \in Requests |-> 0]
  /\ outcome = [r \in Requests |-> NoOutcome]

-----------------------------------------------------------------------------
(* Repository, log and reply helpers *)

\* RunRecord.with_status, whose None arguments keep what the record has.
WithStatus(rec, status, out) ==
  [status |-> status,
   result |-> IF out.result = "none" THEN rec.result ELSE out.result,
   error |-> IF out.error = "none" THEN rec.error ELSE out.error]

\* transition_status raises RunStateError unless the record has the expected
\* status.
MayTransition(r, expected) == runs[r].status = expected

Logged(r, event) == [logs EXCEPT ![r] = Append(@, event)]

Answer(r, code, body) ==
  /\ pc' = [pc EXCEPT ![r] = "done"]
  /\ reply' = [reply EXCEPT ![r] = Reply(code, body)]

Goto(r, label) ==
  /\ pc' = [pc EXCEPT ![r] = label]
  /\ UNCHANGED reply

BodyOf(rec) ==
  [success |-> rec.status = "succeeded", result |-> rec.result, error |-> rec.error]

Synchronous(r) == call[r].wait = NoWait
Terminal(r) == runs[r].status \in TerminalStatuses

-----------------------------------------------------------------------------
(* The handler of POST /scenarios/{id}/runs *)

\* The checks before any shared structure is touched, in the code's order:
\* the wait limit, the scenario file, the loader, the required inputs.
Refusal(c) ==
  CASE c.wait # NoWait /\ c.wait > MaxWaitSec -> Reply(400, NoOutcome)
    [] c.scenario = "missing" -> Reply(404, NoOutcome)
    [] c.scenario = "unloadable" -> Reply(200, BuildRaised)
    [] c.scenario = "incomplete" -> Reply(400, NoOutcome)
    [] OTHER -> NoReply

\* Mutant: the key is registered before the inputs are validated.
Refuse_RegistersFirst(r) ==
  /\ pc[r] = "idle"
  /\ Refusal(call[r]) # NoReply
  /\ Answer(r, Refusal(call[r]).code, Refusal(call[r]).body)
  /\ keys' = keys \cup ({call[r].key} \ {NoKey})
  /\ UNCHANGED <<call, runs, logs, pool, epoch, history>>

\* The answer about a file that does not load follows a write to the console;
\* when that raises, too, the server answers 500.
Refuse(r) ==
  /\ pc[r] = "idle"
  /\ Refusal(call[r]) # NoReply
  /\ \/ Answer(r, Refusal(call[r]).code, Refusal(call[r]).body)
     \/ ConsoleFails /\ Refusal(call[r]).code = 200 /\ Answer(r, 500, NoOutcome)
  /\ UNCHANGED <<call, store, pool, epoch, history>>

Receive(r) ==
  /\ pc[r] = "idle"
  /\ Refusal(call[r]) = NoReply
  /\ Goto(r, "register")
  /\ UNCHANGED <<call, store, pool, epoch, history>>

\* Mutant: a reused key is not noticed.
KeyTaken_Unchecked(r) == FALSE

KeyTaken(r) == call[r].key \in keys

\* register_or_raise: the test and the insertion under one lock.  A request
\* without a key skips it.
Register(r) ==
  /\ pc[r] = "register"
  /\ ~KeyTaken(r)
  /\ keys' = keys \cup ({call[r].key} \ {NoKey})
  /\ admitted' = [admitted EXCEPT ![r] = epoch]
  /\ IF Synchronous(r)
       THEN /\ Goto(r, "execute")
            /\ executions' = [executions EXCEPT ![r] = @ + 1]
       ELSE /\ Goto(r, "create")
            /\ UNCHANGED executions
  /\ UNCHANGED <<call, runs, logs, pool, epoch, outcome>>

Conflict(r) ==
  /\ pc[r] = "register"
  /\ KeyTaken(r)
  /\ Answer(r, 409, NoOutcome)
  /\ UNCHANGED <<call, store, pool, epoch, history>>

Create(r) ==
  /\ pc[r] = "create"
  /\ runs' = [runs EXCEPT ![r] = NewRecord]
  /\ Goto(r, "submit")
  /\ UNCHANGED <<call, keys, logs, pool, epoch, history>>

\* Mutants: the task is submitted twice; its future is kept, but nothing is
\* submitted.
Submit_Twice(r) ==
  /\ pc[r] = "submit"
  /\ future' = [future EXCEPT ![r] = "pending"]
  /\ queue' = queue \o <<r, r>>
  /\ IF call[r].wait = 0
       THEN Answer(r, 202, NoOutcome)
       ELSE Goto(r, "wait")
  /\ UNCHANGED <<call, store, wpc, job, epoch, history>>

Submit_Nothing(r) ==
  /\ pc[r] = "submit"
  /\ future' = [future EXCEPT ![r] = "pending"]
  /\ IF call[r].wait = 0
       THEN Answer(r, 202, NoOutcome)
       ELSE Goto(r, "wait")
  /\ UNCHANGED <<call, store, queue, wpc, job, epoch, history>>

Submit(r) ==
  /\ pc[r] = "submit"
  /\ future' = [future EXCEPT ![r] = "pending"]
  /\ queue' = Append(queue, r)
  /\ IF call[r].wait = 0
       THEN Answer(r, 202, NoOutcome)
       ELSE Goto(r, "wait")
  /\ UNCHANGED <<call, store, wpc, job, epoch, history>>

\* Mutants: wait ends as soon as the task runs; wait follows the record
\* instead of the future.
FutureDone_WhenRunning(r) == future[r] # "pending"
FutureDone_ByRecord(r) == Terminal(r)

FutureDone(r) == future[r] \in {"finished", "raised"}

\* future.result returns, or re-raises what the task raised; wait answers
\* True to both (future.done()).
WaitReturns(r) ==
  /\ pc[r] = "wait"
  /\ FutureDone(r)
  /\ Goto(r, "read")
  /\ UNCHANGED <<call, store, pool, epoch, history>>

\* Mutant: a wait without a timeout.
WaitTimesOut_Never(r) ==
  /\ pc[r] = "wait"
  /\ pc[r] = "check"
  /\ UNCHANGED vars

WaitTimesOut(r) ==
  /\ pc[r] = "wait"
  /\ ~FutureDone(r)
  /\ Goto(r, "check")
  /\ UNCHANGED <<call, store, pool, epoch, history>>

\* After the timeout wait asks future.done(), which the task may have
\* reached meanwhile.  The 202 carries the status of the record the handler
\* built itself, "queued", wherever the run has got to.
CheckDone(r) ==
  /\ pc[r] = "check"
  /\ IF FutureDone(r)
       THEN Goto(r, "read")
       ELSE Answer(r, 202, NoOutcome)
  /\ UNCHANGED <<call, store, pool, epoch, history>>

ReadRecord(r) ==
  /\ pc[r] = "read"
  /\ IF runs[r] = NoRecord
       THEN Answer(r, 404, NoOutcome)
       ELSE Answer(r, 200, BodyOf(runs[r]))
  /\ UNCHANGED <<call, store, pool, epoch, history>>

-----------------------------------------------------------------------------
(* A scenario's execution, in a handler thread or in a pool worker *)

Executing(w) == wpc[w] = "execute"
MayEnd(r) == call[r].scenario # "endless"

\* One entry of the scenario's own log (step.start, step.end, ...).
LogStep(r) ==
  /\ Len(logs[r]) < MaxLog
  /\ logs' = Logged(r, "step")
  /\ UNCHANGED <<call, pc, reply, keys, runs, pool, epoch, history>>

SyncStep(r) == pc[r] = "execute" /\ LogStep(r)

\* Mutant: the synchronous branch does not return.
SyncFinish_FallsThrough(r) ==
  /\ pc[r] = "execute"
  /\ MayEnd(r)
  /\ \E out \in Outcomes : outcome' = [outcome EXCEPT ![r] = out]
  /\ Goto(r, "create")
  /\ UNCHANGED <<call, store, pool, epoch, admitted, executions>>

SyncFinish(r) ==
  /\ pc[r] = "execute"
  /\ MayEnd(r)
  /\ \E out \in Outcomes :
       /\ outcome' = [outcome EXCEPT ![r] = out]
       /\ Answer(r, 200, out)
  /\ UNCHANGED <<call, store, pool, epoch, admitted, executions>>

\* A console write raises inside the scenario and again in the handler of
\* that exception, and then in run_scenario's own: the server answers 500,
\* or 200 with success = false when the last write goes through.
SyncConsoleRaises(r) ==
  /\ ConsoleFails
  /\ pc[r] = "execute"
  /\ \/ Answer(r, 500, NoOutcome)
     \/ Answer(r, 200, BuildRaised)
  /\ UNCHANGED <<call, store, pool, epoch, history>>

-----------------------------------------------------------------------------
(* A pool worker, running _execute_async_run *)

GotoW(w, label) == wpc' = [wpc EXCEPT ![w] = label]

\* The task returns or raises: its future is resolved, its worker is free.
Resolve(w, state) ==
  /\ future' = [future EXCEPT ![job[w]] = state]
  /\ GotoW(w, "idle")
  /\ job' = [job EXCEPT ![w] = NoRun]
  /\ UNCHANGED queue

Take(w) ==
  /\ wpc[w] = "idle"
  /\ queue # <<>>
  /\ job' = [job EXCEPT ![w] = Head(queue)]
  /\ queue' = Tail(queue)
  /\ future' = [future EXCEPT ![Head(queue)] = "running"]
  /\ GotoW(w, "start")
  /\ UNCHANGED <<call, pc, reply, store, epoch, history>>

\* Mutant: the start of the run is not logged.
LogStart_Lost(w) ==
  /\ wpc[w] = "start"
  /\ GotoW(w, "transition")
  /\ UNCHANGED <<call, pc, reply, store, future, queue, job, epoch, history>>

LogStart(w) ==
  /\ wpc[w] = "start"
  /\ logs' = Logged(job[w], "run.start")
  /\ GotoW(w, "transition")
  /\ UNCHANGED <<call, pc, reply, keys, runs, future, queue, job, epoch, history>>

\* QUEUED -> RUNNING; a refused transition is logged and ends the task.
Begin(w) ==
  LET r == job[w] IN
  /\ wpc[w] = "transition"
  /\ IF MayTransition(r, "queued")
       THEN /\ runs' = [runs EXCEPT ![r] = WithStatus(@, "running", NoOutcome)]
            /\ executions' = [executions EXCEPT ![r] = @ + 1]
            /\ GotoW(w, "execute")
            /\ UNCHANGED <<logs, future, queue, job>>
       ELSE /\ logs' = Logged(r, "run.transition_failed")
            /\ Resolve(w, "finished")
            /\ UNCHANGED <<runs, executions>>
  /\ UNCHANGED <<call, pc, reply, keys, epoch, admitted, outcome>>

Step(w) == Executing(w) /\ LogStep(job[w])

\* Mutants: a status RunStatus does not have; a failed run is queued again.
StatusOf_Unknown(out) == IF out.success THEN "succeeded" ELSE "aborted"
StatusOf_Requeued(out) == IF out.success THEN "succeeded" ELSE "queued"

StatusOf(out) == IF out.success THEN "succeeded" ELSE "failed"

\* The execution ends and its outcome is recorded by RUNNING -> SUCCEEDED or
\* FAILED; a refused transition raises out of the task.
Finish(w) ==
  LET r == job[w] IN
  /\ Executing(w)
  /\ MayEnd(r)
  /\ \E out \in Outcomes :
       /\ outcome' = [outcome EXCEPT ![r] = out]
       /\ IF MayTransition(r, "running")
            THEN /\ runs' = [runs EXCEPT ![r] = WithStatus(@, StatusOf(out), out)]
                 /\ GotoW(w, "end")
                 /\ UNCHANGED <<future, queue, job>>
            ELSE /\ Resolve(w, "raised")
                 /\ UNCHANGED runs
  /\ UNCHANGED <<call, pc, reply, keys, logs, epoch, admitted, executions>>

\* Mutants: a finished run is forgotten; only a success is logged.
LogEnd_Forgets(w) ==
  /\ wpc[w] = "end"
  /\ logs' = Logged(job[w], "run.end")
  /\ runs' = [runs EXCEPT ![job[w]] = NoRecord]
  /\ Resolve(w, "finished")
  /\ UNCHANGED <<call, pc, reply, keys, epoch, history>>

LogEnd_SuccessOnly(w) ==
  /\ wpc[w] = "end"
  /\ logs' = IF runs[job[w]].status = "failed" THEN logs ELSE Logged(job[w], "run.end")
  /\ Resolve(w, "finished")
  /\ UNCHANGED <<call, pc, reply, keys, runs, epoch, history>>

LogEnd(w) ==
  /\ wpc[w] = "end"
  /\ logs' = Logged(job[w], "run.end")
  /\ Resolve(w, "finished")
  /\ UNCHANGED <<call, pc, reply, keys, runs, epoch, history>>

\* CompositeLogger writes to the console first: when that raises, the run log
\* gets no entry and the exception leaves the task, whatever the record says.
ConsoleRaises(w) ==
  /\ ConsoleFails
  /\ wpc[w] \in {"start", "execute", "end"}
  /\ Resolve(w, "raised")
  /\ UNCHANGED <<call, pc, reply, store, epoch, history>>

-----------------------------------------------------------------------------
(* The process is restarted: all four structures are process memory *)

Restart ==
  /\ epoch < MaxRestarts
  /\ epoch' = epoch + 1
  /\ pc' = [r \in Requests |-> IF pc[r] \in {"idle", "done"} THEN pc[r] ELSE "lost"]
  /\ keys' = {}
  /\ runs' = [r \in Requests |-> NoRecord]
  /\ logs' = [r \in Requests |-> <<>>]
  /\ future' = [r \in Requests |-> "none"]
  /\ queue' = <<>>
  /\ wpc' = [w \in Workers |-> "idle"]
  /\ job' = [w \in Workers |-> NoRun]
  /\ UNCHANGED <<call, reply, history>>

-----------------------------------------------------------------------------
HandlerStep(r) ==
  \/ Refuse(r) \/ Receive(r) \/ Register(r) \/ Conflict(r)
  \/ Create(r) \/ Submit(r)
  \/ WaitReturns(r) \/ WaitTimesOut(r) \/ CheckDone(r) \/ ReadRecord(r)
  \/ SyncStep(r) \/ SyncFinish(r) \/ SyncConsoleRaises(r)

WorkerStep(w) ==
  \/ Take(w) \/ LogStart(w) \/ Begin(w) \/ Step(w) \/ Finish(w) \/ LogEnd(w)
  \/ ConsoleRaises(w)

Next ==
  \/ \E r \in Requests : HandlerStep(r)
  \/ \E w \in Workers : WorkerStep(w)
  \/ Restart

\* Threads that can run do run, waits time out, and a scenario that can end
\* does.  Nothing is assumed of clients, consoles or restarts.
Fairness ==
  /\ \A r \in Requests :
       /\ WF_vars(Register(r) \/ Conflict(r) \/ Create(r) \/ Submit(r))
       /\ WF_vars(WaitReturns(r) \/ WaitTimesOut(r) \/ CheckDone(r) \/ ReadRecord(r))
       /\ WF_vars(SyncFinish(r))
  /\ \A w \in Workers :
       /\ WF_vars(Take(w) \/ LogStart(w) \/ Begin(w) \/ LogEnd(w))
       /\ WF_vars(Finish(w))

Spec == Init /\ [][Next]_vars
FairSpec == Spec /\ Fairness

-----------------------------------------------------------------------------
(* Correctness *)

\* Every variable keeps its type: the stores, the pool and the replies of
\* main.py.
TypeOK ==
  /\ call \in [Requests -> Calls]
  /\ pc \in [Requests -> RequestPCs]
  /\ reply \in [Requests -> ReplySet]
  /\ keys \subseteq Keys
  /\ runs \in [Requests -> RecordSet]
  /\ logs \in [Requests -> Seq(Events)]
  /\ future \in [Requests -> FutureStates]
  /\ queue \in Seq(Requests)
  /\ wpc \in [Workers -> WorkerPCs]
  /\ job \in [Workers -> Requests \cup {NoRun}]
  /\ epoch \in Nat
  /\ admitted \in [Requests -> Int]
  /\ executions \in [Requests -> Nat]
  /\ outcome \in [Requests -> OutcomeSet]

Admitted(r) == admitted[r] # -1
Current(r) == admitted[r] = epoch

\* No request's scenario is ever started twice, whatever the threads do: "A
\* run is not executed twice (status transition guard)",
\* docs/NextAction.md:1153.
AtMostOnce == \A r \in Requests : executions[r] <= 1

\* Two requests with one idempotency key are never both admitted by the same
\* process, however their handler threads interleave.
OneRunPerKey ==
  \A r, s \in Requests :
    /\ r # s
    /\ call[r].key = call[s].key
    /\ Admitted(r)
    /\ admitted[r] = admitted[s]
    => call[r].key = NoKey

\* A 409 always names a real conflict: another request with that key was
\* admitted.
ConflictIsReal ==
  \A r \in Requests :
    reply[r].code = 409 =>
      \E s \in Requests \ {r} : call[s].key = call[r].key /\ Admitted(s)

\* A 200 to an admitted request tells exactly what its own execution came
\* to, also when the answer is read back from the repository after a wait
\* that raced with the end of the run.
AnswerTellsOutcome ==
  \A r \in Requests :
    Admitted(r) /\ reply[r].code = 200 =>
      /\ executions[r] = 1
      /\ outcome[r] # NoOutcome
      /\ reply[r].body = outcome[r]

\* The run log of a run whose waiting client has been given the result is
\* complete: it begins with run.start and ends with run.end.
AnsweredLogIsComplete ==
  \A r \in Requests :
    Current(r) /\ ~Synchronous(r) /\ reply[r].code = 200 =>
      /\ Len(logs[r]) >= 2
      /\ logs[r][1] = "run.start"
      /\ logs[r][Len(logs[r])] = "run.end"

\* In the log of an asynchronous run, run.start comes first and once,
\* run.end comes last and only after the record has become terminal.
LogFollowsLifecycle ==
  \A r \in Requests : ~Synchronous(r) =>
    \A i \in 1..Len(logs[r]) :
      /\ (logs[r][i] = "run.start") <=> (i = 1)
      /\ logs[r][i] = "step" => runs[r].status \notin {"absent", "queued"}
      /\ logs[r][i] = "run.end" => i = Len(logs[r]) /\ Terminal(r)

\* The links of a 202 lead somewhere: until the process restarts, a lookup
\* of an accepted run never answers 404.
AcceptedIsTracked ==
  \A r \in Requests :
    Current(r) /\ reply[r].code = 202 => runs[r] # NoRecord

Held(r) == {w \in Workers : job[w] = r}
Queued(r) == {i \in 1..Len(queue) : queue[i] = r}

\* The pool neither loses nor doubles a task: a pending future is in the
\* queue once and with no worker, a running one with one worker only, any
\* other with neither.
NoTaskLost ==
  \A r \in Requests :
    /\ Cardinality(Queued(r)) = IF future[r] = "pending" THEN 1 ELSE 0
    /\ Cardinality(Held(r)) = IF future[r] = "running" THEN 1 ELSE 0

\* queued -> running -> succeeded/failed (docs/NextAction.md:216), and a
\* terminal record never changes again while the process lives.
RunLifecycle ==
  [][\A r \in Requests : epoch' = epoch /\ runs'[r] # runs[r] =>
       <<runs[r].status, runs'[r].status>> \in
         {<<"absent", "queued">>, <<"queued", "running">>,
          <<"running", "succeeded">>, <<"running", "failed">>}]_vars

\* Every request past validation is answered, with or without its run having
\* ended, except a synchronous one whose scenario does not end.
CallIsAnswered ==
  \A r \in Requests :
    (pc[r] = "register") ~> (pc[r] = "done" \/ (Synchronous(r) /\ ~MayEnd(r)))

\* Every worker is busy with a run that never ends.
PoolExhausted ==
  \A w \in Workers : job[w] # NoRun /\ Executing(w) /\ ~MayEnd(job[w])

\* A submitted run reaches a terminal status, unless its own scenario never
\* ends, such scenarios hold the whole pool, or a console made its task raise.
SubmittedRunEnds ==
  \A r \in Requests :
    (future[r] = "pending") ~>
      (Terminal(r) \/ ~MayEnd(r) \/ PoolExhausted \/ future[r] = "raised")

\* A terminal record is followed by run.end in the log, which the worker
\* writes after it (a poller sees the status first), unless it is this very
\* write whose console raises.
EndIsLogged ==
  \A r \in Requests :
    Terminal(r) ~>
      (future[r] = "raised" \/ \E i \in 1..Len(logs[r]) : logs[r][i] = "run.end")

\* "Execution failure: success=false and error/error_detail populated",
\* docs/NextAction.md:1144: an unsuccessful 200 says why.
FailureNamesError ==
  \A r \in Requests :
    reply[r].code = 200 /\ ~reply[r].body.success => reply[r].body.error # "none"

\* "Idempotency keys prevent duplicate executions", docs/NextAction.md:26:
\* of the requests with one key only one is ever executed.
KeyExecutesOnce ==
  \A r, s \in Requests :
    /\ r # s
    /\ call[r].key = call[s].key
    /\ executions[r] + executions[s] > 1
    => call[r].key = NoKey

-----------------------------------------------------------------------------
(* What the service promises, as RunContract states it *)

\* How far an admitted request has come: a synchronous one runs in its
\* handler thread, the status of any other is in its record.
Progress(r) ==
  IF Synchronous(r)
    THEN IF pc[r] = "execute" THEN "running" ELSE StatusOf(reply[r].body)
    ELSE IF runs[r].status \in {"absent", "queued"} THEN "admitted" ELSE runs[r].status

Phase(r) ==
  IF Admitted(r)
    THEN IF Current(r) THEN Progress(r) ELSE "lost"
    ELSE IF reply[r].code = 0 THEN "new" ELSE "refused"

AnswerOf(r) ==
  IF reply[r].code = 0 THEN "none"
  ELSE IF ~Admitted(r) THEN "refused"
  ELSE IF reply[r].code = 202 THEN "accepted"
  ELSE IF reply[r].code \in {200, 500} THEN StatusOf(reply[r].body)
  ELSE "refused"

Contract == INSTANCE RunContract WITH
  key <- [r \in Requests |-> call[r].key],
  phase <- [r \in Requests |-> Phase(r)],
  answer <- [r \in Requests |-> AnswerOf(r)]

\* The service implements its contract.
ImplementsContract == Contract!Spec
=============================================================================
