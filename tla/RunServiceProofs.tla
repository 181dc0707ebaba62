-------------------------- MODULE RunServiceProofs --------------------------
(***************************************************************************)
(* Theorems about RunService, for every set of requests, workers, keys and *)
(* calls, and any number of restarts.                                      *)
(***************************************************************************)
EXTENDS RunServiceInvariant, TLAPS

LEMMA OutcomeTypes ==
  /\ Outcomes \subseteq OutcomeSet
  /\ NoOutcome \in OutcomeSet
  /\ BuildRaised \in OutcomeSet
<1>1. NoOutcome \in OutcomeSet
  BY DEF OutcomeSet, NoOutcome, Results, Errors
<1>2. BuildRaised \in OutcomeSet
  BY DEF OutcomeSet, BuildRaised, Results, Errors
<1>3. Succeeded \in OutcomeSet /\ StepFailed \in OutcomeSet
  BY DEF OutcomeSet, Succeeded, StepFailed, Results, Errors
<1> QED BY <1>1, <1>2, <1>3, OutcomesAssumption DEF OutcomesAssumption

LEMMA Counting ==
  ASSUME NEW S, NEW f \in [S -> Nat], NEW x \in S
  PROVE  [f EXCEPT ![x] = @ + 1] \in [S -> Nat]
OBVIOUS

LEMMA RecordTypes ==
  /\ NoRecord \in RecordSet /\ NewRecord \in RecordSet
  /\ \A rec \in RecordSet, status \in Statuses, out \in OutcomeSet :
       WithStatus(rec, status, out) \in RecordSet
  /\ \A rec \in RecordSet : BodyOf(rec) \in OutcomeSet
BY DEF RecordSet, NoRecord, NewRecord, WithStatus, BodyOf, OutcomeSet, Statuses,
       Results, Errors

LEMMA RefusalTypes ==
  ASSUME NEW c \in Calls
  PROVE  Refusal(c) \in ReplySet
BY OutcomeTypes DEF Refusal, ReplySet, Reply, NoReply, Codes, BuildRaised, OutcomeSet,
   Results, Errors

LEMMA CallTypes == ASSUME NEW c \in Calls PROVE c.key \in Keys \cup {NoKey}
BY CallsAssumption DEF CallsAssumption, CallSet

-----------------------------------------------------------------------------
\* Type correctness: every variable of the service keeps its type.

LEMMA TypeInit == Init => TypeOK
BY OutcomeTypes, RecordTypes
DEF Init, TypeOK, RequestPCs, ReplySet, Codes, NoReply, Reply, FutureStates, WorkerPCs, Events

LEMMA Logging ==
  ASSUME NEW S, NEW f \in [S -> Seq(Events)], NEW x \in S, NEW e \in Events
  PROVE  [f EXCEPT ![x] = Append(@, e)] \in [S -> Seq(Events)]
OBVIOUS

HandlerTyped == pc \in [Requests -> RequestPCs] /\ reply \in [Requests -> ReplySet]

LEMMA AnswerTypes ==
  ASSUME HandlerTyped, NEW r \in Requests, NEW code \in Codes, NEW body \in OutcomeSet,
         Answer(r, code, body)
  PROVE  HandlerTyped'
BY DEF HandlerTyped, Answer, Reply, ReplySet, RequestPCs

LEMMA GotoTypes ==
  ASSUME HandlerTyped, NEW r \in Requests, NEW label \in RequestPCs, Goto(r, label)
  PROVE  HandlerTyped'
BY DEF HandlerTyped, Goto

LEMMA TypeHandler ==
  ASSUME TypeOK, NEW r \in Requests, HandlerStep(r)
  PROVE  TypeOK'
<1>a. HandlerTyped
  BY DEF TypeOK, HandlerTyped
<1>g. \A label \in RequestPCs : Goto(r, label) => HandlerTyped'
  BY <1>a, GotoTypes
<1>h. \A code \in Codes, body \in OutcomeSet : Answer(r, code, body) => HandlerTyped'
  BY <1>a, AnswerTypes
<1>l. {"register", "create", "submit", "wait", "check", "read", "execute"} \subseteq RequestPCs
  BY DEF RequestPCs
<1>c. {0, 200, 202, 400, 404, 409, 500} \subseteq Codes
  BY DEF Codes
<1>m. \A s \in Requests : call[s].key \in Keys \cup {NoKey}
  BY CallTypes DEF TypeOK
<1>1. CASE Refuse(r)
  <2>1. Refusal(call[r]) \in ReplySet
    BY RefusalTypes DEF TypeOK
  <2>2. \/ Answer(r, Refusal(call[r]).code, Refusal(call[r]).body)
        \/ Answer(r, 500, NoOutcome)
    BY <1>1 DEF Refuse
  <2>3. HandlerTyped'
    <3>1. CASE Answer(r, Refusal(call[r]).code, Refusal(call[r]).body)
      BY <1>h, <2>1, <3>1 DEF ReplySet
    <3>2. CASE Answer(r, 500, NoOutcome)
      BY <1>h, <1>c, <3>2, OutcomeTypes
    <3> QED BY <2>2, <3>1, <3>2
  <2> QED BY <1>1, <2>3 DEF Refuse, TypeOK, HandlerTyped, store, pool, history
<1>2. CASE Receive(r)
  <2>1. HandlerTyped'
    BY <1>2, <1>g, <1>l DEF Receive
  <2> QED BY <1>2, <2>1 DEF Receive, TypeOK, HandlerTyped, store, pool, history
<1>3. CASE Register(r)
  <2>1. HandlerTyped'
    BY <1>3, <1>g, <1>l DEF Register
  <2>2. keys' \subseteq Keys
    BY <1>3, <1>m DEF Register, TypeOK
  <2>3. admitted' \in [Requests -> Int]
    BY <1>3 DEF Register, TypeOK
  <2>4. executions' = [executions EXCEPT ![r] = @ + 1] \/ UNCHANGED executions
    BY <1>3 DEF Register
  <2>5. executions \in [Requests -> Nat]
    BY DEF TypeOK
  <2>6. executions' \in [Requests -> Nat]
    BY <2>4, <2>5, Counting
  <2> QED BY <1>3, <2>1, <2>2, <2>3, <2>6 DEF Register, TypeOK, HandlerTyped, pool
<1>4. CASE Conflict(r)
  <2>1. HandlerTyped'
    BY <1>4, <1>h, <1>c, OutcomeTypes DEF Conflict
  <2> QED BY <1>4, <2>1 DEF Conflict, TypeOK, HandlerTyped, store, pool, history
<1>5. CASE Create(r)
  <2>1. HandlerTyped'
    BY <1>5, <1>g, <1>l DEF Create
  <2> QED BY <1>5, <2>1, RecordTypes DEF Create, TypeOK, HandlerTyped, pool, history
<1>6. CASE Submit(r)
  <2>1. HandlerTyped'
    BY <1>6, <1>g, <1>h, <1>l, <1>c, OutcomeTypes DEF Submit
  <2>2. future' \in [Requests -> FutureStates] /\ queue' \in Seq(Requests)
    BY <1>6 DEF Submit, TypeOK, FutureStates
  <2> QED BY <1>6, <2>1, <2>2 DEF Submit, TypeOK, HandlerTyped, store, history
<1>7. CASE WaitReturns(r)
  <2>1. HandlerTyped'
    BY <1>7, <1>g, <1>l DEF WaitReturns
  <2> QED BY <1>7, <2>1 DEF WaitReturns, TypeOK, HandlerTyped, store, pool, history
<1>8. CASE WaitTimesOut(r)
  <2>1. HandlerTyped'
    BY <1>8, <1>g, <1>l DEF WaitTimesOut
  <2> QED BY <1>8, <2>1 DEF WaitTimesOut, TypeOK, HandlerTyped, store, pool, history
<1>9. CASE CheckDone(r)
  <2>1. HandlerTyped'
    BY <1>9, <1>g, <1>h, <1>l, <1>c, OutcomeTypes DEF CheckDone
  <2> QED BY <1>9, <2>1 DEF CheckDone, TypeOK, HandlerTyped, store, pool, history
<1>10. CASE ReadRecord(r)
  <2>1. BodyOf(runs[r]) \in OutcomeSet
    BY RecordTypes DEF TypeOK
  <2>2. HandlerTyped'
    BY <1>10, <1>h, <1>c, <2>1, OutcomeTypes DEF ReadRecord
  <2> QED BY <1>10, <2>2 DEF ReadRecord, TypeOK, HandlerTyped, store, pool, history
<1>11. CASE SyncStep(r)
  BY <1>11 DEF SyncStep, LogStep, Logged, Events, TypeOK, pool, history
<1>12. CASE SyncFinish(r)
  <2>1. HandlerTyped'
    BY <1>12, <1>h, <1>c, OutcomeTypes DEF SyncFinish
  <2>2. outcome' \in [Requests -> OutcomeSet]
    BY <1>12, OutcomeTypes DEF SyncFinish, TypeOK
  <2> QED BY <1>12, <2>1, <2>2 DEF SyncFinish, TypeOK, HandlerTyped, store, pool
<1>13. CASE SyncConsoleRaises(r)
  <2>1. HandlerTyped'
    BY <1>13, <1>h, <1>c, OutcomeTypes DEF SyncConsoleRaises
  <2> QED BY <1>13, <2>1 DEF SyncConsoleRaises, TypeOK, HandlerTyped, store, pool, history
<1> QED BY <1>1, <1>2, <1>3, <1>4, <1>5, <1>6, <1>7, <1>8, <1>9, <1>10, <1>11, <1>12, <1>13
        DEF HandlerStep

LEMMA TypeWorker ==
  ASSUME TypeOK, NEW w \in Workers, WorkerStep(w), WorkersHoldRuns
  PROVE  TypeOK'
<1> USE DEF TypeOK, history, store, pool
<1>1. wpc[w] # "idle" => job[w] \in Requests
  BY DEF WorkersHoldRuns
<1>2. CASE Take(w)
  <2>1. Head(queue) \in Requests /\ Tail(queue) \in Seq(Requests)
    BY <1>2 DEF Take
  <2> QED BY <1>2, <2>1 DEF Take, GotoW, WorkerPCs, FutureStates
<1>3. CASE LogStart(w)
  BY <1>1, <1>3 DEF LogStart, Logged, GotoW, WorkerPCs, Events
<1>4. CASE Begin(w)
  <2>1. job[w] \in Requests
    BY <1>1, <1>4 DEF Begin
  <2>2. WithStatus(runs[job[w]], "running", NoOutcome) \in RecordSet
    BY <2>1, OutcomeTypes, RecordTypes DEF Statuses
  <2>3. CASE MayTransition(job[w], "queued")
    <3>1. runs' \in [Requests -> RecordSet]
      BY <1>4, <2>1, <2>2, <2>3 DEF Begin
    <3>3. executions' = [executions EXCEPT ![job[w]] = @ + 1]
      BY <1>4, <2>3 DEF Begin
    <3>4. executions' \in [Requests -> Nat]
      BY <2>1, <3>3, Counting
    <3>2. wpc' \in [Workers -> WorkerPCs]
      BY <1>4, <2>3 DEF Begin, GotoW, WorkerPCs
    <3> QED BY <1>4, <2>3, <3>1, <3>2, <3>4 DEF Begin
  <2>4. CASE ~MayTransition(job[w], "queued")
    <3>3. logs \in [Requests -> Seq(Events)] /\ "run.transition_failed" \in Events
      BY DEF Events
    <3>4. logs' = [logs EXCEPT ![job[w]] = Append(@, "run.transition_failed")]
      BY <1>4, <2>4 DEF Begin, Logged
    <3>1. logs' \in [Requests -> Seq(Events)]
      BY <2>1, <3>3, <3>4, Logging
    <3>2. /\ future' \in [Requests -> FutureStates]
          /\ wpc' \in [Workers -> WorkerPCs]
          /\ job' \in [Workers -> Requests \cup {NoRun}]
          /\ queue' \in Seq(Requests)
      BY <1>4, <2>1, <2>4 DEF Begin, GotoW, Resolve, WorkerPCs, FutureStates
    <3> QED BY <1>4, <2>4, <3>1, <3>2 DEF Begin
  <2> QED BY <2>3, <2>4
<1>5. CASE Step(w)
  BY <1>1, <1>5 DEF Step, Executing, LogStep, Logged, Events
<1>6. CASE Finish(w)
  <2>1. job[w] \in Requests
    BY <1>1, <1>6 DEF Finish, Executing
  <2>2. \A out \in Outcomes : WithStatus(runs[job[w]], StatusOf(out), out) \in RecordSet
    BY <2>1, OutcomeTypes, RecordTypes DEF Statuses, StatusOf
  <2>3. runs' \in [Requests -> RecordSet] /\ outcome' \in [Requests -> OutcomeSet]
    BY <1>6, <2>1, <2>2, OutcomeTypes DEF Finish
  <2>4. /\ future' \in [Requests -> FutureStates]
        /\ wpc' \in [Workers -> WorkerPCs]
        /\ job' \in [Workers -> Requests \cup {NoRun}]
        /\ queue' \in Seq(Requests)
    BY <1>6, <2>1 DEF Finish, GotoW, Resolve, WorkerPCs, FutureStates
  <2> QED BY <1>6, <2>3, <2>4 DEF Finish
<1>7. CASE LogEnd(w)
  BY <1>1, <1>7 DEF LogEnd, Logged, Resolve, GotoW, WorkerPCs, FutureStates, Events
<1>8. CASE ConsoleRaises(w)
  BY <1>1, <1>8 DEF ConsoleRaises, Resolve, GotoW, WorkerPCs, FutureStates
<1> QED BY <1>2, <1>3, <1>4, <1>5, <1>6, <1>7, <1>8 DEF WorkerStep

LEMMA TypeRestart == TypeOK /\ Restart => TypeOK'
BY RecordTypes
DEF TypeOK, history, Restart, RequestPCs, FutureStates, WorkerPCs

-----------------------------------------------------------------------------
\* What the invariant says of a request whose handler, future or worker is at
\* a given point.

LEMMA InFlight ==
  ASSUME IInv, NEW r \in Requests,
         \/ pc[r] \in {"create", "submit", "wait", "check", "read"}
         \/ future[r] # "none"
         \/ runs[r] # NoRecord
  PROVE  Current(r) /\ ~Synchronous(r) /\ Scheduled(r) /\ Admitted(r)
<1>1. RequestsAreConsistent
  BY DEF IInv
<1>2. epoch \in Nat /\ admitted[r] \in Int
  BY DEF IInv, TypeOK
<1>3. ~Unadmitted(r)
  BY DEF Unadmitted
<1>4. ~Forgotten(r)
  BY DEF Forgotten
<1>5. ~InHandlerThread(r)
  BY DEF InHandlerThread
<1>6. admitted[r] # -1 /\ admitted[r] = epoch
  BY <1>1, <1>2, <1>3, <1>4 DEF RequestsAreConsistent, Consistent
<1> QED BY <1>1, <1>5, <1>6 DEF RequestsAreConsistent, Consistent, Current, Admitted

LEMMA InHandler ==
  ASSUME IInv, NEW r \in Requests, pc[r] = "execute"
  PROVE  Current(r) /\ Synchronous(r) /\ InHandlerThread(r) /\ Admitted(r)
<1>1. RequestsAreConsistent
  BY DEF IInv
<1>2. epoch \in Nat /\ admitted[r] \in Int
  BY DEF IInv, TypeOK
<1>3. ~Unadmitted(r)
  BY DEF Unadmitted
<1>4. ~Forgotten(r)
  BY DEF Forgotten
<1>5. ~Scheduled(r)
  BY DEF Scheduled
<1>6. admitted[r] # -1 /\ admitted[r] = epoch
  BY <1>1, <1>2, <1>3, <1>4 DEF RequestsAreConsistent, Consistent
<1> QED BY <1>1, <1>5, <1>6 DEF RequestsAreConsistent, Consistent, Current, Admitted

LEMMA NotYetAdmitted ==
  ASSUME IInv, NEW r \in Requests, pc[r] \in {"idle", "register"}
  PROVE  admitted[r] = -1 /\ Unadmitted(r)
BY DEF IInv, RequestsAreConsistent, Consistent

LEMMA Busy ==
  ASSUME IInv, NEW w \in Workers, wpc[w] # "idle"
  PROVE  /\ job[w] \in Requests
         /\ future[job[w]] = "running"
         /\ Current(job[w]) /\ ~Synchronous(job[w]) /\ Scheduled(job[w]) /\ Admitted(job[w])
         /\ pc[job[w]] \notin {"idle", "register", "create", "submit", "execute", "read"}
<1>1. job[w] \in Requests /\ future[job[w]] = "running"
  BY DEF IInv, WorkersHoldRuns
<1>2. Current(job[w]) /\ ~Synchronous(job[w]) /\ Scheduled(job[w]) /\ Admitted(job[w])
  BY <1>1, InFlight
<1> QED BY <1>1, <1>2 DEF Scheduled, FutureDone

LEMMA Waiting ==
  ASSUME IInv, queue # <<>>
  PROVE  /\ Head(queue) \in Requests
         /\ future[Head(queue)] = "pending"
         /\ Tail(queue) \in Seq(Requests)
         /\ Len(Tail(queue)) = Len(queue) - 1
         /\ Len(queue) \in Nat /\ Len(queue) >= 1
         /\ \A i \in 1..Len(Tail(queue)) :
              Tail(queue)[i] = queue[i + 1] /\ i + 1 \in 1..Len(queue)
         /\ \A i \in 1..Len(Tail(queue)) : Tail(queue)[i] # Head(queue)
<1>1. queue \in Seq(Requests)
  BY DEF IInv, TypeOK
<1>2. /\ Head(queue) = queue[1] /\ Head(queue) \in Requests
      /\ Tail(queue) \in Seq(Requests)
      /\ Len(Tail(queue)) = Len(queue) - 1
      /\ Len(queue) \in Nat /\ Len(queue) >= 1
  BY <1>1
<1>3. \A i \in 1..Len(Tail(queue)) :
        Tail(queue)[i] = queue[i + 1] /\ i + 1 \in 1..Len(queue)
  BY <1>1, <1>2
<1>4. /\ \A i \in 1..Len(queue) : future[queue[i]] = "pending"
      /\ \A i, j \in 1..Len(queue) : queue[i] = queue[j] => i = j
  BY DEF IInv, QueueHoldsPending
<1>5. \A i \in 1..Len(Tail(queue)) : Tail(queue)[i] # Head(queue)
  BY <1>2, <1>3, <1>4
<1> QED BY <1>2, <1>3, <1>4, <1>5

-----------------------------------------------------------------------------
\* Frames: a handler step changes its own request only, and leaves a request
\* in the scheduler's hands to the workers; a worker step changes the run it
\* holds or takes only.

SameRun(r) ==
  /\ runs'[r] = runs[r]
  /\ logs'[r] = logs[r]
  /\ future'[r] = future[r]
  /\ executions'[r] = executions[r]
  /\ outcome'[r] = outcome[r]

SameHandler(r) ==
  /\ pc'[r] = pc[r]
  /\ reply'[r] = reply[r]
  /\ admitted'[r] = admitted[r]

LEMMA HandlerFrame ==
  ASSUME IInv, NEW r \in Requests, HandlerStep(r)
  PROVE  /\ UNCHANGED <<call, wpc, job, epoch>>
         /\ \A s \in Requests \ {r} : SameRun(s) /\ SameHandler(s)
         /\ future[r] # "none" => SameRun(r)
<1> USE DEF SameRun, SameHandler, store, pool, history
<1>a. /\ pc \in [Requests -> RequestPCs] /\ reply \in [Requests -> ReplySet]
      /\ runs \in [Requests -> RecordSet] /\ logs \in [Requests -> Seq(Events)]
      /\ future \in [Requests -> FutureStates] /\ admitted \in [Requests -> Int]
      /\ executions \in [Requests -> Nat] /\ outcome \in [Requests -> OutcomeSet]
  BY DEF IInv, TypeOK
<1>b. future[r] # "none" => pc[r] \notin {"idle", "register", "create", "submit", "execute"}
  BY InFlight, InHandler, NotYetAdmitted DEF Scheduled, Unadmitted, InHandlerThread
<1>1. CASE Refuse(r)
  BY <1>1, <1>a, <1>b DEF Refuse, Answer
<1>2. CASE Receive(r)
  BY <1>2, <1>a, <1>b DEF Receive, Goto
<1>3. CASE Register(r)
  BY <1>3, <1>a, <1>b DEF Register, Goto
<1>4. CASE Conflict(r)
  BY <1>4, <1>a, <1>b DEF Conflict, Answer
<1>5. CASE Create(r)
  BY <1>5, <1>a, <1>b DEF Create, Goto
<1>6. CASE Submit(r)
  BY <1>6, <1>a, <1>b DEF Submit, Goto, Answer
<1>7. CASE WaitReturns(r)
  BY <1>7, <1>a, <1>b DEF WaitReturns, Goto
<1>8. CASE WaitTimesOut(r)
  BY <1>8, <1>a, <1>b DEF WaitTimesOut, Goto
<1>9. CASE CheckDone(r)
  BY <1>9, <1>a, <1>b DEF CheckDone, Goto, Answer
<1>10. CASE ReadRecord(r)
  BY <1>10, <1>a, <1>b DEF ReadRecord, Answer
<1>11. CASE SyncStep(r)
  BY <1>11, <1>a, <1>b DEF SyncStep, LogStep, Logged
<1>12. CASE SyncFinish(r)
  BY <1>12, <1>a, <1>b DEF SyncFinish, Answer
<1>13. CASE SyncConsoleRaises(r)
  BY <1>13, <1>a, <1>b DEF SyncConsoleRaises, Answer
<1> QED BY <1>1, <1>2, <1>3, <1>4, <1>5, <1>6, <1>7, <1>8, <1>9, <1>10, <1>11, <1>12, <1>13
        DEF HandlerStep

\* The run a worker step is about.
Subject(w) == IF wpc[w] = "idle" THEN Head(queue) ELSE job[w]

LEMMA WorkerFrame ==
  ASSUME IInv, NEW w \in Workers, WorkerStep(w)
  PROVE  /\ UNCHANGED <<call, pc, reply, keys, epoch, admitted>>
         /\ \A v \in Workers \ {w} : wpc'[v] = wpc[v] /\ job'[v] = job[v]
         /\ Subject(w) \in Requests
         /\ \A s \in Requests \ {Subject(w)} : SameRun(s)
<1> USE DEF SameRun, Subject, store, history
<1>a. /\ runs \in [Requests -> RecordSet] /\ logs \in [Requests -> Seq(Events)]
      /\ future \in [Requests -> FutureStates]
      /\ executions \in [Requests -> Nat] /\ outcome \in [Requests -> OutcomeSet]
      /\ wpc \in [Workers -> WorkerPCs] /\ job \in [Workers -> Requests \cup {NoRun}]
  BY DEF IInv, TypeOK
<1>b. wpc[w] # "idle" => job[w] \in Requests
  BY Busy
<1>c. queue # <<>> => Head(queue) \in Requests
  BY Waiting
<1>1. CASE Take(w)
  BY <1>1, <1>a, <1>c DEF Take, GotoW
<1>2. CASE LogStart(w)
  BY <1>2, <1>a, <1>b DEF LogStart, Logged, GotoW
<1>3. CASE Begin(w)
  BY <1>3, <1>a, <1>b DEF Begin, Logged, GotoW, Resolve
<1>4. CASE Step(w)
  BY <1>4, <1>a, <1>b DEF Step, Executing, LogStep, Logged, pool
<1>5. CASE Finish(w)
  BY <1>5, <1>a, <1>b DEF Finish, Executing, GotoW, Resolve
<1>6. CASE LogEnd(w)
  BY <1>6, <1>a, <1>b DEF LogEnd, Logged, GotoW, Resolve
<1>7. CASE ConsoleRaises(w)
  BY <1>7, <1>a, <1>b DEF ConsoleRaises, GotoW, Resolve
<1> QED BY <1>1, <1>2, <1>3, <1>4, <1>5, <1>6, <1>7
        DEF WorkerStep

-----------------------------------------------------------------------------
\* WorkersHoldRuns

LEMMA HoldHandler ==
  ASSUME IInv, NEW r \in Requests, HandlerStep(r)
  PROVE  WorkersHoldRuns'
<1>1. UNCHANGED <<wpc, job>> /\ \A s \in Requests : future[s] = "running" => SameRun(s)
  BY HandlerFrame
<1>2. WorkersHoldRuns
  BY DEF IInv
<1> QED BY <1>1, <1>2 DEF WorkersHoldRuns, SameRun

\* A worker ends its step free, or with the run it took or held.
LEMMA HeldAfter ==
  ASSUME IInv, NEW w \in Workers, WorkerStep(w)
  PROVE  \/ wpc'[w] = "idle" /\ job'[w] = NoRun
         \/ wpc'[w] # "idle" /\ job'[w] = Subject(w) /\ future'[Subject(w)] = "running"
<1>a. /\ future \in [Requests -> FutureStates]
      /\ wpc \in [Workers -> WorkerPCs] /\ job \in [Workers -> Requests \cup {NoRun}]
  BY DEF IInv, TypeOK
<1>b. wpc[w] # "idle" => job[w] \in Requests /\ future[job[w]] = "running"
  BY Busy
<1>c. queue # <<>> => Head(queue) \in Requests
  BY Waiting
<1>1. CASE Take(w)
  BY <1>1, <1>a, <1>c DEF Take, GotoW, Subject
<1>2. CASE LogStart(w)
  BY <1>2, <1>a, <1>b DEF LogStart, GotoW, Subject
<1>3. CASE Begin(w)
  BY <1>3, <1>a, <1>b DEF Begin, GotoW, Resolve, Subject
<1>4. CASE Step(w)
  BY <1>4, <1>a, <1>b DEF Step, Executing, LogStep, pool, Subject
<1>5. CASE Finish(w)
  BY <1>5, <1>a, <1>b DEF Finish, Executing, GotoW, Resolve, Subject
<1>6. CASE LogEnd(w)
  BY <1>6, <1>a, <1>b DEF LogEnd, GotoW, Resolve, Subject
<1>7. CASE ConsoleRaises(w)
  BY <1>7, <1>a, <1>b DEF ConsoleRaises, GotoW, Resolve, Subject
<1> QED BY <1>1, <1>2, <1>3, <1>4, <1>5, <1>6, <1>7
        DEF WorkerStep

\* No other worker holds the run a worker step is about.
LEMMA SubjectIsOwn ==
  ASSUME IInv, NEW w \in Workers, WorkerStep(w), NEW v \in Workers \ {w}, wpc[v] # "idle"
  PROVE  job[v] # Subject(w) /\ job[v] \in Requests /\ SameRun(job[v])
<1>1. WorkersHoldRuns /\ NoRun \notin Requests
  BY NoRunAssumption DEF IInv, NoRunAssumption
<1>2. job[v] \in Requests /\ future[job[v]] = "running"
  BY Busy
<1>3. CASE wpc[w] # "idle"
  <2>1. job[v] # job[w]
    BY <1>1, <1>2 DEF WorkersHoldRuns
  <2> QED BY <2>1, <1>2, <1>3, WorkerFrame DEF Subject
<1>4. CASE wpc[w] = "idle"
  <2>1. Take(w)
    BY <1>4 DEF WorkerStep, LogStart, Begin, Step, Executing, Finish, LogEnd, ConsoleRaises
  <2>2. future[Head(queue)] = "pending"
    BY <2>1, Waiting DEF Take
  <2> QED BY <2>2, <1>2, <1>4, WorkerFrame DEF Subject
<1> QED BY <1>3, <1>4

LEMMA HoldWorker ==
  ASSUME IInv, NEW w \in Workers, WorkerStep(w)
  PROVE  WorkersHoldRuns'
<1>1. WorkersHoldRuns /\ NoRun \notin Requests
  BY NoRunAssumption DEF IInv, NoRunAssumption
<1>2. Subject(w) \in Requests
  BY WorkerFrame
<1>3. ASSUME NEW v \in Workers
      PROVE  IF wpc'[v] = "idle"
               THEN job'[v] = NoRun
               ELSE job'[v] \in Requests /\ future'[job'[v]] = "running"
  <2>1. CASE v = w
    BY <2>1, <1>2, HeldAfter
  <2>2. CASE v # w
    <3>1. wpc'[v] = wpc[v] /\ job'[v] = job[v]
      BY <2>2, WorkerFrame
    <3>2. wpc[v] # "idle" => job[v] \in Requests /\ SameRun(job[v])
      BY <2>2, SubjectIsOwn
    <3> QED BY <3>1, <3>2, <1>1 DEF WorkersHoldRuns, SameRun
  <2> QED BY <2>1, <2>2
<1>4. ASSUME NEW u \in Workers, NEW v \in Workers, job'[u] = job'[v], job'[u] # NoRun, u # v
      PROVE  FALSE
  <2>1. \A x \in Workers \ {w} : job'[x] = job[x] /\ (job[x] # NoRun => job[x] # Subject(w))
    BY <1>1, WorkerFrame, SubjectIsOwn DEF WorkersHoldRuns
  <2>2. job'[w] \in {NoRun, Subject(w)}
    BY HeldAfter
  <2>3. CASE u # w /\ v # w
    BY <2>1, <2>3, <1>4, <1>1 DEF WorkersHoldRuns
  <2>4. CASE u = w \/ v = w
    BY <2>1, <2>2, <2>4, <1>4
  <2> QED BY <2>3, <2>4
<1> QED BY <1>3, <1>4 DEF WorkersHoldRuns

-----------------------------------------------------------------------------
\* QueueHoldsPending

LEMMA QueueHandler ==
  ASSUME IInv, NEW r \in Requests, HandlerStep(r)
  PROVE  QueueHoldsPending'
<1>1. QueueHoldsPending /\ queue \in Seq(Requests)
  BY DEF IInv, TypeOK
<1>2. \A s \in Requests : future[s] = "pending" => future'[s] = "pending"
  BY HandlerFrame DEF SameRun
<1>3. CASE Submit(r)
  <2>1. future[r] = "none"
    BY <1>3, InFlight DEF Submit, Scheduled
  <2>2. future'[r] = "pending" /\ queue' = Append(queue, r)
    BY <1>3 DEF Submit, IInv, TypeOK
  <2>3. /\ Len(queue') = Len(queue) + 1 /\ Len(queue) \in Nat
        /\ queue'[Len(queue) + 1] = r
        /\ \A i \in 1..Len(queue) : queue'[i] = queue[i] /\ queue[i] \in Requests
    BY <1>1, <2>2
  <2>4. \A i \in 1..Len(queue) : queue[i] # r
    BY <1>1, <2>1 DEF QueueHoldsPending
  <2> QED BY <1>1, <1>2, <2>2, <2>3, <2>4 DEF QueueHoldsPending
<1>4. CASE ~Submit(r)
  <2>1. UNCHANGED queue
    BY <1>4 DEF HandlerStep, Refuse, Receive, Register, Conflict, Create, WaitReturns,
       WaitTimesOut, CheckDone, ReadRecord, SyncStep, LogStep, SyncFinish, SyncConsoleRaises, pool
  <2>2. \A i \in 1..Len(queue) : queue[i] \in Requests
    BY <1>1
  <2> QED BY <1>1, <1>2, <2>1, <2>2 DEF QueueHoldsPending
<1> QED BY <1>3, <1>4

LEMMA QueueWorker ==
  ASSUME IInv, NEW w \in Workers, WorkerStep(w)
  PROVE  QueueHoldsPending'
<1>1. QueueHoldsPending /\ \A i \in 1..Len(queue) : queue[i] \in Requests
  BY DEF IInv, TypeOK
<1>2. CASE Take(w)
  <2>1. queue' = Tail(queue) /\ queue # <<>> /\ Subject(w) = Head(queue)
    BY <1>2 DEF Take, Subject
  <2>2. \A i \in 1..Len(Tail(queue)) : future'[Tail(queue)[i]] = "pending"
    BY <1>1, <2>1, Waiting, WorkerFrame DEF QueueHoldsPending, SameRun
  <2>3. \A i, j \in 1..Len(Tail(queue)) : Tail(queue)[i] = Tail(queue)[j] => i = j
    <3>1. SUFFICES ASSUME NEW i \in 1..Len(Tail(queue)), NEW j \in 1..Len(Tail(queue)),
                          Tail(queue)[i] = Tail(queue)[j]
                   PROVE  i = j
      OBVIOUS
    <3>2. queue[i + 1] = queue[j + 1] /\ i + 1 \in 1..Len(queue) /\ j + 1 \in 1..Len(queue)
      BY <2>1, <3>1, Waiting
    <3>3. i + 1 = j + 1
      BY <1>1, <3>2 DEF QueueHoldsPending
    <3> QED BY <3>3
  <2> QED BY <2>1, <2>2, <2>3 DEF QueueHoldsPending
<1>3. CASE ~Take(w)
  <2>1. UNCHANGED queue /\ wpc[w] # "idle"
    BY <1>3 DEF WorkerStep, LogStart, Begin, Step, LogStep, Executing, Finish, LogEnd,
       ConsoleRaises, Resolve, pool
  <2>2. future[Subject(w)] = "running"
    BY <2>1, Busy DEF Subject
  <2>3. \A s \in Requests : future[s] = "pending" => future'[s] = "pending"
    BY <2>2, WorkerFrame DEF SameRun
  <2> QED BY <1>1, <2>1, <2>3 DEF QueueHoldsPending
<1> QED BY <1>2, <1>3

-----------------------------------------------------------------------------
\* RequestsAreConsistent

\* A request that no step touches stays as it was.
LEMMA ConsistentFrame ==
  ASSUME NEW r \in Requests, Consistent(r), SameRun(r), SameHandler(r), UNCHANGED <<call, epoch>>
  PROVE  Consistent(r)'
BY DEF Consistent, SameRun, SameHandler, Current, Synchronous, Unadmitted, Forgotten,
   InHandlerThread, Scheduled, FutureDone

LEMMA ConsistentHandler ==
  ASSUME IInv, NEW r \in Requests, HandlerStep(r)
  PROVE  RequestsAreConsistent'
<1>a. /\ pc \in [Requests -> RequestPCs]
      /\ runs \in [Requests -> RecordSet]
      /\ future \in [Requests -> FutureStates] /\ admitted \in [Requests -> Int]
      /\ executions \in [Requests -> Nat] /\ epoch \in Nat
      /\ logs \in [Requests -> Seq(Events)]
  BY DEF IInv, TypeOK
<1>b. \A s \in Requests : Consistent(s)
  BY DEF IInv, RequestsAreConsistent, Consistent
<1>c. \A s \in Requests \ {r} : Consistent(s)'
  BY <1>b, HandlerFrame, ConsistentFrame
<1>d. UNCHANGED <<call, epoch>>
  BY HandlerFrame
<1>e. pc[r] \in {"idle", "register"} => admitted[r] = -1 /\ Unadmitted(r)
  BY NotYetAdmitted
<1>f. pc[r] \in {"create", "submit", "wait", "check", "read"} =>
        Current(r) /\ ~Synchronous(r) /\ Scheduled(r) /\ Admitted(r)
  BY InFlight
<1>g. pc[r] = "execute" => Current(r) /\ Synchronous(r) /\ InHandlerThread(r) /\ Admitted(r)
  BY InHandler
<1> USE DEF Consistent, Current, Synchronous, Admitted
<1>1. CASE Refuse(r)
  <2>1. Consistent(r)'
    BY <1>1, <1>a, <1>b, <1>d, <1>e DEF Refuse, Answer, Unadmitted, store, pool, history
  <2> QED BY <1>c, <2>1 DEF RequestsAreConsistent, Consistent
<1>2. CASE Receive(r)
  <2>1. Consistent(r)'
    BY <1>2, <1>a, <1>b, <1>d, <1>e DEF Receive, Goto, Unadmitted, store, pool, history
  <2> QED BY <1>c, <2>1 DEF RequestsAreConsistent, Consistent
<1>3. CASE Register(r)
  <2>1. admitted'[r] = epoch /\ epoch # -1 /\ UNCHANGED <<runs, logs, future>>
    BY <1>3, <1>a DEF Register, pool
  <2>2. executions[r] = 0 /\ future[r] = "none" /\ runs[r] = NoRecord
    BY <1>3, <1>e DEF Register, Unadmitted
  <2>3. ASSUME Synchronous(r) PROVE Consistent(r)'
    <3>1. pc'[r] = "execute" /\ executions'[r] = 1
      BY <1>3, <1>a, <2>2, <2>3 DEF Register, Goto
    <3> QED BY <1>a, <1>d, <2>1, <2>2, <2>3, <3>1 DEF InHandlerThread
  <2>4. ASSUME ~Synchronous(r) PROVE Consistent(r)'
    <3>1. pc'[r] = "create" /\ executions'[r] = 0
      BY <1>3, <1>a, <2>2, <2>4 DEF Register, Goto
    <3>2. logs[r] = <<>>
      BY <1>3, <1>e DEF Register, Unadmitted
    <3> QED BY <1>a, <1>d, <2>1, <2>2, <2>4, <3>1, <3>2 DEF Scheduled, NoRecord
  <2>5. Consistent(r)'
    BY <2>3, <2>4
  <2> QED BY <1>c, <2>5 DEF RequestsAreConsistent, Consistent
<1>4. CASE Conflict(r)
  <2>1. Consistent(r)'
    BY <1>4, <1>a, <1>b, <1>d, <1>e DEF Conflict, Answer, Unadmitted, store, pool, history
  <2> QED BY <1>c, <2>1 DEF RequestsAreConsistent, Consistent
<1>5. CASE Create(r)
  <2>1. Consistent(r)'
    BY <1>5, <1>a, <1>b, <1>d, <1>f DEF Create, Goto, Scheduled, FutureDone, NoRecord, NewRecord, pool, history
  <2> QED BY <1>c, <2>1 DEF RequestsAreConsistent, Consistent
<1>6. CASE Submit(r)
  <2>1. Consistent(r)'
    BY <1>6, <1>a, <1>b, <1>d, <1>f DEF Submit, Goto, Answer, Scheduled, FutureDone, store, history
  <2> QED BY <1>c, <2>1 DEF RequestsAreConsistent, Consistent
<1>7. CASE WaitReturns(r)
  <2>1. Consistent(r)'
    BY <1>7, <1>a, <1>b, <1>d, <1>f DEF WaitReturns, Goto, Scheduled, FutureDone, store, pool, history
  <2> QED BY <1>c, <2>1 DEF RequestsAreConsistent, Consistent
<1>8. CASE WaitTimesOut(r)
  <2>1. Consistent(r)'
    BY <1>8, <1>a, <1>b, <1>d, <1>f DEF WaitTimesOut, Goto, Scheduled, FutureDone, store, pool, history
  <2> QED BY <1>c, <2>1 DEF RequestsAreConsistent, Consistent
<1>9. CASE CheckDone(r)
  <2>1. Consistent(r)'
    BY <1>9, <1>a, <1>b, <1>d, <1>f DEF CheckDone, Goto, Answer, Scheduled, FutureDone, store, pool, history
  <2> QED BY <1>c, <2>1 DEF RequestsAreConsistent, Consistent
<1>10. CASE ReadRecord(r)
  <2>1. Consistent(r)'
    BY <1>10, <1>a, <1>b, <1>d, <1>f DEF ReadRecord, Answer, Scheduled, FutureDone, store, pool, history
  <2> QED BY <1>c, <2>1 DEF RequestsAreConsistent, Consistent
<1>11. CASE SyncStep(r)
  <2>1. Consistent(r)'
    BY <1>11, <1>a, <1>b, <1>d, <1>g DEF SyncStep, LogStep, Logged, InHandlerThread, pool, history
  <2> QED BY <1>c, <2>1 DEF RequestsAreConsistent, Consistent
<1>12. CASE SyncFinish(r)
  <2>1. Consistent(r)'
    BY <1>12, <1>a, <1>b, <1>d, <1>g DEF SyncFinish, Answer, InHandlerThread, store, pool
  <2> QED BY <1>c, <2>1 DEF RequestsAreConsistent, Consistent
<1>13. CASE SyncConsoleRaises(r)
  <2>1. Consistent(r)'
    BY <1>13, <1>a, <1>b, <1>d, <1>g DEF SyncConsoleRaises, Answer, InHandlerThread, store, pool, history
  <2> QED BY <1>c, <2>1 DEF RequestsAreConsistent, Consistent
<1> QED BY <1>1, <1>2, <1>3, <1>4, <1>5, <1>6, <1>7, <1>8, <1>9, <1>10, <1>11, <1>12, <1>13
        DEF HandlerStep

LEMMA ConsistentWorker ==
  ASSUME IInv, NEW w \in Workers, WorkerStep(w)
  PROVE  RequestsAreConsistent'
<1>a. /\ runs \in [Requests -> RecordSet]
      /\ future \in [Requests -> FutureStates]
      /\ executions \in [Requests -> Nat]
      /\ logs \in [Requests -> Seq(Events)]
  BY DEF IInv, TypeOK
<1>b. \A s \in Requests : Consistent(s)
  BY DEF IInv, RequestsAreConsistent, Consistent
<1>c. UNCHANGED <<call, pc, reply, keys, epoch, admitted>>
  BY WorkerFrame
<1>d. PICK r \in Requests : r = Subject(w)
  BY WorkerFrame
<1>e. \A s \in Requests \ {r} : Consistent(s)'
  BY <1>b, <1>c, <1>d, WorkerFrame, ConsistentFrame DEF SameHandler
<1>f. wpc[w] # "idle" => r = job[w] /\ future[r] = "running"
  BY <1>d, Busy DEF Subject
<1>g. wpc[w] = "idle" => Take(w) /\ r = Head(queue) /\ future[r] = "pending"
  BY <1>d, Waiting DEF Subject, Take, WorkerStep, LogStart, Begin, Step, Executing, Finish, LogEnd,
     ConsoleRaises
<1>h. Current(r) /\ ~Synchronous(r) /\ Scheduled(r) /\ Admitted(r) /\ future[r] # "none"
  BY <1>f, <1>g, InFlight
<1>i. SUFFICES Scheduled(r)'
  <2>1. admitted[r] = epoch /\ admitted[r] # -1 /\ epoch \in Nat /\ admitted[r] \in Int
    BY <1>h DEF Current, Admitted, IInv, TypeOK
  <2>2. pc[r] \notin {"idle", "register"}
    BY <1>h DEF Scheduled
  <2>3. SUFFICES ASSUME Scheduled(r)' PROVE Consistent(r)'
    BY <1>e DEF RequestsAreConsistent, Consistent
  <2> QED BY <1>c, <1>h, <2>1, <2>2, <2>3 DEF Consistent, Synchronous, Current
\* It remains to see what the step does to the run it is about.
<1>j. SUFFICES
        /\ runs'[r] # NoRecord
        /\ future'[r] # "none"
        /\ FutureDone(r) => FutureDone(r)'
        /\ future'[r] = "pending" => runs'[r] \in {NoRecord, NewRecord} /\ logs'[r] = <<>>
        /\ executions'[r] = IF runs'[r].status \in {"absent", "queued"} THEN 0 ELSE 1
        /\ future'[r] = "raised" => ConsoleFails
  BY <1>c, <1>h DEF Scheduled
<1>k. ~FutureDone(r)
  BY <1>f, <1>g DEF FutureDone
<1>l. /\ runs[r] # NoRecord
      /\ executions[r] = IF runs[r].status \in {"absent", "queued"} THEN 0 ELSE 1
  BY <1>h DEF Scheduled
<1>1. CASE Take(w)
  <2>1. r = Head(queue) /\ future'[r] = "running" /\ UNCHANGED <<runs, executions>>
    BY <1>1, <1>d, <1>a DEF Take, Subject, store, history
  <2> QED BY <2>1, <1>k, <1>l
<1>2. CASE LogStart(w)
  <2>1. future'[r] = "running" /\ UNCHANGED <<runs, executions>>
    BY <1>2, <1>f DEF LogStart, history
  <2> QED BY <2>1, <1>k, <1>l
<1>3. CASE Begin(w)
  <2>1. r = job[w] /\ runs[r] = NewRecord /\ future[r] = "running"
    BY <1>3, <1>f DEF Begin, IInv, WorkersAreInStep, AtStage
  <2>2. runs'[r].status = "running" /\ UNCHANGED future
    BY <1>3, <2>1, <1>a DEF Begin, MayTransition, WithStatus, NewRecord
  <2>3. executions'[r] = executions[r] + 1 /\ executions[r] = 0
    BY <1>3, <1>a, <2>1, <1>l DEF Begin, MayTransition, NewRecord
  <2> QED BY <2>1, <2>2, <2>3, <1>k DEF NoRecord
<1>4. CASE Step(w)
  <2>1. future'[r] = "running" /\ UNCHANGED <<runs, executions>>
    BY <1>4, <1>f DEF Step, Executing, LogStep, pool, history
  <2> QED BY <2>1, <1>k, <1>l
<1>5. CASE Finish(w)
  <2>1. r = job[w] /\ runs[r].status = "running" /\ future[r] = "running"
    BY <1>5, <1>f DEF Finish, Executing, IInv, WorkersAreInStep, AtStage, NewRecord
  <2>2. runs'[r].status \in TerminalStatuses /\ UNCHANGED <<future, executions>>
    BY <1>5, <2>1, <1>a DEF Finish, MayTransition, WithStatus, StatusOf, TerminalStatuses
  <2> QED BY <2>1, <2>2, <1>k, <1>l DEF NoRecord, TerminalStatuses
<1>6. CASE LogEnd(w)
  <2>1. future'[r] = "finished" /\ UNCHANGED <<runs, executions>>
    BY <1>6, <1>a, <1>f DEF LogEnd, Resolve, history
  <2> QED BY <2>1, <1>k, <1>l
<1>7. CASE ConsoleRaises(w)
  <2>1. future'[r] = "raised" /\ ConsoleFails /\ UNCHANGED <<runs, executions>>
    BY <1>7, <1>a, <1>f DEF ConsoleRaises, Resolve, store, history
  <2> QED BY <2>1, <1>k, <1>l
<1> QED BY <1>1, <1>2, <1>3, <1>4, <1>5, <1>6, <1>7 DEF WorkerStep

-----------------------------------------------------------------------------
\* WorkersAreInStep and FinishedIsRecorded

LEMMA StageHandler ==
  ASSUME IInv, NEW r \in Requests, HandlerStep(r)
  PROVE  WorkersAreInStep' /\ FinishedIsRecorded'
<1>1. UNCHANGED <<wpc, job>> /\ \A s \in Requests : future[s] # "none" => SameRun(s)
  BY HandlerFrame
<1>2. ASSUME NEW w \in Workers
      PROVE  AtStage(wpc[w], job[w])'
  <2>1. CASE wpc[w] = "idle"
    BY <2>1, <1>1 DEF AtStage
  <2>2. CASE wpc[w] # "idle"
    <3>1. job[w] \in Requests /\ future[job[w]] # "none" /\ AtStage(wpc[w], job[w])
      BY <2>2, Busy DEF IInv, WorkersAreInStep
    <3>2. UNCHANGED <<wpc, job>> /\ SameRun(job[w])
      BY <3>1, <1>1
    <3> QED BY <3>1, <3>2 DEF AtStage, SameRun, Recorded, LogIsStarted, Terminal
  <2> QED BY <2>1, <2>2
<1>3. ASSUME NEW s \in Requests, future'[s] = "finished"
      PROVE  Recorded(s)' /\ LogIsComplete(s)'
  <2>1. future[s] = "finished"
    <3>1. CASE future[s] # "none"
      BY <3>1, <1>1, <1>3 DEF SameRun
    <3>2. CASE future[s] = "none"
      <4>1. s = r
        BY <3>2, <1>3, HandlerFrame DEF SameRun
      <4>2. future'[r] \in {future[r], "pending"}
        BY DEF HandlerStep, Refuse, Receive, Register, Conflict, Create, Submit, WaitReturns,
           WaitTimesOut, CheckDone, ReadRecord, SyncStep, LogStep, SyncFinish, SyncConsoleRaises,
           pool, IInv, TypeOK
      <4> QED BY <4>1, <4>2, <3>2, <1>3
    <3> QED BY <3>1, <3>2
  <2> QED BY <2>1, <1>1
          DEF IInv, FinishedIsRecorded, SameRun, Recorded, LogIsComplete, Terminal
<1> QED BY <1>2, <1>3 DEF WorkersAreInStep, FinishedIsRecorded

LEMMA LogGrows ==
  ASSUME NEW r \in Requests, NEW e \in Events, logs \in [Requests -> Seq(Events)],
         logs' = Logged(r, e)
  PROVE  /\ logs[r] = <<>> => LogIsStarted(r)' \/ e # "run.start"
         /\ LogIsStarted(r) => LogIsStarted(r)'
         /\ LogIsStarted(r) /\ e = "run.end" => LogIsComplete(r)'
<1>1. logs'[r] = Append(logs[r], e) /\ logs[r] \in Seq(Events)
  BY DEF Logged
<1> QED BY <1>1 DEF LogIsStarted, LogIsComplete

LEMMA OutcomeRecorded ==
  ASSUME NEW rec, rec = [NewRecord EXCEPT !.status = "running"], NEW out \in Outcomes
  PROVE  /\ WithStatus(rec, StatusOf(out), out).status \in TerminalStatuses
         /\ BodyOf(WithStatus(rec, StatusOf(out), out)) = out
         /\ out # NoOutcome
<1>1. out \in {Succeeded, StepFailed, BuildRaised}
  BY OutcomesAssumption DEF OutcomesAssumption
<1>2. CASE out = Succeeded
  BY <1>2 DEF WithStatus, StatusOf, BodyOf, NewRecord, NoOutcome, Succeeded, TerminalStatuses
<1>3. CASE out = StepFailed
  BY <1>3 DEF WithStatus, StatusOf, BodyOf, NewRecord, NoOutcome, StepFailed, TerminalStatuses
<1>4. CASE out = BuildRaised
  BY <1>4 DEF WithStatus, StatusOf, BodyOf, NewRecord, NoOutcome, BuildRaised, TerminalStatuses
<1> QED BY <1>1, <1>2, <1>3, <1>4

\* The run a worker step is about enters its next stage as that stage expects.
LEMMA StageReached ==
  ASSUME IInv, NEW w \in Workers, WorkerStep(w), NEW r \in Requests, r = Subject(w)
  PROVE  AtStage(wpc[w], r)' /\ (future'[r] = "finished" => Recorded(r)' /\ LogIsComplete(r)')
<1>a. /\ runs \in [Requests -> RecordSet] /\ future \in [Requests -> FutureStates]
      /\ outcome \in [Requests -> OutcomeSet] /\ logs \in [Requests -> Seq(Events)]
      /\ wpc \in [Workers -> WorkerPCs]
  BY DEF IInv, TypeOK
<1>b. wpc[w] # "idle" => r = job[w] /\ future[r] = "running" /\ AtStage(wpc[w], r)
  BY Busy DEF Subject, IInv, WorkersAreInStep
<1>c. {"run.start", "run.end", "step"} \subseteq Events
  BY DEF Events
<1>1. CASE Take(w)
  <2>1. r = Head(queue) /\ future[r] = "pending"
    BY <1>1, Waiting DEF Take, Subject
  <2>2. Scheduled(r)
    BY <2>1, InFlight
  <2>3. runs[r] = NewRecord /\ logs[r] = <<>>
    BY <2>1, <2>2 DEF Scheduled
  <2>4. /\ wpc'[w] = "start" /\ future'[r] = "running" /\ UNCHANGED <<runs, logs>>
    BY <1>1, <2>1, <1>a DEF Take, GotoW, store
  <2> QED BY <2>3, <2>4 DEF AtStage
<1>2. CASE LogStart(w)
  <2>1. r = job[w] /\ runs[r] = NewRecord /\ logs[r] = <<>> /\ future[r] = "running"
    BY <1>2, <1>b DEF LogStart, AtStage
  <2>2. /\ wpc'[w] = "transition" /\ UNCHANGED <<runs, future>>
        /\ logs' = Logged(r, "run.start")
    BY <1>2, <2>1, <1>a DEF LogStart, GotoW
  <2>3. LogIsStarted(r)'
    BY <1>a, <1>c, <2>1, <2>2, LogGrows
  <2> QED BY <2>1, <2>2, <2>3 DEF AtStage
<1>3. CASE Begin(w)
  <2>1. r = job[w] /\ runs[r] = NewRecord /\ LogIsStarted(r) /\ future[r] = "running"
    BY <1>3, <1>b DEF Begin, AtStage
  <2>2. /\ wpc'[w] = "execute" /\ UNCHANGED <<logs, future>>
        /\ runs'[r] = WithStatus(runs[r], "running", NoOutcome)
    BY <1>3, <2>1, <1>a DEF Begin, GotoW, MayTransition, NewRecord
  <2>3. runs'[r] = [NewRecord EXCEPT !.status = "running"]
    BY <2>1, <2>2 DEF WithStatus, NewRecord, NoOutcome
  <2> QED BY <2>1, <2>2, <2>3 DEF AtStage, LogIsStarted
<1>4. CASE Step(w)
  <2>1. r = job[w] /\ LogIsStarted(r) /\ wpc[w] = "execute" /\ future[r] = "running"
    BY <1>4, <1>b DEF Step, Executing, AtStage
  <2>2. UNCHANGED <<wpc, runs, future>> /\ logs' = Logged(r, "step")
    BY <1>4, <2>1 DEF Step, LogStep, pool
  <2>3. LogIsStarted(r)'
    BY <1>a, <1>c, <2>1, <2>2, LogGrows
  <2> QED BY <1>b, <2>1, <2>2, <2>3 DEF AtStage
<1>5. CASE Finish(w)
  <2>1. /\ r = job[w] /\ runs[r] = [NewRecord EXCEPT !.status = "running"]
        /\ LogIsStarted(r) /\ future[r] = "running"
    BY <1>5, <1>b DEF Finish, Executing, AtStage
  <2>2. runs[r].status = "running"
    BY <2>1 DEF NewRecord
  <2>3. /\ wpc'[w] = "end" /\ UNCHANGED <<logs, future>>
    BY <1>5, <2>1, <2>2, <1>a DEF Finish, GotoW, MayTransition
  <2>4. PICK out \in Outcomes : /\ outcome'[r] = out
                                /\ runs'[r] = WithStatus(runs[r], StatusOf(out), out)
    BY <1>5, <2>1, <2>2, <1>a DEF Finish, MayTransition
  <2>5. Recorded(r)'
    BY <2>1, <2>4, OutcomeRecorded DEF Recorded, Terminal
  <2> QED BY <2>1, <2>3, <2>5 DEF AtStage, LogIsStarted
<1>6. CASE LogEnd(w)
  <2>1. r = job[w] /\ Recorded(r) /\ LogIsStarted(r)
    BY <1>6, <1>b DEF LogEnd, AtStage
  <2>2. wpc'[w] = "idle" /\ UNCHANGED <<runs, outcome>> /\ logs' = Logged(r, "run.end")
    BY <1>6, <2>1, <1>a DEF LogEnd, Resolve, GotoW, history
  <2>3. LogIsComplete(r)'
    BY <1>a, <1>c, <2>1, <2>2, LogGrows
  <2> QED BY <2>1, <2>2, <2>3 DEF AtStage, Recorded, Terminal
<1>7. CASE ConsoleRaises(w)
  <2>1. wpc'[w] = "idle" /\ future'[r] = "raised"
    BY <1>7, <1>a, <1>b DEF ConsoleRaises, Resolve, GotoW
  <2> QED BY <2>1 DEF AtStage
<1> QED BY <1>1, <1>2, <1>3, <1>4, <1>5, <1>6, <1>7 DEF WorkerStep

LEMMA StageWorker ==
  ASSUME IInv, NEW w \in Workers, WorkerStep(w)
  PROVE  WorkersAreInStep' /\ FinishedIsRecorded'
<1>1. PICK r \in Requests : r = Subject(w)
  BY WorkerFrame
<1>2. AtStage(wpc[w], r)' /\ (future'[r] = "finished" => Recorded(r)' /\ LogIsComplete(r)')
  BY <1>1, StageReached
<1>3. \A s \in Requests \ {r} : SameRun(s)
  BY <1>1, WorkerFrame
<1>4. ASSUME NEW v \in Workers
      PROVE  AtStage(wpc[v], job[v])'
  <2>1. CASE v = w
    <3>1. wpc'[w] = "idle" \/ job'[w] = r
      BY <1>1, HeldAfter
    <3> QED BY <2>1, <1>2, <3>1 DEF AtStage, Recorded, LogIsStarted, Terminal
  <2>2. CASE v # w /\ wpc[v] = "idle"
    BY <2>2, WorkerFrame DEF AtStage
  <2>3. CASE v # w /\ wpc[v] # "idle"
    <3>1. wpc'[v] = wpc[v] /\ job'[v] = job[v] /\ AtStage(wpc[v], job[v])
      BY <2>3, WorkerFrame DEF IInv, WorkersAreInStep
    <3>2. job[v] \in Requests /\ SameRun(job[v])
      BY <2>3, SubjectIsOwn
    <3> QED BY <3>1, <3>2 DEF AtStage, SameRun, Recorded, LogIsStarted, Terminal
  <2> QED BY <2>1, <2>2, <2>3
<1>5. ASSUME NEW s \in Requests, future'[s] = "finished"
      PROVE  Recorded(s)' /\ LogIsComplete(s)'
  BY <1>2, <1>3, <1>5 DEF SameRun, IInv, FinishedIsRecorded, Recorded, LogIsComplete, Terminal
<1> QED BY <1>4, <1>5 DEF WorkersAreInStep, FinishedIsRecorded

-----------------------------------------------------------------------------
\* RepliesAreFounded

LEMMA FoundedFrame ==
  ASSUME NEW r \in Requests, Founded(r), SameRun(r), SameHandler(r), UNCHANGED <<call, epoch>>
  PROVE  Founded(r)'
BY DEF Founded, SameRun, SameHandler, Current, Admitted, Synchronous

\* A handler that only moves on answers nothing.
LEMMA FoundedMove ==
  ASSUME IInv, NEW r \in Requests, HandlerStep(r), NEW label, Goto(r, label),
         pc[r] # "done", label # "done"
  PROVE  Founded(r)'
<1>1. /\ pc \in [Requests -> RequestPCs] /\ Founded(r)
  BY DEF IInv, TypeOK, RepliesAreFounded
<1>2. pc'[r] # "done" /\ reply'[r].code = 0
  BY <1>1 DEF Goto, Founded
<1> QED BY <1>2 DEF Founded

LEMMA FoundedHandler ==
  ASSUME IInv, NEW r \in Requests, HandlerStep(r)
  PROVE  RepliesAreFounded'
<1>a. /\ pc \in [Requests -> RequestPCs] /\ reply \in [Requests -> ReplySet]
      /\ outcome \in [Requests -> OutcomeSet] /\ epoch \in Nat
      /\ runs \in [Requests -> RecordSet]
      /\ logs \in [Requests -> Seq(Events)]
  BY DEF IInv, TypeOK
<1>b. Founded(r)
  BY DEF IInv, RepliesAreFounded
<1>c. \A s \in Requests \ {r} : Founded(s)'
  BY HandlerFrame, FoundedFrame DEF IInv, RepliesAreFounded
<1>d. UNCHANGED <<call, epoch>>
  BY HandlerFrame
<1>e. pc[r] \in {"idle", "register"} => ~Admitted(r)
  BY NotYetAdmitted DEF Admitted
<1>f. pc[r] \in {"create", "submit", "wait", "check", "read"} =>
        Current(r) /\ ~Synchronous(r) /\ Scheduled(r) /\ Admitted(r)
  BY InFlight
<1>g. pc[r] = "execute" => Current(r) /\ Synchronous(r) /\ InHandlerThread(r) /\ Admitted(r)
  BY InHandler
<1>h. SUFFICES Founded(r)'
  BY <1>c DEF RepliesAreFounded
<1>i. ASSUME NEW code \in Codes \ {0}, NEW body, Answer(r, code, body)
      PROVE  pc'[r] = "done" /\ reply'[r].code = code /\ code # 0 /\ reply'[r].body = body
  BY <1>a, <1>i DEF Answer, Reply
<1>j. {200, 202, 400, 404, 409, 500} \subseteq Codes \ {0}
  BY DEF Codes
<1>1. CASE Refuse(r)
  <2>1. Refusal(call[r]).code \in Codes \ {0}
    <3>1. call[r] \in Calls
      BY DEF IInv, TypeOK
    <3>2. Refusal(call[r]) \in {Reply(400, NoOutcome), Reply(404, NoOutcome), Reply(200, BuildRaised)}
      BY <1>1, <3>1 DEF Refuse, Refusal
    <3> QED BY <3>2 DEF Reply, Codes
  <2>2. UNCHANGED admitted /\ pc[r] = "idle"
    BY <1>1 DEF Refuse, history
  <2>3. \/ Answer(r, Refusal(call[r]).code, Refusal(call[r]).body)
        \/ Refusal(call[r]).code = 200 /\ Answer(r, 500, NoOutcome)
    BY <1>1 DEF Refuse
  <2>4. CASE Answer(r, Refusal(call[r]).code, Refusal(call[r]).body)
    BY <1>e, <1>i, <2>1, <2>2, <2>4 DEF Founded, Admitted
  <2>5. CASE Answer(r, 500, NoOutcome)
    BY <1>e, <1>i, <1>j, <2>2, <2>5 DEF Founded, Admitted
  <2> QED BY <2>3, <2>4, <2>5
<1>2. CASE Receive(r)
  BY <1>2, FoundedMove DEF Receive
<1>3. CASE Register(r)
  BY <1>3, FoundedMove DEF Register
<1>4. CASE Conflict(r)
  <2>1. UNCHANGED admitted
    BY <1>4 DEF Conflict, history
  <2> QED BY <1>4, <1>e, <1>i, <1>j, <2>1 DEF Conflict, Founded, Admitted
<1>5. CASE Create(r)
  BY <1>5, FoundedMove DEF Create
<1>6. CASE Submit(r)
  <2>1. CASE call[r].wait = 0
    BY <1>6, <1>d, <1>f, <1>i, <1>j, <2>1 DEF Submit, Founded, Synchronous, Admitted
  <2>2. CASE call[r].wait # 0
    BY <1>6, <2>2, FoundedMove DEF Submit
  <2> QED BY <2>1, <2>2
<1>7. CASE WaitReturns(r)
  BY <1>7, FoundedMove DEF WaitReturns
<1>8. CASE WaitTimesOut(r)
  BY <1>8, FoundedMove DEF WaitTimesOut
<1>9. CASE CheckDone(r)
  <2>1. CASE FutureDone(r)
    BY <1>9, <2>1, FoundedMove DEF CheckDone
  <2>2. CASE ~FutureDone(r)
    BY <1>9, <1>d, <1>f, <1>i, <1>j, <2>2 DEF CheckDone, Founded, Synchronous, Admitted
  <2> QED BY <2>1, <2>2
<1>10. CASE ReadRecord(r)
  <2>1. /\ runs[r] # NoRecord /\ FutureDone(r) /\ Current(r) /\ ~Synchronous(r)
        /\ future[r] = "raised" => ConsoleFails
        /\ executions[r] = IF runs[r].status \in {"absent", "queued"} THEN 0 ELSE 1
    BY <1>10, <1>f DEF ReadRecord, Scheduled
  <2>2. Answer(r, 200, BodyOf(runs[r])) /\ UNCHANGED <<store, pool, history>>
    BY <1>10, <2>1 DEF ReadRecord
  <2>3. ~ConsoleFails => future[r] = "finished"
    BY <2>1 DEF FutureDone
  <2>4. ~ConsoleFails => Recorded(r) /\ executions[r] = 1
    BY <2>1, <2>3 DEF IInv, FinishedIsRecorded, Recorded, Terminal, TerminalStatuses
  <2>5. UNCHANGED <<runs, executions, outcome, future, admitted>>
    BY <2>2 DEF store, pool, history
  <2> QED BY <1>d, <1>i, <1>j, <2>2, <2>3, <2>4, <2>5 DEF Founded, Recorded
<1>11. CASE SyncStep(r)
  BY <1>11, <1>b, <1>d DEF SyncStep, LogStep, pool, history, Founded, Admitted, Synchronous, Current
<1>12. CASE SyncFinish(r)
  <2>1. PICK out \in Outcomes : outcome' = [outcome EXCEPT ![r] = out] /\ Answer(r, 200, out)
    BY <1>12 DEF SyncFinish
  <2>2. out # NoOutcome
    BY OutcomeRecorded
  <2>3. outcome'[r] = out /\ UNCHANGED <<admitted, executions>>
    BY <1>12, <2>1, <1>a DEF SyncFinish
  <2>4. executions[r] = 1 /\ Synchronous(r) /\ Admitted(r)
    BY <1>12, <1>g DEF SyncFinish, InHandlerThread
  <2> QED BY <1>d, <1>i, <1>j, <2>1, <2>2, <2>3, <2>4 DEF Founded, Admitted, Synchronous
<1>13. CASE SyncConsoleRaises(r)
  <2>1. ConsoleFails /\ Synchronous(r) /\ UNCHANGED admitted
    BY <1>13, <1>g DEF SyncConsoleRaises, history
  <2>2. Answer(r, 500, NoOutcome) \/ Answer(r, 200, BuildRaised)
    BY <1>13 DEF SyncConsoleRaises
  <2> QED BY <1>d, <1>i, <1>j, <2>1, <2>2 DEF Founded, Synchronous
<1> QED BY <1>1, <1>2, <1>3, <1>4, <1>5, <1>6, <1>7, <1>8, <1>9, <1>10, <1>11, <1>12, <1>13
        DEF HandlerStep

LEMMA FoundedWorker ==
  ASSUME IInv, NEW w \in Workers, WorkerStep(w)
  PROVE  RepliesAreFounded'
<1>1. PICK r \in Requests : r = Subject(w)
  BY WorkerFrame
<1>2. UNCHANGED <<call, pc, reply, epoch, admitted>> /\ \A s \in Requests \ {r} : SameRun(s)
  BY <1>1, WorkerFrame
<1>3. \A s \in Requests : Founded(s)
  BY DEF IInv, RepliesAreFounded
<1>4. \A s \in Requests \ {r} : Founded(s)'
  BY <1>2, <1>3, FoundedFrame DEF SameHandler
<1>5. future[r] \in {"pending", "running"}
  <2>1. CASE wpc[w] # "idle"
    BY <2>1, <1>1, Busy DEF Subject
  <2>2. CASE wpc[w] = "idle"
    <3>1. Take(w)
      BY <2>2 DEF WorkerStep, LogStart, Begin, Step, Executing, Finish, LogEnd, ConsoleRaises
    <3> QED BY <3>1, <2>2, <1>1, Waiting DEF Take, Subject
  <2> QED BY <2>1, <2>2
<1>6. Current(r) /\ ~Synchronous(r)
  BY <1>5, InFlight
<1>7. ~ConsoleFails /\ Admitted(r) => reply[r].code # 200
  BY <1>3, <1>5, <1>6 DEF Founded
<1>8. Founded(r)'
  BY <1>2, <1>3, <1>7 DEF Founded, Admitted, Synchronous
<1> QED BY <1>4, <1>8 DEF RepliesAreFounded

-----------------------------------------------------------------------------
\* KeysHaveOwners, OneRunPerKey and ConflictIsReal

KeysInv == KeysHaveOwners /\ OneRunPerKey /\ ConflictIsReal

LEMMA KeysHandler ==
  ASSUME IInv, NEW r \in Requests, HandlerStep(r)
  PROVE  KeysInv'
<1>a. /\ reply \in [Requests -> ReplySet] /\ epoch \in Nat
      /\ admitted \in [Requests -> Int] /\ call \in [Requests -> Calls]
  BY DEF IInv, TypeOK
<1>b. KeysHaveOwners /\ OneRunPerKey /\ ConflictIsReal
  BY DEF IInv
<1>c. UNCHANGED <<call, epoch>>
  BY HandlerFrame
<1>d. \A s \in Requests \ {r} : reply'[s] = reply[s] /\ admitted'[s] = admitted[s]
  BY HandlerFrame DEF SameHandler
<1>1. CASE Register(r)
  <2>1. /\ admitted[r] = -1 /\ admitted'[r] = epoch /\ epoch # -1
        /\ call[r].key \notin keys /\ keys' = keys \cup ({call[r].key} \ {NoKey})
    BY <1>1, <1>a, NotYetAdmitted DEF Register, KeyTaken
  <2>2. reply'[r].code # 409
    <3>1. reply[r].code = 0
      BY <1>1 DEF Register, IInv, RepliesAreFounded, Founded
    <3> QED BY <1>1, <3>1 DEF Register, Goto
  <2>3. \A s \in Requests : call[s].key = call[r].key /\ Current(s) => call[r].key = NoKey
    BY <1>b, <2>1 DEF KeysHaveOwners
  <2>4. KeysHaveOwners'
    BY <1>b, <1>c, <1>d, <2>1 DEF KeysHaveOwners, Current
  <2>5. OneRunPerKey'
    BY <1>b, <1>c, <1>d, <2>1, <2>3 DEF OneRunPerKey, Admitted, Current
  <2>6. ConflictIsReal'
    BY <1>b, <1>c, <1>d, <2>1, <2>2 DEF ConflictIsReal, Admitted
  <2> QED BY <2>4, <2>5, <2>6 DEF KeysInv
<1>2. CASE ~Register(r)
  <2>1. UNCHANGED <<keys, admitted>>
    BY <1>2 DEF HandlerStep, Refuse, Receive, Conflict, Create, Submit, WaitReturns,
       WaitTimesOut, CheckDone, ReadRecord, SyncStep, LogStep, SyncFinish, SyncConsoleRaises,
       store, history
  <2>2. KeysHaveOwners' /\ OneRunPerKey'
    BY <1>b, <1>c, <2>1 DEF KeysHaveOwners, OneRunPerKey, Current, Admitted
  <2>3. reply'[r].code = 409 /\ reply[r].code # 409 => Conflict(r)
    <3>1. \A c \in Calls : Refusal(c) # NoReply => Refusal(c).code # 409
      BY DEF Refusal, Reply, NoReply
    <3>2. Refuse(r) => reply'[r].code # 409
      BY <3>1, <1>a DEF Refuse, Answer, Reply
    <3> QED BY <3>2, <1>2, <1>a DEF HandlerStep, Receive, Create, Submit, WaitReturns,
            WaitTimesOut, CheckDone, ReadRecord, SyncStep, LogStep, SyncFinish,
            SyncConsoleRaises, Goto, Answer, Reply
  <2>4. CASE Conflict(r)
    <3>1. admitted[r] = -1 /\ call[r].key \in keys
      BY <2>4, NotYetAdmitted DEF Conflict, KeyTaken
    <3>2. PICK s \in Requests : call[s].key = call[r].key /\ Current(s)
      BY <3>1, <1>b DEF KeysHaveOwners
    <3>3. s # r /\ Admitted(s)
      BY <3>1, <3>2, <1>a DEF Current, Admitted
    <3> QED BY <1>b, <1>c, <1>d, <2>1, <2>2, <3>2, <3>3 DEF KeysInv, ConflictIsReal, Admitted
  <2>5. CASE ~Conflict(r)
    BY <1>b, <1>c, <1>d, <2>1, <2>2, <2>3, <2>5 DEF KeysInv, ConflictIsReal, Admitted
  <2> QED BY <2>4, <2>5
<1> QED BY <1>1, <1>2

LEMMA KeysWorker ==
  ASSUME IInv, NEW w \in Workers, WorkerStep(w)
  PROVE  KeysInv'
<1>1. UNCHANGED <<call, reply, keys, epoch, admitted>>
  BY WorkerFrame
<1> QED BY <1>1 DEF IInv, KeysInv, KeysHaveOwners, OneRunPerKey, ConflictIsReal, Current, Admitted

-----------------------------------------------------------------------------
\* The invariant is inductive

LEMMA InvInit == Init => IInv
<1> SUFFICES ASSUME Init PROVE IInv
  OBVIOUS
<1>1. TypeOK
  BY TypeInit
<1>2. WorkersHoldRuns /\ WorkersAreInStep
  BY NoRunAssumption
  DEF Init, WorkersHoldRuns, WorkersAreInStep, AtStage, NoRunAssumption
<1>3. QueueHoldsPending
  BY DEF Init, QueueHoldsPending
<1>4. RequestsAreConsistent
  BY DEF Init, RequestsAreConsistent, Consistent, Unadmitted, Current
<1>5. FinishedIsRecorded /\ RepliesAreFounded
  BY DEF Init, FinishedIsRecorded, RepliesAreFounded, Founded, Admitted, NoReply, Reply
<1>6. KeysHaveOwners /\ OneRunPerKey /\ ConflictIsReal
  BY DEF Init, KeysHaveOwners, OneRunPerKey, ConflictIsReal, Current, Admitted, NoReply, Reply
<1> QED BY <1>1, <1>2, <1>3, <1>4, <1>5, <1>6 DEF IInv

LEMMA InvRestart == IInv /\ Restart => IInv'
<1> SUFFICES ASSUME IInv, Restart PROVE IInv'
  OBVIOUS
<1>a. TypeOK /\ epoch \in Nat /\ admitted \in [Requests -> Int] /\ pc \in [Requests -> RequestPCs]
  BY DEF IInv, TypeOK
<1>b. /\ UNCHANGED <<call, reply, admitted, executions, outcome>> /\ epoch' = epoch + 1
      /\ \A r \in Requests : /\ pc'[r] = IF pc[r] \in {"idle", "done"} THEN pc[r] ELSE "lost"
                             /\ runs'[r] = NoRecord /\ logs'[r] = <<>> /\ future'[r] = "none"
  BY DEF Restart, history
<1>c. \A r \in Requests : Consistent(r) /\ Founded(r)
  BY DEF IInv, RequestsAreConsistent, RepliesAreFounded
<1>1. TypeOK'
  BY <1>a, TypeRestart
<1>2. WorkersHoldRuns' /\ WorkersAreInStep'
  BY NoRunAssumption
  DEF Restart, WorkersHoldRuns, WorkersAreInStep, AtStage, NoRunAssumption
<1>3. QueueHoldsPending'
  BY DEF Restart, QueueHoldsPending
<1>4. RequestsAreConsistent'
  <2>1. ASSUME NEW r \in Requests PROVE Consistent(r)'
    <3>1. admitted[r] <= epoch /\ admitted[r] \in Int /\ ~Current(r)'
      BY <1>a, <1>b, <1>c DEF Consistent, Current
    <3>2. CASE admitted[r] = -1
      <4>1. pc[r] \in {"idle", "register", "done", "lost"} /\ executions[r] = 0
        BY <1>c, <3>2 DEF Consistent, Unadmitted
      <4> QED BY <1>a, <1>b, <3>1, <3>2, <4>1 DEF Consistent, Unadmitted
    <3>3. CASE admitted[r] # -1
      <4>1. executions[r] <= 1 /\ pc[r] \notin {"idle", "register"}
        BY <1>a, <1>c, <3>1, <3>3
        DEF Consistent, Forgotten, InHandlerThread, Scheduled, Current, Synchronous
      <4>2. admitted[r] >= -1
        BY <1>c DEF Consistent
      <4> QED BY <1>a, <1>b, <3>1, <3>3, <4>1, <4>2 DEF Consistent, Forgotten
    <3> QED BY <3>2, <3>3
  <2> QED BY <2>1 DEF RequestsAreConsistent
<1>5. FinishedIsRecorded'
  BY <1>b DEF FinishedIsRecorded
<1>6. RepliesAreFounded'
  <2>1. ASSUME NEW r \in Requests PROVE Founded(r)'
    <3>1. ~Current(r)'
      BY <1>a, <1>b, <1>c DEF Consistent, Current
    <3> QED BY <1>b, <1>c, <3>1 DEF Founded, Admitted, Synchronous
  <2> QED BY <2>1 DEF RepliesAreFounded
<1>7. KeysHaveOwners'
  <2>1. \A r \in Requests : ~Current(r)'
    BY <1>a, <1>b, <1>c DEF Consistent, Current
  <2> QED BY <2>1 DEF Restart, KeysHaveOwners
<1>8. OneRunPerKey' /\ ConflictIsReal'
  BY <1>b DEF IInv, OneRunPerKey, ConflictIsReal, Admitted
<1> QED BY <1>1, <1>2, <1>3, <1>4, <1>5, <1>6, <1>7, <1>8 DEF IInv

LEMMA InvStep == IInv /\ [Next]_vars => IInv'
<1> SUFFICES ASSUME IInv, [Next]_vars PROVE IInv'
  OBVIOUS
<1>a. TypeOK /\ WorkersHoldRuns
  BY DEF IInv
<1>1. ASSUME NEW r \in Requests, HandlerStep(r) PROVE IInv'
  <2>1. TypeOK'
    BY <1>a, <1>1, TypeHandler
  <2>2. WorkersHoldRuns' /\ QueueHoldsPending' /\ RequestsAreConsistent'
    BY <1>1, HoldHandler, QueueHandler, ConsistentHandler
  <2>3. WorkersAreInStep' /\ FinishedIsRecorded' /\ RepliesAreFounded' /\ KeysInv'
    BY <1>1, StageHandler, FoundedHandler, KeysHandler
  <2> QED BY <2>1, <2>2, <2>3 DEF IInv, KeysInv
<1>2. ASSUME NEW w \in Workers, WorkerStep(w) PROVE IInv'
  <2>1. TypeOK'
    BY <1>a, <1>2, TypeWorker
  <2>2. WorkersHoldRuns' /\ QueueHoldsPending' /\ RequestsAreConsistent'
    BY <1>2, HoldWorker, QueueWorker, ConsistentWorker
  <2>3. WorkersAreInStep' /\ FinishedIsRecorded' /\ RepliesAreFounded' /\ KeysInv'
    BY <1>2, StageWorker, FoundedWorker, KeysWorker
  <2> QED BY <2>1, <2>2, <2>3 DEF IInv, KeysInv
<1>3. CASE Restart
  BY <1>3, InvRestart
<1>4. CASE UNCHANGED vars
  BY <1>4 DEF vars, store, pool, history, IInv, TypeOK, WorkersHoldRuns, QueueHoldsPending,
     RequestsAreConsistent, Consistent, Unadmitted, Forgotten, InHandlerThread, Scheduled,
     FutureDone, WorkersAreInStep, AtStage, Recorded, Terminal, LogIsStarted, LogIsComplete,
     FinishedIsRecorded, RepliesAreFounded, Founded, KeysHaveOwners, OneRunPerKey,
     ConflictIsReal, Current, Admitted, Synchronous
<1> QED BY <1>1, <1>2, <1>3, <1>4 DEF Next

\* IInv, which ties the stores, the scheduler and the threads of main.py to
\* each other, holds in every state the service reaches.
THEOREM Invariance == Spec => []IInv
BY InvInit, InvStep, PTL DEF Spec

-----------------------------------------------------------------------------
\* Every variable of the service keeps its type, through any number of
\* requests, workers and restarts.
THEOREM TypeCorrect == Spec => []TypeOK
<1>1. IInv => TypeOK
  BY DEF IInv
<1> QED BY <1>1, Invariance, PTL

\* No scenario is executed twice for one request: the QUEUED -> RUNNING guard
\* of transition_status and the single task of each run see to it, also when
\* console writes raise and across restarts.
THEOREM ExecutedAtMostOnce == Spec => []AtMostOnce
<1>1. IInv => AtMostOnce
  <2> SUFFICES ASSUME IInv, NEW r \in Requests PROVE executions[r] <= 1
    BY DEF AtMostOnce
  <2>1. Consistent(r) /\ admitted[r] \in Int /\ epoch \in Nat
    BY DEF IInv, RequestsAreConsistent, TypeOK
  <2> QED BY <2>1 DEF Consistent, Unadmitted, Forgotten, InHandlerThread, Scheduled, Current
<1> QED BY <1>1, Invariance, PTL

\* Register's test-and-insert admits one request per key and process.
THEOREM KeysAreExclusive == Spec => []OneRunPerKey
<1>1. IInv => OneRunPerKey
  BY DEF IInv
<1> QED BY <1>1, Invariance, PTL

\* A 409 is only given when another request with the key was admitted.
THEOREM ConflictsAreReal == Spec => []ConflictIsReal
<1>1. IInv => ConflictIsReal
  BY DEF IInv
<1> QED BY <1>1, Invariance, PTL

\* When console writes succeed, a 200 tells the caller what its own execution
\* came to, whichever way the wait, the worker and the repository interleave.
THEOREM AnswersAreTrue ==
  ASSUME ConsoleFails = FALSE
  PROVE  Spec => []AnswerTellsOutcome
<1>1. IInv => AnswerTellsOutcome
  BY DEF IInv, RepliesAreFounded, Founded, AnswerTellsOutcome
<1> QED BY <1>1, Invariance, PTL

\* When console writes succeed, the log of a run is complete by the time its
\* waiting client has the result.
THEOREM AnsweredLogsAreComplete ==
  ASSUME ConsoleFails = FALSE
  PROVE  Spec => []AnsweredLogIsComplete
<1>1. IInv => AnsweredLogIsComplete
  <2> SUFFICES ASSUME IInv, NEW r \in Requests, Current(r), ~Synchronous(r),
                      reply[r].code = 200
               PROVE  LogIsComplete(r)
    BY DEF AnsweredLogIsComplete, LogIsComplete
  <2>1. Admitted(r)
    <3>1. admitted[r] = epoch /\ epoch \in Nat
      BY DEF Current, IInv, TypeOK
    <3> QED BY <3>1 DEF Admitted
  <2>2. future[r] = "finished"
    BY <2>1 DEF IInv, RepliesAreFounded, Founded
  <2> QED BY <2>2 DEF IInv, FinishedIsRecorded
<1> QED BY <1>1, Invariance, PTL

\* The links of a 202 are good until the process restarts.
THEOREM AcceptedRunsAreTracked == Spec => []AcceptedIsTracked
<1>1. IInv => AcceptedIsTracked
  <2> SUFFICES ASSUME IInv, NEW r \in Requests, Current(r), reply[r].code = 202
               PROVE  runs[r] # NoRecord
    BY DEF AcceptedIsTracked
  <2>1. Admitted(r)
    <3>1. admitted[r] = epoch /\ epoch \in Nat
      BY DEF Current, IInv, TypeOK
    <3> QED BY <3>1 DEF Admitted
  <2>2. ~Synchronous(r) /\ pc[r] = "done"
    BY <2>1 DEF IInv, RepliesAreFounded, Founded
  <2>3. Scheduled(r)
    BY <2>2 DEF IInv, RequestsAreConsistent, Consistent
  <2> QED BY <2>2, <2>3 DEF Scheduled
<1> QED BY <1>1, Invariance, PTL

-----------------------------------------------------------------------------
\* Action properties

\* A handler writes a record once, where there was none.
LEMMA HandlerWritesRecord ==
  ASSUME IInv, NEW s \in Requests, HandlerStep(s), NEW r \in Requests, runs'[r] # runs[r]
  PROVE  r = s /\ pc[r] = "create" /\ runs[r] = NoRecord /\ runs'[r] = NewRecord
<1>a. runs \in [Requests -> RecordSet]
  BY DEF IInv, TypeOK
<1>1. r = s
  BY HandlerFrame DEF SameRun
<1>2. CASE Create(s)
  <2>1. Scheduled(s) /\ pc[s] = "create"
    BY <1>2, InFlight DEF Create
  <2> QED BY <1>1, <1>2, <2>1, <1>a DEF Create, Scheduled
<1>3. CASE ~Create(s)
  <2>1. UNCHANGED runs
    BY <1>3 DEF HandlerStep, Refuse, Receive, Register, Conflict, Submit, WaitReturns,
       WaitTimesOut, CheckDone, ReadRecord, SyncStep, LogStep, SyncFinish, SyncConsoleRaises,
       store
  <2> QED BY <2>1
<1> QED BY <1>2, <1>3

\* A worker moves the record of its run on.
LEMMA WorkerMovesRecord ==
  ASSUME IInv, NEW w \in Workers, WorkerStep(w), NEW r \in Requests, runs'[r] # runs[r]
  PROVE  \/ runs[r].status = "queued" /\ runs'[r].status = "running"
         \/ runs[r].status = "running" /\ runs'[r].status \in {"succeeded", "failed"}
<1>a. runs \in [Requests -> RecordSet]
  BY DEF IInv, TypeOK
<1>1. r = Subject(w)
  BY WorkerFrame DEF SameRun
<1>2. CASE Begin(w)
  <2>1. r = job[w]
    BY <1>1, <1>2 DEF Begin, Subject
  <2> QED BY <1>2, <2>1, <1>a DEF Begin, MayTransition, WithStatus
<1>3. CASE Finish(w)
  <2>1. r = job[w]
    BY <1>1, <1>3 DEF Finish, Executing, Subject
  <2> QED BY <1>3, <2>1, <1>a DEF Finish, MayTransition, WithStatus, StatusOf
<1>4. CASE ~Begin(w) /\ ~Finish(w)
  <2>1. UNCHANGED runs
    BY <1>4 DEF WorkerStep, Take, LogStart, Step, LogStep, LogEnd, ConsoleRaises, store
  <2> QED BY <2>1
<1> QED BY <1>2, <1>3, <1>4

LEMMA LifecycleStep ==
  ASSUME IInv, [Next]_vars, NEW r \in Requests, epoch' = epoch, runs'[r] # runs[r]
  PROVE  <<runs[r].status, runs'[r].status>> \in
           {<<"absent", "queued">>, <<"queued", "running">>,
            <<"running", "succeeded">>, <<"running", "failed">>}
<1>1. ~Restart
  BY DEF Restart, IInv, TypeOK
<1>2. ~UNCHANGED vars
  BY DEF vars, store
<1>3. CASE \E s \in Requests : HandlerStep(s)
  BY <1>3, HandlerWritesRecord DEF NoRecord, NewRecord
<1>4. CASE \E w \in Workers : WorkerStep(w)
  BY <1>4, WorkerMovesRecord
<1> QED BY <1>1, <1>2, <1>3, <1>4 DEF Next

\* A record goes queued, running, succeeded or failed, and then never changes
\* again, whatever the handlers and workers do.
THEOREM RecordsFollowLifecycle == Spec => RunLifecycle
<1>1. IInv /\ [Next]_vars =>
        [\A r \in Requests : epoch' = epoch /\ runs'[r] # runs[r] =>
           <<runs[r].status, runs'[r].status>> \in
             {<<"absent", "queued">>, <<"queued", "running">>,
              <<"running", "succeeded">>, <<"running", "failed">>}]_vars
  BY LifecycleStep
<1> QED BY <1>1, Invariance, PTL DEF Spec, RunLifecycle

-----------------------------------------------------------------------------
\* RunService implements RunContract

\* A step after which only r's phase and answer may differ is a move of r.
LEMMA MoveOf ==
  ASSUME NEW r \in Requests, NEW to, NEW told, UNCHANGED call,
         Phase(r)' = to, AnswerOf(r)' = told,
         \A s \in Requests \ {r} : Phase(s)' = Phase(s) /\ AnswerOf(s)' = AnswerOf(s)
  PROVE  Contract!Move(r, to, told)
BY DEF Contract!Move

LEMMA StutterOf ==
  ASSUME UNCHANGED call,
         \A s \in Requests : Phase(s)' = Phase(s) /\ AnswerOf(s)' = AnswerOf(s)
  PROVE  UNCHANGED Contract!vars
BY DEF Contract!vars

LEMMA SamePhase ==
  ASSUME NEW r \in Requests, SameRun(r), SameHandler(r), UNCHANGED <<call, epoch>>
  PROVE  Phase(r)' = Phase(r) /\ AnswerOf(r)' = AnswerOf(r)
BY DEF Phase, AnswerOf, Progress, SameRun, SameHandler, Current, Admitted, Synchronous, StatusOf

\* The phase and answer of a request no handler has answered yet.
LEMMA PhaseOf ==
  ASSUME IInv, NEW r \in Requests
  PROVE  /\ pc[r] # "done" => AnswerOf(r) = "none"
         /\ pc[r] \in {"idle", "register"} => Phase(r) = "new"
         /\ pc[r] = "execute" => Phase(r) = "running"
         /\ future[r] # "none" \/ pc[r] \in {"create", "submit", "wait", "check", "read"} =>
              /\ Phase(r) = IF runs[r].status \in {"absent", "queued"}
                              THEN "admitted" ELSE runs[r].status
              /\ Contract!Live(r)
<1>1. Founded(r) /\ runs[r] \in RecordSet
  BY DEF IInv, RepliesAreFounded, TypeOK
<1>2. pc[r] # "done" => AnswerOf(r) = "none"
  BY <1>1 DEF Founded, AnswerOf
<1>3. pc[r] \in {"idle", "register"} => Phase(r) = "new"
  BY <1>1, NotYetAdmitted DEF Founded, Phase, Admitted
<1>4. pc[r] = "execute" => Phase(r) = "running"
  BY InHandler DEF Phase, Progress
<1>5. ASSUME future[r] # "none" \/ pc[r] \in {"create", "submit", "wait", "check", "read"}
      PROVE  /\ Phase(r) = IF runs[r].status \in {"absent", "queued"}
                             THEN "admitted" ELSE runs[r].status
             /\ Contract!Live(r)
  <2>1. Phase(r) = IF runs[r].status \in {"absent", "queued"}
                     THEN "admitted" ELSE runs[r].status
    BY <1>5, InFlight DEF Phase, Progress
  <2> QED BY <1>1, <2>1 DEF Contract!Live, Contract!Ends, RecordSet, Statuses
<1> QED BY <1>2, <1>3, <1>4, <1>5

\* Only a request this process admitted is live.
LEMMA LiveIsCurrent ==
  ASSUME NEW r \in Requests, Contract!Live(r)
  PROVE  Current(r)
BY DEF Contract!Live, Contract!Ends, Phase

LEMMA ContractInit == Init => Contract!Init
<1> SUFFICES ASSUME Init PROVE Contract!Init
  OBVIOUS
<1>1. \A r \in Requests : call[r].key \in Keys \cup {NoKey}
  BY CallTypes DEF Init
<1>2. \A r \in Requests : Phase(r) = "new" /\ AnswerOf(r) = "none"
  BY DEF Init, Phase, AnswerOf, Admitted, NoReply, Reply
<1> QED BY <1>1, <1>2 DEF Contract!Init

LEMMA ContractHandler ==
  ASSUME IInv, ~ConsoleFails, NEW r \in Requests, HandlerStep(r)
  PROVE  [Contract!Next]_(Contract!vars)
<1>a. /\ pc \in [Requests -> RequestPCs] /\ reply \in [Requests -> ReplySet]
      /\ admitted \in [Requests -> Int] /\ epoch \in Nat
      /\ runs \in [Requests -> RecordSet]
  BY DEF IInv, TypeOK
<1>b. UNCHANGED <<call, epoch>>
  BY HandlerFrame
<1>c. \A s \in Requests \ {r} : Phase(s)' = Phase(s) /\ AnswerOf(s)' = AnswerOf(s)
  BY HandlerFrame, SamePhase
<1>d. ASSUME Phase(r)' = Phase(r), AnswerOf(r)' = AnswerOf(r)
      PROVE  UNCHANGED Contract!vars
  BY <1>b, <1>c, <1>d, StutterOf
<1>e. ASSUME NEW to, NEW told, Phase(r)' = to, AnswerOf(r)' = told
      PROVE  Contract!Move(r, to, told)
  BY <1>b, <1>c, <1>e, MoveOf
<1>f. Founded(r)
  BY DEF IInv, RepliesAreFounded
<1>g. pc[r] # "done" => AnswerOf(r) = "none" /\ reply[r].code = 0
  BY <1>f, PhaseOf DEF Founded
<1>h. pc[r] \in {"idle", "register"} => Phase(r) = "new" /\ ~Admitted(r)
  BY PhaseOf, NotYetAdmitted DEF Admitted
<1>i. pc[r] \in {"create", "submit", "wait", "check", "read"} =>
        /\ Current(r) /\ ~Synchronous(r) /\ Scheduled(r) /\ Admitted(r)
        /\ Phase(r) = IF runs[r].status \in {"absent", "queued"}
                        THEN "admitted" ELSE runs[r].status
        /\ Contract!Live(r)
  BY InFlight, PhaseOf
<1>j. pc[r] = "execute" =>
        Current(r) /\ Synchronous(r) /\ Admitted(r) /\ Phase(r) = "running"
  BY InHandler, PhaseOf
<1>k. ASSUME NEW label, Goto(r, label), UNCHANGED admitted
      PROVE  AnswerOf(r)' = AnswerOf(r)
  BY <1>k DEF Goto, AnswerOf, Admitted
\* Asynchronous requests: the phase is in the record, not in the handler.
<1>l. ASSUME UNCHANGED <<runs, admitted>>, Admitted(r), Current(r), ~Synchronous(r)
      PROVE  Phase(r)' = Phase(r)
  BY <1>b, <1>l DEF Phase, Progress, Admitted, Current, Synchronous
<1>m. ASSUME NEW code \in Nat, NEW body, Answer(r, code, body)
      PROVE  pc'[r] = "done" /\ reply'[r].code = code /\ reply'[r].body = body
  BY <1>a, <1>m DEF Answer, Reply
<1>1. CASE Refuse(r)
  <2>1. Refusal(call[r]).code \in Nat /\ Refusal(call[r]).code # 0
    <3>1. call[r] \in Calls
      BY DEF IInv, TypeOK
    <3>2. Refusal(call[r]) \in {Reply(400, NoOutcome), Reply(404, NoOutcome), Reply(200, BuildRaised)}
      BY <1>1, <3>1 DEF Refuse, Refusal
    <3> QED BY <3>2 DEF Reply
  <2>2. Phase(r)' = "refused" /\ AnswerOf(r)' = "refused"
    BY <1>1, <1>h, <1>m, <2>1 DEF Refuse, history, Phase, AnswerOf, Admitted
  <2>3. Contract!Refuse(r)
    BY <1>1, <1>e, <1>g, <1>h, <2>2 DEF Refuse, Contract!Refuse
  <2> QED BY <2>3 DEF Contract!Next
<1>2. CASE Receive(r)
  <2>1. UNCHANGED <<reply, admitted>>
    BY <1>2 DEF Receive, Goto, history
  <2>2. Phase(r)' = Phase(r)
    BY <1>2, <1>h, <2>1 DEF Receive, Phase, Admitted
  <2> QED BY <1>2, <1>d, <1>k, <2>1, <2>2 DEF Receive
<1>3. CASE Register(r)
  <2>1. admitted'[r] = epoch /\ epoch # -1 /\ reply'[r].code = 0 /\ UNCHANGED runs
    BY <1>3, <1>a, <1>g DEF Register, Goto
  <2>2. AnswerOf(r)' = "none"
    BY <2>1 DEF AnswerOf
  <2>3. Phase(r)' \in {"admitted", "running"}
    <3>1. CASE Synchronous(r)
      <4>1. pc'[r] = "execute"
        BY <1>3, <3>1, <1>a DEF Register, Goto
      <4> QED BY <2>1, <1>b, <3>1, <4>1 DEF Phase, Progress, Admitted, Current, Synchronous
    <3>2. CASE ~Synchronous(r)
      <4>1. runs[r].status = "absent"
        BY <1>3, NotYetAdmitted DEF Register, Unadmitted, NoRecord
      <4> QED BY <2>1, <1>b, <3>2, <4>1 DEF Phase, Progress, Admitted, Current, Synchronous
    <3> QED BY <3>1, <3>2
  <2>4. ASSUME NEW s \in Requests, Contract!Rival(r, s)
        PROVE  ~Contract!Live(s)
    <3>1. call[r].key = call[s].key /\ call[r].key # NoKey
      BY <2>4 DEF Contract!Rival
    <3>2. call[r].key \notin keys
      BY <1>3 DEF Register, KeyTaken
    <3>3. ~Current(s)
      BY <3>1, <3>2 DEF IInv, KeysHaveOwners
    <3> QED BY <3>3, LiveIsCurrent
  <2>5. \E to \in {"admitted", "running"} : Contract!Move(r, to, "none")
    BY <1>e, <2>2, <2>3
  <2>6. Contract!Admit(r)
    BY <1>3, <1>g, <1>h, <2>4, <2>5 DEF Register, Contract!Admit
  <2> QED BY <2>6 DEF Contract!Next
<1>4. CASE Conflict(r)
  <2>1. Phase(r)' = "refused" /\ AnswerOf(r)' = "refused"
    BY <1>4, <1>h, <1>m DEF Conflict, history, Phase, AnswerOf, Admitted
  <2>2. Contract!Refuse(r)
    BY <1>4, <1>e, <1>g, <1>h, <2>1 DEF Conflict, Contract!Refuse
  <2> QED BY <2>2 DEF Contract!Next
<1>5. CASE Create(r)
  <2>1. runs[r].status = "absent" /\ runs'[r].status = "queued" /\ UNCHANGED admitted
    BY <1>5, <1>i, <1>a DEF Create, Scheduled, NoRecord, NewRecord, history
  <2>2. Phase(r)' = Phase(r)
    BY <1>5, <1>b, <1>i, <2>1 DEF Create, Phase, Progress, Admitted, Current, Synchronous
  <2> QED BY <1>5, <1>d, <1>k, <2>1, <2>2 DEF Create
<1>6. CASE Submit(r)
  <2>1. UNCHANGED <<runs, admitted>> /\ Phase(r)' = Phase(r)
    BY <1>6, <1>i, <1>l DEF Submit, store, history
  <2>2. CASE call[r].wait = 0
    <3>a. Answer(r, 202, NoOutcome) /\ Admitted(r)
      BY <1>6, <1>i, <2>2 DEF Submit
    <3>1. AnswerOf(r)' = "accepted"
      BY <1>m, <2>1, <3>a DEF AnswerOf, Admitted
    <3>2. Contract!Accept(r)
      BY <1>6, <1>e, <1>g, <1>i, <2>1, <3>1 DEF Submit, Contract!Accept
    <3> QED BY <3>2 DEF Contract!Next
  <2>3. CASE call[r].wait # 0
    BY <1>6, <1>d, <1>k, <2>1, <2>3 DEF Submit
  <2> QED BY <2>2, <2>3
<1>7. CASE WaitReturns(r)
  BY <1>7, <1>d, <1>i, <1>k, <1>l DEF WaitReturns, store, history
<1>8. CASE WaitTimesOut(r)
  BY <1>8, <1>d, <1>i, <1>k, <1>l DEF WaitTimesOut, store, history
<1>9. CASE CheckDone(r)
  <2>1. UNCHANGED <<runs, admitted>> /\ Phase(r)' = Phase(r)
    BY <1>9, <1>i, <1>l DEF CheckDone, store, history
  <2>2. CASE ~FutureDone(r)
    <3>1. AnswerOf(r)' = "accepted"
      BY <1>9, <1>i, <1>m, <2>1, <2>2 DEF CheckDone, AnswerOf, Admitted
    <3>2. Contract!Accept(r)
      BY <1>9, <1>e, <1>g, <1>i, <2>1, <3>1 DEF CheckDone, Contract!Accept
    <3> QED BY <3>2 DEF Contract!Next
  <2>3. CASE FutureDone(r)
    BY <1>9, <1>d, <1>k, <2>1, <2>3 DEF CheckDone
  <2> QED BY <2>2, <2>3
<1>10. CASE ReadRecord(r)
  <2>1. UNCHANGED <<runs, admitted>> /\ Phase(r)' = Phase(r)
    BY <1>10, <1>i, <1>l DEF ReadRecord, store, history
  <2>2. runs[r] # NoRecord /\ runs[r].status \in TerminalStatuses
    <3>1. runs[r] # NoRecord /\ FutureDone(r) /\ future[r] # "raised"
      BY <1>10, <1>i DEF ReadRecord, Scheduled
    <3>2. future[r] = "finished"
      BY <3>1 DEF FutureDone
    <3> QED BY <3>1, <3>2 DEF IInv, FinishedIsRecorded, Recorded, Terminal
  <2>3. Answer(r, 200, BodyOf(runs[r]))
    BY <1>10, <2>2 DEF ReadRecord
  <2>4. StatusOf(BodyOf(runs[r])) = runs[r].status
    BY <2>2 DEF StatusOf, BodyOf, TerminalStatuses
  <2>5. AnswerOf(r)' = runs[r].status
    BY <1>10, <1>i, <1>m, <2>1, <2>3, <2>4 DEF ReadRecord, AnswerOf, Admitted, StatusOf
  <2>6. Phase(r) = runs[r].status
    BY <1>10, <1>i, <2>2 DEF ReadRecord, TerminalStatuses
  <2>7. Contract!Report(r)
    BY <1>10, <1>e, <1>g, <2>1, <2>2, <2>5, <2>6
    DEF ReadRecord, Contract!Report, Contract!Ends, TerminalStatuses
  <2> QED BY <2>7 DEF Contract!Next
<1>11. CASE SyncStep(r)
  BY <1>11, <1>b, <1>d DEF SyncStep, LogStep, pool, history, Phase, Progress, AnswerOf, Admitted,
     Current, Synchronous
<1>12. CASE SyncFinish(r)
  <2>1. PICK out \in Outcomes : Answer(r, 200, out)
    BY <1>12 DEF SyncFinish
  <2>2. UNCHANGED admitted
    BY <1>12 DEF SyncFinish
  <2>3. AnswerOf(r)' = StatusOf(out) /\ Phase(r)' = StatusOf(out)
    BY <1>12, <1>b, <1>j, <1>m, <2>1, <2>2
    DEF SyncFinish, AnswerOf, Phase, Progress, Admitted, Current, Synchronous, StatusOf
  <2>4. StatusOf(out) \in {"succeeded", "failed"}
    BY DEF StatusOf
  <2>5. Contract!End(r)
    BY <1>12, <1>e, <1>g, <1>j, <2>3, <2>4 DEF SyncFinish, Contract!End, Contract!Ends
  <2> QED BY <2>5 DEF Contract!Next
<1>13. ~SyncConsoleRaises(r)
  BY DEF SyncConsoleRaises
<1> QED BY <1>1, <1>2, <1>3, <1>4, <1>5, <1>6, <1>7, <1>8, <1>9, <1>10, <1>11, <1>12, <1>13
        DEF HandlerStep

LEMMA ContractWorker ==
  ASSUME IInv, ~ConsoleFails, NEW w \in Workers, WorkerStep(w)
  PROVE  [Contract!Next]_(Contract!vars)
<1>a. /\ runs \in [Requests -> RecordSet]
      /\ admitted \in [Requests -> Int] /\ epoch \in Nat
  BY DEF IInv, TypeOK
<1>b. UNCHANGED <<call, pc, reply, keys, epoch, admitted>>
  BY WorkerFrame
<1>c. PICK r \in Requests : r = Subject(w)
  BY WorkerFrame
<1>d. \A s \in Requests \ {r} : Phase(s)' = Phase(s) /\ AnswerOf(s)' = AnswerOf(s)
  BY <1>b, <1>c, WorkerFrame, SamePhase DEF SameHandler
<1>e. AnswerOf(r)' = AnswerOf(r)
  BY <1>b DEF AnswerOf, Admitted
<1>1. CASE UNCHANGED runs
  <2>1. Phase(r)' = Phase(r)
    BY <1>1, <1>b DEF Phase, Progress, Admitted, Current, Synchronous
  <2> QED BY <1>b, <1>d, <1>e, <2>1, StutterOf
<1>2. CASE Begin(w) /\ ~UNCHANGED runs
  <2>1. r = job[w] /\ runs[r].status = "queued" /\ runs'[r].status = "running"
    BY <1>2, <1>a, <1>c DEF Begin, Subject, MayTransition, WithStatus
  <2>2. /\ Current(r) /\ ~Synchronous(r) /\ Admitted(r) /\ Phase(r) = "admitted"
    BY <1>2, <2>1, Busy, PhaseOf DEF Begin
  <2>3. Phase(r)' = "running"
    BY <1>b, <2>1, <2>2 DEF Phase, Progress, Admitted, Current, Synchronous
  <2>4. Contract!Move(r, "running", AnswerOf(r))
    BY <1>b, <1>d, <1>e, <2>3, MoveOf
  <2>5. Contract!Start(r)
    BY <2>2, <2>4 DEF Contract!Start
  <2> QED BY <2>5 DEF Contract!Next
<1>3. CASE Finish(w) /\ ~UNCHANGED runs
  <2>1. r = job[w] /\ runs[r].status = "running" /\ runs'[r].status \in {"succeeded", "failed"}
    BY <1>3, <1>a, <1>c DEF Finish, Executing, Subject, MayTransition, WithStatus, StatusOf
  <2>2. /\ Current(r) /\ ~Synchronous(r) /\ Admitted(r) /\ Phase(r) = "running"
    BY <1>3, <2>1, Busy, PhaseOf DEF Finish, Executing
  <2>3. Phase(r)' = runs'[r].status
    BY <1>b, <2>1, <2>2 DEF Phase, Progress, Admitted, Current, Synchronous
  <2>4. PICK to \in {"succeeded", "failed"} : to = Phase(r)'
    BY <2>1, <2>3
  <2>5. Contract!Move(r, to, AnswerOf(r))
    BY <1>b, <1>d, <1>e, <2>4, MoveOf
  <2>6. Contract!End(r)
    BY <2>2, <2>5 DEF Contract!End, Contract!Ends
  <2> QED BY <2>6 DEF Contract!Next
<1>4. Begin(w) \/ Finish(w) \/ UNCHANGED runs
  BY DEF WorkerStep, Take, LogStart, Step, LogStep, LogEnd, ConsoleRaises, store
<1> QED BY <1>1, <1>2, <1>3, <1>4

LEMMA ContractRestart ==
  ASSUME IInv, Restart
  PROVE  Contract!Forget
<1>a. /\ admitted \in [Requests -> Int] /\ epoch \in Nat
      /\ reply \in [Requests -> ReplySet] /\ runs \in [Requests -> RecordSet]
  BY DEF IInv, TypeOK
<1>b. UNCHANGED <<call, reply, admitted>> /\ epoch' = epoch + 1
  BY DEF Restart, history
<1>1. ASSUME NEW r \in Requests
      PROVE  /\ AnswerOf(r)' = AnswerOf(r)
             /\ Phase(r)' = IF Contract!Live(r) THEN "lost" ELSE Phase(r)
  <2>1. AnswerOf(r)' = AnswerOf(r)
    BY <1>b DEF AnswerOf, Admitted
  <2>2. admitted[r] <= epoch
    BY DEF IInv, RequestsAreConsistent, Consistent
  <2>3. CASE ~Admitted(r)
    <3>1. Phase(r)' = Phase(r) /\ Phase(r) \in {"new", "refused"}
      BY <1>b, <2>3 DEF Phase, Admitted
    <3> QED BY <2>1, <3>1 DEF Contract!Live, Contract!Ends
  <2>4. CASE Admitted(r)
    <3>1. Phase(r)' = "lost"
      BY <1>a, <1>b, <2>2, <2>4 DEF Phase, Admitted, Current
    <3>2. ~Contract!Live(r) => Phase(r) = "lost"
      <4>1. CASE ~Current(r)
        BY <2>4, <4>1 DEF Phase
      <4>2. CASE Current(r)
        <5>1. Phase(r) = Progress(r)
          BY <2>4, <4>2 DEF Phase
        <5>2. Progress(r) \in {"admitted", "running", "succeeded", "failed"}
          <6>1. Synchronous(r) => Progress(r) \in {"running", "succeeded", "failed"}
            BY DEF Progress, StatusOf
          <6>2. runs[r].status \in Statuses \cup {"absent"}
            BY <1>a DEF RecordSet
          <6> QED BY <6>1, <6>2 DEF Progress, Statuses
        <5> QED BY <5>1, <5>2 DEF Contract!Live, Contract!Ends
      <4> QED BY <4>1, <4>2
    <3> QED BY <2>1, <3>1, <3>2
  <2> QED BY <2>3, <2>4
<1> QED BY <1>1, <1>b DEF Contract!Forget

LEMMA ContractStep ==
  ASSUME IInv, ~ConsoleFails, [Next]_vars
  PROVE  [Contract!Next]_(Contract!vars)
<1>1. CASE UNCHANGED vars
  <2>1. \A r \in Requests : Phase(r)' = Phase(r) /\ AnswerOf(r)' = AnswerOf(r)
    BY <1>1 DEF vars, store, pool, history, Phase, AnswerOf, Progress, Admitted, Current,
       Synchronous
  <2> QED BY <1>1, <2>1, StutterOf DEF vars
<1>2. CASE Restart
  BY <1>2, ContractRestart DEF Contract!Next
<1> QED BY <1>1, <1>2, ContractHandler, ContractWorker DEF Next

\* When console writes succeed, every behaviour of the service, with all its
\* threads, locks, timeouts and restarts, is one the contract allows.
THEOREM ServiceImplementsContract ==
  ASSUME ConsoleFails = FALSE
  PROVE  Spec => ImplementsContract
<1>1. IInv /\ [Next]_vars => [Contract!Next]_(Contract!vars)
  BY ContractStep
<1> QED BY <1>1, ContractInit, Invariance, PTL DEF Spec, ImplementsContract, Contract!Spec

=============================================================================
