------------------------ MODULE RunServiceTaskProofs ------------------------
(***************************************************************************)
(* The pool keeps every task, and a run's log keeps its order: two more    *)
(* inductive invariants on top of IInv, which says that whatever is queued *)
(* or held is pending or running; here is the converse.                    *)
(***************************************************************************)
EXTENDS RunServiceProofs, FiniteSetTheorems

\* A pending future is somewhere in the queue, a running one with a worker.
TasksAreFound ==
  \A r \in Requests :
    /\ future[r] = "pending" => \E i \in 1..Len(queue) : queue[i] = r
    /\ future[r] = "running" => \E w \in Workers : job[w] = r

LogIsOrdered(r) ==
  \A i \in 1..Len(logs[r]) :
    /\ (logs[r][i] = "run.start") <=> (i = 1)
    /\ logs[r][i] = "step" => runs[r].status \notin {"absent", "queued"}
    /\ logs[r][i] = "run.end" => i = Len(logs[r]) /\ Terminal(r)

LogIsOpen(r) == \A i \in 1..Len(logs[r]) : logs[r][i] # "run.end"

\* The logs of asynchronous runs are in order, and run.end is not written
\* while a worker is busy with the run.
LogsAreOrdered ==
  \A r \in Requests : ~Synchronous(r) =>
    LogIsOrdered(r) /\ (future[r] = "running" => LogIsOpen(r))

-----------------------------------------------------------------------------
\* TasksAreFound

\* A handler moves futures from none to pending only.
LEMMA HandlerSubmitsOnly ==
  ASSUME IInv, NEW r \in Requests, HandlerStep(r)
  PROVE  /\ UNCHANGED queue \/ queue' = Append(queue, r)
         /\ \A s \in Requests : future'[s] # future[s] =>
              future'[s] = "pending" /\ queue' = Append(queue, s)
<1>a. future \in [Requests -> FutureStates]
  BY DEF IInv, TypeOK
<1>1. CASE Submit(r)
  BY <1>1, <1>a DEF Submit
<1>2. CASE ~Submit(r)
  BY <1>2 DEF HandlerStep, Refuse, Receive, Register, Conflict, Create, WaitReturns,
     WaitTimesOut, CheckDone, ReadRecord, SyncStep, LogStep, SyncFinish, SyncConsoleRaises, pool
<1> QED BY <1>1, <1>2

LEMMA FoundHandler ==
  ASSUME IInv, TasksAreFound, NEW r \in Requests, HandlerStep(r)
  PROVE  TasksAreFound'
<1>1. queue \in Seq(Requests) /\ UNCHANGED job
  BY HandlerFrame DEF IInv, TypeOK
<1>2. ASSUME NEW s \in Requests, future'[s] = "pending"
      PROVE  \E i \in 1..Len(queue') : queue'[i] = s
  <2>1. CASE future[s] = "pending"
    <3>1. PICK i \in 1..Len(queue) : queue[i] = s
      BY <2>1 DEF TasksAreFound
    <3>2. i \in 1..Len(queue') /\ queue'[i] = queue[i]
      BY <1>1, HandlerSubmitsOnly
    <3> QED BY <3>1, <3>2
  <2>2. CASE future[s] # "pending"
    <3>1. queue' = Append(queue, s)
      BY <1>2, <2>2, HandlerSubmitsOnly
    <3>2. Len(queue') \in 1..Len(queue') /\ queue'[Len(queue')] = s
      BY <1>1, <3>1
    <3> QED BY <3>2
  <2> QED BY <2>1, <2>2
<1>3. ASSUME NEW s \in Requests, future'[s] = "running"
      PROVE  \E w \in Workers : job'[w] = s
  <2>1. future[s] = "running"
    BY <1>3, HandlerSubmitsOnly
  <2> QED BY <2>1, <1>1 DEF TasksAreFound
<1> QED BY <1>2, <1>3 DEF TasksAreFound

\* A worker that ends its step free has resolved the future of its run.
LEMMA FreedAfter ==
  ASSUME IInv, NEW w \in Workers, WorkerStep(w), wpc'[w] = "idle"
  PROVE  future'[Subject(w)] \in {"finished", "raised"}
<1>a. future \in [Requests -> FutureStates] /\ wpc \in [Workers -> WorkerPCs]
  BY DEF IInv, TypeOK
<1>b. wpc[w] # "idle" => job[w] \in Requests
  BY Busy
<1>1. CASE Take(w)
  BY <1>1, <1>a DEF Take, GotoW
<1>2. CASE LogStart(w)
  BY <1>2, <1>a DEF LogStart, GotoW
<1>3. CASE Begin(w)
  BY <1>3, <1>a, <1>b DEF Begin, GotoW, Resolve, Subject
<1>4. CASE Step(w)
  BY <1>4, <1>a DEF Step, Executing, LogStep, pool
<1>5. CASE Finish(w)
  BY <1>5, <1>a, <1>b DEF Finish, Executing, GotoW, Resolve, Subject
<1>6. CASE LogEnd(w)
  BY <1>6, <1>a, <1>b DEF LogEnd, GotoW, Resolve, Subject
<1>7. CASE ConsoleRaises(w)
  BY <1>7, <1>a, <1>b DEF ConsoleRaises, GotoW, Resolve, Subject
<1> QED BY <1>1, <1>2, <1>3, <1>4, <1>5, <1>6, <1>7 DEF WorkerStep

\* A worker takes the head of the queue, if anything.
LEMMA QueueAfter ==
  ASSUME IInv, NEW w \in Workers, WorkerStep(w)
  PROVE  \/ UNCHANGED queue
         \/ queue # <<>> /\ queue' = Tail(queue) /\ Subject(w) = Head(queue)
<1>1. CASE Take(w)
  BY <1>1 DEF Take, Subject
<1>2. CASE ~Take(w)
  BY <1>2 DEF WorkerStep, LogStart, Begin, Step, LogStep, Executing, Finish, LogEnd,
     ConsoleRaises, Resolve, pool
<1> QED BY <1>1, <1>2

LEMMA FoundWorker ==
  ASSUME IInv, TasksAreFound, NEW w \in Workers, WorkerStep(w)
  PROVE  TasksAreFound'
<1>a. queue \in Seq(Requests) /\ NoRun \notin Requests /\ WorkersHoldRuns
  BY NoRunAssumption DEF IInv, TypeOK, NoRunAssumption
<1>1. PICK r \in Requests : r = Subject(w)
  BY WorkerFrame
<1>2. \A s \in Requests \ {r} : future'[s] = future[s]
  BY <1>1, WorkerFrame DEF SameRun
<1>3. \/ job'[w] = r /\ future'[r] = "running"
      \/ future'[r] \in {"finished", "raised"}
  BY <1>1, HeldAfter, FreedAfter
<1>4. ASSUME NEW s \in Requests, future'[s] = "pending"
      PROVE  \E i \in 1..Len(queue') : queue'[i] = s
  <2>1. s # r /\ future[s] = "pending"
    BY <1>2, <1>3, <1>4
  <2>2. PICK i \in 1..Len(queue) : queue[i] = s
    BY <2>1 DEF TasksAreFound
  <2>3. CASE UNCHANGED queue
    BY <2>2, <2>3
  <2>4. CASE queue # <<>> /\ queue' = Tail(queue) /\ Subject(w) = Head(queue)
    <3>1. i # 1
      BY <1>a, <1>1, <2>1, <2>2, <2>4
    <3>2. i - 1 \in 1..Len(queue') /\ queue'[i - 1] = s
      BY <1>a, <2>2, <2>4, <3>1
    <3> QED BY <3>2
  <2> QED BY <2>3, <2>4, QueueAfter
<1>5. ASSUME NEW s \in Requests, future'[s] = "running"
      PROVE  \E v \in Workers : job'[v] = s
  <2>1. CASE s = r
    BY <2>1, <1>3, <1>5
  <2>2. CASE s # r
    <3>1. PICK v \in Workers : job[v] = s
      BY <2>2, <1>2, <1>5 DEF TasksAreFound
    <3>2. v # w
      BY <3>1, <2>2, <1>1, <1>a DEF Subject, WorkersHoldRuns
    <3> QED BY <3>1, <3>2, WorkerFrame
  <2> QED BY <2>1, <2>2
<1> QED BY <1>4, <1>5 DEF TasksAreFound

LEMMA FoundRestart ==
  ASSUME Restart
  PROVE  TasksAreFound'
BY DEF Restart, TasksAreFound

LEMMA FoundStep == IInv /\ TasksAreFound /\ [Next]_vars => TasksAreFound'
<1>1. CASE Restart
  BY <1>1, FoundRestart
<1>2. CASE UNCHANGED vars
  BY <1>2 DEF vars, pool, TasksAreFound
<1> QED BY <1>1, <1>2, FoundHandler, FoundWorker DEF Next

\* No step of a handler, a worker or a restart takes a task out of the pool
\* before its future is resolved.
THEOREM TasksInvariance == Spec => []TasksAreFound
<1>1. Init => TasksAreFound
  BY DEF Init, TasksAreFound
<1> QED BY <1>1, FoundStep, Invariance, PTL DEF Spec

\* Sets in which all elements are equal have at most one.
LEMMA AtMostOneElement ==
  ASSUME NEW S, \A x, y \in S : x = y
  PROVE  Cardinality(S) = IF S = {} THEN 0 ELSE 1
<1>1. CASE S = {}
  BY <1>1, FS_EmptySet
<1>2. CASE S # {}
  <2>1. PICK x \in S : S = {x}
    BY <1>2
  <2> QED BY <2>1, FS_Singleton
<1> QED BY <1>1, <1>2

\* ThreadPoolExecutor, as the code uses it, neither loses nor doubles a task:
\* each pending future is in the queue once, each running one with one worker,
\* and no others are anywhere.
THEOREM TasksAreKept == Spec => []NoTaskLost
<1>1. ASSUME IInv, TasksAreFound PROVE NoTaskLost
  <2> SUFFICES ASSUME NEW r \in Requests
               PROVE  /\ Cardinality(Queued(r)) = IF future[r] = "pending" THEN 1 ELSE 0
                      /\ Cardinality(Held(r)) = IF future[r] = "running" THEN 1 ELSE 0
    BY DEF NoTaskLost
  <2>1. QueueHoldsPending /\ WorkersHoldRuns /\ NoRun \notin Requests
    BY <1>1, NoRunAssumption DEF IInv, NoRunAssumption
  <2>2. \A i, j \in Queued(r) : i = j
    BY <2>1 DEF Queued, QueueHoldsPending
  <2>3. (Queued(r) = {}) <=> future[r] # "pending"
    BY <1>1, <2>1 DEF Queued, QueueHoldsPending, TasksAreFound
  <2>4. \A v, w \in Held(r) : v = w
    BY <2>1 DEF Held, WorkersHoldRuns
  <2>5. (Held(r) = {}) <=> future[r] # "running"
    BY <1>1, <2>1 DEF Held, WorkersHoldRuns, TasksAreFound
  <2>6. Cardinality(Queued(r)) = IF Queued(r) = {} THEN 0 ELSE 1
    BY <2>2, AtMostOneElement
  <2>7. Cardinality(Held(r)) = IF Held(r) = {} THEN 0 ELSE 1
    BY <2>4, AtMostOneElement
  <2> QED BY <2>3, <2>5, <2>6, <2>7
<1> QED BY <1>1, Invariance, TasksInvariance, PTL

-----------------------------------------------------------------------------
\* LogsAreOrdered

\* One more entry at the end of a log that was in order and open.
LEMMA EntryAppended ==
  ASSUME NEW r \in Requests, NEW e \in Events,
         logs \in [Requests -> Seq(Events)], logs' = Logged(r, e),
         LogIsOrdered(r), LogIsOpen(r),
         (e = "run.start") <=> (logs[r] = <<>>),
         e = "step" => runs'[r].status \notin {"absent", "queued"},
         e = "run.end" => Terminal(r)',
         runs'[r] = runs[r]
  PROVE  LogIsOrdered(r)' /\ (e # "run.end" => LogIsOpen(r)')
<1>1. logs'[r] = Append(logs[r], e) /\ logs[r] \in Seq(Events)
  BY DEF Logged
<1>2. /\ Len(logs'[r]) = Len(logs[r]) + 1 /\ Len(logs[r]) \in Nat
      /\ logs'[r][Len(logs[r]) + 1] = e
      /\ \A i \in 1..Len(logs[r]) : logs'[r][i] = logs[r][i]
      /\ (logs[r] = <<>>) <=> (Len(logs[r]) = 0)
  BY <1>1
<1>3. \A i \in 1..Len(logs'[r]) : i \in 1..Len(logs[r]) \/ i = Len(logs[r]) + 1
  BY <1>2
<1>4. ASSUME NEW i \in 1..Len(logs[r])
      PROVE  /\ (logs'[r][i] = "run.start") <=> (i = 1)
             /\ logs'[r][i] = "step" => runs'[r].status \notin {"absent", "queued"}
             /\ logs'[r][i] # "run.end"
  BY <1>2, <1>4 DEF LogIsOrdered, LogIsOpen
<1>5. LogIsOrdered(r)'
  BY <1>2, <1>3, <1>4 DEF LogIsOrdered
<1>6. e # "run.end" => LogIsOpen(r)'
  BY <1>2, <1>3, <1>4 DEF LogIsOpen
<1> QED BY <1>5, <1>6

\* A handler writes to the log of a synchronous request only, and creates a
\* record only where there is no log yet.
LEMMA HandlerKeepsLog ==
  ASSUME IInv, NEW r \in Requests, HandlerStep(r), ~Synchronous(r)
  PROVE  /\ logs'[r] = logs[r]
         /\ runs'[r] = runs[r] \/ logs[r] = <<>>
<1>1. CASE Create(r)
  <2>1. logs[r] = <<>>
    BY <1>1, InFlight DEF Create, Scheduled
  <2> QED BY <1>1, <2>1 DEF Create
<1>2. CASE ~Create(r)
  <2>1. pc[r] # "execute"
    BY InHandler
  <2>2. UNCHANGED <<runs, logs>>
    BY <1>2, <2>1 DEF HandlerStep, Refuse, Receive, Register, Conflict, Submit, WaitReturns,
       WaitTimesOut, CheckDone, ReadRecord, SyncStep, SyncFinish, SyncConsoleRaises, store
  <2> QED BY <2>2
<1> QED BY <1>1, <1>2

LEMMA OrderedHandler ==
  ASSUME IInv, LogsAreOrdered, NEW r \in Requests, HandlerStep(r)
  PROVE  LogsAreOrdered'
<1>1. UNCHANGED call /\ \A s \in Requests \ {r} : SameRun(s)
  BY HandlerFrame
<1>2. ASSUME NEW s \in Requests, ~Synchronous(s)
      PROVE  LogIsOrdered(s)' /\ (future'[s] = "running" => LogIsOpen(s)')
  <2>1. LogIsOrdered(s) /\ (future[s] = "running" => LogIsOpen(s))
    BY <1>2 DEF LogsAreOrdered
  <2>2. logs'[s] = logs[s] /\ (runs'[s] = runs[s] \/ logs[s] = <<>>)
    BY <1>1, <1>2, HandlerKeepsLog DEF SameRun
  <2>3. future'[s] = "running" => future[s] = "running"
    BY HandlerSubmitsOnly
  <2> QED BY <2>1, <2>2, <2>3 DEF LogIsOrdered, LogIsOpen, Terminal
<1> QED BY <1>1, <1>2 DEF LogsAreOrdered, Synchronous

LEMMA OrderedWorker ==
  ASSUME IInv, LogsAreOrdered, NEW w \in Workers, WorkerStep(w)
  PROVE  LogsAreOrdered'
<1>a. /\ runs \in [Requests -> RecordSet] /\ future \in [Requests -> FutureStates]
      /\ logs \in [Requests -> Seq(Events)]
  BY DEF IInv, TypeOK
<1>b. {"run.start", "run.end", "step"} \subseteq Events
  BY DEF Events
<1>1. PICK r \in Requests : r = Subject(w)
  BY WorkerFrame
<1>2. UNCHANGED call /\ \A s \in Requests \ {r} : SameRun(s)
  BY <1>1, WorkerFrame
<1>3. ASSUME ~Synchronous(r)
      PROVE  LogIsOrdered(r)' /\ (future'[r] = "running" => LogIsOpen(r)')
  <2>1. wpc[w] # "idle" => /\ r = job[w] /\ future[r] = "running" /\ AtStage(wpc[w], r)
                           /\ LogIsOrdered(r) /\ LogIsOpen(r)
    BY <1>1, <1>3, Busy DEF Subject, IInv, WorkersAreInStep, LogsAreOrdered
  <2>2. CASE Take(w)
    <3>1. r = Head(queue) /\ future[r] = "pending"
      BY <2>2, <1>1, Waiting DEF Take, Subject
    <3>2. Scheduled(r)
      BY <3>1, InFlight
    <3>3. logs'[r] = <<>>
      BY <2>2, <3>1, <3>2 DEF Take, Scheduled, store
    <3> QED BY <3>3 DEF LogIsOrdered, LogIsOpen
  <2>3. CASE LogStart(w)
    <3>1. logs[r] = <<>> /\ logs' = Logged(r, "run.start") /\ UNCHANGED runs
      BY <2>1, <2>3 DEF LogStart, AtStage
    <3> QED BY <1>a, <1>b, <2>1, <2>3, <3>1, EntryAppended DEF LogStart
  <2>4. CASE Begin(w)
    <3>1. runs[r] = NewRecord /\ wpc[w] # "idle"
      BY <2>1, <2>4 DEF Begin, AtStage
    <3>2. UNCHANGED logs /\ runs'[r].status = "running"
      BY <2>1, <2>4, <3>1, <1>a DEF Begin, MayTransition, NewRecord, WithStatus
    <3> QED BY <2>1, <3>1, <3>2 DEF LogIsOrdered, LogIsOpen
  <2>5. CASE Step(w)
    <3>1. /\ logs[r] # <<>> /\ runs[r].status = "running"
          /\ logs' = Logged(r, "step") /\ UNCHANGED runs
      BY <2>1, <2>5 DEF Step, Executing, LogStep, AtStage, LogIsStarted, NewRecord
    <3> QED BY <1>a, <1>b, <2>1, <2>5, <3>1, EntryAppended DEF Step, Executing
  <2>6. CASE Finish(w)
    <3>1. wpc[w] # "idle" /\ UNCHANGED logs
      BY <2>6 DEF Finish, Executing
    <3>2. PICK out \in Outcomes : runs'[r] = WithStatus(runs[r], StatusOf(out), out)
      BY <2>1, <2>6, <1>a DEF Finish, Executing, MayTransition, AtStage, NewRecord
    <3>3. runs'[r].status \notin {"absent", "queued"}
      BY <3>2 DEF WithStatus, StatusOf
    <3> QED BY <2>1, <3>1, <3>3 DEF LogIsOrdered, LogIsOpen
  <2>7. CASE LogEnd(w)
    <3>1. wpc[w] # "idle" /\ Recorded(r) /\ logs[r] # <<>>
      BY <2>1, <2>7 DEF LogEnd, AtStage, LogIsStarted
    <3>2. logs' = Logged(r, "run.end") /\ UNCHANGED runs /\ future'[r] = "finished"
      BY <2>1, <2>7, <1>a DEF LogEnd, Resolve
    <3>3. Terminal(r)'
      BY <3>1, <3>2 DEF Recorded, Terminal
    <3> QED BY <1>a, <1>b, <2>1, <3>1, <3>2, <3>3, EntryAppended
  <2>8. CASE ConsoleRaises(w)
    <3>1. wpc[w] # "idle" /\ UNCHANGED <<logs, runs>>
      BY <2>8 DEF ConsoleRaises, store
    <3> QED BY <2>1, <3>1 DEF LogIsOrdered, LogIsOpen, Terminal
  <2> QED BY <2>2, <2>3, <2>4, <2>5, <2>6, <2>7, <2>8 DEF WorkerStep
<1>4. ASSUME NEW s \in Requests \ {r}, ~Synchronous(s)
      PROVE  LogIsOrdered(s)' /\ (future'[s] = "running" => LogIsOpen(s)')
  BY <1>2, <1>4 DEF SameRun, LogsAreOrdered, LogIsOrdered, LogIsOpen, Terminal
<1> QED BY <1>2, <1>3, <1>4 DEF LogsAreOrdered, Synchronous

LEMMA OrderedStep == IInv /\ LogsAreOrdered /\ [Next]_vars => LogsAreOrdered'
<1>1. CASE Restart
  BY <1>1 DEF Restart, LogsAreOrdered, LogIsOrdered, LogIsOpen
<1>2. CASE UNCHANGED vars
  BY <1>2 DEF vars, store, pool, LogsAreOrdered, LogIsOrdered, LogIsOpen, Terminal, Synchronous
<1> QED BY <1>1, <1>2, OrderedHandler, OrderedWorker DEF Next

\* The logs InMemoryRunLogStore keeps of asynchronous runs stay in order, and
\* open as long as a worker holds the run.
THEOREM LogsInvariance == Spec => []LogsAreOrdered
<1>1. Init => LogsAreOrdered
  BY DEF Init, LogsAreOrdered, LogIsOrdered, LogIsOpen
<1> QED BY <1>1, OrderedStep, Invariance, PTL DEF Spec

\* However handlers, workers, failing consoles and restarts interleave, the
\* log of an asynchronous run begins with run.start, ends with run.end, and
\* says run.end only of a record that is terminal.
THEOREM LogsFollowLifecycle == Spec => []LogFollowsLifecycle
<1>1. LogsAreOrdered => LogFollowsLifecycle
  BY DEF LogsAreOrdered, LogIsOrdered, LogFollowsLifecycle
<1> QED BY <1>1, LogsInvariance, PTL
=============================================================================
