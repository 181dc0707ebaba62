--------------------------- MODULE RunClientProofs ---------------------------
(***************************************************************************)
(* Theorems about the commands of smoke_run.py against the run API, for    *)
(* any number of commands, workers and restarts, and with consoles that    *)
(* may fail.                                                               *)
(***************************************************************************)
EXTENDS RunClient, RunServiceProofs

\* What the service knows of r's outcome: nothing before r's scenario was
\* executed, and the record and the reply that tell of it tell the truth.
Truthful(r) ==
  /\ pc[r] \in {"idle", "register", "create", "submit", "execute"} => outcome[r] = NoOutcome
  /\ runs[r].status \in {"queued", "running"} => outcome[r] = NoOutcome
  /\ runs[r].status = "absent" => runs[r] = NoRecord
  /\ Terminal(r) => /\ outcome[r] # NoOutcome /\ executions[r] = 1
                    /\ outcome[r].success <=> runs[r].status = "succeeded"
  /\ reply[r].code = 202 => Admitted(r)
  /\ reply[r].code = 200 /\ reply[r].body.success =>
       Admitted(r) /\ executions[r] = 1 /\ outcome[r].success

\* What the commands have learned of r so far.
Learned(r) ==
  /\ postExit[r] = 0 => Admitted(r)
  /\ Answered(r, 0) \/ waitExit[r] = 0 => executions[r] = 1 /\ outcome[r].success
  /\ seen[r] = "failed" => outcome[r] # NoOutcome /\ ~outcome[r].success
  /\ seen[r] # "absent" => pc[r] \notin {"idle", "register", "create"}
  /\ seen[r] # "absent" /\ runs[r].status # "absent" => Rank(seen[r]) <= Rank(runs[r].status)
  /\ seen[r] \in TerminalStatuses => cli[r] = "exited"

ClientTypes ==
  /\ cli \in [Requests -> CommandPCs]
  /\ posted \in [Requests -> Int]
  /\ seen \in [Requests -> Statuses \cup {"absent"}]
  /\ late \in [Requests -> BOOLEAN]
  /\ postExit \in [Requests -> ExitCodes]
  /\ waitExit \in [Requests -> ExitCodes]

ServiceIsTruthful == \A r \in Requests : Truthful(r)

ClientInv ==
  /\ IInv
  /\ ClientTypes
  /\ ServiceIsTruthful
  /\ \A r \in Requests : Learned(r)

LEMMA NoOutcomeFails == NoOutcome.success = FALSE
BY DEF NoOutcome

-----------------------------------------------------------------------------
\* ServiceIsTruthful

LEMMA TruthHandler ==
  ASSUME IInv, ServiceIsTruthful, NEW r \in Requests, HandlerStep(r)
  PROVE  ServiceIsTruthful'
<1>a. /\ pc \in [Requests -> RequestPCs] /\ reply \in [Requests -> ReplySet]
      /\ runs \in [Requests -> RecordSet] /\ admitted \in [Requests -> Int]
      /\ executions \in [Requests -> Nat] /\ outcome \in [Requests -> OutcomeSet]
      /\ epoch \in Nat
  BY DEF IInv, TypeOK
<1>b. \A s \in Requests \ {r} : Truthful(s)'
  BY HandlerFrame DEF ServiceIsTruthful, Truthful, SameRun, SameHandler, Terminal, Admitted
<1>c. SUFFICES Truthful(r)'
  BY <1>b DEF ServiceIsTruthful
<1>d. Truthful(r)
  BY DEF ServiceIsTruthful
<1>e. pc[r] \in {"idle", "register"} => Unadmitted(r)
  BY NotYetAdmitted
<1>f. pc[r] \in {"create", "submit", "wait", "check", "read"} => Admitted(r) /\ Scheduled(r)
  BY InFlight
<1>g. pc[r] = "execute" => InHandlerThread(r) /\ Admitted(r)
  BY InHandler
<1>h. pc[r] # "done" => reply[r].code = 0
  BY DEF IInv, RepliesAreFounded, Founded
<1> USE DEF Truthful, Terminal, Admitted
<1>1. CASE Refuse(r)
  <2>1. /\ pc'[r] = "done" /\ UNCHANGED <<runs, outcome>>
        /\ reply'[r].code # 202
        /\ reply'[r].code = 200 => ~reply'[r].body.success
    BY <1>1, <1>a DEF Refuse, Refusal, NoReply, Reply, Answer, BuildRaised, store, history
  <2>2. runs[r] = NoRecord
    BY <1>1, <1>e DEF Refuse, Unadmitted
  <2> QED BY <2>1, <2>2 DEF NoRecord, TerminalStatuses
<1>2. CASE Receive(r)
  BY <1>2, <1>a, <1>d DEF Receive, Goto, store, history
<1>3. CASE Register(r)
  <2>1. /\ pc'[r] \in {"execute", "create"} /\ UNCHANGED <<runs, outcome, reply>>
        /\ runs[r] = NoRecord /\ outcome[r] = NoOutcome /\ reply[r].code = 0
    BY <1>3, <1>a, <1>d, <1>e, <1>h DEF Register, Goto, Unadmitted
  <2> QED BY <2>1 DEF NoRecord, TerminalStatuses
<1>4. CASE Conflict(r)
  <2>1. /\ pc'[r] = "done" /\ UNCHANGED <<runs, outcome>> /\ reply'[r].code = 409
    BY <1>4, <1>a DEF Conflict, Answer, Reply, store, history
  <2>2. runs[r] = NoRecord
    BY <1>4, <1>e DEF Conflict, Unadmitted
  <2> QED BY <2>1, <2>2 DEF NoRecord, TerminalStatuses
<1>5. CASE Create(r)
  <2>1. /\ runs'[r] = NewRecord /\ UNCHANGED <<outcome, reply>> /\ outcome[r] = NoOutcome
        /\ reply[r].code = 0
    BY <1>5, <1>a, <1>d, <1>h DEF Create, Goto, history
  <2> QED BY <2>1 DEF NewRecord, TerminalStatuses
<1>6. CASE Submit(r)
  <2>1. /\ UNCHANGED <<runs, outcome, executions, admitted>> /\ Admitted(r)
        /\ pc'[r] \in {"wait", "done"}
        /\ reply'[r].code = 202 \/ reply'[r] = reply[r]
    BY <1>6, <1>a, <1>f DEF Submit, Answer, Goto, Reply, store, history
  <2> QED BY <2>1, <1>d
<1>7. CASE WaitReturns(r)
  BY <1>7, <1>a, <1>d DEF WaitReturns, Goto, store, history
<1>8. CASE WaitTimesOut(r)
  BY <1>8, <1>a, <1>d DEF WaitTimesOut, Goto, store, history
<1>9. CASE CheckDone(r)
  <2>1. /\ UNCHANGED <<runs, outcome, executions, admitted>> /\ Admitted(r)
        /\ pc'[r] \in {"read", "done"}
        /\ reply'[r].code = 202 \/ reply'[r] = reply[r]
    BY <1>9, <1>a, <1>f DEF CheckDone, Answer, Goto, Reply, store, history
  <2> QED BY <2>1, <1>d
<1>10. CASE ReadRecord(r)
  <2>1. /\ UNCHANGED <<runs, outcome, executions, admitted>> /\ Admitted(r) /\ pc'[r] = "done"
        /\ reply'[r].code # 202
        /\ reply'[r].code = 200 => reply'[r].body.success = (runs[r].status = "succeeded")
    BY <1>10, <1>a, <1>f DEF ReadRecord, Answer, Reply, BodyOf, store, history
  <2> QED BY <2>1, <1>d DEF TerminalStatuses
<1>11. CASE SyncStep(r)
  BY <1>11, <1>d DEF SyncStep, LogStep, history
<1>12. CASE SyncFinish(r)
  <2>1. PICK out \in Outcomes : outcome'[r] = out /\ reply'[r] = Reply(200, out)
    BY <1>12, <1>a DEF SyncFinish, Answer
  <2>2. /\ UNCHANGED <<runs, executions, admitted>> /\ pc'[r] = "done"
        /\ runs[r] = NoRecord /\ executions[r] = 1 /\ Admitted(r)
    BY <1>12, <1>a, <1>g DEF SyncFinish, Answer, InHandlerThread, store
  <2> QED BY <2>1, <2>2 DEF NoRecord, TerminalStatuses, Reply
<1>13. CASE SyncConsoleRaises(r)
  <2>1. /\ pc'[r] = "done" /\ UNCHANGED <<runs, outcome>> /\ runs[r] = NoRecord
        /\ reply'[r].code # 202
        /\ reply'[r].code = 200 => ~reply'[r].body.success
    BY <1>13, <1>a, <1>g
    DEF SyncConsoleRaises, Reply, Answer, BuildRaised, InHandlerThread, store, history
  <2> QED BY <2>1 DEF NoRecord, TerminalStatuses
<1> QED BY <1>1, <1>2, <1>3, <1>4, <1>5, <1>6, <1>7, <1>8, <1>9, <1>10, <1>11, <1>12, <1>13
        DEF HandlerStep

LEMMA TruthWorker ==
  ASSUME IInv, ServiceIsTruthful, NEW w \in Workers, WorkerStep(w)
  PROVE  ServiceIsTruthful'
<1>a. /\ runs \in [Requests -> RecordSet] /\ executions \in [Requests -> Nat]
      /\ outcome \in [Requests -> OutcomeSet]
  BY DEF IInv, TypeOK
<1>b. PICK r \in Requests : r = Subject(w)
  BY WorkerFrame
<1>c. UNCHANGED <<pc, reply, admitted>> /\ \A s \in Requests \ {r} : SameRun(s)
  BY <1>b, WorkerFrame
<1>d. SUFFICES Truthful(r)'
  BY <1>c DEF ServiceIsTruthful, Truthful, SameRun, Terminal, Admitted
<1>e. Truthful(r)
  BY DEF ServiceIsTruthful
<1>1. CASE Begin(w)
  <2>1. r = job[w] /\ runs[r] = NewRecord
    BY <1>1, <1>b, Busy DEF Begin, Subject, IInv, WorkersAreInStep, AtStage
  <2>2. outcome[r] = NoOutcome /\ UNCHANGED outcome /\ runs'[r].status = "running"
    BY <1>1, <1>a, <1>e, <2>1 DEF Truthful, Begin, MayTransition, NewRecord, WithStatus
  <2> QED BY <1>c, <1>e, <2>2, NoOutcomeFails DEF Truthful, Terminal, TerminalStatuses, Admitted
<1>2. CASE Finish(w)
  <2>1. /\ r = job[w] /\ runs[r] = [NewRecord EXCEPT !.status = "running"] /\ Scheduled(r)
        /\ pc[r] \notin {"idle", "register", "create", "submit", "execute"}
    BY <1>2, <1>b, Busy DEF Finish, Executing, Subject, IInv, WorkersAreInStep, AtStage
  <2>2. runs[r].status = "running" /\ executions[r] = 1 /\ UNCHANGED executions
    BY <1>2, <2>1 DEF Finish, Scheduled, NewRecord
  <2>3. PICK out \in Outcomes : /\ outcome'[r] = out
                                /\ runs'[r] = WithStatus(runs[r], StatusOf(out), out)
    BY <1>2, <1>a, <2>1, <2>2 DEF Finish, MayTransition
  <2>4. /\ runs'[r].status \in TerminalStatuses /\ out # NoOutcome
        /\ out.success <=> runs'[r].status = "succeeded"
    <3>1. out \in OutcomeSet
      BY OutcomeTypes
    <3>2. out.success \in BOOLEAN
      BY <3>1 DEF OutcomeSet
    <3>3. out # NoOutcome
      BY <2>1, OutcomeRecorded
    <3>4. runs'[r].status = StatusOf(out)
      BY <2>3 DEF WithStatus
    <3> QED BY <3>2, <3>3, <3>4 DEF StatusOf, TerminalStatuses
  <2>5. ~(reply[r].code = 200 /\ reply[r].body.success)
    BY <1>e, <2>2, NoOutcomeFails DEF Truthful
  <2> QED BY <1>c, <1>e, <2>1, <2>2, <2>3, <2>4, <2>5
          DEF Truthful, Terminal, TerminalStatuses, Admitted
<1>3. CASE ~Begin(w) /\ ~Finish(w)
  <2>1. UNCHANGED <<runs, outcome, executions>>
    BY <1>3 DEF WorkerStep, Take, LogStart, Step, LogStep, LogEnd, ConsoleRaises, store, history
  <2> QED BY <1>c, <1>e, <2>1 DEF Truthful, Terminal, Admitted
<1> QED BY <1>1, <1>2, <1>3

LEMMA TruthRestart ==
  ASSUME IInv, ServiceIsTruthful, Restart
  PROVE  ServiceIsTruthful'
<1>1. ASSUME NEW r \in Requests PROVE Truthful(r)'
  <2>1. /\ UNCHANGED <<reply, admitted, executions, outcome>> /\ runs'[r] = NoRecord
        /\ pc'[r] \in {"idle", "done", "lost"} /\ (pc'[r] = "idle" => pc[r] = "idle")
    BY DEF Restart, history
  <2> QED BY <2>1 DEF ServiceIsTruthful, Truthful, Terminal, TerminalStatuses, NoRecord, Admitted
<1> QED BY <1>1 DEF ServiceIsTruthful

LEMMA TruthInit == Init => ServiceIsTruthful
<1> SUFFICES ASSUME Init, NEW r \in Requests PROVE Truthful(r)
  BY DEF ServiceIsTruthful
<1> QED BY DEF Init, Truthful, Terminal, TerminalStatuses, NoRecord, NoReply, Reply

LEMMA TruthStep == IInv /\ ServiceIsTruthful /\ [Next]_vars => ServiceIsTruthful'
<1> SUFFICES ASSUME IInv, ServiceIsTruthful, [Next]_vars PROVE ServiceIsTruthful'
  OBVIOUS
<1>1. CASE UNCHANGED vars
  <2>1. UNCHANGED <<pc, reply, runs, outcome, executions, admitted>>
    BY <1>1 DEF vars, store, history
  <2> QED BY <2>1 DEF ServiceIsTruthful, Truthful, Terminal, Admitted
<1> QED BY <1>1, TruthHandler, TruthWorker, TruthRestart DEF Next

-----------------------------------------------------------------------------
\* What a server step may not do to what a command has learned.

LEMMA HandlerKeepsFacts ==
  ASSUME IInv, ServiceIsTruthful, NEW s \in Requests, HandlerStep(s), NEW r \in Requests
  PROVE  /\ Admitted(r) => Admitted(r)'
         /\ outcome[r] # NoOutcome => outcome'[r] = outcome[r] /\ executions'[r] = executions[r]
         /\ pc'[r] \in {"idle", "register", "create"} => pc[r] \in {"idle", "register", "create"}
<1>a. /\ pc \in [Requests -> RequestPCs] /\ admitted \in [Requests -> Int]
      /\ executions \in [Requests -> Nat] /\ outcome \in [Requests -> OutcomeSet]
      /\ epoch \in Nat
  BY DEF IInv, TypeOK
<1>1. CASE r # s
  BY <1>1, HandlerFrame DEF SameRun, SameHandler, Admitted
<1>2. CASE r = s
  <2>1. outcome[r] # NoOutcome => pc[r] \notin {"register", "execute"}
    BY DEF ServiceIsTruthful, Truthful
  <2>2. CASE Register(r)
    BY <1>a, <2>1, <2>2 DEF Register, Goto, Admitted
  <2>3. CASE SyncFinish(r)
    BY <1>a, <2>1, <2>3 DEF SyncFinish, Answer, Admitted
  <2>4. CASE ~Register(r) /\ ~SyncFinish(r)
    <3>1. UNCHANGED history
      BY <1>2, <2>4 DEF HandlerStep, Refuse, Receive, Conflict, Create, Submit, WaitReturns,
         WaitTimesOut, CheckDone, ReadRecord, SyncStep, LogStep, SyncConsoleRaises
    <3>2. pc'[r] \in {"idle", "register", "create"} => pc[r] \in {"idle", "register", "create"}
      BY <1>2, <1>a, <2>4 DEF HandlerStep, Refuse, Receive, Conflict, Create, Submit, WaitReturns,
         WaitTimesOut, CheckDone, ReadRecord, SyncStep, LogStep, SyncConsoleRaises, Answer, Goto
    <3> QED BY <3>1, <3>2 DEF history, Admitted
  <2> QED BY <2>2, <2>3, <2>4
<1> QED BY <1>1, <1>2

LEMMA WorkerKeepsFacts ==
  ASSUME IInv, ServiceIsTruthful, NEW w \in Workers, WorkerStep(w), NEW r \in Requests
  PROVE  /\ UNCHANGED <<admitted, pc>>
         /\ outcome[r] # NoOutcome => outcome'[r] = outcome[r] /\ executions'[r] = executions[r]
<1>a. executions \in [Requests -> Nat] /\ outcome \in [Requests -> OutcomeSet]
  BY DEF IInv, TypeOK
<1>1. UNCHANGED <<admitted, pc>>
  BY WorkerFrame
<1>2. CASE r # Subject(w)
  BY <1>1, <1>2, WorkerFrame DEF SameRun
<1>3. CASE r = Subject(w)
  <2>1. wpc[w] \in {"transition", "execute"} => r = job[w] /\ outcome[r] = NoOutcome
    <3>1. ASSUME wpc[w] \in {"transition", "execute"}
          PROVE  r = job[w] /\ runs[r].status \in {"queued", "running"}
      BY <1>3, <3>1, Busy DEF Subject, IInv, WorkersAreInStep, AtStage, NewRecord
    <3> QED BY <3>1 DEF ServiceIsTruthful, Truthful
  <2>2. CASE Begin(w) \/ Finish(w)
    BY <2>1, <2>2 DEF Begin, Finish, Executing
  <2>3. CASE ~(Begin(w) \/ Finish(w))
    <3>1. UNCHANGED <<outcome, executions>>
      BY <2>3 DEF WorkerStep, Take, LogStart, Step, LogStep, LogEnd, ConsoleRaises, history
    <3> QED BY <1>1, <3>1
  <2> QED BY <1>1, <2>2, <2>3
<1> QED BY <1>2, <1>3

\* Records only move on, as long as there are any.
LEMMA RecordsMoveOn ==
  ASSUME IInv, NEW r \in Requests, pc[r] \notin {"idle", "register", "create"},
         \/ \E s \in Requests : HandlerStep(s)
         \/ \E w \in Workers : WorkerStep(w)
         \/ Restart
  PROVE  runs'[r].status # "absent" =>
           runs[r].status # "absent" /\ Rank(runs[r].status) <= Rank(runs'[r].status)
<1>1. CASE runs'[r] = runs[r]
  BY <1>1 DEF Rank
<1>2. CASE Restart
  BY <1>2 DEF Restart, NoRecord
<1>3. CASE runs'[r] # runs[r] /\ \E s \in Requests : HandlerStep(s)
  BY <1>3, HandlerWritesRecord
<1>4. CASE runs'[r] # runs[r] /\ \E w \in Workers : WorkerStep(w)
  BY <1>4, WorkerMovesRecord DEF Rank
<1> QED BY <1>1, <1>2, <1>3, <1>4

-----------------------------------------------------------------------------
\* The invariant of the whole system

LEMMA ServerKeepsInv ==
  ASSUME ClientInv, ServerStep
  PROVE  ClientInv'
<1>1. [Next]_vars /\ UNCHANGED <<cli, posted, seen, late, postExit, waitExit>>
  BY DEF ServerStep, Next, client
<1>2. IInv' /\ ClientTypes'
  BY <1>1, InvStep DEF ClientInv, ClientTypes
<1>3. ServiceIsTruthful'
  BY TruthHandler, TruthWorker, TruthRestart DEF ServerStep, ClientInv
<1>4. ASSUME NEW r \in Requests
      PROVE  Learned(r)'
  <2>1. Learned(r) /\ IInv /\ ServiceIsTruthful
    BY DEF ClientInv
  <2>2. /\ Admitted(r) => Admitted(r)'
        /\ outcome[r] # NoOutcome => outcome'[r] = outcome[r] /\ executions'[r] = executions[r]
        /\ pc'[r] \in {"idle", "register", "create"} => pc[r] \in {"idle", "register", "create"}
    <3>1. CASE \E s \in Requests : HandlerStep(s)
      BY <2>1, <3>1, HandlerKeepsFacts
    <3>2. CASE \E w \in Workers : WorkerStep(w)
      BY <2>1, <3>2, WorkerKeepsFacts DEF Admitted
    <3>3. CASE Restart
      BY <2>1, <3>3 DEF Restart, history, Admitted, IInv, TypeOK
    <3> QED BY <3>1, <3>2, <3>3 DEF ServerStep
  <2>3. seen[r] # "absent" /\ runs'[r].status # "absent" =>
          runs[r].status # "absent" /\ Rank(runs[r].status) <= Rank(runs'[r].status)
    BY <2>1, RecordsMoveOn DEF ServerStep, Learned
  <2>4. \A status : Rank(status) \in Int
    BY DEF Rank
  <2>5. seen[r] # "absent" /\ runs'[r].status # "absent" => Rank(seen[r]) <= Rank(runs'[r].status)
    BY <2>1, <2>3, <2>4 DEF Learned
  <2> QED BY <1>1, <2>1, <2>2, <2>5, NoOutcomeFails DEF Learned, Answered
<1> QED BY <1>2, <1>3, <1>4 DEF ClientInv

LEMMA LearnedFrame ==
  ASSUME NEW r \in Requests, Learned(r), UNCHANGED vars,
         cli'[r] = cli[r], seen'[r] = seen[r], postExit'[r] = postExit[r], waitExit'[r] = waitExit[r]
  PROVE  Learned(r)'
BY DEF vars, store, history, Learned, Answered, Admitted, Rank

LEMMA CommandKeepsInv ==
  ASSUME ClientInv, NEW r \in Requests, ClientStep(r)
  PROVE  ClientInv'
<1>a. /\ cli \in [Requests -> CommandPCs] /\ seen \in [Requests -> Statuses \cup {"absent"}]
      /\ postExit \in [Requests -> ExitCodes] /\ waitExit \in [Requests -> ExitCodes]
      /\ runs \in [Requests -> RecordSet] /\ reply \in [Requests -> ReplySet]
  BY DEF ClientInv, ClientTypes, IInv, TypeOK
<1>b. UNCHANGED vars
  BY DEF ClientStep, Post, PostExit, PostFails, Wait, Poll, PollRaises, Judge, DeadlinePasses
<1>c. UNCHANGED <<pc, reply, runs, outcome, executions, admitted, epoch>>
  BY <1>b DEF vars, store, history
<1>1. IInv' /\ ServiceIsTruthful'
  <2>1. IInv'
    BY <1>b, InvStep DEF ClientInv
  <2> QED BY <1>c, <2>1 DEF ClientInv, ServiceIsTruthful, Truthful, Terminal, Admitted
<1>2. ClientTypes'
  <2>a. /\ posted \in [Requests -> Int] /\ late \in [Requests -> BOOLEAN] /\ epoch \in Int
        /\ runs[r].status \in Statuses \cup {"absent"}
    BY <1>a DEF ClientInv, ClientTypes, IInv, TypeOK, RecordSet
  <2>b. {0, 1, NoExit} = ExitCodes /\ PostCode(reply[r]) \in {0, 1}
    BY DEF ExitCodes, PostCode
  <2>c. ASSUME NEW place \in CommandPCs, At(r, place) PROVE cli' \in [Requests -> CommandPCs]
    BY <1>a, <2>c DEF At
  <2>d. ASSUME NEW code \in {0, 1}, WaitExits(r, code)
        PROVE  cli' \in [Requests -> CommandPCs] /\ waitExit' \in [Requests -> ExitCodes]
    BY <1>a, <2>b, <2>c, <2>d DEF WaitExits, CommandPCs
  <2>e. {"posting", "accepted", "polling", "judging", "exited", "gaveup"} \subseteq CommandPCs
    BY DEF CommandPCs
  <2>1. CASE Post(r)
    BY <1>a, <2>1, <2>a, <2>c, <2>e DEF Post, ClientTypes
  <2>2. CASE PostExit(r)
    BY <1>a, <2>2, <2>a, <2>b, <2>c, <2>e DEF PostExit, ClientTypes
  <2>3. CASE PostFails(r)
    BY <1>a, <2>3, <2>a, <2>b, <2>c, <2>e DEF PostFails, ClientTypes
  <2>4. CASE Wait(r)
    BY <1>a, <2>4, <2>a, <2>c, <2>e DEF Wait, ClientTypes
  <2>5. CASE Poll(r)
    BY <1>a, <2>5, <2>a, <2>c, <2>d, <2>e DEF Poll, ClientTypes
  <2>6. CASE PollRaises(r)
    BY <1>a, <2>6, <2>a, <2>d DEF PollRaises, ClientTypes
  <2>7. CASE Judge(r)
    BY <1>a, <2>7, <2>a, <2>c, <2>d, <2>e DEF Judge, ClientTypes
  <2>8. CASE DeadlinePasses(r)
    BY <1>a, <2>8, <2>a DEF DeadlinePasses, ClientTypes
  <2> QED BY <2>1, <2>2, <2>3, <2>4, <2>5, <2>6, <2>7, <2>8 DEF ClientStep
<1>3. ASSUME NEW s \in Requests \ {r} PROVE Learned(s)'
  <2>1. /\ cli'[s] = cli[s] /\ seen'[s] = seen[s] /\ postExit'[s] = postExit[s]
        /\ waitExit'[s] = waitExit[s]
    BY <1>a DEF ClientStep, Post, PostExit, PostFails, Wait, Poll, PollRaises, Judge,
       DeadlinePasses, WaitExits, At
  <2> QED BY <1>b, <2>1, LearnedFrame DEF ClientInv
<1>4. Learned(r)'
  <2>a. Learned(r) /\ Truthful(r)
    BY DEF ClientInv, ServiceIsTruthful
  <2>1. CASE Post(r) \/ PostFails(r) \/ Wait(r) \/ DeadlinePasses(r)
    <3>1. /\ cli'[r] # "exited" \/ cli'[r] = cli[r]
          /\ cli[r] = "exited" => cli'[r] = "exited"
          /\ seen'[r] = seen[r] /\ waitExit'[r] = waitExit[r]
          /\ postExit'[r] = postExit[r] \/ postExit'[r] = 1
      BY <2>1, <1>a DEF Post, PostFails, Wait, DeadlinePasses, At
    <3> QED BY <1>c, <2>a, <3>1 DEF Learned, Answered, Admitted
  <2>2. CASE PostExit(r)
    <3>1. /\ postExit'[r] = PostCode(reply[r]) /\ UNCHANGED <<seen, waitExit>>
          /\ cli'[r] = IF reply[r].code = 202 THEN "accepted" ELSE "exited"
          /\ cli[r] = "posting" /\ reply[r].code # 0
      BY <2>2, <1>a DEF PostExit, At
    <3>2. reply[r].code \in Codes
      BY <1>a DEF ReplySet
    <3>3. PostCode(reply[r]) = 0 =>
            reply[r].code = 202 \/ (reply[r].code = 200 /\ reply[r].body.success)
      BY <3>1, <3>2 DEF PostCode, Codes
    <3> QED BY <1>c, <2>a, <3>1, <3>3 DEF Learned, Answered, Truthful, Admitted
  <2>3. CASE Poll(r)
    <3>1. /\ cli[r] = "polling" /\ runs[r] # NoRecord /\ seen'[r] = runs[r].status
          /\ UNCHANGED postExit
          /\ Terminal(r) => cli'[r] = "exited" /\
                            waitExit'[r] = IF runs[r].status = "succeeded" THEN 0 ELSE 1
          /\ ~Terminal(r) => cli'[r] = "judging" /\ waitExit'[r] = waitExit[r]
      BY <2>3, <1>a DEF Poll, At, WaitExits
    <3>2. pc[r] \notin {"idle", "register", "create"}
      BY <3>1, InFlight DEF ClientInv, Scheduled
    <3>3. Rank(runs[r].status) <= Rank(runs[r].status)
      BY DEF Rank
    <3> QED BY <1>c, <2>a, <3>1, <3>2, <3>3
            DEF Learned, Answered, Truthful, Terminal, TerminalStatuses, Admitted, NoExit
  <2>4. CASE PollRaises(r) \/ Judge(r)
    <3>1. /\ UNCHANGED <<seen, postExit>> /\ cli[r] \in {"polling", "judging"}
          /\ \/ cli'[r] = "exited" /\ waitExit'[r] = 1
             \/ cli'[r] = "polling" /\ waitExit'[r] = waitExit[r]
      BY <2>4, <1>a DEF PollRaises, Judge, WaitExits, At
    <3> QED BY <1>c, <2>a, <3>1 DEF Learned, Answered, Admitted, NoExit
  <2> QED BY <2>1, <2>2, <2>3, <2>4 DEF ClientStep
<1> QED BY <1>1, <1>2, <1>3, <1>4 DEF ClientInv

LEMMA ClientInvInit == ClientInit => ClientInv
<1> SUFFICES ASSUME ClientInit PROVE ClientInv
  OBVIOUS
<1>1. IInv
  BY InvInit DEF ClientInit
<1>2. ClientTypes
  BY DEF ClientInit, ClientTypes, CommandPCs, ExitCodes, NoExit
<1>3. ServiceIsTruthful
  BY TruthInit DEF ClientInit
<1>4. \A r \in Requests : Learned(r)
  BY DEF ClientInit, Learned, Answered, NoExit, TerminalStatuses
<1> QED BY <1>1, <1>2, <1>3, <1>4 DEF ClientInv

LEMMA ClientInvStep == ClientInv /\ [ClientNext]_system => ClientInv'
<1> SUFFICES ASSUME ClientInv, [ClientNext]_system PROVE ClientInv'
  OBVIOUS
<1>1. CASE UNCHANGED system
  <2>1. UNCHANGED vars /\ UNCHANGED <<cli, posted, seen, late, postExit, waitExit>>
    BY <1>1 DEF system, client
  <2>2. UNCHANGED <<pc, reply, runs, outcome, executions, admitted, epoch>>
    BY <2>1 DEF vars, store, history
  <2>3. IInv'
    BY <2>1, InvStep DEF ClientInv
  <2>4. ServiceIsTruthful' /\ ClientTypes'
    BY <2>1, <2>2 DEF ClientInv, ServiceIsTruthful, Truthful, Terminal, Admitted, ClientTypes
  <2>5. \A r \in Requests : Learned(r)'
    BY <2>1, LearnedFrame DEF ClientInv
  <2> QED BY <2>3, <2>4, <2>5 DEF ClientInv
<1> QED BY <1>1, ServerKeepsInv, CommandKeepsInv DEF ClientNext

\* What the commands of smoke_run.py know of their runs is true, through
\* timeouts, lost answers, restarts and failing consoles.
THEOREM ClientInvariance == ClientSpec => []ClientInv
BY ClientInvInit, ClientInvStep, PTL DEF ClientSpec

\* Every variable of the service and of the commands keeps its type.
THEOREM ClientTypeCorrect == ClientSpec => []ClientTypeOK
<1>1. ClientInv => ClientTypeOK
  BY DEF ClientInv, ClientTypes, ClientTypeOK, IInv
<1> QED BY <1>1, ClientInvariance, PTL

\* The exit code 0 of run and wait means that the scenario was executed once
\* and succeeded, the code 1 of a wait that saw "failed" that it failed.
THEOREM ExitsTellEnds == ClientSpec => []ExitTellsEnd
<1>1. ClientInv => ExitTellsEnd
  BY DEF ClientInv, Learned, ExitTellsEnd
<1> QED BY <1>1, ClientInvariance, PTL

\* Of the commands that share an idempotency key, one process lets one only
\* exit 0, and executes none of the others.
THEOREM OneExitZeroPerKey == ClientSpec => []ExitZeroOncePerKey
<1>1. ClientInv => ExitZeroOncePerKey
  BY DEF ClientInv, IInv, Learned, OneRunPerKey, ExitZeroOncePerKey
<1> QED BY <1>1, ClientInvariance, PTL

LEMMA PollForward ==
  ASSUME ClientInv, [ClientNext]_system, NEW r \in Requests, seen'[r] # seen[r]
  PROVE  Rank(seen[r]) < Rank(seen'[r]) /\ seen[r] \notin TerminalStatuses
<1>a. seen \in [Requests -> Statuses \cup {"absent"}] /\ runs \in [Requests -> RecordSet]
  BY DEF ClientInv, ClientTypes, IInv, TypeOK
<1>1. Poll(r)
  <2>1. PICK s \in Requests : Poll(s)
    BY DEF ClientNext, ServerStep, system, client, ClientStep, Post, PostExit, PostFails, Wait,
       PollRaises, Judge, DeadlinePasses
  <2> QED BY <1>a, <2>1 DEF Poll
<1>2. seen'[r] = runs[r].status /\ cli[r] = "polling" /\ runs[r] # NoRecord
  BY <1>a, <1>1 DEF Poll
<1>3. seen[r] \notin TerminalStatuses
  BY <1>2 DEF ClientInv, Learned
<1>4. runs[r].status # "absent"
  BY <1>2 DEF ClientInv, ServiceIsTruthful, Truthful
<1>5. runs[r].status \in Statuses /\ seen[r] \in {"absent", "queued", "running"}
  BY <1>a, <1>3, <1>4 DEF RecordSet, Statuses, TerminalStatuses
<1>6. seen[r] # "absent" => Rank(seen[r]) <= Rank(runs[r].status)
  BY <1>4 DEF ClientInv, Learned
<1> QED BY <1>2, <1>3, <1>5, <1>6 DEF Rank, Statuses, TerminalStatuses

\* A wait sees its run move forward only, and nothing after its end.
THEOREM WaitsSeeProgress == ClientSpec => PollsMoveForward
<1>1. ClientInv /\ [ClientNext]_system =>
        [\A r \in Requests :
           seen'[r] # seen[r] =>
             Rank(seen[r]) < Rank(seen'[r]) /\ seen[r] \notin TerminalStatuses]_system
  BY PollForward
<1> QED BY <1>1, ClientInvariance, PTL DEF ClientSpec, PollsMoveForward

-----------------------------------------------------------------------------
(* What holds of the service with any clients *)

\* A 200 with success and a terminal record are the truth about one execution.
SuccessIsNeverInvented ==
  \A r \in Requests :
    /\ reply[r].code = 200 /\ reply[r].body.success => executions[r] = 1 /\ outcome[r].success
    /\ Terminal(r) => executions[r] = 1 /\ (outcome[r].success <=> runs[r].status = "succeeded")

\* What a run has come to is never taken back, nor is the run repeated.
OutcomesStand ==
  [][\A r \in Requests :
       outcome[r] # NoOutcome => outcome'[r] = outcome[r] /\ executions'[r] = executions[r]]_vars

\* Whatever writes to the console fail, and whoever the clients are: the answer
\* that is wrong then (a record that never got its end) is never a success.
THEOREM SuccessesAreTrue == Spec => []SuccessIsNeverInvented
<1>1. ServiceIsTruthful => SuccessIsNeverInvented
  BY DEF ServiceIsTruthful, Truthful, SuccessIsNeverInvented
<1> QED BY <1>1, TruthInit, TruthStep, Invariance, PTL DEF Spec

\* Restarts forget records, and nothing else is forgotten or done again.
THEOREM OutcomesAreKept == Spec => OutcomesStand
<1>1. IInv /\ ServiceIsTruthful /\ [Next]_vars =>
        [\A r \in Requests :
           outcome[r] # NoOutcome =>
             outcome'[r] = outcome[r] /\ executions'[r] = executions[r]]_vars
  <2> SUFFICES ASSUME IInv, ServiceIsTruthful, Next, NEW r \in Requests, outcome[r] # NoOutcome
               PROVE  outcome'[r] = outcome[r] /\ executions'[r] = executions[r]
    OBVIOUS
  <2>1. CASE Restart
    BY <2>1 DEF Restart, history
  <2> QED BY <2>1, HandlerKeepsFacts, WorkerKeepsFacts DEF Next
<1> QED BY <1>1, TruthInit, TruthStep, Invariance, PTL DEF Spec, OutcomesStand

\* The commands of smoke_run.py are clients the service was specified for: with
\* them, too, it does only what RunService says, and all that is proved of it holds.
THEOREM CommandsAreClients == ClientSpec => Spec
<1>1. ClientInit => Init
  BY DEF ClientInit
<1>2. [ClientNext]_system => [Next]_vars
  BY DEF ClientNext, ServerStep, Next, ClientStep, Post, PostExit, PostFails, Wait, Poll,
     PollRaises, Judge, DeadlinePasses, system
<1> QED BY <1>1, <1>2, PTL DEF ClientSpec, Spec

\* While consoles do not fail the commands deal with the contract.
THEOREM CommandsMeetContract ==
  ASSUME ConsoleFails = FALSE
  PROVE  ClientSpec => ImplementsContract
<1>1. Spec => ImplementsContract
  BY ServiceImplementsContract
<1> QED BY <1>1, CommandsAreClients, PTL
=============================================================================
