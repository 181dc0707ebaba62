------------------------------ MODULE RunClient ------------------------------
(***************************************************************************)
(* The command line client (src/scripts/smoke_run.py) against the run API  *)
(* of RunService.  Request r is what one invocation of `run` or `start`    *)
(* posts; the run id in its answer, if that is a 202, may be handed to one *)
(* invocation of `wait`, which polls GET /runs/{id} until a deadline.      *)
(*                                                                         *)
(* requests.post gives up after 30 s, which is also MAX_WAIT_SEC: a client *)
(* may give up at any time before it has read the answer, and the server   *)
(* does not notice.                                                        *)
(***************************************************************************)
EXTENDS RunService

VARIABLES
  cli,      \* cli[r]: where the command is that deals with request r
  posted,   \* posted[r]: the epoch r was posted in, or -1
  seen,     \* seen[r]: the status the last poll read, or "absent"
  late,     \* late[r]: the deadline of wait has passed
  postExit, \* postExit[r]: exit code of run or start; NoExit before it
  waitExit  \* waitExit[r]: exit code of wait; NoExit before it

client == <<cli, posted, seen, late, postExit, waitExit>>
system == <<vars, client>>

NoExit == -1
ExitCodes == {NoExit, 0, 1}
CommandPCs == {"new", "posting", "accepted", "polling", "judging", "exited", "gaveup"}

ClientInit ==
  /\ Init
  /\ cli = [r \in Requests |-> "new"]
  /\ posted = [r \in Requests |-> -1]
  /\ seen = [r \in Requests |-> "absent"]
  /\ late = [r \in Requests |-> FALSE]
  /\ postExit = [r \in Requests |-> NoExit]
  /\ waitExit = [r \in Requests |-> NoExit]

At(r, place) == cli' = [cli EXCEPT ![r] = place]

-----------------------------------------------------------------------------
(* run --api-base-url, and start, which is the same with wait_sec = 0 *)

Post(r) ==
  /\ cli[r] = "new"
  /\ At(r, "posting")
  /\ posted' = [posted EXCEPT ![r] = epoch]
  /\ UNCHANGED <<vars, seen, late, postExit, waitExit>>

PostCode(answer) ==
  IF answer.code = 202 THEN 0
  ELSE IF answer.code >= 400 THEN 1
  ELSE IF answer.body.success THEN 0 ELSE 1

PostExit(r) ==
  /\ cli[r] = "posting"
  /\ reply[r].code # 0
  /\ postExit' = [postExit EXCEPT ![r] = PostCode(reply[r])]
  /\ At(r, IF reply[r].code = 202 THEN "accepted" ELSE "exited")
  /\ UNCHANGED <<vars, posted, seen, late, waitExit>>

\* A timeout, a refused or a broken connection, an answer that is lost.
PostFails(r) ==
  /\ cli[r] = "posting"
  /\ postExit' = [postExit EXCEPT ![r] = 1]
  /\ At(r, "gaveup")
  /\ UNCHANGED <<vars, posted, seen, late, waitExit>>

-----------------------------------------------------------------------------
(* wait *)

Wait(r) ==
  /\ cli[r] = "accepted"
  /\ At(r, "polling")
  /\ UNCHANGED <<vars, posted, seen, late, postExit, waitExit>>

WaitExits(r, code) ==
  /\ At(r, "exited")
  /\ waitExit' = [waitExit EXCEPT ![r] = code]

\* Mutant: whatever has left the queue counts as done.
Poll_AnyProgress(r) ==
  /\ cli[r] = "polling"
  /\ runs[r] # NoRecord
  /\ seen' = [seen EXCEPT ![r] = runs[r].status]
  /\ IF runs[r].status # "queued"
       THEN WaitExits(r, IF runs[r].status = "failed" THEN 1 ELSE 0)
       ELSE At(r, "judging") /\ UNCHANGED waitExit
  /\ UNCHANGED <<vars, posted, late, postExit>>

\* GET /runs/{id} finds the record; a terminal one ends the command.
Poll(r) ==
  /\ cli[r] = "polling"
  /\ runs[r] # NoRecord
  /\ seen' = [seen EXCEPT ![r] = runs[r].status]
  /\ IF Terminal(r)
       THEN WaitExits(r, IF runs[r].status = "succeeded" THEN 0 ELSE 1)
       ELSE At(r, "judging") /\ UNCHANGED waitExit
  /\ UNCHANGED <<vars, posted, late, postExit>>

\* raise_for_status raises at a 404, requests at a failed connection.
PollRaises(r) ==
  /\ cli[r] = "polling"
  /\ WaitExits(r, 1)
  /\ UNCHANGED <<vars, posted, seen, late, postExit>>

\* Mutant: the deadline is not looked at.
Judge_Patient(r) ==
  /\ cli[r] = "judging"
  /\ At(r, "polling")
  /\ UNCHANGED <<vars, posted, seen, late, postExit, waitExit>>

\* The deadline is tested after the status was read, so there is one poll at
\* least.  Sleeping takes the command back to polling.
Judge(r) ==
  /\ cli[r] = "judging"
  /\ IF late[r]
       THEN WaitExits(r, 1)
       ELSE At(r, "polling") /\ UNCHANGED waitExit
  /\ UNCHANGED <<vars, posted, seen, late, postExit>>

DeadlinePasses(r) ==
  /\ cli[r] \in {"polling", "judging"}
  /\ ~late[r]
  /\ late' = [late EXCEPT ![r] = TRUE]
  /\ UNCHANGED <<vars, cli, posted, seen, postExit, waitExit>>

-----------------------------------------------------------------------------
ClientStep(r) ==
  \/ Post(r) \/ PostExit(r) \/ PostFails(r)
  \/ Wait(r) \/ Poll(r) \/ PollRaises(r) \/ Judge(r) \/ DeadlinePasses(r)

\* A request is received by the process it was posted to, also when its
\* client has given up by then.
ServerStep ==
  /\ \/ \E r \in Requests : (pc[r] = "idle" => posted[r] = epoch) /\ HandlerStep(r)
     \/ \E w \in Workers : WorkerStep(w)
     \/ Restart
  /\ UNCHANGED client

ClientNext == ServerStep \/ \E r \in Requests : ClientStep(r)

\* Commands that can go on do; a post that is not answered times out and the
\* clock reaches every deadline.  That anybody waits is not assumed, nor that
\* connections fail.
ClientFairness ==
  \A r \in Requests :
    /\ WF_system(PostExit(r) \/ PostFails(r))
    /\ WF_system(Poll(r) \/ (runs[r] = NoRecord /\ PollRaises(r)) \/ Judge(r))
    /\ WF_system(DeadlinePasses(r))

ClientSpec == ClientInit /\ [][ClientNext]_system
FairClientSpec == ClientSpec /\ ClientFairness

-----------------------------------------------------------------------------
(* Correctness *)

\* Every variable of the service and of smoke_run.py's commands keeps its type.
ClientTypeOK ==
  /\ TypeOK
  /\ cli \in [Requests -> CommandPCs]
  /\ posted \in [Requests -> Int]
  /\ seen \in [Requests -> Statuses \cup {"absent"}]
  /\ late \in [Requests -> BOOLEAN]
  /\ postExit \in [Requests -> ExitCodes]
  /\ waitExit \in [Requests -> ExitCodes]

Answered(r, code) == postExit[r] = code /\ cli[r] = "exited" /\ waitExit[r] = NoExit

\* "Exit code: 0 (success), 1 (failure)", docs/NextAction.md:78: a command that
\* waited for its run and exits 0 has seen it succeed, however restarts, broken
\* consoles and timeouts came between; a wait that exits 1 upon a failed run is
\* right, too.
ExitTellsEnd ==
  \A r \in Requests :
    /\ Answered(r, 0) \/ waitExit[r] = 0 => executions[r] = 1 /\ outcome[r].success
    /\ waitExit[r] = 1 /\ seen[r] = "failed" => outcome[r] # NoOutcome /\ ~outcome[r].success

\* Clients that retry with the same key after giving up cannot both be told
\* 0 by one process, nor can one be told 0 while the post it gave up on is
\* executed behind its back.
ExitZeroOncePerKey ==
  \A r, s \in Requests :
    /\ r # s
    /\ call[r].key = call[s].key
    /\ call[r].key # NoKey
    /\ postExit[r] = 0
    /\ postExit[s] = 0 \/ executions[s] > 0
    => admitted[r] # admitted[s]

Rank(status) ==
  CASE status = "absent" -> 0 [] status = "queued" -> 1 [] status = "running" -> 2 [] OTHER -> 3

\* What wait reads of a run only ever moves forward, and ends with a terminal
\* status it does not take back.
PollsMoveForward ==
  [][\A r \in Requests :
       seen'[r] # seen[r] => Rank(seen[r]) < Rank(seen'[r]) /\ seen[r] \notin TerminalStatuses
    ]_system

\* Every command comes to its end, also against a server that has restarted
\* or is full of runs that never end.
CommandsEnd ==
  \A r \in Requests :
    /\ (cli[r] = "posting") ~> (cli[r] # "posting")
    /\ (cli[r] = "polling") ~> (cli[r] = "exited")
=============================================================================
