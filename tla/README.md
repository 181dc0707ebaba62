# A formal model of WebPost

WebPost runs *scenarios*: YAML or JSON files whose steps send HTTP requests,
scrape the answers, assert on them, drive a browser and build a result. Clients
start a run with `POST /scenarios/{id}/runs`, wait for it for a while or poll for
it later; a command line client does so, or runs a scenario file itself. These
modules model the run API and its clients, the step executor, the frame around
an execution, and the way from a scenario file to what its steps send. TLC
checks them on small instances, and TLAPS proves their safety properties for
every instance.

Source paths below are relative to the repository (`src/` in `PROJECT.json`).

## 1. The system

| Component | State | Operations | Talks to |
|---|---|---|---|
| Run API, `api/main.py` | none of its own; one handler thread per request | refuse, admit, run at once, submit and wait, answer | all four in-memory structures |
| Idempotency store, `infrastructure/idempotency` | a set of keys, a lock | `register` (test and insert) | called by the handler after validation |
| Run repository, `infrastructure/run/in_memory_run_repository.py` | run id → `RunRecord`, a lock | `create`, `get`, `transition_status` (compare and set) | written by handler and worker, read by handlers and pollers |
| Run log store and loggers, `infrastructure/logging`, `in_memory_run_log_store.py` | run id → entries, a lock | `append`, `list` | written through `CompositeLogger`: the console first, then the store |
| Run scheduler, `in_memory_run_scheduler.py` | a `ThreadPoolExecutor` of four workers, run id → `Future` | `submit`, `wait`, `get_future` | runs `_execute_async_run` |
| Scenario execution, `_execute_scenario` in `api/main.py` | the components of one run, a browser | build, execute, tell the outcome, close | executor, Playwright, error builder |
| Step executor, `application/executor/step_executor.py` | index, retry counts, the `RunContext` | one turn of the loop per step: skip, handle, advance, retry, goto, abort | handlers through the registry |
| Step handlers, `application/handlers` | none; they change the `RunContext` | `handle` of six kinds of step | HTTP client, browser, conditions, templates |
| Conditions, `execution_deps.py`, `expr.py` | none | `eval_condition` | asserts and `on_error` rules |
| Templates, forms, secrets policy, `application/services` | none | render, compose | handlers |
| Loader, file finder, input check, `infrastructure/scenario`, `domain/scenario_input_validator.py` | none | id → file → `Scenario` | run API, local runs |
| HTTP client, trace, artefacts, redactor, secrets, URLs | cookies, files | I/O and formatting | handlers |
| Command line client, `scripts/smoke_run.py` | a deadline; in a local run all of an execution | run, start, wait; run a file | run API over HTTP, or executor and loader |

### What is hard

* **Interleavings.** A handler thread and a pool worker share the record, the
  future and the log of a run; handlers of requests with one idempotency key
  share the key set. Each structure has a lock, but a run passes through several
  of them, one after the other.
* **Timeouts.** A client waits up to 30 s. `wait` calls `future.result(timeout)`,
  swallows whatever it raises, then asks `future.done()`, and then the handler
  reads the record: the run may end between any two of these.
* **Order.** `run.start` is logged before the record is RUNNING, the record is
  terminal before `run.end` is logged, and the console is written before the log.
* **Partial failure.** A console write that raises leaves a task half-way. A step
  may fail after it has changed the context. A browser may fail half-started.
* **Restarts.** All four structures are process memory; a client that polls
  across a restart meets a server that has never heard of its run.
* **Impatience.** A client gives up on a post after the same 30 s the server may
  take to answer. The run goes on, and another post with the same key may follow.
* **Control flow of a scenario.** Retries with a budget per step id, gotos forward
  and backward, rules with conditions on the last response, disabled steps, ids
  that repeat.
* **Data that moves control.** What a scrape left in `ctx.vars` goes into the next
  form, under names the form itself may give; `>` is a part of `>=`; a misspelt step
  type removes a step.
* **Limits.** Four workers; an endless scenario keeps one for ever.

`PROJECT.json` lists these as hazards, each at its line, with the properties
that would notice it going wrong.

### What makes each component correct

* *Run API, stores and scheduler*: a scenario starts at most once per request; one
  process admits one request per key and refuses the rest with reason; a 200 tells
  what the caller's own run came to; a 202 can be followed up; records move along
  queued, running, succeeded or failed; the pool loses and doubles no task; every
  call is answered.
* *Step executor*: retry counts belong to one visit of one step; the budget is a
  bound on handler calls; failures and successes are justified by what the steps
  did; gotos alone can keep it going for ever.
* *Scenario execution*: browser steps have a browser, browsers are closed, and the
  outcome told is that of the execution.
* *Command line client*: an exit code of 0 is earned; what `wait` sees of a run only moves
  forward; every command ends.
* *Loader, conditions, forms*: what is retried, compared and sent is what the file says, stated
  from the file and not from what was loaded.

## 2. The modules

```
RunContract  <== RunService -> RunClient        ExecutionOutcome  (shared by
  |               |              |                |    RunService, ScenarioRun)
RunContractProofs RunServiceInvariant             |
                  |              |                |
                  RunServiceProofs -> RunClientProofs
                  |                               |
                  RunServiceTaskProofs            |
                                                  |
ScenarioWalk <== StepExecutor ---------------> ScenarioRun
StepHandlers -----/  |       |                      |
                     |   StepExecutorProofs -> ScenarioRunProofs
                     |              |
Expressions ---> ScenarioFiles -> LocalRun -> LocalRunProofs
HttpForms -----/                                    |
    |                                               |
HttpFormsProofs ------------------------------------/

MCRunService, MCRunClient, MCStepExecutor, MCScenarioRun, MCLocalRun:
the instances TLC checks
```

`A -> B`: B extends A; `<==`: implements. `PROJECT.json` maps every definition to
the lines it models. Operators named `X_Y` with a comment "Mutant" are wrong
versions of the definition `X` that follows them; each property is known to fail
when one of them takes its place.

**RunContract** is what the run API promises, without stores, threads and
queues: a request is refused, or admitted if no live request has its key; an
admitted one runs once and is told that it was accepted or what its run came to.

**RunService** is the implementation: `api/main.py` over the four structures.
Each request has a handler thread with a program counter, each worker has one
too; an action is what a thread does between two accesses to shared state.

| Model | Code |
|---|---|
| `keys`, `runs`, `logs` | the dictionaries of the three stores |
| `future`, `queue`, `wpc`, `job` | the scheduler's futures, the executor's work queue, its threads |
| `Refuse`, `Receive` | the checks at the top of `run_scenario`, in their order |
| `Register`, `Conflict` | `register_or_raise`, test and insertion under one lock |
| `Create`, `Submit` | `create` and `submit`; `wait_sec` 0 answers 202 here |
| `WaitReturns`, `WaitTimesOut`, `CheckDone`, `ReadRecord` | `wait`, its `done()`, the read of the record |
| `SyncStep`, `SyncFinish`, `SyncConsoleRaises` | a run without `wait_sec`, in the handler thread |
| `Take`, `LogStart`, `Begin`, `Step`, `Finish`, `LogEnd` | a worker in `_execute_async_run` |
| `ConsoleRaises` | a console write that raises out of the task |
| `Restart` | a new process: empty stores, lost threads, unanswered clients |

`epoch`, `admitted`, `executions` and `outcome` are history. A request names its
run, as run ids are fresh `uuid4`s. A scenario is one of five kinds: not there,
not loadable, with inputs missing, ending, or never ending.

**ExecutionOutcome** holds the outcomes of an execution as clients tell them
apart. `RunService` assumes every execution comes to one of three of them;
`ScenarioRun` shows that it does (`ReportIsOutcome`). This is how the two halves
fit together without being explored as one state space.

**StepHandlers** gives each handler as the set of *ends* a call may come to: ok,
failed or raised, with the context left behind. The data is reduced to what
control depends on: the status class of the last response and the step it belongs
to; whether a save found something; which result steps were merged. A condition
is the set of status classes it holds for (`NoResponse` among them if it needs no
response), so a rule can be any condition a file could state about the status.

**StepExecutor** is `StepExecutor.execute`, one action per way a turn of the loop
can go. `attempts`, `waits`, `passed` and `jumped` are history: a *visit* of a
step lasts from the assignment of `index` to the next one, so retries are one
visit. `Init` picks one scenario of the constant `Scenarios`.

**ScenarioWalk** is what the steps of a scenario allow its execution to do, read from
`retry` and `on_error` alone: a walk along the list with tries, gotos and an end. It has no retry counts
by id, no index by id, no context and no conditions; which rule applies to a failure is open. The executor
implements it (`ImplementsWalk`): `at` is `index`, `tries` are the handler calls of the visit, and `end` is read
from `pc` and the result.

**ScenarioRun** is `_execute_scenario` around it: build, launch a browser if a
step needs one, execute, tell, close. `Execute` is a step of `StepExecutor`.

**RunClient** puts the users of `smoke_run.py` before `RunService`: request `r` is what one
`run` or `start` posts, and the run id of a 202 may be handed to one `wait`.
The service is as before, but for its clients: a request is received by the process
it was posted to, and a client may have given up by then (`PostFails`). `Poll` reads the record as
`GET /runs/{id}` does, `PollRaises` is a 404 or a broken connection, `Judge` is the deadline, tested
after the status was read. Time is a flag, `late`, that is set at some moment.

**Expressions** is `eval_condition`: references are replaced by the tokens their values
read as, then the first operator of a fixed list cuts the text in two. A `>` is
found inside a `>=`, and what is left of it goes to the right side.

**HttpForms** is the template renderer, the composition of a form and its last-wins
rule. A text is a sequence of atoms, a dict its pairs in insertion order; what raises has a value
of its own (`Bad`). The comprehensions and loops of the code are one operator, `Filtered`: the elements
at some positions, in their order.

**ScenarioFiles** goes from an id to a file to a scenario. A content is what the YAML or JSON
parser makes of a file, where a key may be `Absent` or `Null`: the difference
decides whether the loader takes a default or raises. `LoadSteps` yields the
steps `StepExecutor` takes, `LoadRequests` what its http steps send; a condition
becomes the statuses it holds for by *evaluating* it on each (`Meaning`), which ties the
executor's view of conditions to `Expressions`.

**LocalRun** is `_run_local`: find, parse the payload, load, validate, execute, exit. It
extends `StepExecutor` with the data of a run: `vars`, the page of the last
response (its hidden inputs), the last request `sent`. A history variable, `scraped`, keeps what each
name was last scraped as: it is what `vars` is compared with, and `sent` remembers its value at the time of
sending. A step of `LocalRun` in stage `execute`
is a step of `StepExecutor` with the data it works on, so what is proved
of the executor holds of it. The handlers of `StepHandlers` may end in any way; here a
handler whose form cannot be rendered, or that lacks secrets, can only fail.

## 3. What TLC checks

| Run | Instance | Question |
|---|---|---|
| `RunService_busy` | 3 requests (shared key or none; synchronous, or waiting), 2 workers | do all interleavings keep keys, answers, logs and the queue consistent, and implement `RunContract`? |
| `RunService_calls` | 2 requests, every kind of call (wait absent, 0, 30, 31; key or none; five kinds of scenario), 1 worker, 1 restart | do refusals leave no trace, has a 409 a rival, can an accepted run be looked up, does the contract hold across a restart? |
| `RunService_live` | 3 requests, synchronous, waiting or with an endless run, 2 workers, consoles that may raise | is every call answered, does every submitted run end that can, is its end logged? |
| `StepExecutor_walk` | 306 scenarios of up to three steps | are retry counts, budgets, backoffs, failures and successes what the scenario says, does it implement `ScenarioWalk`, and does it end? |
| `ScenarioRun_stages` | 54 scenarios with and without browser steps | do browser steps have a browser, is it closed, is the outcome told the right one? |
| `RunClient_commands` | 2 clients (with one key, synchronous or waiting at most 30 s; with an endless run; with a file that does not load), 1 worker, 1 restart, consoles that may raise at any write | does no scenario start twice, do records and logs stay on course, does an exit code of 0 tell the truth, does `wait` see progress only, does every command end? |
| `LocalRun_files` | 15 contents in 18 files, 28 command lines | is what is executed, retried, compared and sent what the file says, is an exit code of 0 earned, does a run whose gotos lead forward end? |

Five more runs end in a violation on purpose (section 5).

**Deadlock.** Every run has `CHECK_DEADLOCK FALSE`: a server with all requests
served idles, and an execution that has ended stops.

**Bounds and why they are enough.**

* *Requests, workers, keys.* Two requests with one key are the least that can
  collide; the third adds a bystander that fills the queue while two workers are
  busy, so tasks wait, overtake and finish out of order. A second key would act
  like no key. The theorems lift these numbers.
* *`MaxWaitSec = 30`* is the code's own; 31 is the least refused wait, 0 the one
  that does not wait. Waiting has no duration in the model: any wait may time out.
* *`MaxRestarts = 1`*: after one restart both a request of the old process and one of the new
  exist, which is all the properties compare.
* *`MaxLog`* bounds the scenario's own entries only (`step`); `run.start`, `run.end` and
  `run.transition_failed` are always written. 2 leaves room for such an entry
  between start and end; in `RunService_live`, where entries of the scenario do not matter, it is 0. There
  one outcome stands for all three: the steps a thread has left do not depend on it.
* *Scenarios.* `Mixed` crosses retry policies (none, 2 with one backoff, 2
  with a negative first backoff, negative) with rule lists (none, fallback
  only, condition first, goto back, goto forward or to itself, goto without or
  with unknown target, condition that raises) and three tails (none, a repeated id,
  a disabled step). `Handlers` puts every kind of step between two others. Two
  steps suffice to carry a count, a context or a browser from one to the next, the
  third is what a goto jumps over.
* *Clients.* Two commands are the least that can share a key. One pool worker
  lets one run wait for the other, or for ever behind an endless one; a post may time out in every
  state of its handler, which is all a shorter or longer timeout could bring.
* *Files.* The contents have a login with hidden inputs, overridden, repeated
  and malformed form items, templates with `[*]`, an index and a missing key; rules with each of the
  five operators, with conditions before any response and with texts that are no comparison; steps
  that are disabled, misspelt or without id, and gotos to them; and for each way
  a loader may raise a content that does. Each is found by path; one id has three files of different
  extensions and directories. Command lines vary inputs (all, null, missing), payload and
  secrets (given, in the environment, none). Two pages, one without
  hidden inputs, are enough to tell a stale variable from a fresh one. Statuses 200, 401 and
  500 are one of each class the rules tell apart.
* *Symmetry* of requests and workers is used in safety runs of RunService only.

**Fairness and why the code gives it.** `RunService`: each thread that can move
does (threads of one process, no priorities), a wait times out or returns
(`wait_sec` is at most 30), and an execution that can end does. The last is what
`ForwardRunsEnd` shows of `ScenarioRun`. `StepExecutor` and `ScenarioRun`: their
one thread goes on. Handlers return since HTTP requests have a 20 s timeout and Playwright
actions a default of 30 s; a step with `timeout_ms: 0` switches that off, and is
then outside the liveness results. `RunClient`: a post ends, as `requests.post` has a timeout of 30 s; a
`wait` goes on polling, and the clock reaches its deadline. Nothing is assumed of the *server*
there: commands end against one that hangs, is gone or has restarted. `LocalRun`: its one
thread goes on. Nothing is assumed of what clients choose to do, of console failures or
restarts. No run assumes strong fairness.

Liveness is stated with its exceptions. A submitted run ends *unless* its own
scenario never does, such scenarios hold all workers, or a console makes its task raise: that is real, the pool
has four threads, a run has no time limit, and a task that raises leaves its record as it is (section 5). A scenario ends *unless* `Goto` is
taken again and again (`EndsOrJumps`); if all its gotos lead forward it always
ends (`ForwardScenariosEnd`), and so does a local run of such a file (`LocalRunsEnd`).

**Properties against a reference.** Three properties of `LocalRun_files` are stated from the file as
it is written and compare what the program does with it: `FormFollowsRules` (of
the `form_list` rules, `docs/NextAction.md:456-459` and 462: every name once, with the last value the step gives it,
else that of the page that was scraped last under the merged name, whatever gotos led from one to the other;
lines 436 and 461 say otherwise of repeated names, see section 5),
`StepsFollowFile` (calls bounded by the `retry.max` of the file; comparisons of `${last.status}` mean what
arithmetic says, and are false without a response) and `GotoMissesUnknownOnly`. `ExitZeroIsEarned` goes from the
exit code back through validation, loading and finding to the steps of the file.

## 4. What is proved

TLAPS checks these for every value of the constants: any number of requests,
workers, keys, restarts and log entries; any scenarios (`Scenarios \subseteq Seq(StepSet)`).

* **RunServiceProofs.** `Spec => []IInv` with `IInv` of `RunServiceInvariant`, and from it
  `TypeOK`, `AtMostOnce`, `OneRunPerKey`, `ConflictIsReal`, `AcceptedIsTracked`
  and the action property `RunLifecycle`; with `ConsoleFails = FALSE` also
  `AnswerTellsOutcome`, `AnsweredLogIsComplete` and the refinement `Spec => Contract!Spec`
  (`ImplementsContract`). The assumption is needed: section 5 shows the
  answer that is wrong without it.

  *Why the invariant is what it is.* `AnswerTellsOutcome` cannot be proved from the
  answers alone: an answer is read from a record which another thread wrote. So
  `IInv` says, for each request, which combinations of handler position, record and future
  exist (`Consistent`: not admitted, forgotten by a restart, in the handler
  thread, or scheduled); for each worker, that it alone holds its run and finds record and
  log as its previous stage left them (`WorkersHoldRuns`, `WorkersAreInStep`); that a finished
  future means a recorded outcome and a complete log (`FinishedIsRecorded`);
  and what an answer was based on (`RepliesAreFounded`). `KeysHaveOwners` ties the
  key set to the requests that own them. The proof has a lemma per group of
  actions and per part of the invariant they disturb. The refinement takes each
  action to a contract step or to a stutter.

* **RunContractProofs.** The contract is worth implementing: it implies one live
  run per key (`OneLivePerKey`) and truthful answers (`AnswersAreTrue`).

* **StepExecutorProofs.** `TypeOK`, `CountersFollowVisits`, `RetriesAreBounded`,
  `FailureIsJust`, `SuccessIsEarned` and `BackoffIsReused`. The invariant
  adds that a returned handler belongs to the enabled step at `index`
  (`HandledIsCurrent`), that in the loop an attempt is left (`BudgetLeft`), that sleeps
  and retries go together (`WaitsFollowRetries`), and that no enabled step before `index`
  was neither passed nor jumped over (`PathIsCovered`). Three lemmas carry most of it:
  arriving somewhere, ending, raising. `MaxOfPositions` shows that the index a goto looks up exists also
  where steps share an id; it uses the well-foundedness of strict inclusion
  on finite sets in place of an induction.

* **RunServiceTaskProofs.** `NoTaskLost` and `LogFollowsLifecycle`, both with consoles that
  raise. `IInv` says that whatever is queued or held is pending or running; `TasksAreFound` is the
  converse, and together with the rule that a run is queued once and held by one worker it
  counts one. `LogsAreOrdered` adds to the property that the log is still
  open (`LogIsOpen`) while a worker has the run, without which `run.end` could be followed by another entry.

* **RunClientProofs.** `ClientTypeOK`, `ExitTellsEnd`, `ExitZeroOncePerKey` and the action
  property `PollsMoveForward`, for any number of clients, workers and restarts,
  and *without* the assumption on consoles: a wrong answer caused by a
  console that raises is never a success. The invariant has two layers on top of `IInv`: what the service knows
  of an outcome is true (`Truthful`: a terminal record or a 200 with success comes from an
  execution that came to it), and what a command has learned agrees with it
  (`Learned`). A restart forgets records but takes back no outcome, so what was learned stays true; that a
  status read once is never followed by an earlier one needs that run ids are never reused.

  The service layer of that invariant holds with any clients, so two statements about `RunService` itself come with
  it, neither assuming anything of consoles: `SuccessesAreTrue` (a 200 with success and a terminal record are the
  truth about one execution) and `OutcomesAreKept` (what a run came to is not taken back or repeated, not by
  a restart either). `CommandsAreClients` shows that `RunClient` is `RunService` with particular clients, `ClientSpec => Spec`,
  so that whatever is proved of the service holds with the commands before it; while consoles do not fail
  that includes the contract (`CommandsMeetContract`).

  *The walk.* `ExecutorImplementsWalk` is the refinement `Spec => Walk!Spec`. What has to be shown
  is that bookkeeping by id does what the steps say: that a retry the counts permit is one of the
  `max` of the step at hand, that the index of an id, the last step of that name, is a place
  of that name, that the default of a failure no rule applies to is one the step declares.
  `IInv` gives most of it; `WalkInv` adds that tries after the first were allowed (a step in the loop
  that was tried before says retry) and that no step is blamed before the end.

  *Getting on.* `ExecutionsLeadOn` is what can be proved of termination without fairness: in the
  order of positions, then tries, then stages of a try, every step gets further, unless it is a goto
  in a scenario with one that leads back. Positions end with the list and tries with the
  budget (`RetriesAreBounded`), so no such execution is infinite; `ForwardScenariosEnd` and
  `EndsOrJumps`, which TLC checks, need beyond this only that the thread goes on.

* **ScenarioRunProofs.** `RunTypeOK`, `BrowserIsReady`, `BrowserIsClosed` and `ReportIsOutcome`, on top
  of the executor's invariant. `RunsExecuteSteps` (`RunSpec => Spec`) says that the stages
  around an execution do not interfere with it, so that a run of the API walks its steps, too
  (`RunsImplementWalk`).

* **LocalRunProofs.** `LocalTypeOK`; that all of the executor's properties hold in local runs, whose
  scenario is a file loaded on the way (`LocalExecutionsAreSound`); and that a run
  which exits 0 has loaded its file, has all its inputs and has executed to a success, and one that
  sends anything has its inputs complete (`LocalExitsAreFounded`). It reuses the invariant of `StepExecutorProofs`: a step of the
  execution is one of the executor's, every earlier stage leaves it in its initial state, and
  `LoadFile` replaces the empty scenario by one of `Scenarios`. In the same way a file that is loaded begins a
  walk and all that follows is allowed by it (`LocalRunsAreWalks`), and executions of files
  lead on (`LocalExecutionsLeadOn`).

  *From the file to what is sent.* The four properties that are stated from the file as it is written hold for any
  files, commands and pages: `ExitZeroIsEarned`, `GotoMissesUnknownOnly`, `StepsFollowFile` and `FormFollowsRules`.
  They rest on `DataIInv`: steps and requests are what the file held when it was loaded (`LoadedFile`), variables
  and pages stay dicts whatever a scrape saves under whatever name (`DataType`), a variable holds what was scraped
last under its name, or else what the command line gave (`VarsAreScraped`), what was sent was made from the
  variables of that moment (`SentAsMade`), and a goto said to find no target had none (`MissesAreReal`).
  The rest is about data: that a loaded step is one of the file's and comes with its own `retry.max` and rules
  although steps of unknown types are dropped; that `${last.status} >= n`, in which two operators are to be found,
  is cut at the right one and means what it says; that a field survives last-wins exactly if it is the last of its name.

* **HttpFormsProofs.** What the list operators compute, for lists of any length: `FilteredKeeps` (the elements of the
  chosen positions, all of them, in their order), `LastWinsKeepsLast` and `FormIsSent`. The library's induction theorems
  cannot be used (see below), so the inductions are over a least counterexample: a set of positions that is not
  empty has a least element, by the well-foundedness of `<` on the naturals. The place of an element is its
  *rank*, the number of chosen positions up to its own.

*Assumptions on constants* are the `ASSUME`s of the modules: placeholders such as
`NoKey` differ from real values, calls and scenarios have their types, bounds are
natural numbers; a condition, as a set, is not one of the two placeholders (`ConditionsAssumption`); variables
and hidden inputs are dicts (`CommandsAssumption`, `PagesAssumption`); files that load hold lists where the
loader iterates and dicts with unique keys, as parsers yield them (`FilesAssumption`). TLC
evaluates all of them on every instance.

*Model-checked only*: all liveness (`CallIsAnswered`, `SubmittedRunEnds`, `EndIsLogged`,
`ForwardScenariosEnd`, `EndsOrJumps`, `ForwardRunsEnd`, `CommandsEnd`, `LocalRunsEnd`), which is out of
this prover's reach, as is `ENABLED`. The library's theorems for induction take an operator as a parameter, which
the installed provers cannot instantiate. Every invariant, action property and refinement of the passing runs is a theorem.

## 5. Where code and documents disagree

Each is a run that ends in a violation of what a document says.

* `RunService_console_reply` (`FailureNamesError`). A console write that raises
  outside `_execute_scenario`'s `try` ends the task; `wait` answers True to any
  finished future, the handler reads a record that is still QUEUED or RUNNING and
  answers 200, `success=false`, no error. The record stays so.
  `docs/NextAction.md:1144` promises an error.
* `RunService_restart_key` (`KeyExecutesOnce`). Keys are forgotten in a restart; the
  same key executes its scenario again. `docs/NextAction.md:26` says that keys prevent
  duplicate executions.
* `StepExecutor_reserve` (`HttpFailuresAreHandled`). `scenarios/fun_navi_reserve.yaml` has
  rules for a 401 and for 5xx on its POSTs, as `docs/NextAction.md:475`
  recommends. The HTTP handler answers ok to every status, so such rules
  are not consulted; they are when no response came, and then judge the one before.
* `StepExecutor_css` (`CssMissIsNoFailure`). A css selector without a match is to give
  an empty value (`docs/NextAction.md:647`). The handler saves it, then calls
  `logger.warning`, which no logger has, and the step fails. The
  test suite's logger has that method.

* `LocalRun_repeated` (`RepeatedNamesAreSent`). Of a form that gives `date` twice, the second time as the list
  `${vars.dates[*]}`, `docs/NextAction.md:436` says that `date=&date=2026-02-10&date=2026-02-11` is sent; line 461
  and `design.md:12` and 176 agree with it. `http_handler.py:75` keeps the last field of each name, and
  `template_renderer.py:64` joins a list with commas into one value, so `date=2026-02-10,2026-02-11` is sent. Lines
  459 and 462 of the same document say that the last value wins: that reading is `FormFollowsRules`.

Some more were met while translating. Each shows in a line or two of the code, so no run is made of it:

* `${vars.items[*].id}`, which by `template_renderer.py:24` gives "1,2,3", renders as the empty text: what
  follows `[*]` is asked of the list itself.
* Conditions know five operators. `!=`, `and`, `matches` and `contains` are read as a part of a side, so that
  `>=200 and <300` never holds: its right side is no number. A condition without one of the five
  operators holds unless it is empty, `0` or `false`, whatever it says.
* Headers and URLs are not rendered, though `docs/NextAction.md` shows `Bearer ${vars.token}`. The
  `defaults.http` of a file (headers, timeout) are loaded and never used.
* Several result steps are merged (`result_handler.py:42`), where `docs/NextAction.md:905` lets the last one win.
* A form value that YAML reads as a number or a boolean makes its step fail.
* A local run without secrets fails at its first http, log or result step, also when no
  step uses a secret; `--format` looks for a file in one directory only, an id alone also below it.
* A key is used up by a request whose `secret_ref` is not known.

## 6. What is not modelled, and why

* *The GET endpoints* only read the stores; what they may see is covered by the properties on `runs` and `logs`.
  `update_result` and `update_error` have no caller. FastAPI's own limit on handler
  threads (40) is left out: a handler is taken to get a thread.
* *A handler that returns None* does not exist, so the executor's check for it is left out.
* *HTTP client, trace, artefacts, redactor, loggers' formats*: I/O and
  formatting. That they raise is an end of the handler that calls them.
* *Logging that fails.* A write to the console may raise in the service (`ConsoleFails`), and in a handler after it
  has changed the context, which fails the step; that the handler's report of
  that failure, or a log entry of the executor itself, raises out of the executor is left out: `_execute_scenario`
  takes it as any other exception, which `ScenarioRun` has from asserts and conditions.
* *The text of pages.* A page is its hidden inputs. Other scrapes save some text; all
  of them save to `ctx.vars` under the id of their step, where a file may also name `state` or another key. Templates may use
  `last.status` but not other fields of the last response, and no key named like a method of
  Python's `str` or `list`, which the renderer would find. Names of form fields hold no templates.
* *Conditions* in files refer to `${last.status}` only; `Expressions` itself takes any reference. An element of an
  assert's list that is null is left out.
* *YAML and JSON parsers* are external: a content is what they yield.
* *The secrets policy* of log steps and URL resolution decide only whether a step fails, which every
  log and http step may. `request_preparer.py` has no caller.
* *`status` and `logs`* of the command line client are one read each; `run_api.py`, `test_api.py`
  and `test_scenario.py` start or try a server by hand.

## 7. State of the plan

Done: the contract, the service, its clients and their proofs and refinement; handlers, executor and
`_execute_scenario` with their safety proofs, and the walk they implement; files, conditions, forms and the local
run, from the file to what is sent.

Left, by what it would add:

1. `ScenarioRun` as the refinement of a two-state execution (unended, then ended with an outcome of
   `ExecutionOutcome`), which would turn the meeting of the two halves at `ExecutionOutcome` into a theorem.
2. `result` and `state` as data in `LocalRun`, and with them which fields a client gets when a goto
   or a failure skipped a result step.
3. The `defaults`, headers and URLs of a scenario file, should the code come to use them.
