---------------------------- MODULE LocalRunProofs ----------------------------
(***************************************************************************)
(* What StepExecutor promises holds in local runs, too; and what a local   *)
(* run executes, retries, compares and sends is what its file says: for    *)
(* any files, any command lines, any answers of the server.                *)
(***************************************************************************)
EXTENDS LocalRun, StepExecutorProofs, HttpFormsProofs

\* The executor waits in its initial state, at first without a scenario.
Waiting ==
  /\ pc = "loop" /\ index = 1 /\ retries = [id \in Ids |-> 0] /\ ctx = NewContext
  /\ outcome = "none" /\ result = NoResult /\ attempts = 0 /\ waits = <<>>
  /\ passed = {} /\ jumped = {}

WaitsForFile == stage \in {"find", "payload", "load"} => Waiting /\ scenario = <<>>

\* What each stage has made sure of.
ExecutesFile ==
  /\ stage = "validate" => Waiting
  /\ stage \in {"validate", "execute"} =>
       /\ file \in Files /\ ~LoadRaises(Content)
       /\ scenario = LoadSteps(Content)
       /\ cmd.payload # "bad"
  /\ stage = "load" => cmd.payload # "bad"
  /\ stage \in {"find", "payload", "load", "validate"} => vars = cmd.vars /\ sent = NothingSent
  /\ stage = "execute" => ~InputsRefused(Content, cmd.vars)

\* A command that exits 0 has executed the file it names to a success, after
\* all that is checked before an execution.
ExitIsFounded ==
  exit = 0 =>
    /\ file \in Files /\ ~LoadRaises(Content) /\ cmd.payload # "bad"
    /\ ~InputsRefused(Content, cmd.vars)
    /\ scenario = LoadSteps(Content)
    /\ pc = "ended" /\ result.ok

\* Nothing is sent before the inputs were found complete.
SendsAreFounded ==
  sent # NothingSent =>
    file \in Files /\ ~LoadRaises(Content) /\ ~InputsRefused(Content, cmd.vars)

LocalIInv ==
  /\ IInv
  /\ LocalTypeOK
  /\ WaitsForFile
  /\ ExecutesFile
  /\ ExitIsFounded
  /\ SendsAreFounded

-----------------------------------------------------------------------------
(* What is loaded of a file *)

\* The steps of known types are loaded, in their order, and their requests
\* with them.
LEMMA StepsLoaded ==
  ASSUME NEW content, WellFormed(content)
  PROVE  /\ KnownSteps(RawSteps(content)) \in SUBSET (1..Len(RawSteps(content)))
         /\ Len(RawSteps(content)) \in Nat
         /\ Cardinality(KnownSteps(RawSteps(content))) \in Nat
         /\ DOMAIN LoadSteps(content) = 1..Cardinality(KnownSteps(RawSteps(content)))
         /\ DOMAIN LoadRequests(content) = DOMAIN LoadSteps(content)
         /\ \A r \in KnownSteps(RawSteps(content)) :
              LET k == Rank(KnownSteps(RawSteps(content)), r)
                  raw == RawSteps(content)[r]
              IN /\ k \in DOMAIN LoadSteps(content)
                 /\ LoadSteps(content)[k] = LoadStep(raw)
                 /\ LoadRequests(content)[k] = IF raw.type = "http" THEN LoadRequest(raw) ELSE NoRequest
         /\ \A k \in DOMAIN LoadSteps(content) :
              \E r \in KnownSteps(RawSteps(content)) : Rank(KnownSteps(RawSteps(content)), r) = k
<1> DEFINE steps == RawSteps(content)
           S == KnownSteps(steps)
           loaded == [i \in DOMAIN steps |-> LoadStep(steps[i])]
           asked == [i \in DOMAIN steps |->
                       IF steps[i].type = "http" THEN LoadRequest(steps[i]) ELSE NoRequest]
<1>1. Len(steps) \in Nat /\ DOMAIN steps = 1..Len(steps)
  BY ListType DEF WellFormed
<1>2. S \in SUBSET (1..Len(steps))
  <2> HIDE DEF steps
  <2> QED BY <1>1 DEF KnownSteps
<1>3. LoadSteps(content) = Filtered(loaded, S) /\ LoadRequests(content) = Filtered(asked, S)
  BY DEF LoadSteps, LoadRequests
<1> HIDE DEF S, steps
<1>4. /\ loaded \in Seq(ToSet(loaded)) /\ Len(loaded) = Len(steps)
      /\ asked \in Seq(ToSet(asked)) /\ Len(asked) = Len(steps)
  <2>1. /\ DOMAIN loaded = 1..Len(steps) /\ loaded = [i \in 1..Len(steps) |-> loaded[i]]
        /\ DOMAIN asked = 1..Len(steps) /\ asked = [i \in 1..Len(steps) |-> asked[i]]
    BY <1>1
  <2> HIDE DEF loaded, asked
  <2>2. IsList(loaded) /\ Len(loaded) = Len(steps) /\ IsList(asked) /\ Len(asked) = Len(steps)
    BY <1>1, <2>1, ListOf
  <2> QED BY <2>2 DEF IsList
<1>5. /\ \A r \in S : loaded[r] = LoadStep(steps[r])
      /\ \A r \in S :
           asked[r] = IF steps[r].type = "http" THEN LoadRequest(steps[r]) ELSE NoRequest
  BY <1>1, <1>2
<1> HIDE DEF loaded, asked
<1>6. /\ Filtered(loaded, S) \in Seq(ToSet(loaded))
      /\ Len(Filtered(loaded, S)) = Cardinality(S) /\ Cardinality(S) \in Nat
      /\ \A r \in S : /\ Rank(S, r) \in 1..Cardinality(S)
                      /\ Filtered(loaded, S)[Rank(S, r)] = loaded[r]
      /\ \A k \in 1..Cardinality(S) : \E r \in S : Rank(S, r) = k
  BY <1>2, <1>4, FilteredKeeps
<1>7. /\ Filtered(asked, S) \in Seq(ToSet(asked))
      /\ Len(Filtered(asked, S)) = Cardinality(S)
      /\ \A r \in S : Filtered(asked, S)[Rank(S, r)] = asked[r]
  BY <1>2, <1>4, FilteredKeeps
<1>8. DOMAIN LoadSteps(content) = 1..Cardinality(S) /\ DOMAIN LoadRequests(content) = 1..Cardinality(S)
  BY <1>3, <1>6, <1>7
<1>9. \A r \in S :
        /\ Rank(S, r) \in DOMAIN LoadSteps(content)
        /\ LoadSteps(content)[Rank(S, r)] = LoadStep(steps[r])
        /\ LoadRequests(content)[Rank(S, r)] =
             IF steps[r].type = "http" THEN LoadRequest(steps[r]) ELSE NoRequest
  BY <1>3, <1>5, <1>6, <1>7, <1>8
<1> QED BY <1>1, <1>2, <1>6, <1>8, <1>9 DEF S, steps

\* The file of the command has been loaded.
Loaded ==
  /\ file \in Files /\ ~LoadRaises(Content)
  /\ scenario = LoadSteps(Content)
  /\ requests = LoadRequests(Content)

\* Every step that is executed is one that is written in the file.
LEMMA StepsAreWritten ==
  ASSUME Loaded
  PROVE  /\ WellFormed(Content)
         /\ \A r \in Executable :
              /\ PositionOf(r) \in Positions
              /\ scenario[PositionOf(r)] = LoadStep(RawSteps(Content)[r])
         /\ \A i \in Positions :
              /\ \E r \in DOMAIN RawSteps(Content) :
                   Written(i) = RawSteps(Content)[r] /\ RawSteps(Content)[r].type \in Kinds
              /\ scenario[i] = LoadStep(Written(i))
              /\ requests[i] =
                   IF Written(i).type = "http" THEN LoadRequest(Written(i)) ELSE NoRequest
<1> DEFINE steps == RawSteps(Content)
           S == KnownSteps(steps)
<1>1. WellFormed(Content)
  BY FilesAssumption DEF FilesAssumption, Loaded, Content
<1>2. Executable = S
  BY DEF Executable, KnownSteps, IsKnown
<1>3. /\ S \in SUBSET (1..Len(steps)) /\ Len(steps) \in Nat /\ Cardinality(S) \in Nat
      /\ DOMAIN scenario = 1..Cardinality(S)
      /\ \A r \in S :
           /\ Rank(S, r) \in DOMAIN scenario
           /\ scenario[Rank(S, r)] = LoadStep(steps[r])
           /\ requests[Rank(S, r)] =
                IF steps[r].type = "http" THEN LoadRequest(steps[r]) ELSE NoRequest
      /\ \A k \in DOMAIN scenario : \E r \in S : Rank(S, r) = k
  BY <1>1, StepsLoaded DEF Loaded
<1>4. Positions = DOMAIN scenario
  <2>1. scenario \in Seq(StepSet)
    BY FilesAssumption, ScenariosAssumption DEF FilesAssumption, ScenariosAssumption, Loaded, Content
  <2> QED BY <2>1 DEF Positions
<1>5. \A r \in S : PositionOf(r) = Rank(S, r)
  BY <1>2 DEF PositionOf, Rank
<1>6. \A r \in S : r \in DOMAIN steps /\ steps[r].type \in Kinds
  BY DEF KnownSteps, IsKnown
<1> HIDE DEF S, steps
<1>7. ASSUME NEW i \in Positions
      PROVE  \E r \in S : Rank(S, r) = i /\ Written(i) = steps[r]
  <2>1. \E r \in Executable : PositionOf(r) = i
    BY <1>2, <1>3, <1>4, <1>5
  <2>2. Written(i) = steps[CHOOSE r \in Executable : PositionOf(r) = i]
    BY DEF Written, steps
  <2> QED BY <1>2, <1>5, <2>1, <2>2
<1>8. ASSUME NEW i \in Positions
      PROVE  /\ \E r \in DOMAIN steps : Written(i) = steps[r] /\ steps[r].type \in Kinds
             /\ scenario[i] = LoadStep(Written(i))
             /\ requests[i] =
                  IF Written(i).type = "http" THEN LoadRequest(Written(i)) ELSE NoRequest
  BY <1>3, <1>6, <1>7
<1> QED BY <1>1, <1>2, <1>3, <1>4, <1>5, <1>8 DEF steps

-----------------------------------------------------------------------------
(* Every action keeps the invariant *)

LEMMA LocalInitHolds == LocalInit => LocalIInv
<1> SUFFICES ASSUME LocalInit PROVE LocalIInv
  OBVIOUS
<1>1. IInv /\ TypeOK
  BY InitHolds DEF LocalInit, IInv
<1>2. Positions = {}
  BY DEF LocalInit, Positions
<1>3. LocalTypeOK
  BY <1>1, <1>2 DEF LocalInit, LocalTypeOK, NothingSent
<1>4. WaitsForFile /\ ExecutesFile /\ ExitIsFounded /\ SendsAreFounded
  BY DEF LocalInit, Init, WaitsForFile, Waiting, ExecutesFile, ExitIsFounded, SendsAreFounded
<1> QED BY <1>1, <1>3, <1>4 DEF LocalIInv

\* A stage that leaves the executor alone.
LEMMA ExecutorRests ==
  ASSUME LocalIInv, UNCHANGED executor
  PROVE  IInv' /\ TypeOK' /\ Positions' = Positions
         /\ (Waiting => Waiting') /\ scenario' = scenario
<1>1. IInv'
  BY StutterKeeps DEF LocalIInv
<1>2. UNCHANGED <<scenario, pc, index, retries, ctx, outcome, result, attempts, waits, passed, jumped>>
  BY DEF executor, machine, history
<1> QED BY <1>1, <1>2 DEF IInv, Positions, Waiting

LEMMA FindFileKeeps == ASSUME LocalIInv, FindFile PROVE LocalIInv'
<1>1. /\ stage = "find" /\ stage' \in {"payload", "exited"}
      /\ UNCHANGED <<executor, cmd, requests, vars, page, scraped, sent>>
      /\ exit' = IF stage' = "exited" THEN 1 ELSE exit
  BY DEF FindFile, Refuse, Exit, Proceed
<1>2. IInv' /\ TypeOK' /\ Positions' = Positions /\ (Waiting => Waiting') /\ scenario' = scenario
  BY <1>1, ExecutorRests
<1>3. exit = -1 /\ sent = NothingSent /\ vars = cmd.vars /\ Waiting /\ scenario = <<>>
  BY <1>1 DEF LocalIInv, LocalTypeOK, ExecutesFile, WaitsForFile
<1>4. LocalTypeOK'
  BY <1>1, <1>2, <1>3 DEF LocalIInv, LocalTypeOK, Positions
<1>5. WaitsForFile' /\ ExecutesFile' /\ ExitIsFounded' /\ SendsAreFounded'
  BY <1>1, <1>2, <1>3 DEF WaitsForFile, ExecutesFile, ExitIsFounded, SendsAreFounded
<1> QED BY <1>2, <1>4, <1>5 DEF LocalIInv

LEMMA ReadPayloadKeeps == ASSUME LocalIInv, ReadPayload PROVE LocalIInv'
<1>1. /\ stage = "payload" /\ stage' \in {"load", "exited"}
      /\ UNCHANGED <<executor, cmd, file, requests, vars, page, scraped, sent>>
      /\ exit' = IF stage' = "exited" THEN 1 ELSE exit
      /\ stage' = "load" => cmd.payload # "bad"
  BY DEF ReadPayload, Refuse, Exit, Proceed
<1>2. IInv' /\ TypeOK' /\ Positions' = Positions /\ (Waiting => Waiting') /\ scenario' = scenario
  BY <1>1, ExecutorRests
<1>3. exit = -1 /\ sent = NothingSent /\ vars = cmd.vars /\ Waiting /\ scenario = <<>>
  BY <1>1 DEF LocalIInv, LocalTypeOK, ExecutesFile, WaitsForFile
<1>4. LocalTypeOK'
  BY <1>1, <1>2, <1>3 DEF LocalIInv, LocalTypeOK, Positions
<1>5. WaitsForFile' /\ ExecutesFile' /\ ExitIsFounded' /\ SendsAreFounded'
  BY <1>1, <1>2, <1>3 DEF WaitsForFile, ExecutesFile, ExitIsFounded, SendsAreFounded
<1> QED BY <1>2, <1>4, <1>5 DEF LocalIInv

\* The steps that are loaded make an initial state of the executor.
LEMMA LoadFileKeeps == ASSUME LocalIInv, LoadFile PROVE LocalIInv'
<1>1. /\ stage = "load"
      /\ UNCHANGED <<pc, index, retries, ctx, outcome, result, history>>
      /\ UNCHANGED <<cmd, file, vars, page, scraped, sent>>
  BY DEF LoadFile
<1>2. /\ exit = -1 /\ sent = NothingSent /\ vars = cmd.vars /\ cmd.payload # "bad"
      /\ Waiting /\ scenario = <<>>
  BY <1>1 DEF LocalIInv, LocalTypeOK, ExecutesFile, WaitsForFile
<1>3. CASE Refuse /\ UNCHANGED <<scenario, requests>>
  <2>1. stage' = "exited" /\ exit' = 1 /\ UNCHANGED executor
    BY <1>1, <1>3 DEF Refuse, Exit, executor, machine
  <2>2. IInv' /\ TypeOK' /\ Positions' = Positions
    BY <2>1, ExecutorRests
  <2>3. LocalTypeOK'
    BY <1>1, <1>2, <1>3, <2>1, <2>2 DEF LocalIInv, LocalTypeOK
  <2>4. WaitsForFile' /\ ExecutesFile' /\ ExitIsFounded' /\ SendsAreFounded'
    BY <1>1, <1>2, <2>1 DEF WaitsForFile, ExecutesFile, ExitIsFounded, SendsAreFounded
  <2> QED BY <2>2, <2>3, <2>4 DEF LocalIInv
<1>4. CASE /\ file \in Files /\ ~LoadRaises(Content)
           /\ Proceed("validate")
           /\ scenario' = LoadSteps(Content)
           /\ requests' = LoadRequests(Content)
  <2>1. stage' = "validate" /\ exit' = -1 /\ Content' = Content
    BY <1>1, <1>2, <1>4 DEF Proceed, Content
  <2>2. scenario' \in Scenarios
    BY <1>4, FilesAssumption DEF FilesAssumption, Content
  <2>3. Waiting'
    BY <1>1, <1>2 DEF Waiting, history
  <2>4. Init'
    BY <2>2, <2>3 DEF Waiting, Init
  <2>5. IInv' /\ TypeOK'
    <3>1. Init' => IInv'
      BY InitHolds, PTL
    <3> QED BY <2>4, <3>1 DEF IInv
  <2>6. DOMAIN requests' = Positions'
    <3>1. scenario' \in Seq(StepSet)
      BY <2>2, ScenariosAssumption DEF ScenariosAssumption
    <3>2. WellFormed(Content)
      BY <1>4, FilesAssumption DEF FilesAssumption, Content
    <3>3. DOMAIN LoadRequests(Content) = DOMAIN LoadSteps(Content)
      BY <3>2, StepsLoaded
    <3> QED BY <1>4, <3>1, <3>3 DEF Positions
  <2>7. LocalTypeOK'
    <3>1. Len(scenario') \in Nat
      BY <2>2, ScenariosAssumption DEF ScenariosAssumption
    <3> QED BY <1>1, <1>2, <2>1, <2>5, <2>6, <3>1 DEF LocalIInv, LocalTypeOK, NothingSent
  <2>8. WaitsForFile' /\ ExecutesFile' /\ ExitIsFounded' /\ SendsAreFounded'
    BY <1>1, <1>2, <1>4, <2>1, <2>3 DEF WaitsForFile, ExecutesFile, ExitIsFounded, SendsAreFounded
  <2> QED BY <2>5, <2>7, <2>8 DEF LocalIInv
<1> QED BY <1>3, <1>4 DEF LoadFile

LEMMA ValidateKeeps == ASSUME LocalIInv, ValidateInputs PROVE LocalIInv'
<1>1. /\ stage = "validate" /\ stage' \in {"execute", "exited"}
      /\ UNCHANGED <<executor, cmd, file, requests, vars, page, scraped, sent>>
      /\ exit' = IF stage' = "exited" THEN 1 ELSE exit
      /\ stage' = "execute" => ~InputsRefused(Content, vars)
  BY DEF ValidateInputs, Refuse, Exit, Proceed
<1>2. IInv' /\ TypeOK' /\ Positions' = Positions /\ scenario' = scenario /\ Content' = Content
  BY <1>1, ExecutorRests DEF Content
<1>3. /\ exit = -1 /\ sent = NothingSent /\ vars = cmd.vars /\ file \in Files
      /\ ~LoadRaises(Content) /\ scenario = LoadSteps(Content) /\ cmd.payload # "bad"
  BY <1>1 DEF LocalIInv, LocalTypeOK, ExecutesFile
<1>4. LocalTypeOK'
  BY <1>1, <1>2, <1>3 DEF LocalIInv, LocalTypeOK
<1>5. WaitsForFile' /\ ExecutesFile' /\ ExitIsFounded' /\ SendsAreFounded'
  BY <1>1, <1>2, <1>3 DEF WaitsForFile, ExecutesFile, ExitIsFounded, SendsAreFounded
<1> QED BY <1>2, <1>4, <1>5 DEF LocalIInv

\* What is sent is sent by the step at hand.
LEMMA SendsAreTyped ==
  ASSUME LocalIInv, ExecuteStep
  PROVE  sent'.by \in 0..Len(scenario)
<1>1. /\ sent.by \in 0..Len(scenario) /\ Len(scenario) \in Nat
  BY ScenarioType DEF LocalIInv, LocalTypeOK
<1>2. CASE LocalHandle
  <2>1. index \in 1..Len(scenario)
    BY <1>2 DEF LocalHandle, Handle, AtStep, Positions
  <2>2. sent' = sent \/ sent'.by = index
    BY <1>2 DEF LocalHandle, LocalHttp, LocalScrape, LocalOther
  <2> QED BY <1>1, <2>1, <2>2
<1>3. CASE sent' = sent
  BY <1>1, <1>3
<1> QED BY <1>2, <1>3 DEF ExecuteStep

LEMMA ExecuteStepKeeps == ASSUME LocalIInv, ExecuteStep PROVE LocalIInv'
<1>1. /\ stage = "execute" /\ Next
      /\ UNCHANGED <<stage, cmd, file, requests, exit>>
  BY DEF ExecuteStep, LocalHandle, Next
<1>2. IInv' /\ TypeOK'
  BY <1>1, NextKeeps DEF LocalIInv, IInv
<1>3. scenario' = scenario /\ Positions' = Positions /\ Content' = Content
  BY <1>1, ScenarioIsFixed DEF Positions, Content
<1>4. LocalTypeOK'
  BY <1>1, <1>2, <1>3, SendsAreTyped DEF LocalIInv, LocalTypeOK
<1>5. exit = -1
  BY <1>1 DEF LocalIInv, LocalTypeOK
<1>6. WaitsForFile' /\ ExecutesFile' /\ ExitIsFounded' /\ SendsAreFounded'
  BY <1>1, <1>3, <1>5 DEF LocalIInv, WaitsForFile, ExecutesFile, ExitIsFounded, SendsAreFounded
<1> QED BY <1>2, <1>4, <1>6 DEF LocalIInv

LEMMA ExitKeeps == ASSUME LocalIInv, ExitWithResult PROVE LocalIInv'
<1>1. /\ stage = "execute" /\ stage' = "exited"
      /\ exit' = IF pc = "ended" /\ result.ok THEN 0 ELSE 1
      /\ UNCHANGED <<executor, cmd, file, requests, vars, page, scraped, sent>>
  BY DEF ExitWithResult, Exit, ExitCode
<1>2. IInv' /\ TypeOK' /\ Positions' = Positions /\ scenario' = scenario /\ Content' = Content
      /\ pc' = pc /\ result' = result
  BY <1>1, ExecutorRests DEF Content, executor, machine
<1>3. LocalTypeOK'
  BY <1>1, <1>2 DEF LocalIInv, LocalTypeOK
<1>4. WaitsForFile' /\ ExecutesFile' /\ ExitIsFounded' /\ SendsAreFounded'
  BY <1>1, <1>2 DEF LocalIInv, WaitsForFile, ExecutesFile, ExitIsFounded, SendsAreFounded
<1> QED BY <1>2, <1>3, <1>4 DEF LocalIInv

LEMMA LocalStutterKeeps == ASSUME LocalIInv, UNCHANGED command PROVE LocalIInv'
<1>1. UNCHANGED <<executor, stage, cmd, file, requests, vars, page, scraped, sent, exit>>
  BY DEF command, local
<1>2. /\ IInv' /\ TypeOK' /\ Positions' = Positions /\ (Waiting => Waiting')
      /\ scenario' = scenario /\ Content' = Content /\ pc' = pc /\ result' = result
  BY <1>1, ExecutorRests DEF Content, executor, machine
<1>3. LocalTypeOK'
  BY <1>1, <1>2 DEF LocalIInv, LocalTypeOK
<1>4. WaitsForFile' /\ ExecutesFile' /\ ExitIsFounded' /\ SendsAreFounded'
  BY <1>1, <1>2 DEF LocalIInv, WaitsForFile, ExecutesFile, ExitIsFounded, SendsAreFounded
<1> QED BY <1>2, <1>3, <1>4 DEF LocalIInv

-----------------------------------------------------------------------------
(* Theorems *)

\* The invariant holds in every state of every local run.
THEOREM LocalInvariance == LocalSpec => []LocalIInv
<1>1. LocalIInv /\ [LocalNext]_command => LocalIInv'
  BY FindFileKeeps, ReadPayloadKeeps, LoadFileKeeps, ValidateKeeps, ExecuteStepKeeps, ExitKeeps,
     LocalStutterKeeps DEF LocalNext
<1> QED BY <1>1, LocalInitHolds, PTL DEF LocalSpec

\* Type correctness of a local run.
THEOREM LocalTypeCorrect == LocalSpec => []LocalTypeOK
<1>1. LocalIInv => LocalTypeOK
  BY DEF LocalIInv
<1> QED BY <1>1, LocalInvariance, PTL

\* The executor keeps its promises in local runs, whose steps send forms and
\* scrape pages and whose scenario comes from a file.
THEOREM LocalExecutionsAreSound ==
  LocalSpec => [](/\ CountersFollowVisits /\ RetriesAreBounded /\ BackoffIsReused
                  /\ FailureIsJust /\ SuccessIsEarned)
<1>1. LocalIInv => /\ CountersFollowVisits /\ RetriesAreBounded /\ BackoffIsReused
                   /\ FailureIsJust /\ SuccessIsEarned
  BY SuccessEarned DEF LocalIInv, IInv
<1> QED BY <1>1, LocalInvariance, PTL

\* A local run that exits 0 has executed what its file holds to a success,
\* and no run sends anything before its inputs are found complete.
THEOREM LocalExitsAreFounded == LocalSpec => [](ExitIsFounded /\ SendsAreFounded)
<1>1. LocalIInv => ExitIsFounded /\ SendsAreFounded
  BY DEF LocalIInv
<1> QED BY <1>1, LocalInvariance, PTL

-----------------------------------------------------------------------------
(* Local runs as walks *)

\* A walk begins with the loading of a file, and nothing else of a local run
\* but its execution moves it.
FilesAreWalked == [][(LoadFile /\ Walk!Init') \/ [Walk!Next]_(Walk!walk)]_command

\* An execution gets further with every step, unless its file has a goto that
\* leads back and takes it.
LocalStepsLeadOn == [][ExecuteStep => Further \/ (Goto /\ ~Forward)]_command

LEMMA LocalStepGoes ==
  ASSUME LocalIInv, WalkInv, [LocalNext]_command
  PROVE  /\ (LoadFile /\ Walk!Init') \/ [Walk!Next]_(Walk!walk)
         /\ WalkInv'
<1>1. CASE LoadFile
  <2>1. /\ UNCHANGED <<pc, index, result, attempts>>
        /\ pc = "loop" /\ index = 1 /\ result = NoResult /\ attempts = 0
    BY <1>1 DEF LoadFile, history, LocalIInv, WaitsForFile, Waiting
  <2>2. Walk!Init' /\ WalkInv'
    BY <2>1 DEF Walk!Init, EndOf, NoResult, WalkInv
  <2> QED BY <1>1, <2>2
<1>2. CASE ExecuteStep
  <2>1. Next
    BY <1>2 DEF ExecuteStep, LocalHandle, Next
  <2> QED BY <2>1, StepGoes DEF LocalIInv
<1>3. ASSUME UNCHANGED executor
      PROVE  UNCHANGED Walk!walk /\ WalkInv'
  BY <1>3, WalkStutters
<1> QED BY <1>1, <1>2, <1>3
        DEF LocalNext, FindFile, ReadPayload, ValidateInputs, ExitWithResult, command

\* What a file that was loaded lets its execution do is all that is done.
THEOREM LocalRunsAreWalks == LocalSpec => FilesAreWalked
<1>1. LocalInit => WalkInv
  BY DEF LocalInit, Init, NoResult, WalkInv
<1>2. /\ LocalIInv /\ WalkInv /\ [LocalNext]_command => WalkInv'
      /\ LocalIInv /\ WalkInv /\ [LocalNext]_command =>
           [(LoadFile /\ Walk!Init') \/ [Walk!Next]_(Walk!walk)]_command
  BY LocalStepGoes
<1> QED BY <1>1, <1>2, LocalInvariance, PTL DEF LocalSpec, FilesAreWalked

\* Of LocalRunsEnd all that is left is that steps are taken.
THEOREM LocalExecutionsLeadOn == LocalSpec => LocalStepsLeadOn
<1>1. LocalIInv /\ [LocalNext]_command => [ExecuteStep => Further \/ (Goto /\ ~Forward)]_command
  <2>1. ExecuteStep => Next
    BY DEF ExecuteStep, LocalHandle, Next
  <2> QED BY <2>1, StepLeadsOn DEF LocalIInv
<1> QED BY <1>1, LocalInvariance, PTL DEF LocalSpec, LocalStepsLeadOn

-----------------------------------------------------------------------------
(* The data of a run *)

LoadedFile ==
  stage \in {"validate", "execute"} \/ pc # "loop" \/ sent # NothingSent => Loaded

DataType == IsVars(vars) /\ IsDict(page)

\* Every variable holds what was scraped last under its name, else what the
\* command line gave.
VarsAreScraped ==
  /\ scraped = [id \in Ids |-> scraped[id]]
  /\ \A name : ValueOf(vars, name) = Expected(scraped, name)

\* What was sent is what FormComposer makes of the request of its step.
SentAsMade ==
  sent # NothingSent =>
    LET request == requests[sent.by]
        vars_then == sent.src["vars"].dict
    IN /\ sent.by \in Positions /\ scenario[sent.by].kind = "http"
       /\ IsVars(vars_then)
       /\ \A name : ValueOf(vars_then, name) = Expected(sent.scraped, name)
       /\ ~ComposeRaises(request.form, request.merge, sent.src, vars_then)
       /\ sent.fields = LastWins(Merged(request.form, request.merge, sent.src, vars_then))

\* A target was looked for in vain if the execution says so.
MissesAreReal ==
  pc = "ended" /\ result.message = "goto_not_found" =>
    \A i \in Positions : scenario[i].id # SelectedRule.target

DataIInv == LoadedFile /\ DataType /\ VarsAreScraped /\ SentAsMade /\ MissesAreReal

LEMMA DataInitHolds == LocalInit => DataIInv
<1> SUFFICES ASSUME LocalInit PROVE DataIInv
  OBVIOUS
<1>1. IsDict(<<>>)
  BY DEF IsDict, IsList
<1>2. VarsAreScraped
  <2>1. vars = cmd.vars /\ scraped = [id \in Ids |-> None]
    BY DEF LocalInit
  <2> QED BY <2>1 DEF VarsAreScraped, Expected
<1> QED BY <1>1, <1>2, CommandsAssumption
        DEF CommandsAssumption, LocalInit, Init, DataIInv, LoadedFile, DataType, SentAsMade, MissesAreReal

LEMMA SameRule ==
  ASSUME UNCHANGED <<scenario, index, ctx>>
  PROVE  SelectedRule' = SelectedRule
<1>1. Applying' = Applying
  BY DEF Applying, Applies, Holds, StatusOf, Current
<1>2. Fallbacks' = Fallbacks
  BY DEF Fallbacks, Current
<1> QED BY <1>1, <1>2 DEF SelectedRule, Current

\* Of the rest of the invariant nothing changes while the executor rests.
LEMMA DataRests ==
  ASSUME DataIInv, UNCHANGED <<executor, cmd, requests, vars, page, scraped, sent>>
  PROVE  DataType' /\ VarsAreScraped' /\ SentAsMade' /\ MissesAreReal' /\ pc' = pc
<1>1. UNCHANGED <<scenario, pc, index, ctx, result, cmd, requests, vars, page, scraped, sent>>
  BY DEF executor, machine
<1>2. SelectedRule' = SelectedRule /\ Positions' = Positions
  BY <1>1, SameRule DEF Positions
<1>3. DataType' /\ VarsAreScraped' /\ SentAsMade'
  <2>1. DataType'
    BY <1>1 DEF DataIInv, DataType
  <2>2. VarsAreScraped'
    BY <1>1 DEF DataIInv, VarsAreScraped, Expected
  <2>3. SentAsMade'
    BY <1>1, <1>2 DEF DataIInv, SentAsMade, Expected
  <2> QED BY <2>1, <2>2, <2>3
<1>4. MissesAreReal'
  BY <1>1, <1>2 DEF DataIInv, MissesAreReal
<1> QED BY <1>1, <1>3, <1>4

LEMMA StagesKeepData ==
  ASSUME LocalIInv, DataIInv,
         FindFile \/ ReadPayload \/ ValidateInputs \/ ExitWithResult \/ UNCHANGED command
  PROVE  DataIInv'
<1>1. CASE FindFile \/ ReadPayload
  <2>1. /\ stage \in {"find", "payload"} /\ stage' \in {"payload", "load", "exited"}
        /\ UNCHANGED <<executor, cmd, requests, vars, page, scraped, sent>>
    BY <1>1 DEF FindFile, ReadPayload, Refuse, Exit, Proceed
  <2>2. pc = "loop" /\ sent = NothingSent
    BY <2>1 DEF LocalIInv, WaitsForFile, Waiting, ExecutesFile
  <2> QED BY <2>1, <2>2, DataRests DEF DataIInv, LoadedFile
<1>2. CASE ValidateInputs \/ ExitWithResult
  <2>1. /\ stage \in {"validate", "execute"}
        /\ UNCHANGED <<executor, cmd, file, requests, vars, page, scraped, sent>>
    BY <1>2 DEF ValidateInputs, ExitWithResult
  <2>2. Loaded
    BY <2>1 DEF DataIInv, LoadedFile
  <2>3. Loaded'
    BY <2>1, <2>2 DEF Loaded, Content, executor, machine
  <2> QED BY <2>1, <2>3, DataRests DEF DataIInv, LoadedFile
<1>3. CASE UNCHANGED command
  <2>1. UNCHANGED <<executor, stage, cmd, file, requests, vars, page, scraped, sent>>
    BY <1>3 DEF command, local
  <2>2. LoadedFile'
    BY <2>1 DEF DataIInv, LoadedFile, Loaded, Content, executor, machine
  <2> QED BY <2>1, <2>2, DataRests DEF DataIInv
<1> QED BY <1>1, <1>2, <1>3

LEMMA LoadFileKeepsData == ASSUME LocalIInv, DataIInv, LoadFile PROVE DataIInv'
<1>1. /\ stage = "load" /\ pc' = "loop" /\ sent' = NothingSent
      /\ UNCHANGED <<cmd, file, vars, page, scraped>>
  BY DEF LoadFile, LocalIInv, WaitsForFile, Waiting, ExecutesFile
<1>2. LoadedFile'
  BY <1>1 DEF LoadFile, LoadedFile, Loaded, Content, Refuse, Exit
<1>3. VarsAreScraped'
  BY <1>1 DEF DataIInv, VarsAreScraped, Expected
<1> QED BY <1>1, <1>2, <1>3 DEF DataIInv, DataType, SentAsMade, MissesAreReal

\* Whatever a step saves, ctx.vars stays a dict of values.
LEMMA SavingKeepsVars ==
  ASSUME NEW pairs, IsVars(pairs), NEW key, NEW value, IsValue(value)
  PROVE  IsVars(Put(pairs, key, value))
<1>1. IsDict(pairs)
  BY DEF IsVars
<1>2. /\ IsDict(Put(pairs, key, value))
      /\ \A i \in DOMAIN Put(pairs, key, value) :
           \/ Put(pairs, key, value)[i] = <<key, value>>
           \/ i \in DOMAIN pairs /\ Put(pairs, key, value)[i] = pairs[i]
  BY <1>1, PutKeeps
<1>3. <<key, value>>[1] = key /\ <<key, value>>[2] = value
  OBVIOUS
<1> QED BY <1>2, <1>3 DEF IsVars

LEMMA ScrapedValueType ==
  ASSUME IsDict(page), NEW what
  PROVE  IsValue(ScrapedValue(what)) /\ ScrapedValue(what) # None
<1>1. \A atoms : IsValue(Text(atoms)) /\ Text(atoms) # None
  <2> SUFFICES ASSUME NEW atoms PROVE IsValue(Text(atoms)) /\ Text(atoms) # None
    OBVIOUS
  <2>1. DOMAIN Text(atoms) = {"text"} /\ DOMAIN None = {"none"}
    BY DEF Text, None
  <2>2. {"text"} # {"none"}
    OBVIOUS
  <2> QED BY <2>1, <2>2 DEF IsValue
<1>2. IsValue(Dict(page)) /\ Dict(page) # None
  <2>1. DOMAIN Dict(page) = {"dict"} /\ DOMAIN None = {"none"} /\ Dict(page).dict = page
    BY DEF Dict, None
  <2>2. {"dict"} # {"none"}
    OBVIOUS
  <2> QED BY <2>1, <2>2 DEF IsValue
<1>3. ScrapedValue(what) = Dict(page) \/ \E atoms : ScrapedValue(what) = Text(atoms)
  BY DEF ScrapedValue
<1> QED BY <1>1, <1>2, <1>3

\* What a scrape saves is what was scraped last under its name.
LEMMA SavesAreScraped ==
  ASSUME DataType, VarsAreScraped, Current.id \in Ids, UNCHANGED cmd,
         NEW end, NEW what, LocalSave(end, what)
  PROVE  IsVars(vars') /\ VarsAreScraped'
<1> DEFINE key == Current.id
           value == ScrapedValue(what)
<1>1. /\ vars' = Put(vars, key, value)
      /\ scraped' = [scraped EXCEPT ![key] = value]
      /\ key \in Ids
  BY DEF LocalSave
<1>2. IsValue(value) /\ value # None
  BY ScrapedValueType DEF DataType
<1>3. IsVars(vars) /\ IsDict(vars)
  BY DEF DataType, IsVars
<1> HIDE DEF key, value
<1>4. IsVars(Put(vars, key, value))
  BY <1>2, <1>3, SavingKeepsVars
<1>5. \A name : ValueOf(vars', name) = IF name = key THEN value ELSE ValueOf(vars, name)
  BY <1>1, <1>3, PutReads
<1>6. scraped' = [id \in Ids |-> IF id = key THEN value ELSE scraped[id]]
  BY <1>1 DEF VarsAreScraped
<1>7. \A name : Expected(scraped, name)' = IF name = key THEN value ELSE Expected(scraped, name)
  BY <1>1, <1>2, <1>6 DEF Expected
<1>8. \A name : ValueOf(vars, name)' = Expected(scraped, name)'
  BY <1>5, <1>7 DEF VarsAreScraped
<1>9. scraped' = [id \in Ids |-> scraped'[id]]
  BY <1>6
<1> QED BY <1>1, <1>4, <1>8, <1>9 DEF VarsAreScraped

LEMMA HandlingKeepsData ==
  ASSUME LocalIInv, DataIInv, stage = "execute", LocalHandle, UNCHANGED <<cmd, file, requests>>
  PROVE  DataType' /\ VarsAreScraped' /\ SentAsMade' /\ MissesAreReal'
<1>1. /\ index \in Positions /\ pc' # "ended"
      /\ UNCHANGED <<scenario, index>>
  BY DEF LocalHandle, Handle, AtStep, Raise
<1>2. Positions' = Positions
  BY <1>1 DEF Positions
<1>3. MissesAreReal'
  BY <1>1 DEF MissesAreReal
<1>4. CASE Current.kind = "http" /\ LocalHttp
  <2>1. UNCHANGED <<vars, scraped>> /\ IsDict(page')
    BY <1>4, PagesAssumption DEF PagesAssumption, LocalHttp, DataIInv, DataType
  <2>2. DataType' /\ VarsAreScraped'
    BY <2>1 DEF DataIInv, DataType, VarsAreScraped, Expected
  <2>3. CASE sent' = sent
    BY <1>1, <1>2, <1>3, <2>2, <2>3 DEF DataIInv, SentAsMade, Expected
  <2>4. CASE /\ MaySend
             /\ sent' = [by |-> index, src |-> Sources, scraped |-> scraped,
                         fields |-> LastWins(Merged(Request.form, Request.merge, Sources, vars))]
    <3>1. Sources["vars"].dict = vars
      BY DEF Sources, Dict
    <3>2. /\ sent'.by = index /\ sent'.src["vars"].dict = vars
          /\ sent'.src = Sources /\ sent'.scraped = scraped
          /\ sent'.fields = LastWins(Merged(Request.form, Request.merge, Sources, vars))
      BY <2>4, <3>1
    <3>3. requests'[index] = Request /\ scenario'[index].kind = "http"
      BY <1>1, <1>4 DEF Request, Current
    <3>4. ~ComposeRaises(Request.form, Request.merge, Sources, vars)
      BY <2>4 DEF MaySend
    <3>5. \A name : ValueOf(vars, name) = Expected(sent.scraped, name)'
      BY <3>2 DEF DataIInv, VarsAreScraped, Expected
    <3>6. SentAsMade'
      BY <1>1, <1>2, <3>2, <3>3, <3>4, <3>5 DEF DataIInv, DataType, SentAsMade
    <3> QED BY <1>3, <2>2, <3>6
  <2> QED BY <1>4, <2>3, <2>4 DEF LocalHttp
<1>5. CASE Current.kind # "http" /\ (LocalScrape \/ LocalOther)
  <2>1. /\ UNCHANGED <<page, sent>>
        /\ UNCHANGED <<vars, scraped>> \/ \E end, what : LocalSave(end, what)
    BY <1>5 DEF LocalScrape, LocalOther
  <2>2. Current.id \in Ids
    BY <1>1, CurrentType DEF LocalIInv, IInv, StepSet
  <2>3. UNCHANGED <<vars, scraped>> => IsVars(vars') /\ VarsAreScraped'
    BY DEF DataIInv, DataType, VarsAreScraped, Expected
  <2>4. ASSUME NEW end, NEW what, LocalSave(end, what)
        PROVE  IsVars(vars') /\ VarsAreScraped'
    BY <2>2, <2>4, SavesAreScraped DEF DataIInv
  <2>5. IsVars(vars') /\ VarsAreScraped'
    BY <2>1, <2>3, <2>4 DEF DataIInv, DataType
  <2>6. SentAsMade'
    BY <1>1, <1>2, <2>1 DEF DataIInv, SentAsMade, Expected
  <2> QED BY <1>3, <2>1, <2>5, <2>6 DEF DataIInv, DataType
<1> QED BY <1>4, <1>5 DEF LocalHandle

LEMMA StepsKeepMisses ==
  ASSUME Skip \/ Advance \/ SelectRaises \/ Retry \/ GiveUp \/ Goto \/ GotoNowhere \/ Abort \/ Finish
  PROVE  MissesAreReal'
<1>1. CASE pc' # "ended"
  BY <1>1 DEF MissesAreReal
<1>2. CASE GiveUp \/ Abort \/ Finish
  BY <1>2 DEF GiveUp, Abort, Finish, End, FailedResult, MissesAreReal
<1>3. CASE GotoNowhere
  <2>1. UNCHANGED <<scenario, index, ctx>>
    BY <1>3 DEF GotoNowhere, End
  <2>2. SelectedRule' = SelectedRule /\ Positions' = Positions
    BY <2>1, SameRule DEF Positions
  <2>3. CASE result' = FailedResult("goto_missing")
    BY <2>3 DEF FailedResult, MissesAreReal
  <2>4. CASE ~Known(SelectedRule.target)
    BY <2>1, <2>2, <2>4 DEF Known, MissesAreReal
  <2> QED BY <1>3, <2>3, <2>4 DEF GotoNowhere, End
<1> QED BY <1>1, <1>2, <1>3 DEF Skip, Advance, SelectRaises, Retry, Goto, Arrive, Raise

LEMMA ExecuteStepKeepsData == ASSUME LocalIInv, DataIInv, ExecuteStep PROVE DataIInv'
<1>1. /\ stage = "execute" /\ UNCHANGED <<stage, cmd, file, requests>>
      /\ scenario' = scenario
  BY ScenarioIsFixed DEF ExecuteStep, LocalHandle, Next
<1>2. LoadedFile'
  BY <1>1 DEF DataIInv, LoadedFile, Loaded, Content
<1>3. CASE LocalHandle
  BY <1>1, <1>2, <1>3, HandlingKeepsData DEF DataIInv
<1>4. CASE /\ \/ Skip \/ Advance \/ SelectRaises \/ Retry \/ GiveUp \/ Goto
              \/ GotoNowhere \/ Abort \/ Finish
           /\ UNCHANGED <<vars, page, scraped, sent>>
  <2>1. MissesAreReal'
    BY <1>4, StepsKeepMisses
  <2>2. DataType' /\ VarsAreScraped' /\ SentAsMade'
    BY <1>1, <1>4 DEF DataIInv, DataType, VarsAreScraped, SentAsMade, Expected, Positions
  <2> QED BY <1>2, <2>1, <2>2 DEF DataIInv
<1> QED BY <1>3, <1>4 DEF ExecuteStep

\* What was loaded stays loaded, and what is sent was made of it.
THEOREM DataInvariance == LocalSpec => []DataIInv
<1>1. LocalIInv /\ DataIInv /\ [LocalNext]_command => DataIInv'
  BY StagesKeepData, LoadFileKeepsData, ExecuteStepKeepsData DEF LocalNext
<1> QED BY <1>1, DataInitHolds, LocalInvariance, PTL DEF LocalSpec

-----------------------------------------------------------------------------
(* What the exit code says *)

\* What ScenarioInputValidator lets pass has a value for every required key.
LEMMA InputsAreGiven ==
  ASSUME NEW content, NEW pairs, ~InputsRefused(content, pairs),
         content.inputs \notin {Absent, Null}, content.inputs.required # Absent,
         NEW key \in content.inputs.required
  PROVE  \E i \in DOMAIN pairs : pairs[i][1] = key /\ pairs[i][2] # None
<1>1. Given(pairs, key)
  BY DEF InputsRefused, Get, GetTruthy
<1> DEFINE i == CHOOSE i \in DOMAIN pairs : pairs[i][1] = key
<1>2. i \in DOMAIN pairs /\ pairs[i][1] = key
  BY <1>1 DEF Given, Has
<1>3. PairValue(pairs, key) = pairs[i][2]
  BY DEF PairValue
<1>4. PairValue(pairs, key) # None
  BY <1>1 DEF Given, Is, None
<1> HIDE DEF i
<1> QED BY <1>2, <1>3, <1>4

\* Exit code 0 says that the file was loaded, its required inputs were given
\* and each of its steps was passed, skipped as disabled or jumped over.
THEOREM ExitCodeIsEarned == LocalSpec => []ExitZeroIsEarned
<1>1. ASSUME LocalIInv, DataIInv, exit = 0
      PROVE  ExitZeroIsEarned
  <2>1. /\ file \in Files /\ ~LoadRaises(Content) /\ cmd.payload # "bad"
        /\ ~InputsRefused(Content, cmd.vars) /\ pc = "ended" /\ result.ok
    BY <1>1 DEF LocalIInv, ExitIsFounded
  <2>2. cmd.payload = "good"
    BY <1>1, <2>1, CommandsAssumption DEF CommandsAssumption, LocalIInv, LocalTypeOK
  <2>3. Loaded
    BY <1>1, <2>1 DEF DataIInv, LoadedFile
  <2>4. \A i \in Positions : Enabled(scenario[i]) => i \in passed \cup jumped
    BY <1>1, <2>1, SuccessEarned DEF LocalIInv, SuccessIsEarned
  <2>5. \A r \in Executable :
          RawSteps(Content)[r].enabled # "false" => PositionOf(r) \in passed \cup jumped
    <3> SUFFICES ASSUME NEW r \in Executable, RawSteps(Content)[r].enabled # "false"
                 PROVE  PositionOf(r) \in passed \cup jumped
      OBVIOUS
    <3> DEFINE raw == RawSteps(Content)[r]
    <3>1. PositionOf(r) \in Positions /\ scenario[PositionOf(r)] = LoadStep(raw)
      BY <2>3, StepsAreWritten
    <3>2. LoadStep(raw).enabled = IF raw.enabled = Null THEN "null" ELSE Get(raw.enabled, "true")
      BY DEF LoadStep
    <3>3. Enabled(scenario[PositionOf(r)])
      BY <3>1, <3>2 DEF Enabled, Get
    <3> QED BY <2>4, <3>1, <3>3
  <2>6. Content.inputs \notin {Absent, Null} /\ Content.inputs.required # Absent =>
          \A key \in Content.inputs.required :
            \E i \in DOMAIN cmd.vars : cmd.vars[i][1] = key /\ cmd.vars[i][2] # None
    BY <2>1, InputsAreGiven
  <2> QED BY <2>1, <2>2, <2>5, <2>6 DEF ExitZeroIsEarned
<1>2. LocalIInv /\ DataIInv => ExitZeroIsEarned
  BY <1>1 DEF ExitZeroIsEarned
<1> QED BY <1>2, LocalInvariance, DataInvariance, PTL

\* goto_not_found is said of a target only if no step of the file that can be
\* executed has it as its id.
THEOREM GotosMissUnknownOnly == LocalSpec => []GotoMissesUnknownOnly
<1>1. ASSUME DataIInv, pc = "ended", result.message = "goto_not_found", NEW r \in Executable
      PROVE  Get(RawSteps(Content)[r].id, "unknown") # SelectedRule.target
  <2> DEFINE raw == RawSteps(Content)[r]
  <2>1. Loaded
    BY <1>1 DEF DataIInv, LoadedFile
  <2>2. PositionOf(r) \in Positions /\ scenario[PositionOf(r)] = LoadStep(raw)
    BY <2>1, StepsAreWritten
  <2>3. LoadStep(raw).id = Get(raw.id, "unknown")
    BY DEF LoadStep
  <2> QED BY <1>1, <2>2, <2>3 DEF DataIInv, MissesAreReal
<1>2. DataIInv => GotoMissesUnknownOnly
  BY <1>1 DEF GotoMissesUnknownOnly
<1> QED BY <1>2, DataInvariance, PTL

-----------------------------------------------------------------------------
(* Retries and rules *)

\* Short sequences, written out.
LEMMA OneOf ==
  ASSUME NEW X, NEW u \in Seq(X), Len(u) = 1, NEW a, u[1] = a
  PROVE  u = <<a>>
OBVIOUS

LEMMA TwoOf ==
  ASSUME NEW X, NEW u \in Seq(X), Len(u) = 2, NEW a, u[1] = a, NEW b, u[2] = b
  PROVE  u = <<a, b>>
OBVIOUS

LEMMA ThreeOf ==
  ASSUME NEW X, NEW u \in Seq(X), Len(u) = 3, NEW a, u[1] = a, NEW b, u[2] = b, NEW c, u[3] = c
  PROVE  u = <<a, b, c>>
OBVIOUS

LEMMA Joined ==
  ASSUME NEW a, NEW b, NEW c
  PROVE  <<a>> \o <<b>> = <<a, b>> /\ <<a, b>> \o <<c>> = <<a, b, c>>
<1> DEFINE X == {a, b, c}
           u == <<a>> \o <<b>>
           v == <<a, b>> \o <<c>>
<1>1. <<a>> \in Seq(X) /\ <<b>> \in Seq(X) /\ <<c>> \in Seq(X) /\ <<a, b>> \in Seq(X)
  OBVIOUS
<1>2. /\ Len(<<a>>) = 1 /\ <<a>>[1] = a /\ Len(<<b>>) = 1 /\ <<b>>[1] = b
      /\ Len(<<c>>) = 1 /\ <<c>>[1] = c
      /\ Len(<<a, b>>) = 2 /\ <<a, b>>[1] = a /\ <<a, b>>[2] = b
  OBVIOUS
<1>3. u \in Seq(X) /\ Len(u) = 2 /\ u[1] = a /\ u[2] = b
  <2>1. u \in Seq(X) /\ Len(u) = Len(<<a>>) + Len(<<b>>)
    BY <1>1, ConcatProperties
  <2>2. u[1] = <<a>>[1] /\ u[2] = <<b>>[1]
    BY <1>1, <1>2, ConcatProperties
  <2> QED BY <1>2, <2>1, <2>2
<1>4. v \in Seq(X) /\ Len(v) = 3 /\ v[1] = a /\ v[2] = b /\ v[3] = c
  <2>1. v \in Seq(X) /\ Len(v) = Len(<<a, b>>) + Len(<<c>>)
    BY <1>1, ConcatProperties
  <2>2. v[1] = <<a, b>>[1] /\ v[2] = <<a, b>>[2] /\ v[3] = <<c>>[1]
    BY <1>1, <1>2, ConcatProperties
  <2> QED BY <1>2, <2>1, <2>2
<1> HIDE DEF u, v, X
<1>5. u = <<a, b>> /\ v = <<a, b, c>>
  BY <1>3, <1>4, TwoOf, ThreeOf
<1> QED BY <1>5 DEF u, v

LEMMA OuterTokens ==
  ASSUME NEW a, NEW b, NEW c
  PROVE  SubSeq(<<a, b, c>>, 1, 1) = <<a>> /\ SubSeq(<<a, b, c>>, 3, 3) = <<c>>
<1> DEFINE X == {a, b, c}
           t == <<a, b, c>>
           u == SubSeq(t, 1, 1)
           v == SubSeq(t, 3, 3)
<1>1. t \in Seq(X) /\ Len(t) = 3 /\ t[1] = a /\ t[3] = c
  OBVIOUS
<1> HIDE DEF t, X
<1>2. u \in Seq(X) /\ Len(u) = 1 /\ u[1] = a /\ v \in Seq(X) /\ Len(v) = 1 /\ v[1] = c
  <2>1. /\ u \in Seq(X) /\ Len(u) = (IF 1 <= 1 THEN 1 - 1 + 1 ELSE 0)
        /\ \A i \in 1..(1 - 1 + 1) : u[i] = t[1 + i - 1]
    BY <1>1, SubSeqProperties
  <2>2. /\ v \in Seq(X) /\ Len(v) = (IF 3 <= 3 THEN 3 - 3 + 1 ELSE 0)
        /\ \A i \in 1..(3 - 3 + 1) : v[i] = t[3 + i - 1]
    BY <1>1, SubSeqProperties
  <2> HIDE DEF u, v
  <2>3. u[1] = t[1] /\ v[1] = t[3]
    BY <2>1, <2>2
  <2> QED BY <1>1, <2>1, <2>2, <2>3
<1> HIDE DEF u, v
<1>3. u = <<a>> /\ v = <<c>>
  BY <1>2, OneOf
<1> QED BY <1>3 DEF u, v, t

\* The operator that is found in a comparison is the one that is written: the
\* shorter one it contains is looked for later.
LEMMA WrittenIsFound ==
  ASSUME NEW op \in ToSet(Operators),
         NEW found, found = {k \in DOMAIN Operators : op \in Containing(Operators[k])}
  PROVE  found # {} /\ Operators[Min(found)] = op
<1>1. op \in {"==", ">=", "<=", ">", "<"} /\ DOMAIN Operators = {1, 2, 3, 4, 5}
  BY DEF ToSet, Operators
<1>2. /\ Operators[1] = "==" /\ Operators[2] = ">=" /\ Operators[3] = "<="
      /\ Operators[4] = ">" /\ Operators[5] = "<"
  BY DEF Operators
<1>3. /\ Containing("==") = {"=="} /\ Containing(">=") = {">="} /\ Containing("<=") = {"<="}
      /\ Containing(">") = {">", ">="} /\ Containing("<") = {"<", "<="}
  BY DEF Containing
<1>4. CASE op = "=="
  <2>1. found = {1, 1}
    BY <1>1, <1>2, <1>3, <1>4
  <2>2. Min(found) = 1
    BY <2>1, MinOfTwo
  <2> QED BY <1>2, <1>4, <2>1, <2>2
<1>5. CASE op = ">="
  <2>1. found = {2, 4}
    BY <1>1, <1>2, <1>3, <1>5
  <2>2. Min(found) = 2
    BY <2>1, MinOfTwo
  <2> QED BY <1>2, <1>5, <2>1, <2>2
<1>6. CASE op = "<="
  <2>1. found = {3, 5}
    BY <1>1, <1>2, <1>3, <1>6
  <2>2. Min(found) = 3
    BY <2>1, MinOfTwo
  <2> QED BY <1>2, <1>6, <2>1, <2>2
<1>7. CASE op = ">"
  <2>1. found = {4, 4}
    BY <1>1, <1>2, <1>3, <1>7
  <2>2. Min(found) = 4
    BY <2>1, MinOfTwo
  <2> QED BY <1>2, <1>7, <2>1, <2>2
<1>8. CASE op = "<"
  <2>1. found = {5, 5}
    BY <1>1, <1>2, <1>3, <1>8
  <2>2. Min(found) = 5
    BY <2>1, MinOfTwo
  <2> QED BY <1>2, <1>8, <2>1, <2>2
<1> QED BY <1>1, <1>4, <1>5, <1>6, <1>7, <1>8

\* A comparison of three tokens, of which the outer two are no operators.
LEMMA ComparisonEvaluates ==
  ASSUME NEW x, "op" \notin DOMAIN x, NEW y, "op" \notin DOMAIN y, NEW op \in ToSet(Operators)
  PROVE  Evaluate(<<x, Op(op), y>>) <=>
           IF op = "==" THEN x = y
           ELSE "num" \in DOMAIN x /\ "num" \in DOMAIN y /\ Compare(op, x.num, y.num)
<1> DEFINE text == <<x, Op(op), y>>
           found == {k \in DOMAIN Operators : Cuts(text, Operators[k]) # {}}
<1>1. \A o : Cuts(text, o) = IF op \in Containing(o) THEN {2} ELSE {}
  <2> SUFFICES ASSUME NEW o PROVE Cuts(text, o) = IF op \in Containing(o) THEN {2} ELSE {}
    OBVIOUS
  <2>1. DOMAIN text = {1, 2, 3}
    OBVIOUS
  <2>2. text[1] = x /\ text[2] = Op(op) /\ text[3] = y
    OBVIOUS
  <2>3. "op" \in DOMAIN Op(op) /\ Op(op).op = op
    BY DEF Op
  <2> HIDE DEF text
  <2> QED BY <2>1, <2>2, <2>3 DEF Cuts
<1>2. found # {} /\ Operators[Min(found)] = op
  <2>1. found = {k \in DOMAIN Operators : op \in Containing(Operators[k])}
    <3> HIDE DEF text
    <3> QED BY <1>1
  <2> HIDE DEF found
  <2> QED BY <2>1, WrittenIsFound
<1>3. Min(Cuts(text, op)) = 2
  <2>1. op \in Containing(op)
    BY DEF Containing
  <2>2. Cuts(text, op) = {2, 2}
    BY <1>1, <2>1
  <2> QED BY <2>2, MinOfTwo
<1>4. /\ SubSeq(text, 1, 2 - 1) = <<x>> /\ SubSeq(text, 2 + 1, Len(text)) = <<y>>
      /\ text[2] = Op(op)
  <2>1. Len(text) = 3 /\ text[2] = Op(op) /\ 2 - 1 = 1 /\ 2 + 1 = 3
    OBVIOUS
  <2>2. SubSeq(text, 1, 1) = <<x>> /\ SubSeq(text, 3, 3) = <<y>>
    BY OuterTokens
  <2> HIDE DEF text
  <2> QED BY <2>1, <2>2
<1>5. Rest(text[2], op) \o <<y>> = <<y>>
  BY <1>4 DEF Rest
<1> HIDE DEF text, found
<1>6. Evaluate(text) <=>
        IF op = "==" THEN <<x>> = <<y>>
        ELSE IsNumber(<<x>>) /\ IsNumber(<<y>>) /\ Compare(op, <<x>>[1].num, <<y>>[1].num)
  BY <1>2, <1>3, <1>4, <1>5 DEF Evaluate, found
<1>7. <<x>>[1] = x /\ <<y>>[1] = y /\ Len(<<x>>) = 1 /\ Len(<<y>>) = 1 /\ (<<x>> = <<y>> <=> x = y)
  OBVIOUS
<1> QED BY <1>6, <1>7 DEF IsNumber, text

LEMMA FlattenThree ==
  ASSUME NEW a, NEW b, NEW c, NEW seqs, seqs = << <<a>>, <<b>>, <<c>> >>
  PROVE  FlattenSeq(seqs) = <<a, b, c>>
<1> DEFINE Solves(f) == f = [i \in 1..Len(seqs) |-> IF i = 1 THEN seqs[i] ELSE f[i - 1] \o seqs[i]]
           flatten == CHOOSE f : Solves(f)
           joined == [i \in 1..3 |-> IF i = 1 THEN <<a>> ELSE IF i = 2 THEN <<a, b>> ELSE <<a, b, c>>]
<1>1. Len(seqs) = 3 /\ seqs[1] = <<a>> /\ seqs[2] = <<b>> /\ seqs[3] = <<c>>
  OBVIOUS
<1>2. <<a>> \o <<b>> = <<a, b>> /\ <<a, b>> \o <<c>> = <<a, b, c>>
  BY Joined
<1>3. Solves(joined)
  <2>1. \A i \in 1..3 : joined[i] = IF i = 1 THEN seqs[i] ELSE joined[i - 1] \o seqs[i]
    <3>1. joined[1] = <<a>> /\ joined[2] = <<a, b>> /\ joined[3] = <<a, b, c>>
      OBVIOUS
    <3>2. \A i \in 1..3 : i = 1 \/ (i = 2 /\ i - 1 = 1) \/ (i = 3 /\ i - 1 = 2)
      OBVIOUS
    <3> HIDE DEF joined
    <3> QED BY <1>1, <1>2, <3>1, <3>2
  <2>2. joined = [i \in 1..3 |-> joined[i]]
    OBVIOUS
  <2> HIDE DEF joined
  <2> QED BY <1>1, <2>1, <2>2
<1>4. Solves(flatten)
  <2> HIDE DEF Solves, joined
  <2> QED BY <1>3
<1>5. FlattenSeq(seqs) = flatten[3]
  BY <1>1 DEF FlattenSeq
<1> HIDE DEF flatten
<1>6. /\ flatten[1] = seqs[1] /\ flatten[2] = flatten[1] \o seqs[2]
      /\ flatten[3] = flatten[2] \o seqs[3]
  <2>1. flatten = [i \in 1..3 |-> IF i = 1 THEN seqs[i] ELSE flatten[i - 1] \o seqs[i]]
    BY <1>1, <1>4
  <2> HIDE DEF Solves, joined
  <2>2. \A i \in 1..3 : flatten[i] = IF i = 1 THEN seqs[i] ELSE flatten[i - 1] \o seqs[i]
    BY <2>1, Zenon
  <2>3. 1 \in 1..3 /\ 2 \in 1..3 /\ 3 \in 1..3 /\ 2 - 1 = 1 /\ 3 - 1 = 2 /\ 2 # 1 /\ 3 # 1
    OBVIOUS
  <2> QED BY <2>2, <2>3
<1> QED BY <1>1, <1>2, <1>5, <1>6

\* What a comparison of ${last.status} with a number says of a status.
LEMMA ComparisonMeans ==
  ASSUME NEW expr, IsList(expr), IsComparison(expr), NEW status \in Statuses \cup {NoResponse}
  PROVE  Evaluate(Resolve(expr, StatusText(status))) <=>
           status # NoResponse /\ IsTrue(expr, status)
<1> DEFINE op == expr[2].op
           n == expr[3].num
           env == StatusText(status)
           first == IF status = NoResponse THEN Ref("last.status") ELSE Num(status)
           texts == [i \in DOMAIN expr |->
                       IF "ref" \in DOMAIN expr[i] /\ expr[i].ref \in DOMAIN env
                         THEN env[expr[i].ref]
                         ELSE <<expr[i]>>]
<1>1. /\ Len(expr) = 3 /\ DOMAIN expr = 1..3 /\ expr[1] = Ref("last.status")
      /\ expr[3] = Num(n)
  BY ListType DEF IsComparison
<1>2. op \in ToSet(Operators) /\ expr[2] = Op(op)
  BY DEF IsComparison, Op
<1>3. /\ "ref" \in DOMAIN expr[1] /\ expr[1].ref = "last.status"
      /\ "ref" \notin DOMAIN expr[2] /\ "ref" \notin DOMAIN expr[3]
  BY <1>1, <1>2 DEF Ref, Op, Num
<1>4. /\ status = NoResponse => DOMAIN env = {}
      /\ status # NoResponse => DOMAIN env = {"last.status"} /\ env["last.status"] = <<Num(status)>>
  BY DEF StatusText
<1> HIDE DEF op, n, env
<1>5. texts[1] = <<first>> /\ texts[2] = <<Op(op)>> /\ texts[3] = <<Num(n)>>
  BY <1>1, <1>2, <1>3, <1>4
<1>6. texts = << <<first>>, <<Op(op)>>, <<Num(n)>> >>
  <2> DEFINE X == {texts[1], texts[2], texts[3]}
  <2>1. texts \in Seq(X) /\ Len(texts) = 3
    <3>1. DOMAIN texts = 1..3 /\ texts = [i \in 1..3 |-> texts[i]]
      BY <1>1
    <3>2. \A i \in 1..3 : texts[i] \in X
      <4> HIDE DEF texts
      <4>1. \A i \in 1..3 : i = 1 \/ i = 2 \/ i = 3
        OBVIOUS
      <4> QED BY <4>1
    <3> HIDE DEF texts, X
    <3> QED BY <3>1, <3>2
  <2> DEFINE a == <<first>>
             b == <<Op(op)>>
             c == <<Num(n)>>
  <2>2. texts[1] = a /\ texts[2] = b /\ texts[3] = c
    BY <1>5
  <2> HIDE DEF texts, X, a, b, c
  <2>3. texts = <<a, b, c>>
    BY <2>1, <2>2, ThreeOf
  <2> QED BY <2>3 DEF a, b, c
<1>7. Resolve(expr, env) = <<first, Op(op), Num(n)>>
  <2>1. Resolve(expr, env) = FlattenSeq(texts)
    BY DEF Resolve
  <2> HIDE DEF texts, first
  <2> QED BY <1>6, <2>1, FlattenThree
<1>8. "op" \notin DOMAIN first /\ "op" \notin DOMAIN Num(n)
  BY DEF Ref, Num
<1>9. Evaluate(<<first, Op(op), Num(n)>>) <=>
        IF op = "==" THEN first = Num(n)
        ELSE "num" \in DOMAIN first /\ "num" \in DOMAIN Num(n) /\ Compare(op, first.num, Num(n).num)
  <2> HIDE DEF first
  <2> QED BY <1>2, <1>8, ComparisonEvaluates
<1>10. "num" \in DOMAIN Num(n) /\ Num(n).num = n
  BY DEF Num
<1>11. CASE status = NoResponse
  <2>1. "num" \notin DOMAIN first
    BY <1>11 DEF Ref
  <2>2. first # Num(n)
    BY <1>10, <2>1
  <2> QED BY <1>7, <1>9, <1>11, <2>1, <2>2 DEF env
<1>12. CASE status # NoResponse
  <2>1. "num" \in DOMAIN first /\ first.num = status /\ (first = Num(n) <=> status = n)
    BY <1>12 DEF Num
  <2>2. IsTrue(expr, status) <=> IF op = "==" THEN status = n ELSE Compare(op, status, n)
    <3>1. op \in {"==", ">=", "<=", ">", "<"}
      BY <1>2 DEF ToSet, Operators
    <3> QED BY <3>1 DEF IsTrue, Compare, op, n
  <2> HIDE DEF first
  <2> QED BY <1>7, <1>9, <1>10, <1>12, <2>1, <2>2 DEF env
<1> QED BY <1>11, <1>12

\* A handler is called as often, and a rule applies exactly when, the file
\* says.
THEOREM FileIsFollowed == LocalSpec => []StepsFollowFile
<1>1. ASSUME LocalIInv, DataIInv, stage = "execute", index \in Positions
      PROVE  StepsFollowFile
  <2> DEFINE raw == Written(index)
             rules == Get(raw.on_error, <<>>)
             most == IF raw.retry \in {Absent, Null} THEN 0 ELSE Get(raw.retry.max, 0)
  <2>1. TypeOK /\ RetriesAreBounded /\ Loaded
    BY <1>1 DEF LocalIInv, IInv, DataIInv, LoadedFile
  <2>2. /\ WellFormed(Content)
        /\ Current = LoadStep(raw)
        /\ \E r \in DOMAIN RawSteps(Content) : raw = RawSteps(Content)[r]
    BY <1>1, <2>1, StepsAreWritten DEF Current
  <2>3. Current.max = most /\ Current.rules = [k \in DOMAIN rules |-> LoadRule(rules[k])]
    BY <2>2 DEF LoadStep, LoadRetry
  <2>4. \A k \in DOMAIN rules : rules[k].expr \in {Absent, Null, Malformed} \/ IsList(rules[k].expr)
    BY <2>2 DEF WellFormed
  <2> HIDE DEF raw, rules, most
  <2>5. attempts <= 1 + Max({0, most})
    <3>1. Current.max \in Int /\ attempts <= 1 + Budget(Current)
      BY <1>1, <2>1, CurrentType DEF RetriesAreBounded
    <3>2. Max({0, most}) = IF 0 >= most THEN 0 ELSE most
      BY <2>3, <3>1, MaxOfTwo
    <3> QED BY <2>3, <3>1, <3>2 DEF Budget
  <2>6. ASSUME NEW k \in DOMAIN rules, rules[k].expr \notin {Absent, Null, Malformed},
               IsComparison(rules[k].expr)
        PROVE  Applies(k) <=> ctx.last # NoResponse /\ IsTrue(rules[k].expr, ctx.last.status)
    <3> DEFINE expr == rules[k].expr
               status == StatusOf(ctx)
    <3>1. Current.rules[k].when = Meaning(expr)
      BY <2>3, <2>6 DEF LoadRule
    <3>2. Meaning(expr) = {s \in Statuses \cup {NoResponse} : Evaluate(Resolve(expr, StatusText(s)))}
      BY <2>6 DEF Meaning
    <3>3. Meaning(expr) # NoExpr /\ Meaning(expr) # Malformed
      <4>1. Meaning(expr) \in SUBSET (Statuses \cup {NoResponse})
        BY <3>2
      <4> QED BY <4>1, ConditionsAssumption DEF ConditionsAssumption
    <3>4. status \in Statuses \cup {NoResponse}
          /\ (status # NoResponse <=> ctx.last # NoResponse)
          /\ (status # NoResponse => status = ctx.last.status)
      BY <2>1, NoResponseAssumption
         DEF NoResponseAssumption, TypeOK, Contexts, Responses, StatusOf
    <3> HIDE DEF expr, status
    <3>5. Applies(k) <=> Evaluate(Resolve(expr, StatusText(status)))
      BY <3>1, <3>2, <3>3, <3>4 DEF Applies, Holds, status
    <3>6. Evaluate(Resolve(expr, StatusText(status))) <=> status # NoResponse /\ IsTrue(expr, status)
      BY <2>4, <2>6, <3>4, ComparisonMeans DEF expr
    <3> QED BY <3>4, <3>5, <3>6 DEF expr
  <2> QED BY <2>5, <2>6 DEF StepsFollowFile, raw, rules, most
<1>2. LocalIInv /\ DataIInv => StepsFollowFile
  BY <1>1 DEF StepsFollowFile
<1> QED BY <1>2, LocalInvariance, DataInvariance, PTL

-----------------------------------------------------------------------------
(* Requests *)

LEMMA MaxIsGreatest ==
  ASSUME NEW T \in SUBSET Int, NEW m \in T, \A k \in T : k <= m
  PROVE  Max(T) = m
<1>1. \A k \in T : m >= k
  OBVIOUS
<1>2. Max(T) \in T /\ \A k \in T : Max(T) >= k
  BY <1>1 DEF Max
<1>3. Max(T) \in Int /\ m \in Int /\ m >= Max(T) /\ Max(T) >= m
  BY <1>1, <1>2
<1> QED BY <1>3

\* What is merged is the dict of the variable, if it has a value.
LEMMA MergedVariable ==
  ASSUME NEW raw, NEW pairs, IsVars(pairs),
         NEW form, NEW src, ~ComposeRaises(form, GetTruthy(raw, NoMerge), src, pairs)
  PROVE  /\ IsDict(MergedPairs(GetTruthy(raw, NoMerge), pairs))
         /\ MergedPairs(GetTruthy(raw, NoMerge), pairs) =
              IF raw \in {Absent, Null, NoMerge} \/ ValueOf(pairs, raw) = None
                THEN <<>> ELSE ValueOf(pairs, raw).dict
<1> DEFINE merge == GetTruthy(raw, NoMerge)
<1>1. IsDict(pairs) /\ \A i \in DOMAIN pairs : IsValue(pairs[i][2])
  BY DEF IsVars
<1>2. CASE raw \notin {Absent, Null, NoMerge} /\ ValueOf(pairs, raw) # None
  <2>1. merge = raw /\ raw # NoMerge
    BY <1>2 DEF GetTruthy
  <2>2. PICK i \in DOMAIN pairs : pairs[i][1] = raw
    BY <1>2 DEF ValueOf, Has
  <2>3. Has(pairs, raw) /\ PairValue(pairs, raw) = pairs[i][2]
    BY <1>1, <2>2, PairOfKey
  <2>4. IsValue(pairs[i][2]) /\ pairs[i][2] # None /\ ValueOf(pairs, raw) = pairs[i][2]
    BY <1>1, <1>2, <2>3 DEF ValueOf
  <2>5. ~Is("none", pairs[i][2])
    BY <2>4 DEF IsValue, Is, None
  <2>6. Merges(merge, pairs)
    BY <2>1, <2>3, <2>5 DEF Merges
  <2>7. Is("dict", pairs[i][2])
    BY <2>1, <2>3, <2>6 DEF ComposeRaises
  <2>8. IsDict(pairs[i][2].dict)
    BY <2>4, <2>7 DEF IsValue, Is, None
  <2> QED BY <1>2, <2>1, <2>3, <2>4, <2>6, <2>8 DEF MergedPairs
<1>3. CASE raw \in {Absent, Null, NoMerge} \/ ValueOf(pairs, raw) = None
  <2>1. ~Merges(merge, pairs)
    <3> SUFFICES ASSUME Merges(merge, pairs) PROVE FALSE
      OBVIOUS
    <3>1. merge # NoMerge /\ Has(pairs, merge) /\ ~Is("none", PairValue(pairs, merge))
      BY DEF Merges
    <3>2. merge = raw /\ raw \notin {Absent, Null, NoMerge}
      BY <3>1 DEF GetTruthy
    <3>3. PairValue(pairs, raw) # None
      BY <3>1, <3>2 DEF Is, None
    <3> QED BY <1>3, <3>1, <3>2, <3>3 DEF ValueOf
  <2>2. IsDict(<<>>)
    BY DEF IsDict, IsList
  <2> QED BY <1>3, <2>1, <2>2 DEF MergedPairs
<1> QED BY <1>2, <1>3

\* The fields of a request are those its step gives, each name once and with
\* the last value it gives, and those of the page scraped last under the name
\* it merges that it does not give.
THEOREM FormsFollowRules == LocalSpec => []FormFollowsRules
<1>1. ASSUME DataIInv, sent # NothingSent
      PROVE  FormFollowsRules
  <2> DEFINE raw == Written(sent.by)
             items == Get(raw.form_list, <<>>)
             pairs == {i \in DOMAIN items : Len(items[i]) >= 2}
             own == {items[i][1] : i \in pairs}
             merge == raw.merge_from_vars
             vars_then == sent.src["vars"].dict
             given == Expected(sent.scraped, merge)
             merged == IF merge \in {Absent, Null, NoMerge} \/ given = None THEN <<>> ELSE given.dict
             fields == sent.fields
             request == requests[sent.by]
  <2>1. /\ Loaded /\ sent.by \in Positions /\ scenario[sent.by].kind = "http"
        /\ IsVars(vars_then) /\ ValueOf(vars_then, merge) = given
        /\ ~ComposeRaises(request.form, request.merge, sent.src, vars_then)
        /\ fields = LastWins(Merged(request.form, request.merge, sent.src, vars_then))
    BY <1>1 DEF DataIInv, LoadedFile, SentAsMade
  <2>2. /\ WellFormed(Content)
        /\ \E r \in DOMAIN RawSteps(Content) : raw = RawSteps(Content)[r]
        /\ scenario[sent.by] = LoadStep(raw)
        /\ request = IF raw.type = "http" THEN LoadRequest(raw) ELSE NoRequest
    BY <2>1, StepsAreWritten
  <2>3. raw.type = "http"
    BY <2>1, <2>2 DEF LoadStep
  <2>4. IsList(items)
    BY <2>2, <2>3 DEF WellFormed
  <2> HIDE DEF items, raw
  <2>5. request.form = Pairs(items, pairs) /\ request.merge = GetTruthy(merge, NoMerge)
    BY <2>2, <2>3 DEF LoadRequest, Pairs, items
  <2>6. pairs \in SUBSET (1..Len(items))
    BY <2>4, ListType
  <2> HIDE DEF merge, vars_then, given, merged, fields, request, pairs
  <2>7. IsDict(merged) /\ merged = MergedPairs(GetTruthy(merge, NoMerge), vars_then)
    <3> DEFINE merging == GetTruthy(merge, NoMerge)
    <3>1. ~ComposeRaises(request.form, merging, sent.src, vars_then)
      BY <2>1, <2>5
    <3>2. /\ IsDict(MergedPairs(merging, vars_then))
          /\ MergedPairs(merging, vars_then) = merged
      BY <2>1, <3>1, MergedVariable DEF merged
    <3> QED BY <3>2
  <2>8. fields = LastWins(Merged(Pairs(items, pairs), GetTruthy(merge, NoMerge), sent.src, vars_then))
    BY <2>1, <2>5
  <2>9. /\ \A k, l \in DOMAIN fields : fields[k][1] = fields[l][1] => k = l
        /\ {fields[k][1] : k \in DOMAIN fields} = own \cup {merged[i][1] : i \in DOMAIN merged}
        /\ \A k \in DOMAIN fields : fields[k][1] \in own =>
             \E i \in pairs :
               /\ items[i][1] = fields[k][1]
               /\ \A j \in pairs : items[j][1] = fields[k][1] => j <= i
               /\ fields[k][2] = Render(items[i][2], sent.src)
        /\ \A k \in DOMAIN fields : fields[k][1] \notin own =>
             fields[k][2] = Text(Str(PairValue(merged, fields[k][1])))
    <3> DEFINE merging == GetTruthy(merge, NoMerge)
               src == sent.src
    <3>1. /\ IsDict(merged) /\ merged = MergedPairs(merging, vars_then)
          /\ fields = LastWins(Merged(Pairs(items, pairs), merging, src, vars_then))
      BY <2>7, <2>8
    <3> HIDE DEF merging, src
    <3>2. IsSent(fields, items, pairs, src, merged)
      BY <2>4, <2>6, <3>1, FormIsSent
    <3> QED BY <3>2 DEF src, IsSent
  <2> HIDE DEF own
  <2> DEFINE names == [k \in DOMAIN fields |-> fields[k][1]]
  <2>10. IsInjective(names) /\ ToSet(names) = own \cup {merged[i][1] : i \in DOMAIN merged}
    BY <2>9 DEF IsInjective, ToSet
  <2>11. ASSUME NEW k \in DOMAIN fields, fields[k][1] \in own
         PROVE  fields[k][2] = Render(items[Max({i \in pairs : items[i][1] = fields[k][1]})][2], sent.src)
    <3> DEFINE same == {i \in pairs : items[i][1] = fields[k][1]}
    <3>1. PICK i \in pairs :
             /\ items[i][1] = fields[k][1]
             /\ \A j \in pairs : items[j][1] = fields[k][1] => j <= i
             /\ fields[k][2] = Render(items[i][2], sent.src)
      BY <2>9, <2>11
    <3>2. Max(same) = i
      <4>1. same \in SUBSET Int /\ i \in same /\ \A j \in same : j <= i
        BY <2>6, <3>1
      <4> HIDE DEF same
      <4> QED BY <4>1, MaxIsGreatest
    <3> QED BY <3>1, <3>2
  <2>12. \A k \in DOMAIN names :
           fields[k][2] =
             IF names[k] \in own
               THEN Render(items[Max({i \in pairs : items[i][1] = names[k]})][2], sent.src)
               ELSE Text(Str(PairValue(merged, names[k])))
    BY <2>9, <2>11
  <2> QED BY <2>10, <2>12 DEF FormFollowsRules, items, raw, pairs, own, merge, given, merged, fields
<1>2. DataIInv => FormFollowsRules
  BY <1>1 DEF FormFollowsRules
<1> QED BY <1>2, DataInvariance, PTL
=============================================================================
