------------------------------- MODULE LocalRun -------------------------------
(***************************************************************************)
(* A run without the API: `run` with a scenario file, or with an id and no *)
(* URL (_run_local of src/scripts/smoke_run.py).  The scenario is found,   *)
(* loaded and validated, StepExecutor walks its steps without a browser    *)
(* handler, and the command exits.                                         *)
(*                                                                         *)
(* To the steps of StepExecutor it adds what they send and scrape: the     *)
(* form of a request, the hidden inputs of a page, ctx.vars and secrets.   *)
(* A page is its hidden inputs.  All scrapes save to vars.                 *)
(***************************************************************************)
EXTENDS ScenarioFiles

CONSTANTS
  Files,    \* the scenario files in the directory
  Parsed,   \* what the parser makes of the text of each file
  Commands, \* the command lines, with the environment
  Pages     \* the pages a server may answer with

\* WithBrowser is FALSE: _run_local registers no browser handler.
ASSUME LocalAssumption == ~WithBrowser

\* The scenarios are what the files of the commands hold, and none before.
ASSUME FilesAssumption ==
  /\ <<>> \in Scenarios
  /\ \A f \in Files : ~LoadRaises(Parsed[f]) =>
       WellFormed(Parsed[f]) /\ LoadSteps(Parsed[f]) \in Scenarios

IsVars(pairs) == IsDict(pairs) /\ \A i \in DOMAIN pairs : IsValue(pairs[i][2])

\* Variables and hidden inputs are Python dicts.
ASSUME CommandsAssumption == \A c \in Commands : IsVars(c.vars) /\ c.payload \in {"good", "bad"}
ASSUME PagesAssumption == \A p \in Pages : IsDict(p)

VARIABLES
  stage,    \* where _run_local is
  cmd,      \* the command
  file,     \* the scenario file it found
  requests, \* the requests of the loaded steps
  vars,     \* ctx.vars
  page,     \* the text of ctx.last
  scraped,  \* history: by name, what the last scrape to save it found; or None
  sent,     \* history: the last request sent
  exit      \* the exit code; -1 before the end

local == <<stage, cmd, file, requests, vars, page, scraped, sent, exit>>
command == <<executor, local>>

NothingSent == [by |-> 0, fields |-> <<>>, src |-> <<>>, scraped |-> <<>>]

LocalInit ==
  /\ Init
  /\ scenario = <<>>
  /\ stage = "find"
  /\ cmd \in Commands
  /\ file = NoFile
  /\ requests = <<>>
  /\ vars = cmd.vars
  /\ page = <<>>
  /\ scraped = [id \in Ids |-> None]
  /\ sent = NothingSent
  /\ exit = -1

-----------------------------------------------------------------------------
(* Before the execution: a ValueError is told and exits 1, any other       *)
(* exception leaves the interpreter, which exits 1 as well.                *)

Exit(code) == stage' = "exited" /\ exit' = code

\* Mutant: the message is printed and the error forgotten.
Refuse_Kindly == Exit(0)
Refuse == Exit(1)

Proceed(next) == stage' = next /\ UNCHANGED exit

Content == Parsed[file]

FindFile ==
  /\ stage = "find"
  /\ file' = IF cmd.file # NoFile THEN cmd.file
             ELSE IF cmd.format # Absent THEN FindFormat(Files, cmd.id, cmd.format)
             ELSE Find(Files, cmd.id)
  /\ IF file' = NoFile THEN Refuse ELSE Proceed("payload")
  /\ UNCHANGED <<executor, cmd, requests, vars, page, scraped, sent>>

\* --vars or the secrets are no JSON object, or come from several sources.
ReadPayload ==
  /\ stage = "payload"
  /\ IF cmd.payload = "bad" THEN Refuse ELSE Proceed("load")
  /\ UNCHANGED <<executor, cmd, file, requests, vars, page, scraped, sent>>

\* No loader for the extension, no such file, or a file that does not load.
LoadFile ==
  /\ stage = "load"
  /\ IF ~HasLoader(file) \/ file \notin Files \/ LoadRaises(Content)
       THEN Refuse /\ UNCHANGED <<scenario, requests>>
       ELSE /\ Proceed("validate")
            /\ scenario' = LoadSteps(Content)
            /\ requests' = LoadRequests(Content)
  /\ UNCHANGED <<pc, index, retries, ctx, outcome, result, history>>
  /\ UNCHANGED <<cmd, file, vars, page, scraped, sent>>

ValidateInputs ==
  /\ stage = "validate"
  /\ IF InputsRefused(Content, vars) THEN Refuse ELSE Proceed("execute")
  /\ UNCHANGED <<executor, cmd, file, requests, vars, page, scraped, sent>>

-----------------------------------------------------------------------------
(* Handlers *)

\* DictSecretProvider if secrets were given, else EnvSecretProvider, which
\* raises unless both of its variables are set.
HasSecrets == cmd.secrets # <<>> \/ cmd.env # <<>>
Secrets == IF cmd.secrets # <<>> THEN cmd.secrets ELSE cmd.env

\* RenderSources.  Of ctx.last only its status is offered to templates.
LastDict ==
  IF ctx.last = NoResponse THEN <<>> ELSE << <<"status", Text(<<ToString(ctx.last.status)>>)>> >>

Sources ==
  [root \in {"vars", "state", "secrets", "last"} |->
     Dict(CASE root = "vars" -> vars
            [] root = "secrets" -> Secrets
            [] root = "last" -> LastDict
            [] OTHER -> <<>>)]

Request == requests[index]

MaySend ==
  HasSecrets /\ ~ComposeRaises(Request.form, Request.merge, Sources, vars)

\* The request is sent, and its answer may still fail the step; or it is not.
LocalHttp ==
  \/ /\ MaySend
     /\ \E composed \in {Merged(Request.form, Request.merge, Sources, vars)} :
          sent' = [by |-> index, fields |-> LastWins(composed), src |-> Sources, scraped |-> scraped]
     /\ IF outcome' = "ok" /\ Current.arg = "last" THEN page' \in Pages ELSE UNCHANGED page
     /\ UNCHANGED <<vars, scraped>>
  \/ /\ outcome' = "failed"
     /\ UNCHANGED <<vars, page, scraped, sent>>

ScrapedValue(what) ==
  CASE Current.arg = "hidden_inputs" -> Dict(page)
    [] what = "missed" -> Text(<<>>)
    [] OTHER -> Text(<<"scraped">>)

\* Whatever is saved goes to ctx.vars, also by a step that fails then.
LocalSave(end, what) ==
  /\ outcome' = end
  /\ ctx' = Saved(Current, ctx, what)
  /\ Current.arg = "hidden_inputs" => what = IF page = <<>> THEN "missed" ELSE "found"
  /\ vars' = Put(vars, Current.id, ScrapedValue(what))
  /\ scraped' = [scraped EXCEPT ![Current.id] = ScrapedValue(what)]

LocalScrape ==
  /\ \/ \E s \in Savings(Current, ctx) : LocalSave(s[1], s[2])
     \/ outcome' = "failed" /\ ctx' = ctx /\ UNCHANGED <<vars, scraped>>
  /\ UNCHANGED <<page, sent>>

LocalOther ==
  /\ Current.kind \in {"result", "log"} /\ ~HasSecrets => outcome' = "failed"
  /\ UNCHANGED <<vars, page, scraped, sent>>

\* A call of a handler, with the data it works on.
LocalHandle ==
  /\ Handle
  /\ CASE Current.kind = "http" -> LocalHttp
       [] Current.kind = "scrape" -> LocalScrape
       [] OTHER -> LocalOther

ExecuteStep ==
  /\ stage = "execute"
  /\ \/ LocalHandle
     \/ (Skip \/ Advance \/ SelectRaises \/ Retry \/ GiveUp \/ Goto \/ GotoNowhere
         \/ Abort \/ Finish) /\ UNCHANGED <<vars, page, scraped, sent>>
  /\ UNCHANGED <<stage, cmd, file, requests, exit>>

\* Mutant: a run that came to an end is a success.
ExitCode_Ended == IF pc = "ended" THEN 0 ELSE 1
ExitCode == IF pc = "ended" /\ result.ok THEN 0 ELSE 1

ExitWithResult ==
  /\ stage = "execute"
  /\ Done
  /\ Exit(ExitCode)
  /\ UNCHANGED <<executor, cmd, file, requests, vars, page, scraped, sent>>

LocalNext ==
  FindFile \/ ReadPayload \/ LoadFile \/ ValidateInputs \/ ExecuteStep \/ ExitWithResult

LocalSpec == LocalInit /\ [][LocalNext]_command

\* The command's one thread goes on, and its handlers return.
FairLocalSpec == LocalSpec /\ WF_command(LocalNext)

-----------------------------------------------------------------------------
(* Correctness *)

\* Every variable of _run_local keeps its type.
LocalTypeOK ==
  /\ TypeOK
  /\ stage \in {"find", "payload", "load", "validate", "execute", "exited"}
  /\ cmd \in Commands
  /\ DOMAIN requests = Positions
  /\ sent.by \in 0..Len(scenario)
  /\ exit \in {-1, 0, 1}
  /\ stage = "exited" <=> exit # -1

\* The steps of the file that can be executed, and where the i-th of them is.
Executable == {r \in DOMAIN RawSteps(Content) : RawSteps(Content)[r].type \in Kinds}
PositionOf(r) == Cardinality({q \in Executable : q <= r})
Written(i) == RawSteps(Content)[CHOOSE r \in Executable : PositionOf(r) = i]

\* "Exit code: 0 (success), 1 (failure)", docs/NextAction.md:78, for a local run:
\* it exits 0 only if its file loaded, all required inputs were given and every
\* step of the file that is of a known type and not disabled was passed, or
\* jumped over by a goto.
ExitZeroIsEarned ==
  exit = 0 =>
    /\ file \in Files
    /\ cmd.payload = "good"
    /\ ~LoadRaises(Content)
    /\ Content.inputs \notin {Absent, Null} /\ Content.inputs.required # Absent =>
         \A key \in Content.inputs.required :
           \E i \in DOMAIN cmd.vars : cmd.vars[i][1] = key /\ cmd.vars[i][2] # None
    /\ \A r \in Executable :
         RawSteps(Content)[r].enabled # "false" => PositionOf(r) \in passed \cup jumped

\* What a variable must hold: what was scraped last under its name, else
\* what the command line gave.
Expected(scrapes, name) ==
  IF name \in Ids /\ scrapes[name] # None THEN scrapes[name] ELSE ValueOf(cmd.vars, name)

\* The "form_list Rules" of docs/NextAction.md:456-459 and 462: a request has
\* every name once (the rules of line 461 and the example of line 436 say
\* otherwise, see RepeatedNamesAreSent).  A name the step gives has the last
\* value it gives, rendered with the variables of that moment.  Any other is
\* of the merged variable, and has the value of the page that was scraped
\* last under that name, not of one before it.
FormFollowsRules ==
  sent # NothingSent =>
    LET items == Get(Written(sent.by).form_list, <<>>)
        pairs == {i \in DOMAIN items : Len(items[i]) >= 2}
        own == {items[i][1] : i \in pairs}
        merge == Written(sent.by).merge_from_vars
        given == Expected(sent.scraped, merge)
        merged == IF merge \in {Absent, Null, NoMerge} \/ given = None THEN <<>> ELSE given.dict
        names == [k \in DOMAIN sent.fields |-> sent.fields[k][1]]
    IN /\ IsInjective(names)
       /\ ToSet(names) = own \cup {merged[i][1] : i \in DOMAIN merged}
       /\ \A k \in DOMAIN names :
            sent.fields[k][2] =
              IF names[k] \in own
                THEN Render(items[Max({i \in pairs : items[i][1] = names[k]})][2], sent.src)
                ELSE Text(Str(PairValue(merged, names[k])))

\* The fields an item stands for: one for each element of a list it names.
FieldsOf(given, src) ==
  IF /\ Is("parts", given) /\ Len(given.parts) = 1
     /\ Is("list", PartValue(given.parts[1], src))
    THEN Len(PartValue(given.parts[1], src).list) ELSE 1

\* "Form data includes `date=&date=2026-02-10&date=2026-02-11`" of a step that
\* gives date twice, the second time as a list, docs/NextAction.md:436: a name
\* is sent as often as its step gives it, counting the elements of lists.
RepeatedNamesAreSent ==
  sent # NothingSent =>
    LET items == Get(Written(sent.by).form_list, <<>>)
        pairs == {i \in DOMAIN items : Len(items[i]) >= 2}
        count(i) == FieldsOf(items[i][2], sent.src)
    IN \A i \in pairs :
         Cardinality({k \in DOMAIN sent.fields : sent.fields[k][1] = items[i][1]})
           >= MapThenSumSet(count, {j \in pairs : items[j][1] = items[i][1]})

IsComparison(expr) ==
  /\ Len(expr) = 3
  /\ expr[1] = Ref("last.status")
  /\ expr[2] \in {Op(op) : op \in ToSet(Operators)}
  /\ "num" \in DOMAIN expr[3] /\ expr[3] = Num(expr[3].num)

IsTrue(expr, status) ==
  LET n == expr[3].num IN
  CASE expr[2].op = "==" -> status = n
    [] expr[2].op = ">=" -> status >= n
    [] expr[2].op = "<=" -> status <= n
    [] expr[2].op = ">" -> status > n
    [] expr[2].op = "<" -> status < n

\* Retries and rules go by what the file says: a handler is called at most once
\* more than the retry.max written there, once if none is, and a rule that
\* compares ${last.status} with a number applies exactly if there is a
\* response and the comparison is true of its status.
StepsFollowFile ==
  stage = "execute" /\ index \in Positions =>
    LET raw == Written(index)
        rules == Get(raw.on_error, <<>>)
        most == IF raw.retry \in {Absent, Null} THEN 0 ELSE Get(raw.retry.max, 0)
    IN /\ attempts <= 1 + Max({0, most})
       /\ \A k \in DOMAIN rules :
            rules[k].expr \notin {Absent, Null, Malformed} /\ IsComparison(rules[k].expr) =>
              (Applies(k) <=> ctx.last # NoResponse /\ IsTrue(rules[k].expr, ctx.last.status))

\* A run that ends because a goto finds no target has a target that no step of
\* the file has as its id, or only one whose type is misspelt.
GotoMissesUnknownOnly ==
  pc = "ended" /\ result.message = "goto_not_found" =>
    \A r \in Executable : Get(RawSteps(Content)[r].id, "unknown") # SelectedRule.target

\* A local run comes to its exit unless its file has a goto that leads back.
LocalRunsEnd == (stage = "execute" /\ Forward) ~> (stage = "exited")
=============================================================================
