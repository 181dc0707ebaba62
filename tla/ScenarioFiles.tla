---------------------------- MODULE ScenarioFiles ----------------------------
(***************************************************************************)
(* What a scenario file becomes: ScenarioFileFinder, ScenarioLoaderBase    *)
(* (src/infrastructure/scenario) and ScenarioInputValidator, as operators. *)
(*                                                                         *)
(* A file is [name, ext, path, top]: path orders the files by name, top    *)
(* says that it lies in the directory itself.  A content is what a parser  *)
(* makes of a file, in which a key may be Absent or Null.  Types are       *)
(* written in lower case, to which the loader converts them.               *)
(***************************************************************************)
EXTENDS StepExecutor, HttpForms, Expressions

CONSTANTS Absent, Null, NoFile, Unparsable

\* dict.get(key, default)
Get(value, default) == IF value = Absent THEN default ELSE value

\* The keys whose value the code tests for truth.
GetTruthy(value, default) == IF value \in {Absent, Null} THEN default ELSE value

-----------------------------------------------------------------------------
(* ScenarioFileFinder, ScenarioLoaderRegistry *)

Priority == <<"json", "yaml", "yml">>

Before(f, g) ==
  LET rank(file) == CHOOSE k \in DOMAIN Priority : Priority[k] = file.ext
  IN rank(f) < rank(g) \/ (rank(f) = rank(g) /\ f.path < g.path)

\* find_by_id looks into subdirectories, too.
Find(files, name) ==
  LET candidates == {f \in files : f.name = name /\ f.ext \in ToSet(Priority)} IN
  IF candidates = {} THEN NoFile
  ELSE CHOOSE f \in candidates : \A g \in candidates \ {f} : Before(f, g)

\* --format looks for one file in the directory itself.
FindFormat(files, name, ext) ==
  LET candidates == {f \in files : f.name = name /\ f.ext = ext /\ f.top} IN
  IF candidates = {} THEN NoFile ELSE CHOOSE f \in candidates : TRUE

HasLoader(file) == file.ext \in ToSet(Priority)

-----------------------------------------------------------------------------
(* ScenarioLoaderBase *)

\* The statuses an expression over the last response holds for.
StatusText(status) == IF status = NoResponse THEN <<>> ELSE [s \in {"last.status"} |-> <<Num(status)>>]

Meaning(expr) ==
  IF expr = Malformed THEN Malformed
  ELSE {s \in Statuses \cup {NoResponse} : Evaluate(Resolve(expr, StatusText(s)))}

\* A null action is the executor's to replace; one it does not know ends the
\* execution as abort does.
LoadAction(action) ==
  IF action = Null THEN "none"
  ELSE IF action \in {"retry", "goto"} THEN action
  ELSE "abort"

LoadRule(raw) ==
  [when |-> IF raw.expr \in {Absent, Null} THEN NoExpr ELSE Meaning(raw.expr),
   action |-> LoadAction(raw.action),
   target |-> GetTruthy(raw.goto_step_id, NoId)]

LoadRetry(raw) ==
  IF raw \in {Absent, Null} THEN [max |-> 0, backoff |-> <<>>]
  ELSE [max |-> Get(raw.max, 0), backoff |-> Get(raw.backoff_sec, <<>>)]

Among(value, known) == IF value \in known THEN value ELSE "other"

\* What the handler of its kind goes by.
LoadArg(raw) ==
  CASE raw.type = "http" -> IF Get(raw.save_as_last, TRUE) = TRUE THEN "last" ELSE "discard"
    [] raw.type = "scrape" -> Among(raw.command, {"hidden_inputs", "css", "label_next_td"})
    [] raw.type = "assert" -> Among(GetTruthy(raw.mode, "all"), {"all", "any"})
    [] OTHER -> "other"

LoadStep(raw) ==
  LET retry == LoadRetry(raw.retry)
      rules == Get(raw.on_error, <<>>)
      conditions == IF raw.type = "assert" THEN Get(raw.conditions, <<>>) ELSE <<>>
  IN [id |-> Get(raw.id, "unknown"),
      kind |-> raw.type,
      arg |-> LoadArg(raw),
      conditions |-> [i \in DOMAIN conditions |-> Meaning(Get(conditions[i], <<>>))],
      fail_fast |-> Get(raw.fail_fast, TRUE) = TRUE,
      enabled |-> IF raw.enabled = Null THEN "null" ELSE Get(raw.enabled, "true"),
      max |-> retry.max,
      backoff |-> retry.backoff,
      rules |-> [i \in DOMAIN rules |-> LoadRule(rules[i])]]

\* The request of an http step.  Items of form_list that are no pairs are
\* dropped, what follows a pair in its item is, too.
LoadRequest(raw) ==
  LET given == Get(raw.form_list, <<>>)
      items == Filtered(given, {i \in DOMAIN given : Len(given[i]) >= 2}) IN
  [form |-> [i \in DOMAIN items |-> <<items[i][1], items[i][2]>>],
   merge |-> GetTruthy(raw.merge_from_vars, NoMerge)]

NoRequest == [form |-> <<>>, merge |-> NoMerge]

\* Keys without a default are asked of null, or null is iterated over; a
\* step of an unknown type gets as far as its on_error.
StepRaises(raw) ==
  \/ raw = Null
  \/ raw.type = Null
  \/ raw.on_error = Null
  \/ raw.on_error # Absent /\ Null \in ToSet(raw.on_error)
  \/ raw.type = "http" /\ raw.form_list = Null
  \/ raw.type = "assert" /\ raw.conditions = Null

IsKnown(raw) == raw.type \in Kinds

\* Mutant: result steps are dropped, too.
KnownSteps_NoResults(steps) == {i \in DOMAIN steps : steps[i].type \in Kinds \ {"result"}}

\* A step of an unknown type is dropped without a word.
KnownSteps(steps) == {i \in DOMAIN steps : IsKnown(steps[i])}

RawSteps(content) == Get(content.steps, <<>>)

LoadRaises(content) ==
  \/ content = Unparsable
  \/ content = Null
  \/ content.meta = Null
  \/ content.steps = Null
  \/ \E i \in DOMAIN RawSteps(content) : StepRaises(RawSteps(content)[i])

\* What the code takes for granted of a file that loads: lists where it
\* iterates, texts where it looks for operators.
WellFormed(content) ==
  LET steps == RawSteps(content)
      rules(i) == Get(steps[i].on_error, <<>>) IN
  /\ IsList(steps)
  /\ \A i \in DOMAIN steps :
       /\ steps[i].type = "http" => IsList(Get(steps[i].form_list, <<>>))
       /\ \A k \in DOMAIN rules(i) :
            rules(i)[k].expr \in {Absent, Null, Malformed} \/ IsList(rules(i)[k].expr)

LoadSteps(content) ==
  LET steps == RawSteps(content)
  IN Filtered([i \in DOMAIN steps |-> LoadStep(steps[i])], KnownSteps(steps))

LoadRequests(content) ==
  LET steps == RawSteps(content)
      request(raw) == IF raw.type = "http" THEN LoadRequest(raw) ELSE NoRequest
  IN Filtered([i \in DOMAIN steps |-> request(steps[i])], KnownSteps(steps))

-----------------------------------------------------------------------------
(* ScenarioInputValidator *)

\* A required key must be given, and not as null.
Given(vars, key) == Has(vars, key) /\ ~Is("none", PairValue(vars, key))

\* Mutant: only the presence of a key is looked at.
InputsRefused_Present(content, vars) ==
  LET required == Get(GetTruthy(content.inputs, [required |-> Absent]).required, {})
  IN required = Null \/ \E key \in required : ~Has(vars, key)

\* required: null raises.
InputsRefused(content, vars) ==
  LET required == Get(GetTruthy(content.inputs, [required |-> Absent]).required, {})
  IN required = Null \/ \E key \in required : ~Given(vars, key)
=============================================================================
