------------------------------ MODULE MCLocalRun ------------------------------
(* Instances of LocalRun for TLC: files, directories and command lines.     *)
EXTENDS LocalRun

\* A file is written down by what differs from these.
Raw(id, type) ==
  [id |-> id, type |-> type, enabled |-> Absent, retry |-> Absent, on_error |-> Absent,
   save_as_last |-> Absent, form_list |-> Absent, merge_from_vars |-> Absent,
   command |-> Absent, mode |-> Absent, conditions |-> Absent, fail_fast |-> Absent]

Holding(steps) == [meta |-> Absent, inputs |-> Absent, steps |-> steps]
RawRule(expr, action, target) == [expr |-> expr, action |-> action, goto_step_id |-> target]
Status(op, n) == <<Ref("last.status"), Op(op), Num(n)>>

Lit(word) == [parts |-> << [lit |-> <<word>>] >>]
Template(root, path) == [parts |-> << [root |-> root, path |-> path] >>]
Key(name) == [key |-> name]

\* Ask, scrape, send what was scraped with fields of its own, check and go
\* back if the session is over.
Login(on_error) ==
  <<Raw("a", "http"),
    [Raw("b", "scrape") EXCEPT !.command = "hidden_inputs"],
    [Raw("c", "http") EXCEPT
       !.retry = [max |-> 1, backoff_sec |-> Absent],
       !.merge_from_vars = "b",
       !.form_list = << <<"user", Lit("nobody")>>, <<"alone">>,
                        <<"user", Template("vars", <<Key("user")>>)>>,
                        <<"pw", Template("secrets", <<Key("pw")>>), "more">>,
                        <<"days", Template("vars", <<[all |-> "days"]>>)>> >>],
    [Raw("d", "assert") EXCEPT !.mode = Null, !.conditions = <<Status("<", 400)>>,
       !.on_error = on_error]>>

Back ==
  Login(<<RawRule(Status("==", 401), "goto", "a"), RawRule(Status(">=", 500), "retry", Absent),
          RawRule(Absent, Absent, Absent)>>)

\* No response has been asked for when the first step fails; the third has a
\* type nobody knows, the fourth no id.
Typo(target) ==
  <<[Raw("a", "log") EXCEPT !.on_error =
       <<RawRule(Status(">=", 200), "goto", "a"), RawRule(<<Word("false")>>, "retry", Absent),
         RawRule(Null, "goto", target)>>],
    [Raw("b", "browser") EXCEPT !.enabled = "false"],
    Raw("c", "htpp"),
    [Raw(Absent, "result") EXCEPT !.on_error = <<RawRule(Absent, Null, Absent)>>]>>

\* A response that is not kept, a form that cannot be rendered, merged from
\* what is no dict.
Odd ==
  <<[Raw("a", "http") EXCEPT !.save_as_last = FALSE, !.merge_from_vars = "n",
       !.form_list = << <<"x", [none |-> TRUE]>>,
                        <<"y", Template("vars", <<Key("days"), [index |-> 1]>>)>> >>],
    [Raw("b", "http") EXCEPT !.merge_from_vars = "user",
       !.on_error = <<RawRule(Status("<=", 200), "retry", Absent),
                      RawRule(Absent, "goto", "c")>>],
    [Raw("c", "scrape") EXCEPT !.command = "css", !.on_error = <<RawRule(Absent, "goto", "d")>>],
    [Raw("d", "http") EXCEPT !.form_list = << <<"z", [parts |-> << [unclosed |-> TRUE] >>]>> >>,
       !.on_error = <<RawRule(Absent, "goto", Null)>>]>>

\* A rule whose expr is no text, and a step the command has no handler for.
Raising ==
  <<[Raw("a", "log") EXCEPT !.on_error = <<RawRule(Malformed, "abort", Absent)>>],
    [Raw("b", "browser") EXCEPT !.enabled = "false"],
    Raw("c", "browser")>>

Contents ==
  [back |-> [Holding(Back) EXCEPT !.inputs = [required |-> {"user"}]],
   forward |-> Holding(Login(Absent)),
   typo |-> Holding(Typo("c")),
   known |-> [Holding(Typo("unknown")) EXCEPT !.inputs = [required |-> Absent]],
   raising |-> Holding(Raising),
   odd |-> [Holding(Odd) EXCEPT !.inputs = Null],
   empty |-> Holding(Absent),
   nobody |-> [Holding(Absent) EXCEPT !.inputs = [required |-> Null]],
   no_meta |-> [Holding(Absent) EXCEPT !.meta = Null],
   no_steps |-> Holding(Null),
   no_step |-> Holding(<<Null>>),
   no_rules |-> Holding(<<[Raw("a", "htpp") EXCEPT !.on_error = Null]>>),
   no_type |-> Holding(<<Raw("a", Null)>>),
   null |-> Null,
   list |-> Unparsable]

FileOf(name, ext, path, top) ==
  [name |-> name, ext |-> ext, path |-> path, top |-> top]

Single == {FileOf(name, "yaml", 3, TRUE) : name \in DOMAIN Contents}

\* More files of one name; the json file lies deeper.
Twice == {FileOf("forward", "json", 2, FALSE), FileOf("forward", "yml", 1, TRUE)}
Other == FileOf("empty", "txt", 4, TRUE)
Directory == Single \cup Twice \cup {Other}

Parser == [f \in Directory |-> IF f.ext = "yml" THEN Contents.typo ELSE Contents[f.name]]

Page1 == << <<"token", Text(<<"t1">>)>>, <<"user", Text(<<"guest">>)>> >>
SomePages == {<<>>, Page1}

User == <<"user", Text(<<"me">>)>>
Days == <<"days", List(<<Text(<<"mon">>), [none |-> TRUE], Text(<<"tue">>)>>)>>
Numbers == <<"n", Dict(<< <<"x", [none |-> TRUE]>>, <<"k", Text(<<"1">>)>> >>)>>
Password == << <<"pw", Text(<<"secret">>)>> >>

Command(f, id, format, variables) ==
  [file |-> f, id |-> id, format |-> format, vars |-> variables, payload |-> "good",
   secrets |-> Password, env |-> <<>>]

ByFile(name, variables) == Command(FileOf(name, "yaml", 3, TRUE), Absent, Absent, variables)
Full == <<User, Days, Numbers>>

CommandLines ==
  {ByFile(name, Full) : name \in DOMAIN Contents}
  \cup {[ByFile("forward", Full) EXCEPT !.secrets = <<>>, !.env = env] : env \in {<<>>, Password}}
  \cup {[ByFile("typo", Full) EXCEPT !.secrets = <<>>], [ByFile("empty", Full) EXCEPT !.payload = "bad"],
        ByFile("back", <<Days>>), ByFile("back", << <<"user", None>>, Days>>), ByFile("forward", <<User>>)}
  \cup {Command(NoFile, "forward", format, Full) : format \in {Absent, "json", "yml"}}
  \cup {Command(NoFile, "nowhere", Absent, <<>>), Command(Other, Absent, Absent, <<>>),
        Command(FileOf("empty", "json", 9, TRUE), Absent, Absent, <<>>)}

\* What the files load to.
Loadable == {<<>>} \cup {LoadSteps(Contents[name]) : name \in {n \in DOMAIN Contents : ~LoadRaises(Contents[n])}}
=============================================================================
