------------------------------ MODULE HttpForms ------------------------------
(***************************************************************************)
(* The form fields of an http step: TemplateRenderer, FormComposer         *)
(* (src/application/services) and the last-wins rule of HttpStepHandler.   *)
(*                                                                         *)
(* A text is a sequence of atoms.  A value is a text, a list, a dict (its  *)
(* pairs in insertion order, as Python keeps them) or None.  A template is *)
(* a sequence of parts: literal atoms, or an expression with its root and  *)
(* its path.  Field names are plain strings.                               *)
(***************************************************************************)
EXTENDS Integers, FiniteSetsExt, SequencesExt

CONSTANT NoMerge \* merge_from_vars is absent, null or ""

Text(atoms) == [text |-> atoms]
List(values) == [list |-> values]
Dict(pairs) == [dict |-> pairs]
None == [none |-> TRUE]
Bad == [raised |-> TRUE]

Is(shape, value) == shape \in DOMAIN value

-----------------------------------------------------------------------------
(* Python lists and dicts *)

IsList(x) == x \in Seq(ToSet(x))

\* A list comprehension with a condition: one after the other, the elements
\* at the positions S are appended.
Filtered(seq, S) ==
  LET kept[n \in 0..Len(seq)] ==
        IF n = 0 THEN <<>>
        ELSE IF n \in S THEN Append(kept[n - 1], seq[n])
        ELSE kept[n - 1]
  IN kept[Len(seq)]

Has(pairs, key) == \E i \in DOMAIN pairs : pairs[i][1] = key
PairValue(pairs, key) == pairs[CHOOSE i \in DOMAIN pairs : pairs[i][1] = key][2]

\* dict.get(key)
ValueOf(pairs, key) == IF Has(pairs, key) THEN PairValue(pairs, key) ELSE None

\* Keys are unique.
IsDict(pairs) == IsList(pairs) /\ \A i, j \in DOMAIN pairs : pairs[i][1] = pairs[j][1] => i = j

IsValue(value) ==
  \/ value = None
  \/ DOMAIN value \in {{"text"}, {"list"}}
  \/ DOMAIN value = {"dict"} /\ IsDict(value.dict)

\* Mutant: a variable that is there already is not written again.
Put_Once(pairs, key, value) ==
  IF Has(pairs, key) THEN pairs ELSE Append(pairs, <<key, value>>)

Put(pairs, key, value) ==
  IF Has(pairs, key)
    THEN [i \in DOMAIN pairs |-> IF pairs[i][1] = key THEN <<key, value>> ELSE pairs[i]]
    ELSE Append(pairs, <<key, value>>)

-----------------------------------------------------------------------------
(* TemplateRenderer *)

\* _get_key: whatever is not there is the empty text.  Keys named like a
\* method of Python's str or list, which it would find, are left out.
GetKey(cur, key) ==
  IF Is("dict", cur) /\ Has(cur.dict, key) THEN PairValue(cur.dict, key) ELSE Text(<<>>)

\* _resolve_part.  key[*] gives the list itself; what follows it in the path
\* is asked of the list and finds nothing.
ResolvePart(cur, part) ==
  IF Is("raised", cur) THEN Bad
  ELSE IF "all" \in DOMAIN part
    THEN LET value == GetKey(cur, part.all) IN IF Is("list", value) THEN value ELSE Bad
  ELSE IF "index" \in DOMAIN part
    THEN IF ~Is("list", cur) THEN Bad
         ELSE IF part.index < Len(cur.list) THEN cur.list[part.index + 1]
         ELSE Text(<<>>)
  ELSE GetKey(cur, part.key)

\* _eval; src maps the roots to dicts.
Eval(root, path, src) ==
  IF root \in DOMAIN src THEN FoldLeft(ResolvePart, src[root], path) ELSE Bad

\* str(), with None as the empty text; what a list or a dict looks like
\* inside another value is one atom.
Str(value) ==
  IF Is("text", value) THEN value.text
  ELSE IF Is("none", value) THEN <<>>
  ELSE <<"repr">>

Join(values) ==
  FlattenSeq([i \in DOMAIN values |->
    IF i = 1 THEN Str(values[i]) ELSE <<",">> \o Str(values[i])])

\* The value of a part; Bad when it raises.
PartValue(part, src) ==
  IF "lit" \in DOMAIN part THEN Text(part.lit)
  ELSE IF "unclosed" \in DOMAIN part THEN Bad
  ELSE Eval(part.root, part.path, src)

PartText(part, src) ==
  LET value == PartValue(part, src) IN
  IF Is("list", value) THEN Join(value.list) ELSE Str(value)

\* _render_str on what a file may give: a template, null, or something that
\* is not a string, in which it cannot look for "${".
Render(given, src) ==
  IF Is("none", given) THEN Text(<<>>)
  ELSE IF ~Is("parts", given) THEN Bad
  ELSE IF \E i \in DOMAIN given.parts : Is("raised", PartValue(given.parts[i], src)) THEN Bad
  ELSE Text(FlattenSeq([i \in DOMAIN given.parts |-> PartText(given.parts[i], src)]))

-----------------------------------------------------------------------------
(* FormComposer.compose and _dedupe_pairs_last_wins *)

Rendered(form, src) == [i \in DOMAIN form |-> <<form[i][1], Render(form[i][2], src)>>]

Merges(merge, vars) == merge # NoMerge /\ Has(vars, merge) /\ ~Is("none", PairValue(vars, merge))

\* Mutant: nothing is merged over what the step says itself.
Merged_Last(form, merge, src, vars) ==
  Rendered(form, src) \o
  IF Merges(merge, vars)
    THEN LET pairs == PairValue(vars, merge).dict IN
         [i \in DOMAIN pairs |-> <<pairs[i][1], Text(Str(pairs[i][2]))>>]
    ELSE <<>>

\* Merged fields first.
Merged(form, merge, src, vars) ==
  (IF Merges(merge, vars)
     THEN LET pairs == PairValue(vars, merge).dict IN
          [i \in DOMAIN pairs |-> <<pairs[i][1], Text(Str(pairs[i][2]))>>]
     ELSE <<>>)
  \o Rendered(form, src)

ComposeRaises(form, merge, src, vars) ==
  \/ \E i \in DOMAIN form : Is("raised", Render(form[i][2], src))
  \/ Merges(merge, vars) /\ ~Is("dict", PairValue(vars, merge))

\* Of the fields with one name only the last is sent, in its place.
IsLast(fields, i) == \A j \in (i + 1)..Len(fields) : fields[j][1] # fields[i][1]
LastWins(fields) == Filtered(fields, {i \in DOMAIN fields : IsLast(fields, i)})
=============================================================================
