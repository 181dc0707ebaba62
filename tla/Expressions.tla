---------------------------- MODULE Expressions -----------------------------
(***************************************************************************)
(* Conditions of asserts and on_error rules: ExecutionDeps.eval_condition  *)
(* (src/application/services/execution_deps.py) on token sequences.        *)
(*                                                                         *)
(* A token is a number, a word, an operator or a reference ${name}.  White *)
(* space is dropped, and a text without an operator has none around it.    *)
(* A value is the token sequence its text reads as, so a page put in for   *)
(* ${last.text} brings its own < and > along.                              *)
(***************************************************************************)
EXTENDS Integers, FiniteSetsExt, SequencesExt

Num(n) == [num |-> n]
Word(w) == [word |-> w]
Op(o) == [op |-> o]
Ref(name) == [ref |-> name]

\* resolve: known references are replaced, unknown ones stay as they are.
\* env maps names to the texts of their values, which hold no references.
Resolve(expr, env) ==
  FlattenSeq([i \in DOMAIN expr |->
    IF "ref" \in DOMAIN expr[i] /\ expr[i].ref \in DOMAIN env
      THEN env[expr[i].ref]
      ELSE <<expr[i]>>])

\* Mutant: the operators are looked for shortest first, so that >= is cut at
\* its > and leaves a right side that is no number.
Operators_ShortFirst == <<">", "<", "==", ">=", "<=">>

\* In the order they are looked for.
Operators == <<"==", ">=", "<=", ">", "<">>

\* The operators whose characters contain those of op.
Containing(op) ==
  CASE op = ">" -> {">", ">="}
    [] op = "<" -> {"<", "<="}
    [] OTHER -> {op}

Cuts(text, op) == {i \in DOMAIN text : "op" \in DOMAIN text[i] /\ text[i].op \in Containing(op)}

\* What is right of the cut starts with the rest of a longer operator.
Rest(token, op) == IF token = Op(op) THEN <<>> ELSE <<Op("=")>>

IsNumber(side) == Len(side) = 1 /\ "num" \in DOMAIN side[1]

Compare(op, a, b) ==
  CASE op = ">=" -> a >= b
    [] op = "<=" -> a <= b
    [] op = ">" -> a > b
    [] op = "<" -> a < b

\* The comparison is made at the first operator found, and every other one
\* belongs to the sides; sides that are no numbers do not compare.  Without
\* an operator any text holds but the empty one, 0 and false.
Evaluate(text) ==
  LET found == {k \in DOMAIN Operators : Cuts(text, Operators[k]) # {}} IN
  IF found = {} THEN text \notin {<<>>, <<Num(0)>>, <<Word("false")>>}
  ELSE LET op == Operators[Min(found)]
           cut == Min(Cuts(text, op))
           left == SubSeq(text, 1, cut - 1)
           right == Rest(text[cut], op) \o SubSeq(text, cut + 1, Len(text))
       IN IF op = "==" THEN left = right
          ELSE IsNumber(left) /\ IsNumber(right) /\ Compare(op, left[1].num, right[1].num)
=============================================================================
