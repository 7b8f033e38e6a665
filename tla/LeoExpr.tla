------------------------------ MODULE LeoExpr ------------------------------
(***************************************************************************)
(* How eval_expr (tracer.rs) reads arithmetic and comparisons: it has no   *)
(* grammar, but splits the text of an expression at an operator, tried in  *)
(* a fixed order, and evaluates both sides.  LeoEval takes the postfix     *)
(* operations as given; here they are made from the tokens.                *)
(*                                                                         *)
(* A token is a number, a name, a parenthesis or an operator; `tight` says *)
(* that an operator's character stands directly behind another operator's, *)
(* as the minus of `a *-1`.  The operands of an expression are of one      *)
(* type.                                                                   *)
(***************************************************************************)
EXTENDS TypedArith, Sequences, SequencesExt, FiniteSetsExt

Comparisons == {"eq", "neq", "lte", "gte", "lt", "gt"}

Sums == {"add", "sub"}

Products == {"mul", "div", "rem"}

OpenParen == [paren |-> "("]

CloseParen == [paren |-> ")"]

IsOperator(tk) == "op" \in DOMAIN tk

\* The parentheses that tokens i .. k leave open.
OpenParens(e, i, k) ==
    Cardinality({m \in i .. k : e[m] = OpenParen}) - Cardinality({m \in i .. k : e[m] = CloseParen})

----------------------------------------------------------------------------
(* The operator to split at *)

\* The tokens `op` of span i .. j that are no part of a smaller expression.  A
\* minus at the beginning or behind another operator is taken for a sign.
TopLevel(e, i, j, op) ==
    {k \in i + 1 .. j : /\ IsOperator(e[k]) /\ e[k].op = op /\ ~e[k].tight
                        /\ OpenParens(e, i, k) = 0}

SplitOrder == <<"eq", "neq", "lte", "gte", "lt", "gt", "add", "sub", "mul", "div", "rem">>

\* Mutant: the scan stops at the first operator it meets.
Leftmost(ks) == Min(ks)

Rightmost(ks) == Max(ks)

\* Where `op` splits the span: a comparison at its first occurrence, an
\* arithmetic operator at its last, unless nothing follows it.  0 is nowhere.
SplitsAt(e, i, j, op) ==
    LET ks == TopLevel(e, i, j, op)
    IN  IF ks = {} THEN 0
        ELSE IF op \in Comparisons THEN Min(ks)
        ELSE IF Rightmost(ks) < j THEN Rightmost(ks) ELSE 0

Split(e, i, j) ==
    LET found == {n \in 1 .. Len(SplitOrder) : SplitsAt(e, i, j, SplitOrder[n]) # 0}
    IN  IF found = {} THEN 0 ELSE SplitsAt(e, i, j, SplitOrder[Min(found)])

\* matched_outer_parens
Enclosed(e, i, j) ==
    /\ i < j /\ e[i] = OpenParen /\ e[j] = CloseParen
    /\ \A k \in i .. j - 1 : OpenParens(e, i, k) > 0

\* What an i64 holds.
Payload == -Half64 .. Half64 - 1

\* A number that has an i64 value, with its sign, or a name; other text is
\* Unknown, as a name is that has a sign.
LeafOf(e, i, j) ==
    LET number(n) == IF n \in Payload THEN [op |-> "lit", value |-> n] ELSE [op |-> "unknown"]
        negated == j = i + 1 /\ IsOperator(e[i]) /\ e[i].op = "sub"
    IN  IF i = j /\ "literal" \in DOMAIN e[i] THEN number(e[i].literal)
        ELSE IF i = j /\ "name" \in DOMAIN e[i] THEN [op |-> "var", name |-> e[i].name]
        ELSE IF negated /\ "literal" \in DOMAIN e[j] THEN number(-e[j].literal)
        ELSE [op |-> "unknown"]

\* The operations of an expression in the order they are performed.
Postfix(e) ==
    LET span[i \in 1 .. Len(e) + 1, j \in 0 .. Len(e)] ==
            LET k == Split(e, i, j)
            IN  IF Enclosed(e, i, j) THEN span[i + 1, j - 1]
                ELSE IF k # 0 THEN span[i, k - 1] \o span[k + 1, j] \o <<[op |-> e[k].op]>>
                ELSE <<LeafOf(e, i, j)>>
    IN  span[1, Len(e)]

----------------------------------------------------------------------------
(* Their values *)

Holds(op, a, b) ==
    CASE op = "eq"  -> a = b
      [] op = "neq" -> a # b
      [] op = "lte" -> a <= b
      [] op = "gte" -> a >= b
      [] op = "lt"  -> a < b
      [] op = "gt"  -> a > b

\* A truth value counts as 0 or 1.  A quotient is not brought into the type.
Applied(op, a, b, t) ==
    CASE op \in Comparisons -> IF Holds(op, a, b) THEN 1 ELSE 0
      [] op \in Sums \cup {"mul"} -> WrappingInType(op, a, b, t)
      [] op \in {"div", "rem"} /\ b = 0 -> 0
      [] op = "div" -> Towards0(a, b)
      [] op = "rem" -> a - b * Towards0(a, b)

\* What is not known counts as 0.
Pushed(s, v) == [s EXCEPT !.vals = Append(@, v)]

Performed(s, o, env, t) ==
    CASE o.op = "lit" -> Pushed(s, o.value)
      [] o.op = "var" -> Pushed(s, IF o.name \in DOMAIN env THEN env[o.name] ELSE 0)
      [] o.op = "unknown" -> Pushed(s, 0)
      [] OTHER ->
            LET n == Len(s.vals)
                a == s.vals[n - 1]
                b == s.vals[n]
            IN  [vals |-> Append(SubSeq(s.vals, 1, n - 2), Applied(o.op, a, b, t)),
                 overflows |-> s.overflows \/ (o.op \in Sums \cup {"mul"} /\ DetectCheckedOverflow(o.op, a, b, t)),
                 panics |-> s.panics \/ (o.op \in {"div", "rem"} /\ a = -Half64 /\ b = -1)]

\* overflows: a LeoOverflow was emitted; panics: a quotient had no i64 value.
Evaluate(e, env, t) ==
    LET s == FoldLeft(LAMBDA acc, o : Performed(acc, o, env, t),
                      [vals |-> <<>>, overflows |-> FALSE, panics |-> FALSE], Postfix(e))
    IN  [value |-> s.vals[1], overflows |-> s.overflows, panics |-> s.panics]

=============================================================================
