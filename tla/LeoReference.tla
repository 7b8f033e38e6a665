----------------------------- MODULE LeoReference -----------------------------
(***************************************************************************)
(* An expression as Leo means it, and as it is written: what LeoExpr's     *)
(* Evaluate is compared with.  A term is a number, a name or               *)
(* [op, left, right].                                                      *)
(***************************************************************************)
EXTENDS LeoExpr

\* How tightly an operator binds.
Binds(op) == CASE op \in Comparisons -> 1 [] op \in Sums -> 2 [] op \in Products -> 3

\* The tokens of a term, with no parentheses but those that operators which
\* associate to the left need.
RECURSIVE Printed(_, _)
Printed(term, tight) ==
    LET part(x, least) ==
            IF "op" \in DOMAIN x /\ Binds(x.op) < least
            THEN <<OpenParen>> \o Printed(x, tight) \o <<CloseParen>>
            ELSE Printed(x, tight)
    IN  IF "op" \in DOMAIN term
        THEN part(term.left, Binds(term.op)) \o <<[op |-> term.op, tight |-> FALSE]>>
                 \o part(term.right, Binds(term.op) + 1)
        ELSE IF "literal" \in DOMAIN term /\ term.literal < 0
        THEN <<[op |-> "sub", tight |-> tight], [literal |-> -term.literal]>>
        ELSE <<term>>

RECURSIVE Leaves(_)
Leaves(term) == IF "op" \in DOMAIN term THEN Leaves(term.left) \cup Leaves(term.right) ELSE {term}

\* The value of a term among the integers.
RECURSIVE Meant(_, _)
Meant(term, env) ==
    IF "literal" \in DOMAIN term THEN term.literal
    ELSE IF "name" \in DOMAIN term THEN env[term.name]
    ELSE LET a == Meant(term.left, env)
             b == Meant(term.right, env)
         IN  CASE term.op \in Comparisons -> IF Holds(term.op, a, b) THEN 1 ELSE 0
               [] term.op \in Sums \cup {"mul"} -> Exact(term.op, a, b)
               [] b = 0 -> 0
               [] term.op = "div" -> Towards0(a, b)
               [] term.op = "rem" -> a - b * Towards0(a, b)

\* No division is written behind a product, and no remainder behind either.
RECURSIVE InSplitOrder(_)
InSplitOrder(term) ==
    "op" \in DOMAIN term =>
        /\ InSplitOrder(term.left) /\ InSplitOrder(term.right)
        /\ "op" \in DOMAIN term.left =>
               /\ term.op = "div" => term.left.op # "mul"
               /\ term.op = "rem" => term.left.op \notin {"mul", "div"}

\* No minus stands apart from the operator it follows.
SignsClear(e) ==
    \A k \in 2 .. Len(e) : (e[k] = [op |-> "sub", tight |-> FALSE]) =>
        ~IsOperator(e[k - 1])

=============================================================================
