---------------------------- MODULE PipelineValues ----------------------------
(***************************************************************************)
(* The values the structured evaluator records for the bindings of a       *)
(* source, against what the source means.                                  *)
(***************************************************************************)
EXTENDS TracePipeline, LeoReference

\* The statements of f that bind, if it has no others but its return, and each
\* binds arithmetic on numbers and earlier names.
LetsOf(f) == SelectSeq(f.body, LAMBDA st : st.kind = "let")

StraightLine(f) ==
    LET lets == LetsOf(f)
        named(k) == {text[lets[j].line].name : j \in 1 .. k - 1}
        closed(k) == \A a \in Leaves(text[lets[k].line].expr.term) :
                         "literal" \in DOMAIN a \/ a.name \in named(k)
    IN  /\ \A k \in 1 .. Len(f.body) : f.body[k].kind \in {"let", "return"}
        /\ \A k \in 1 .. Len(lets) : text[lets[k].line].expr.form = "arith" /\ closed(k)

\* What eval_expr makes of the bindings, and what they mean.
Evaluated(f) ==
    LET lets == LetsOf(f)
        bind(s, st) ==
            LET e == text[st.line].expr
                r == Evaluate(e.tokens, s.env, e.type)
            IN  [env |-> Insert(s.env, text[st.line].name, r.value),
                 meant |-> Insert(s.meant, text[st.line].name, Meant(e.term, s.meant)),
                 overflows |-> s.overflows \/ r.overflows, panics |-> s.panics \/ r.panics]
    IN  FoldLeft(bind, [env |-> <<>>, meant |-> <<>>, overflows |-> FALSE, panics |-> FALSE], lets)

ValuesAsMeant(readable(_)) ==
    stage = "emit" =>
        \A n \in 1 .. Len(leoProgram.funcs) :
            LET f == leoProgram.funcs[n]
                lets == LetsOf(f)
            IN  StraightLine(f) /\ (\A k \in 1 .. Len(lets) : readable(text[lets[k].line].expr)) =>
                    LET s == Evaluated(f)
                    IN  ~s.overflows /\ ~s.panics => s.env = s.meant

\* tracer.rs:4104-4110: unless a LeoOverflow says otherwise, the values recorded
\* are the mathematical ones, through bindings that use earlier ones.  A
\* product's operators must come in the order eval_expr tries them, and a minus
\* must be next to the operator it follows.
UnreportedValuesExact ==
    ValuesAsMeant(LAMBDA e : InSplitOrder(e.term) /\ SignsClear(e.tokens))

\* tracer.rs:5030-5031 says that the rightmost operator wins, which makes them
\* associate to the left.
OperatorsLeftAssociative == ValuesAsMeant(LAMBDA e : SignsClear(e.tokens))

=============================================================================
