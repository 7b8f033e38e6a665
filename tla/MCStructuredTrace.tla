------------------------- MODULE MCStructuredTrace -------------------------
(***************************************************************************)
(* Small Leo programs for TLC.  Every program has up to three functions;   *)
(* main's body is `let mut x` and at most two statements of a menu that    *)
(* holds each statement kind and each form of call, and the bodies of f    *)
(* and of the loop vary too.  g calls nothing, f may call g, main calls    *)
(* both; lib is a function of an import that was not found.                *)
(***************************************************************************)
EXTENDS StructuredTrace

MCFnName == {"main", "t", "f", "g", "lib"}
MCName == {"p", "x", "y", "z", "w", "i", "j"}
MCLine == 1 .. 8

Let(x, e, line) ==
    [kind |-> "let", name |-> x, mutable |-> FALSE, expr |-> e, line |-> line]
LetMut(x, e, line) ==
    [kind |-> "let", name |-> x, mutable |-> TRUE, expr |-> e, line |-> line]
Assign(x, e) == [kind |-> "assign", name |-> x, expr |-> e]
Return(e) == [kind |-> "return", expr |-> e]
Do(e) == [kind |-> "expr", expr |-> e]
AssertStmt == [kind |-> "assert"]
For(x, lo, hi, body) == [kind |-> "for", var |-> x, lo |-> lo, hi |-> hi, body |-> body]

Get == Method("get", <<Var("x")>>)

\* The statements of the menu; v is the variable its `let`s declare.
MainStmts(v) ==
    { Let(v, Call("f", <<Call("g", <<Var("x")>>)>>), 2),
      Assign("x", Plus(Call("g", <<Var("x")>>), Call("f", <<>>))),
      Let(v, Ternary(Infix("rem", Var("x"), Lit(2)), Call("f", <<Lit(1)>>), Call("g", <<Lit(1)>>)), 3),
      Let(v, IfElse(Infix("gte", Var("x"), Var("y")), Call("g", <<Var("x"), Lit(1)>>), Lit(1)), 3),
      For("i", 0, 2, 2),
      For("i", 1, 1, 2),
      AssertStmt,
      Return(Call("f", <<Var("y")>>)),
      Do(Method("set", <<Var("x"), Get>>)),
      Let(v, Get, 4),
      Let(v, QualifiedCall("lib", <<Call("g", <<Lit(1)>>)>>), 5),
      Let(v, QualifiedCall("f", <<Var("x")>>), 5),
      Let(v, Call("lib", <<Call("g", <<Lit(2)>>)>>), 5) }

LoopBodies ==
    { <<LetMut("w", Call("g", <<Var("i")>>), 6), Assign("x", Infix("div", Var("w"), Var("x")))>>,
      <<Return(Var("i")), AssertStmt>>,
      <<For("j", 0, 2, 3), Let("w", Method("hash", <<Var("i"), Var("x")>>), 6)>> }

InnerBody ==
    <<Do(Saturated("add", Infix("sub", Method("get_or_use", <<Var("y"), Var("j"), Lit(1)>>), Lit(2)),
                   Method("contains", <<Var("y"), Var("j")>>)))>>

FBodies ==
    { <<Return(Plus(Var("x"), Lit(1)))>>,
      <<Let("y", Call("g", <<Var("x")>>), 7), Return(Call("g", <<Var("y")>>))>>,
      <<Let("y", Get, 7), AssertStmt, Return(Lit(1))>>,
      <<Assign("y", Get), Do(Method("remove", <<Method("unknown", <<>>)>>)),
        Return(Wrapped("mul", Call("g", <<>>), OtherMethod(Call("g", <<Lit(2)>>), Var("x"))))>> }

GBody == <<LetMut("y", Plus(Var("x"), Lit(1)), 8), AssertStmt, Return(Var("y"))>>

Function(transition, params, blocks) ==
    [transition |-> transition, params |-> params, blocks |-> blocks]

Functions(main, loops, f) ==
    [n \in MCFnName |->
        CASE n = "main" -> Function(TRUE, <<>>, <<main, loops, InnerBody>>)
          [] n = "t"    -> Function(TRUE, <<"p">>, <<<<>>>>)
          [] n = "f"    -> Function(TRUE, <<"x">>, <<f>>)
          [] n = "g"    -> Function(FALSE, <<"x">>, <<GBody>>)
          [] n = "lib"  -> Function(FALSE, <<>>, <<<<>>>>)]

\* A mutable x = e, and at most two statements of the menu.
Bodies(e, Stmts(_)) ==
    { <<LetMut("x", e, 1)>> \o rest :
        rest \in {<<>>} \cup {<<s>> : s \in Stmts("y")}
                 \cup {<<s, t>> : s \in Stmts("y"), t \in Stmts("z")} }

UsesLoop(body) == \E k \in 1 .. Len(body) : body[k].kind = "for"

\* The loop's body is varied only where a loop can run it.
WithMain(bodies) ==
    UNION { LET loops == IF UsesLoop(b) THEN LoopBodies ELSE {<<>>}
            IN  { [decls |-> <<"main", "f", "g">>, known |-> {"main", "f", "g"},
                   fns |-> Functions(b, l, f)] : l \in loops, f \in FBodies } : b \in bodies }

\* No main: a body of the menu in the transition t, next to f and g.
TransitionsOnly ==
    { [decls |-> ds, known |-> {"t", "f", "g"},
       fns |-> [Functions(<<>>, <<>>, f) EXCEPT !["t"].blocks = <<b, l, InnerBody>>]] :
        ds \in {<<"t", "g", "f">>, <<"f", "t", "g">>}, f \in FBodies,
        b \in Bodies(Var("p"), LAMBDA v : {Let(v, Call("f", <<Var("x")>>), 2), For("i", 0, 2, 2)}),
        l \in LoopBodies }

MCPrograms == WithMain(Bodies(Lit(2), MainStmts)) \cup TransitionsOnly

\* A legal Leo program that declares an immutable variable in a loop's body.
MCLoopPrograms ==
    { [decls |-> <<"main", "f", "g">>, known |-> {"main", "f", "g"},
       fns |-> Functions(<<LetMut("x", Lit(2), 1), For("i", 0, 2, 2)>>,
                         <<Let("w", Plus(Var("i"), Lit(1)), 6)>>, f)] : f \in FBodies }

=============================================================================
