--------------------------- MODULE MCTracePipeline ---------------------------
(***************************************************************************)
(* Small sources for TLC: bindings that compute, fail and panic, main that *)
(* passes a call on, statements in loops, branches and over several lines, *)
(* libraries whose functions return each other's calls and that import     *)
(* other files, signatures over two lines and functions on one, records    *)
(* and structs, bare programs with casts, closures and finalize blocks,    *)
(* and compiled programs of the CLI.                                       *)
(***************************************************************************)
EXTENDS PipelineValues

MCFnName == {"main", "compute", "helper", "last", "absent"}
MCMapping == {"m"}
MCReg == Nat
MCPrePopulated == {}
MCSize == [t \in Narrow |-> IF t \in {"u32", "i32"} THEN 8 ELSE 4]

----------------------------------------------------------------------------
(* Lines of Leo *)

Ln(kind, o, c, semi) == [kind |-> kind, opens |-> o, closes |-> c, semi |-> semi]

Blank == Ln("blank", 0, 0, FALSE)
Note == Ln("comment", 0, 0, FALSE)
Open == Ln("brace", 1, 0, FALSE)
Close == Ln("brace", 0, 1, FALSE)
Program_ == Ln("program", 1, 0, FALSE) @@ [name |-> "p.aleo"]

Header(kind, name, params) ==
    [name |-> name, trimmed |-> name, params |-> params, colon |-> FALSE] @@ [kind |-> kind, semi |-> FALSE]

Fn(kind, name, params) == Header(kind, name, params) @@ [sig |-> "whole", opens |-> 1, closes |-> 0]
FnBelow(kind, name) == Header(kind, name, <<>>) @@ [sig |-> "whole", opens |-> 0, closes |-> 0]
FnOneLine(kind, name) == Header(kind, name, <<>>) @@ [sig |-> "whole", opens |-> 1, closes |-> 1]
FnWrapped(kind, name, params) ==
    <<Header(kind, name, <<"p">>) @@ [sig |-> "open", opens |-> 0, closes |-> 0],
      Ln("params", 0, 0, FALSE) @@ [sig |-> "more", params |-> <<"q">>],
      Ln("params", 1, 0, FALSE) @@ [sig |-> "close", params |-> params]>>

Num(n) == [literal |-> n]
Var_(x) == [name |-> x]
Arith(term, type, tight) ==
    [form |-> "arith", term |-> term, tokens |-> Printed(term, tight), type |-> type]
Term(op, a, b) == [op |-> op, left |-> a, right |-> b]
Atom(a) == Arith(a, "i64", FALSE)
Bin(op, a, b) == Arith(Term(op, a, b), "i64", FALSE)
Call_(f, arguments, spaced) == [form |-> "call", callee |-> f, arguments |-> arguments, spaced |-> spaced]
CallTo(f) == Call_(f, FALSE, FALSE)
CallWith(f) == Call_(f, TRUE, FALSE)
CallSpaced(f) == Call_(f, TRUE, TRUE)
Opaque == [form |-> "opaque", spaced |-> FALSE]
Words == [form |-> "opaque", spaced |-> TRUE]
Later == [form |-> "none"]

Let(x, e) == Ln("let", 0, 0, TRUE) @@ [name |-> x, typed |-> TRUE, expr |-> e]
LetUntyped(x, e) == Ln("let", 0, 0, TRUE) @@ [name |-> x, typed |-> FALSE, expr |-> e]
LetNoted(x) == Ln("let", 0, 0, FALSE) @@ [name |-> x, typed |-> TRUE, expr |-> Words]
LetOpening(x, e) == Ln("let", 1, 0, FALSE) @@ [name |-> x, typed |-> TRUE, expr |-> e]
LetBreak(x) == Ln("let", 0, 0, FALSE) @@ [name |-> x, typed |-> TRUE, expr |-> Later]
Ret(e) == Ln("return", 0, 0, TRUE) @@ [expr |-> e]
Assign == Ln("assign", 0, 0, TRUE)
Assert_ == Ln("assert", 0, 0, TRUE)
Expr_ == Ln("expr", 0, 0, TRUE)
Text_(semi) == Ln("text", 0, 0, semi)
CloseText == Ln("text", 0, 1, TRUE)
For == Ln("for", 1, 0, FALSE)
ForBelow == Ln("for", 0, 0, FALSE)
If == Ln("if", 1, 0, FALSE)
ElseBetween == Ln("else", 1, 1, FALSE)
Else == Ln("else", 1, 0, FALSE)

Source(leo) == [leo |-> leo, imports |-> <<>>, bare |-> <<>>, cli |-> <<>>]
Fun(kind, name, body) == <<Fn(kind, name, <<>>)>> \o body \o <<Close>>
Wrap_(parts) == <<Program_>> \o parts \o <<Close>>

----------------------------------------------------------------------------
(* Bindings *)

Main(body) == Fun("transition", "main", body)

ABC(op1, op2, n) ==
    <<Let("a", Atom(Num(7))), Let("b", Bin(op1, Var_("a"), Num(n))), Let("c", Bin(op2, Var_("a"), Var_("b"))),
      Ret(Atom(Var_("c")))>>

Pass == Main(<<Ret(CallTo("compute"))>>)

Computations ==
    { Main(ABC(op1, op2, n)) : op1 \in Operators, op2 \in {"add", "div"}, n \in {0, 3} }
    \cup { Pass \o <<Blank>> \o Fun("function", "compute", ABC("sub", op, n)) :
               op \in {"mul", "div"}, n \in {2, 7} }
    \cup { Main(<<Let("a", Atom(Num(-8))), Let("b", Bin("sub", Num(0), Num(1))),
                  Let("c", Bin("div", Var_("a"), Var_("b"))), Ret(Atom(Var_("c")))>>),
           Main(<<Let("a", Atom(Num(1))), Let("a", Bin("add", Var_("a"), Num(2))),
                  Let("b", Bin("mul", Var_("a"), Var_("a"))), Ret(Atom(Var_("b")))>>),
           Main(<<Let("a", Opaque), Let("b", Bin("div", Num(6), Var_("a"))), Ret(Atom(Var_("b")))>>),
           Main(<<Let("a", Atom(Var_("param"))), LetBreak("b"), Text_(TRUE), Let("c", Atom(Var_("b"))),
                  LetUntyped("d", Atom(Num(1))), Ret(Opaque)>>),
           Main(<<Ret(CallWith("compute"))>>) \o Fun("function", "compute", ABC("add", "add", 1)),
           Main(<<Let("a", CallSpaced("compute")), Let("b", Bin("add", Var_("a"), Num(1))), Ret(Atom(Var_("b")))>>)
               \o Fun("function", "compute", ABC("add", "add", 1)),
           Main(<<Let("a", CallTo("compute")), Ret(Atom(Var_("a")))>>)
               \o Fun("function", "compute", ABC("add", "add", 1)) }

----------------------------------------------------------------------------
(* Longer expressions *)

Arithmetic == Sums \cup Products

Grouped(op1, op2, x, y, z) ==
    {Term(op1, Term(op2, x, y), z), Term(op1, x, Term(op2, y, z))}

Chain(op1, op2, op3) == Term(op1, Term(op2, Term(op3, Num(6), Num(2)), Var_("x")), Num(1))

\* x is 3.
UnsignedTerms ==
    UNION {Grouped(op1, op2, Num(7), Var_("x"), Num(2)) : op1, op2 \in Arithmetic}
    \cup UNION {Grouped(op1, op2, Num(1), Num(2), Var_("x")) : op1, op2 \in Arithmetic}
    \cup {Chain(op1, op2, op3) : op1, op2, op3 \in Arithmetic}
    \cup UNION {Grouped(c, op, Num(4), Var_("x"), Num(1)) : c \in {"eq", "lte", "gt"}, op \in Arithmetic}

SignedTerms ==
    UNION {Grouped(op, "mul", Num(1), Num(-2), Var_("x")) : op \in Arithmetic}
    \cup {Term(op, Var_("x"), Num(-2)) : op \in Arithmetic \cup {"lt"}}
    \cup {Term("sub", Term("mul", Num(-1), Var_("x")), Num(-3)),
          Term("div", Term("sub", Num(-3), Num(1)), Term("sub", Num(2), Var_("x")))}

Binding(e, type) == Main(<<Let("x", Arith(Num(3), type, FALSE)), Let("y", e), Let("x", Arith(Var_("y"), type, FALSE)), Ret(Opaque)>>)

Expressions ==
    { Binding(Arith(u, "u32", FALSE), "u32") : u \in UnsignedTerms }
    \cup { Binding(Arith(s, "i32", tight), "i32") : s \in SignedTerms, tight \in BOOLEAN }
    \cup { Binding(Arith(Term("div", Num(-8), Num(-1)), "i64", TRUE), "i64") }

----------------------------------------------------------------------------
(* Statements and layouts *)

Loops == <<For, Let("a", Opaque), For, Assign, Note, Close, Assert_, Close, Expr_, Ret(Opaque)>>

Branches == <<Let("x", Opaque), If, Assign, For, Assign, Close, ElseBetween, Let("y", Opaque), Ret(Opaque), Close,
              For, If, Assign, Close, Assign, Close, Ret(Opaque)>>

LetStruct(x) == <<LetOpening(x, Words), Text_(FALSE), Text_(FALSE), CloseText>>
LetIf(x) == <<LetOpening(x, Words), Text_(TRUE), ElseBetween, Text_(TRUE), CloseText>>
LetCall(x) == <<LetOpening(x, Opaque), Text_(FALSE), CloseText>>

ClosedLets == LetCall("x") \o <<For>> \o LetIf("y") \o <<Assign, Close, If>> \o LetCall("z") \o <<Close, Ret(Opaque)>>
LongLets == LetStruct("x") \o LetIf("y") \o <<LetBreak("z"), Text_(TRUE), Blank, Assign, Ret(Opaque)>>

ElseBelow == <<If, Assign, Close, Else, Assign, Close, Ret(Opaque)>>
BracesBelow == <<ForBelow, Open, Assign, Close, Ret(Opaque)>>
Noted == <<LetNoted("x"), Assign, Let("y", Opaque), LetNoted("z"), Ret(Opaque)>>

Struct_ == <<Ln("struct", 1, 0, FALSE) @@ [name |-> "S"], Ln("field", 0, 0, FALSE) @@ [name |-> "x"],
             Note, Ln("field", 0, 0, FALSE) @@ [name |-> "y"], Close>>
Record_ == <<Ln("record", 1, 0, FALSE) @@ [name |-> "R"], Ln("field", 0, 0, FALSE) @@ [name |-> "owner"],
             Ln("field", 0, 0, FALSE) @@ [name |-> "amount"], Close>>
RecordBelow == <<Ln("record", 0, 0, FALSE) @@ [name |-> "R"], Note, Open,
                 Ln("field", 0, 0, FALSE) @@ [name |-> "owner"], Close>>
RecordOneLine == <<Ln("record", 1, 1, FALSE) @@ [name |-> "R"]>>
Import_ == <<Ln("import", 0, 0, TRUE) @@ [name |-> "lib"]>>

Layouts ==
    { Main(b) : b \in {Loops, Branches, ClosedLets, LongLets, ElseBelow, BracesBelow, Noted} }
    \cup { <<FnBelow("transition", "main"), Open>> \o Loops \o <<Close>> \o Fun("function", "helper", Branches),
           FnWrapped("async transition", "main", <<"r">>) \o Branches \o <<Close, Blank>>
               \o Fun("async function", "last", Loops),
           <<FnOneLine("function", "helper"), FnOneLine("function", "last")>> \o Main(Loops),
           Struct_ \o Record_ \o Main(Loops), RecordBelow \o Main(LongLets), RecordOneLine \o Main(Loops),
           Record_ \o Struct_ \o Fun("transition", "helper", Loops) \o Fun("transition", "last", LongLets) }

----------------------------------------------------------------------------
(* Libraries *)

Lib(k) == Fun("function", "helper", <<Let("a", Atom(Num(1))), Ret(IF k = 1 THEN CallTo("last") ELSE CallWith("compute"))>>)
Libraries ==
    { Lib(k) \o <<Fn("function", "compute", <<"x", "y">>), For, Let("b", Opaque), Close, Ret(CallWith("last")), Close>>
         \o Fun(kind, "last", body) :
             k \in 1 .. 2, kind \in {"function", "async function"},
             body \in { <<Let("c", Atom(Num(2)))>>, <<Ret(Atom(Num(1)))>>, <<Expr_>>, <<Ret(CallTo("last"))>>, <<Ret(CallTo("absent"))>> } }
    \cup { Lib(1) \o Fun("function", "last", <<Ret(Opaque)>>) \o Fun("function", "last", <<Let("d", Opaque), Ret(Opaque)>>) }

Empty == { <<Note>>, Struct_ }

----------------------------------------------------------------------------
(* Bare programs, and what the CLI answers *)

Head_(kind, name) == [kind |-> kind, name |-> name]
ProgramLine == [kind |-> "program"]
BlankLine == [kind |-> "blank"]
In(r, t) == [kind |-> "input", reg |-> r, type |-> t]
Out(r, t) == [kind |-> "output", reg |-> r, type |-> t]
R(r) == [reg |-> r]
Code(i) == [kind |-> "code", instr |-> i]
Op(op, a, b, d) == Code([op |-> op, src1 |-> a, src2 |-> b, dest |-> d])
Cast(a, d, t) == [kind |-> "cast", src |-> a, dest |-> d, type |-> t]

BareBodies ==
    { <<In(0, "u32"), In(1, t), Op(op, R(1), R(0), 2), Op("mul", R(2), Num(3), 3), Cast(R(3), 4, "u8"),
        Op("sub", R(4), R(1), 5), Out(5, "u8")>> : op \in {"add", "sub", "div", "lt"}, t \in {"i8", "u16", "i64"} }
    \cup { <<In(0, "u32"), Op("mod", R(0), Num(0), 1), Op("add", R(1), R(7), 2), [kind |-> "comment"], Out(2, "u32")>>,
           <<In(0, "u16"), Op("add", R(0), Num(1), 1), Op("add", R(1), R(0), 1), Op("sub", R(1), R(0), 2), Out(1, "u16")>>,
           <<In(0, "i64"), Op("sub", Num(-8), Num(0), 1), Op("sub", Num(0), Num(1), 2), Op("div", R(1), R(2), 3)>>,
           <<In(0, "u32"), Code([op |-> "call", callee |-> "helper", args |-> <<R(0)>>, dests |-> <<1>>]),
             Code([op |-> "get.or_use", mapping |-> "m", key |-> 0, default |-> 1, dest |-> 2]), Out(2, "u32")>> }

Absorbed == <<BlankLine, Head_("finalize", "main"), In(0, "u32"), In(1, "u32"), Op("add", R(0), R(1), 2),
              Code([op |-> "set", mapping |-> "m", key |-> 0, value |-> 2])>>

BareFn(name, body) == <<Head_("function", name)>> \o body

Bare ==
    { <<ProgramLine, BlankLine>> \o BareFn("helper", <<In(0, "u8"), Op("add", R(0), R(0), 1), Out(1, "u8")>>)
        \o BareFn("main", b) : b \in BareBodies }
    \cup { <<ProgramLine>> \o BareFn("main", b) \o Absorbed :
              b \in { <<In(0, "u32"), Op("add", R(0), Num(1), 1), Out(1, "u32")>> } }
    \cup { BareFn("main", <<In(0, "u32"), Out(0, "u32")>>), <<ProgramLine, Head_("closure", "main")>> }

Answers ==
    { <<ProgramLine, BlankLine, Head_("function", "main"), In(0, "u32"), In(1, "u32"), Op("add", R(0), R(1), 2),
        Op("add", R(2), Num(5), 3), Cast(R(3), 5, "u8"), Op(op, R(3), R(2), 4), Out(4, "u32")>> : op \in {"sub", "div"} }

\* What the files a library imports declare: main, a transition, neither.
Imported == { Main(<<Ret(CallTo("helper"))>>), Fun("transition", "last", <<Ret(Opaque)>>),
              Fun("function", "compute", <<Ret(CallTo("main"))>>), Struct_ }

Importing(files) ==
    Source([k \in 1 .. Len(files) |-> Import_[1]] \o Wrap_(Lib(1) \o Fun("function", "last", <<Ret(Opaque)>>)))

MCSources ==
    { Source(Wrap_(p)) : p \in Computations \cup Expressions \cup Layouts \cup Libraries }
    \cup { Source(Import_ \o Wrap_(Struct_)), Source(<<Note>>) }
    \cup { [Importing(files) EXCEPT !.imports = files] :
               files \in { <<Wrap_(p)>> : p \in Imported } \cup { <<Struct_, Wrap_(p)>> : p \in Imported } }
    \cup { [Source(<<>>) EXCEPT !.bare = b] : b \in Bare }
    \cup { [Source(Wrap_(Main(ABC("add", "mul", 1)))) EXCEPT !.cli = a] : a \in Answers }

MCPrograms == { Recorded(ParseAleoProgram(a)) : a \in Answers }
              \cup { Recorded(ParseAleoProgram(GenerateAleo(TextOf(s), ParseLeoFunctions(TextOf(s))))) :
                         s \in {t \in MCSources : ParseLeoFunctions(TextOf(t)) # <<>>} }

----------------------------------------------------------------------------
(* Arithmetic *)

\* What TracePipelineProofs proves of every width, for the widths above.
ASSUME TypedArithmetic ==
    \A op \in {"add", "sub", "mul"}, t \in Types, a, b \in -Half64 .. Half64 - 1 :
        ReportsOverflow(op, a, b, t) /\ SaturatesInType(op, a, b, t)

=============================================================================
