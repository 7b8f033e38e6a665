---------------------------- MODULE FallbackAleo ----------------------------
(***************************************************************************)
(* What trace_program makes between the Leo source and the Aleo program:   *)
(* generate_aleo_from_leo_source and map_registers_to_variables            *)
(* (tracer.rs), generate_source_map and resolve (source_map.rs).           *)
(*                                                                         *)
(* An expression is what stands to the right of `=` or `return` on its     *)
(* line: arithmetic with its tokens, a call, anything else without an      *)
(* operator ("opaque"), or nothing yet ("none").  A call and an opaque     *)
(* expression may be spaced: text of several words.                        *)
(***************************************************************************)
EXTENDS LeoText, AleoText, LeoExpr

Operators == {"add", "sub", "mul", "div"}

----------------------------------------------------------------------------
(* generate_aleo_from_leo_source *)

\* Mutant: a binding's name stands for its own register already.
RegisterOfLate(bindings, k, name) ==
    LET js == {j \in 1 .. k : bindings[j].name = name}
    IN  IF js = {} THEN <<>> ELSE <<Max(js) - 1>>

\* var_to_reg before binding k: the register of the last binding of the name.
RegisterOf(bindings, k, name) ==
    LET js == {j \in 1 .. k - 1 : bindings[j].name = name}
    IN  IF js = {} THEN <<>> ELSE <<Max(js) - 1>>

\* expr_to_aleo_operand: a name that is no binding's and everything longer
\* than a number is written as it stands, and is then no operand.
CompiledOperand(bindings, k, e) ==
    LET leaf == LeafOf(e, 1, Len(e))
        r == RegisterOf(bindings, k, leaf.name)
    IN  CASE leaf.op = "lit" -> <<[literal |-> leaf.value]>>
          [] leaf.op = "var" /\ r # <<>> -> <<[reg |-> r[1]]>>
          [] OTHER -> <<>>

\* Whether the text of an operand has no spaces in it.
OneWord(e) == \A m \in 2 .. Len(e) : ~IsOperator(e[m])

\* An instruction has two operands of a word each; what has more words is not
\* known, and what has the words but no operands is left out.
Compiled(bindings, k, op, a, b) ==
    LET src1 == CompiledOperand(bindings, k, a)
        src2 == CompiledOperand(bindings, k, b)
    IN  IF ~OneWord(a) \/ ~OneWord(b) THEN [kind |-> "comment"]
        ELSE IF src1 = <<>> \/ src2 = <<>> THEN [kind |-> "garbled"]
        ELSE [kind |-> "code",
              instr |-> [op |-> op, src1 |-> src1[1], src2 |-> src2[1], dest |-> k - 1]]

\* find_top_level_operator: the last of the first operator there is.  A minus
\* behind another operator is none the less one.
FallbackSplit(e) ==
    LET at(op) == {k \in 2 .. Len(e) - 1 : IsOperator(e[k]) /\ e[k].op = op /\ OpenParens(e, 1, k) = 0}
        order == <<"add", "sub", "mul", "div">>
        found == {n \in 1 .. Len(order) : at(order[n]) # {}}
    IN  IF found = {} THEN 0 ELSE Max(at(order[Min(found)]))

\* compile_expr_to_aleo: without an operator 0 is added.
CompiledArith(bindings, k, e) ==
    LET at == FallbackSplit(e)
    IN  IF at = 0 THEN Compiled(bindings, k, "add", e, <<[literal |-> 0]>>)
        ELSE Compiled(bindings, k, e[at].op, SubSeq(e, 1, at - 1), SubSeq(e, at + 1, Len(e)))

\* A let that goes on below compiles to nothing; what is no arithmetic is added
\* to 0 as it stands, and with its spaces makes an instruction not known.
CompiledBinding(src, bindings, k) ==
    LET e == src[bindings[k].line].expr
    IN  CASE e.form = "none"  -> <<>>
          [] e.form = "arith" -> <<CompiledArith(bindings, k, e.tokens)>>
          [] OTHER -> <<[kind |-> IF e.spaced THEN "comment" ELSE "garbled"]>>

\* `return f();`, without arguments.
Callee(src, f) ==
    LET e == src[f.return_line].expr
    IN  IF e.form = "call" /\ ~e.arguments THEN <<e.callee>> ELSE <<>>

\* A function that has a return and no bindings is taken for a mere caller.
HasCall(fns, f) == f.return_line # 0 /\ f.bindings = <<>> /\ Len(fns) > 1

GeneratedCaller(src, f) ==
    LET callee == Callee(src, f)
    IN  <<[kind |-> "function", name |-> f.aleo]>> \o
        (IF callee = <<>> THEN <<>>
         ELSE <<[kind |-> "code", instr |-> [op |-> "call", callee |-> callee[1], args |-> <<>>,
                                             dests |-> <<0>>]],
                [kind |-> "output", reg |-> 0]>>)

GeneratedClosure(src, f) ==
    LET n == Len(f.bindings)
    IN  <<[kind |-> "closure", name |-> f.aleo]>>
        \o FlattenSeq([k \in 1 .. n |-> CompiledBinding(src, f.bindings, k)])
        \o (IF n = 0 THEN <<>> ELSE <<[kind |-> "output", reg |-> n - 1]>>)

\* fns: ParseLeoFunctions(src).
GenerateAleo(src, fns) ==
    LET text(f) == (IF HasCall(fns, f) THEN GeneratedCaller(src, f) ELSE GeneratedClosure(src, f))
                       \o <<[kind |-> "blank"]>>
    IN  <<[kind |-> "program"], [kind |-> "blank"]>>
        \o FlattenSeq([n \in 1 .. Len(fns) |-> text(fns[n])])

----------------------------------------------------------------------------
(* generate_source_map *)

\* Mutant: instructions are numbered from 1.
SourceEntriesShifted(src, fn) ==
    LET infos == ParseLeoFunctionInfo(src)
        found == {n \in 1 .. Len(infos) : infos[n].name = fn.name}
    IN  [k \in 1 .. Len(fn.instructions) |->
            IF found = {} \/ k + 1 > Len(infos[Min(found)].bindings) THEN 0
            ELSE infos[Min(found)].bindings[k + 1].line]

\* Instruction k of a function belongs to the k-th binding: the kinds of the
\* two are compared, but every pair counts as compatible.  0 is no entry.
SourceEntries(src, fn) ==
    LET infos == ParseLeoFunctionInfo(src)
        found == {n \in 1 .. Len(infos) : infos[n].name = fn.name}
    IN  [k \in 1 .. Len(fn.instructions) |->
            IF found = {} \/ k > Len(infos[Min(found)].bindings) THEN 0
            ELSE infos[Min(found)].bindings[k].line]

\* AleoSourceMap::resolve: of functions with one name the last is kept.
ResolveLine(src, aleo, name, k) ==
    LET fns == ParseAleoFunctionInfo(aleo)
        named == {n \in 1 .. Len(fns) : fns[n].name = name}
    IN  IF named = {} THEN 0
        ELSE LET entries == SourceEntries(src, fns[Max(named)])
             IN  IF k \in 1 .. Len(entries) THEN entries[k] ELSE 0

----------------------------------------------------------------------------
(* map_registers_to_variables *)

\* The first Aleo function of the name, and its result if it has one.
MatchingFunction(fns, name) ==
    FirstIn({n \in 1 .. Len(fns) : fns[n].name = name}, 0)

\* What function f adds: binding k is held by the k-th register after the
\* inputs.  A later binding of the same name replaces an earlier one.
MapFunction(values, f, fns, results) ==
    LET n == MatchingFunction(fns, f.name)
        regs == results[f.name].registers
        at(k) == Len(fns[n].inputs) + k - 1
        held == {k \in 1 .. Len(f.bindings) : at(k) \in DOMAIN regs}
        names == {f.bindings[k].name : k \in held}
        newest(x) == Max({k \in held : f.bindings[k].name = x})
    IN  IF n = 0 \/ f.name \notin DOMAIN results THEN values
        ELSE [x \in DOMAIN values \cup names |->
                 IF x \in names THEN regs[at(newest(x))] ELSE values[x]]

MapRegisters(leo, fns, results) ==
    LET upTo[n \in 0 .. Len(leo)] ==
            IF n = 0 THEN <<>> ELSE MapFunction(upTo[n - 1], leo[n], fns, results)
    IN  upTo[Len(leo)]

=============================================================================
