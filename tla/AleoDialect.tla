---------------------------- MODULE AleoDialect ----------------------------
(***************************************************************************)
(* The registers emit_aleo_dialect_trace (tracer.rs) makes up for a bare   *)
(* .aleo source: it executes nothing, but walks the lines of each function *)
(* with values of its own for the inputs.  TracePipeline emits them.       *)
(***************************************************************************)
EXTENDS AleoText, TypedArith

InputBase == 5

\* A function's lines run to the next function: a closure or a finalize block
\* in between is taken for a part of it.
DialectFunctions(lines) == Openings(lines, {"function"})

DialectLast(lines, i) == i + Len(BlockLines(lines, i, {"function"}))

\* The state of the walk: typed registers, the inputs declared, the values to
\* show, the last output declared, whether a division had no i64 result, and
\* the next line.
NoRegisters ==
    [regs |-> <<>>, inputs |-> <<>>, shown |-> <<>>, output |-> <<>>, panics |-> FALSE, next |-> 0]

Assigned(regs, r, v) == [x \in DOMAIN regs \cup {r} |-> IF x = r THEN v ELSE regs[x]]

\* An unset register counts 0.
OperandValue(regs, o) ==
    IF "literal" \in DOMAIN o THEN o.literal
    ELSE IF o.reg \in DOMAIN regs THEN regs[o.reg].value ELSE 0

\* The type of the left operand if it is a register, else u32.
OperandType(regs, o) ==
    IF "reg" \in DOMAIN o /\ o.reg \in DOMAIN regs THEN regs[o.reg].type ELSE "u32"

\* A division by 0 gives 0, and an operator that is not known its left operand.
DialectBinary(op, a, b, t) ==
    CASE op \in {"add", "sub", "mul"} -> WrappingInType(op, a, b, t)
      [] op \in {"div", "mod"} /\ b = 0 -> 0
      [] op = "div" -> Towards0(a, b)
      [] op = "mod" -> a - b * Towards0(a, b)
      [] OTHER -> a

Shows(w, k, r, v) ==
    [w EXCEPT !.regs = Assigned(@, r, v), !.shown = Append(@, [line |-> k, reg |-> r, val |-> v])]

InputValue(w) == InputBase + Len(w.inputs)

InputLine(w, l) ==
    [w EXCEPT !.regs = Assigned(@, l.reg, [value |-> InputValue(w), type |-> l.type]),
              !.inputs = Append(@, [reg |-> l.reg, type |-> l.type])]

OutputLine(w, k, l) == [w EXCEPT !.output = [line |-> k, reg |-> l.reg]]

CastLine(w, k, l) ==
    Shows(w, k, l.dest, [value |-> TruncateToType(OperandValue(w.regs, l.src), l.type), type |-> l.type])

BinaryLine(w, k, c) ==
    LET t == OperandType(w.regs, c.src1)
        a == OperandValue(w.regs, c.src1)
        b == OperandValue(w.regs, c.src2)
        panics == c.op \in {"div", "mod"} /\ a = -Half64 /\ b = -1
    IN  [Shows(w, k, c.dest, [value |-> DialectBinary(c.op, a, b, t), type |-> t])
            EXCEPT !.panics = @ \/ panics]

\* `OP A B into D`: a call with one argument and get.or_use have this shape
\* too, with an operand that is no value.
MistakenForBinary(c) == c.op = "get.or_use" \/ (c.op = "call" /\ Len(c.args) = 1 /\ c.dests # <<>>)

MistakenLine(w, k, c) ==
    Shows(w, k, IF c.op = "call" THEN c.dests[1] ELSE c.dest, [value |-> 0, type |-> "u32"])

CodeLine(w, k, c) ==
    IF "src1" \in DOMAIN c THEN BinaryLine(w, k, c)
    ELSE IF MistakenForBinary(c) THEN MistakenLine(w, k, c)
    ELSE w

Walked(w, lines, k) ==
    LET l == lines[k]
    IN  CASE l.kind = "input"  -> InputLine(w, l)
          [] l.kind = "output" -> OutputLine(w, k, l)
          [] l.kind = "cast"   -> CastLine(w, k, l)
          [] l.kind = "code"   -> CodeLine(w, k, l.instr)
          [] OTHER -> w

=============================================================================
