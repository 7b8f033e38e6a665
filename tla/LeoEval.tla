------------------------------ MODULE LeoEval ------------------------------
(***************************************************************************)
(* The structured Leo evaluator of src/tracer.rs: execute_leo_function,    *)
(* execute_block and eval_expr as one small-step machine.                  *)
(*                                                                         *)
(* The Rust code is a recursive interpreter; its recursion is the variable *)
(* `stack`, a sequence of frames whose last element runs.  A finished call *)
(* leaves a CallTrace in `done`; SubCall.trace is an index into `done`     *)
(* where the code nests the trace by value.  Statement blocks are numbered *)
(* per function (a `for` names its body block), and an expression is the   *)
(* postfix sequence of the operations eval_expr performs, in the order it  *)
(* performs them, with relative jumps for the branches it may leave out.   *)
(* Text, types and the formatting of values are abstracted: a value is a   *)
(* member of one unsigned type 0..MaxInt, or Unknown.                      *)
(*                                                                         *)
(* `calls` and `log` are history variables: the calls numbered in the      *)
(* order they start, and what really happened in the order it happened.    *)
(***************************************************************************)
EXTENDS Integers, Sequences, SequencesExt

CONSTANTS
    Programs,   \* the programs under consideration
    FnName,     \* function names
    Name,       \* variable names
    Line,       \* source lines
    MaxInt,     \* the largest value of the one integer type
    Unknown     \* Value::Unknown

VARIABLES
    prog,    \* the merged LeoProgram
    stack,   \* the frames of execute_leo_function, innermost last
    done,    \* the CallTraces of finished calls
    calls,   \* history: how many calls have started
    log      \* history: enter, write, bind, assert, io and exit, as executed

evalVars == <<prog, stack, done, calls, log>>

----------------------------------------------------------------------------
(* Values *)

Value == (0 .. MaxInt) \cup {Unknown}

\* Value::as_int: whatever is not an integer counts as zero.
AsInt(v) == IF v = Unknown THEN 0 ELSE v

Truthy(v) == v # Unknown /\ v # 0

\* Mutant: the sum of a checked addition is kept as it is.
WrapDropped(n) == n

\* wrapping_add_in_type and its like: the value modulo 2^width.
Wrap(n) == n % (MaxInt + 1)

Checked == {"add", "sub", "mul"}

Comparison == {"eq", "neq", "lte", "gte", "lt", "gt"}

BinaryOp == Checked \cup {"div", "rem"} \cup Comparison

Mathematical(op, a, b) ==
    CASE op = "add" -> a + b
      [] op = "sub" -> a - b
      [] op = "mul" -> a * b

Compares(op, a, b) ==
    CASE op = "eq"  -> a = b
      [] op = "neq" -> a # b
      [] op = "lte" -> a <= b
      [] op = "gte" -> a >= b
      [] op = "lt"  -> a < b
      [] op = "gt"  -> a > b

\* A division by 0 gives 0; a truth value counts as 0 or 1.
Computed(op, a, b) ==
    CASE op \in Checked -> Wrap(Mathematical(op, a, b))
      [] op \in {"div", "rem"} /\ b = 0 -> 0
      [] op = "div" /\ b # 0 -> a \div b
      [] op = "rem" /\ b # 0 -> a % b
      [] op \in Comparison -> IF Compares(op, a, b) THEN 1 ELSE 0

Overflows(op, a, b) == op \in Checked /\ Mathematical(op, a, b) \notin 0 .. MaxInt

\* saturating_add and its like, with clamp.
Clamped(n) == IF n < 0 THEN 0 ELSE IF n > MaxInt THEN MaxInt ELSE n

IoTag == {"LeoFinalizeAbort", "LeoOverflow", "LeoMappingGetOrUse", "LeoMappingSet",
          "LeoMappingRemove", "LeoMappingContains", "LeoBhpHash", "LeoUnknownBuiltin"}

----------------------------------------------------------------------------
(* Expressions: the postfix operations of eval_expr *)

Builtin == {"get", "get_or_use", "set", "remove", "contains", "hash", "unknown"}

Op == [op : {"lit"}, value : Value]
      \cup [op : {"var"}, name : Name]
      \cup [op : BinaryOp]
      \cup [op : {"wrapped", "saturating"}, of : Checked]
      \cup [op : {"other_method"}]
      \cup [op : {"select"}]
      \cup [op : {"jump_unless", "jump"}, skip : Nat]
      \cup [op : {"builtin"}, method : Builtin, n : Nat]
      \cup [op : {"call"}, callee : FnName, n : Nat]
      \cup [op : {"qualified"}, callee : FnName, n : Nat, skip : Nat]
      \cup [op : {"unresolved"}, n : Nat]

Expr == Seq(Op)

Lit(v) == <<[op |-> "lit", value |-> v]>>

Var(x) == <<[op |-> "var", name |-> x]>>

Infix(op, a, b) == a \o b \o <<[op |-> op]>>

Plus(a, b) == Infix("add", a, b)

\* receiver.add_wrapped(arg): the argument is evaluated before the receiver.
Wrapped(op, receiver, arg) == arg \o receiver \o <<[op |-> "wrapped", of |-> op]>>

Saturated(op, receiver, arg) == arg \o receiver \o <<[op |-> "saturating", of |-> op]>>

OtherMethod(receiver, arg) == arg \o receiver \o <<[op |-> "other_method"]>>

\* cond ? a : b evaluates all three operands and then selects.
Ternary(c, a, b) == c \o a \o b \o <<[op |-> "select"]>>

\* if cond { a } else { b } evaluates only the branch it takes.
IfElse(c, a, b) ==
    c \o <<[op |-> "jump_unless", skip |-> Len(a) + 1]>>
      \o a \o <<[op |-> "jump", skip |-> Len(b)]>> \o b

\* Family::method(args)
Method(m, args) ==
    FlattenSeq(args) \o <<[op |-> "builtin", method |-> m, n |-> Len(args)]>>

\* name(args)
Call(f, args) ==
    FlattenSeq(args) \o <<[op |-> "call", callee |-> f, n |-> Len(args)]>>

\* Program.aleo/name(args).  try_eval_qualified_call evaluates the arguments
\* before it looks the callee up; when it is not in the table the expression
\* falls through to the division arm, which evaluates name(args) again as an
\* unknown local call and divides by its as_int() of 0.
QualifiedCall(f, args) ==
    LET again == FlattenSeq(args) \o <<[op |-> "unresolved", n |-> Len(args)]>>
    IN  FlattenSeq(args)
        \o <<[op |-> "qualified", callee |-> f, n |-> Len(args), skip |-> Len(again)]>>
        \o again

----------------------------------------------------------------------------
(* Statements, functions, programs *)

Stmt == [kind : {"let"}, name : Name, mutable : BOOLEAN, expr : Expr, line : Line]
        \cup [kind : {"assign"}, name : Name, expr : Expr]
        \cup [kind : {"return", "expr"}, expr : Expr]
        \cup [kind : {"assert"}]
        \cup [kind : {"for"}, var : Name, lo : Nat, hi : Nat, body : Nat]

\* blocks[1] is the body; a `for` names the block of its own body.
Fn == [transition : BOOLEAN, params : Seq(Name), blocks : Seq(Seq(Stmt))]

\* decls is LeoProgram.funcs; known is the key set of LeoProgram.by_name.
Program == [decls : Seq(FnName), known : SUBSET FnName, fns : [FnName -> Fn]]

\* The block a statement names is there (the code nests it in the statement).
BlocksExist(p) ==
    \A f \in FnName :
        LET blocks == p.fns[f].blocks
        IN  /\ Len(blocks) > 0
            /\ \A b \in 1 .. Len(blocks) : \A k \in 1 .. Len(blocks[b]) :
                   blocks[b][k].kind = "for" => blocks[b][k].body \in 1 .. Len(blocks)

\* The type holds a truth value.
ASSUME MaxIntAssumption == MaxInt \in Nat \ {0}

ASSUME UnknownAssumption == Unknown \notin Nat

ASSUME ProgramsAssumption == \A p \in Programs : p \in Program /\ BlocksExist(p)

----------------------------------------------------------------------------
(* Frames and traces *)

Binding == [name : Name, line : Line, mutable : BOOLEAN, value : Value]

SubCall == [callee : FnName, args : Seq(Value), after : Nat, trace : Nat]

CallTrace == [id : Nat, fn : FnName, bindings : Seq(Binding), subs : Seq(SubCall),
              asserts : Nat, ios : Seq(IoTag), rv : Value, aborted : BOOLEAN]

Cursor == [block : Nat \ {0}, pc : Nat \ {0}, i : Nat]

\* code is the stack of execute_block activations: the block, the index of its
\* next statement and, inside a `for`, the value of the loop counter.  ep is 0
\* between statements, otherwise the next operation of the expression;
\* after and ioBefore are taken when its evaluation begins.
Frame == [id : Nat, fn : FnName, args : Seq(Value), env : [Name -> Value],
          code : Seq(Cursor),
          ep : Nat, vals : Seq(Value), after : Nat, ioBefore : Nat,
          bindings : Seq(Binding), subs : Seq(SubCall), asserts : Nat,
          ios : Seq(IoTag), rv : Value, aborted : BOOLEAN]

\* A call with too few arguments leaves the remaining formals Unknown; surplus
\* arguments are dropped.
Formals(f, vs) ==
    [k \in 1 .. Len(prog.fns[f].params) |-> IF k <= Len(vs) THEN vs[k] ELSE Unknown]

\* The formals of a function have distinct names; a name absent from the env
\* evaluates to Unknown.
InitialEnv(f, args) ==
    [x \in Name |->
        LET at == {k \in 1 .. Len(args) : prog.fns[f].params[k] = x}
        IN  IF at = {} THEN Unknown ELSE args[CHOOSE k \in at : TRUE]]

NewFrame(id, f, args) ==
    [id |-> id, fn |-> f, args |-> args, env |-> InitialEnv(f, args),
     code |-> <<[block |-> 1, pc |-> 1, i |-> 0]>>,
     ep |-> 0, vals |-> <<>>, after |-> 0, ioBefore |-> 0,
     bindings |-> <<>>, subs |-> <<>>, asserts |-> 0, ios |-> <<>>,
     rv |-> Unknown, aborted |-> FALSE]

fr == stack[Len(stack)]
cursor == fr.code[Len(fr.code)]
block == prog.fns[fr.fn].blocks[cursor.block]
stmt == block[cursor.pc]

\* The `for` statement whose body is the innermost block.
loop ==
    LET outer == fr.code[Len(fr.code) - 1]
    IN  prog.fns[fr.fn].blocks[outer.block][outer.pc]

Running == stack # <<>> /\ ~fr.aborted
BetweenStmts == Running /\ fr.ep = 0
AtStmt(kinds) == BetweenStmts /\ cursor.pc <= Len(block) /\ stmt.kind \in kinds
AtBlockEnd == BetweenStmts /\ cursor.pc > Len(block)
AtOp(ops) == Running /\ fr.ep > 0 /\ fr.ep <= Len(stmt.expr) /\ stmt.expr[fr.ep].op \in ops
Evaluated(kind) == Running /\ fr.ep > 0 /\ fr.ep > Len(stmt.expr) /\ stmt.kind = kind

operation == stmt.expr[fr.ep]

\* The n topmost operands, and what is below them.
Operands(n) ==
    LET base == Len(fr.vals) - n
    IN  [k \in 1 .. n |-> IF base + k \in DOMAIN fr.vals THEN fr.vals[base + k] ELSE Unknown]
Below(n) == SubSeq(fr.vals, 1, Len(fr.vals) - n)

SetTop(f) == stack' = [stack EXCEPT ![Len(stack)] = f]

MoveTo(pc) == [fr.code EXCEPT ![Len(fr.code)].pc = pc]

Record(events) == log' = log \o events

----------------------------------------------------------------------------
(* execute_leo_function: entering and leaving a call *)

EvalInit ==
    /\ prog \in Programs
    /\ stack = <<>>
    /\ done = <<>>
    /\ calls = 0
    /\ log = <<>>

\* The recorder runs an entry point of its own accord.
StartEntry(f, args) ==
    /\ stack = <<>>
    /\ f \in prog.known
    /\ stack' = <<NewFrame(calls + 1, f, args)>>
    /\ calls' = calls + 1
    /\ Record(<<[ev |-> "enter", id |-> calls + 1, fn |-> f]>>)
    /\ UNCHANGED <<prog, done>>

\* The callee's frame is pushed and the caller, with the arguments popped,
\* waits at the operation after the call.
EnterCallee(f, n, skip) ==
    LET args == Formals(f, Operands(n))
        caller == [fr EXCEPT !.vals = Below(n), !.ep = @ + 1 + skip]
    IN  /\ stack' = Append([stack EXCEPT ![Len(stack)] = caller],
                           NewFrame(calls + 1, f, args))
        /\ calls' = calls + 1
        /\ Record(<<[ev |-> "enter", id |-> calls + 1, fn |-> f]>>)
        /\ UNCHANGED <<prog, done>>

\* Mutant: no sync, a binding keeps the value it was declared with.
SyncDropped(f) == f.bindings

\* The post-execution sync: every binding gets the final value of its name.
Synced(f) ==
    [k \in 1 .. Len(f.bindings) |->
        [f.bindings[k] EXCEPT !.value = f.env[f.bindings[k].name]]]

\* Mutant: an aborted call keeps the value an earlier return stored.
TraceOfKeepingValue(f) ==
    [id |-> f.id, fn |-> f.fn, bindings |-> Synced(f), subs |-> f.subs,
     asserts |-> f.asserts, ios |-> f.ios, rv |-> f.rv, aborted |-> f.aborted]

TraceOf(f) ==
    [id |-> f.id, fn |-> f.fn, bindings |-> Synced(f), subs |-> f.subs,
     asserts |-> f.asserts, ios |-> f.ios,
     rv |-> IF f.aborted THEN Unknown ELSE f.rv, aborted |-> f.aborted]

\* Mutant: the bindings are counted in the callee.
SubCallOfCallee(f, caller) ==
    [callee |-> f.fn, args |-> f.args, after |-> Len(f.bindings), trace |-> Len(done) + 1]

\* SubCall: after_binding is the length bindings had when the evaluation of the
\* caller's expression began.
SubCallOf(f, caller) ==
    [callee |-> f.fn, args |-> f.args, after |-> caller.after, trace |-> Len(done) + 1]

\* Mutant: an aborted call is not unwound.
CallEndsAtLastStmt == AtBlockEnd /\ Len(fr.code) = 1

\* The body has run to its end, or the call has aborted.
CallEnds == fr.aborted \/ (AtBlockEnd /\ Len(fr.code) = 1)

\* The caller receives the return value and the SubCall.
FinishCall ==
    LET trace == TraceOf(fr)
        caller == stack[Len(stack) - 1]
        resumed == [caller EXCEPT !.vals = Append(@, trace.rv),
                                  !.subs = Append(@, SubCallOf(fr, caller))]
    IN  /\ stack # <<>>
        /\ CallEnds
        /\ done' = Append(done, trace)
        /\ stack' = IF Len(stack) = 1 THEN <<>>
                    ELSE [Front(stack) EXCEPT ![Len(stack) - 1] = resumed]
        /\ Record(<<[ev |-> "exit", id |-> fr.id, rv |-> trace.rv]>>)
        /\ UNCHANGED <<prog, calls>>

----------------------------------------------------------------------------
(* eval_expr, one operation at a time *)

Advance(f, vals) == [f EXCEPT !.vals = vals, !.ep = @ + 1]

Quiet == UNCHANGED <<prog, done, calls>>

Io(tag) == [ev |-> "io", id |-> fr.id, tag |-> tag]

EvalOperand ==
    /\ AtOp({"lit", "var"})
    /\ SetTop(Advance(fr, Append(fr.vals, IF operation.op = "lit"
                                          THEN operation.value
                                          ELSE fr.env[operation.name])))
    /\ Quiet /\ UNCHANGED log

\* Arithmetic is checked: the wrapped result is the value, and an overflow is
\* an event.
EvalBinary ==
    LET vs == Operands(2)
        a == AsInt(vs[1])
        b == AsInt(vs[2])
        op == operation.op
        events == IF Overflows(op, a, b) THEN <<"LeoOverflow">> ELSE <<>>
    IN  /\ AtOp(BinaryOp)
        /\ SetTop([Advance(fr, Append(Below(2), Computed(op, a, b))) EXCEPT !.ios = @ \o events])
        /\ Record([k \in 1 .. Len(events) |-> Io(events[k])])
        /\ Quiet

\* The methods that wrap or saturate report nothing; another method, or a
\* receiver that is no number, gives Unknown.
MethodValue(o, receiver, arg) ==
    IF receiver = Unknown \/ o.op = "other_method" THEN Unknown
    ELSE IF o.op = "wrapped" THEN Wrap(Mathematical(o.of, receiver, AsInt(arg)))
    ELSE Clamped(Mathematical(o.of, receiver, AsInt(arg)))

EvalMethod ==
    LET vs == Operands(2)
    IN  /\ AtOp({"wrapped", "saturating", "other_method"})
        /\ SetTop(Advance(fr, Append(Below(2), MethodValue(operation, vs[2], vs[1]))))
        /\ Quiet /\ UNCHANGED log

EvalSelect ==
    LET vs == Operands(3)
    IN  /\ AtOp({"select"})
        /\ SetTop(Advance(fr, Append(Below(3), IF Truthy(vs[1]) THEN vs[2] ELSE vs[3])))
        /\ Quiet /\ UNCHANGED log

EvalBranch ==
    /\ AtOp({"jump_unless"})
    /\ LET skipped == IF Truthy(Operands(1)[1]) THEN 0 ELSE operation.skip
       IN  SetTop([fr EXCEPT !.vals = Below(1), !.ep = @ + 1 + skipped])
    /\ Quiet /\ UNCHANGED log

EvalJump ==
    /\ AtOp({"jump"})
    /\ SetTop([fr EXCEPT !.ep = @ + 1 + operation.skip])
    /\ Quiet /\ UNCHANGED log

BuiltinTag == [get |-> "LeoFinalizeAbort", get_or_use |-> "LeoMappingGetOrUse",
               set |-> "LeoMappingSet", remove |-> "LeoMappingRemove",
               contains |-> "LeoMappingContains", hash |-> "LeoBhpHash",
               unknown |-> "LeoUnknownBuiltin"]

\* Without a mapping store every get misses, contains is false (which counts as
\* 0) and get_or_use takes its default; a hash is the sum of its arguments
\* (here of at most two, and brought into the model's one integer type).
BuiltinValue(m, vs) ==
    LET int(k) == IF k <= Len(vs) THEN AsInt(vs[k]) ELSE 0
    IN  CASE m \in {"get", "set", "remove", "unknown"} -> Unknown
          [] m = "contains" -> 0
          [] m = "get_or_use" -> IF Len(vs) >= 3 THEN vs[3] ELSE Unknown
          [] m = "hash" -> Wrap(int(1) + int(2))

EvalBuiltin ==
    LET m == operation.method
        n == operation.n
    IN  /\ AtOp({"builtin"})
        /\ SetTop([Advance(fr, Append(Below(n), BuiltinValue(m, Operands(n))))
                      EXCEPT !.ios = Append(@, BuiltinTag[m])])
        /\ Record(<<Io(BuiltinTag[m])>>)
        /\ Quiet

EvalCall ==
    /\ AtOp({"call"})
    /\ operation.callee \in prog.known
    /\ EnterCallee(operation.callee, operation.n, 0)

\* An unknown local callee: the arguments have been evaluated, nothing is recorded.
EvalUnknownCall ==
    /\ AtOp({"call"})
    /\ operation.callee \notin prog.known
    /\ SetTop(Advance(fr, Append(Below(operation.n), Unknown)))
    /\ Quiet /\ UNCHANGED log

EvalQualifiedCall ==
    /\ AtOp({"qualified"})
    /\ operation.callee \in prog.known
    /\ EnterCallee(operation.callee, operation.n, operation.skip)

\* The lookup fails after the arguments were evaluated: their values are lost
\* and the expression is evaluated again by the arms that follow.
FallThroughQualifiedCall ==
    /\ AtOp({"qualified"})
    /\ operation.callee \notin prog.known
    /\ SetTop(Advance(fr, Below(operation.n)))
    /\ Quiet /\ UNCHANGED log

\* The division arm: both sides count as zero, and x / 0 is 0.
EvalUnresolved ==
    /\ AtOp({"unresolved"})
    /\ SetTop(Advance(fr, Append(Below(operation.n), 0)))
    /\ Quiet /\ UNCHANGED log

----------------------------------------------------------------------------
(* execute_block *)

BeginExpr ==
    /\ AtStmt({"let", "assign", "return", "expr"})
    /\ SetTop([fr EXCEPT !.ep = 1, !.vals = <<>>,
                         !.after = Len(fr.bindings), !.ioBefore = Len(fr.ios)])
    /\ Quiet /\ UNCHANGED log

\* Did the expression just evaluated surface a finalize abort?
AbortEmitted(f) == \E k \in (f.ioBefore + 1) .. Len(f.ios) : f.ios[k] = "LeoFinalizeAbort"

\* The empty expression is Unknown.
Result(f) == IF f.vals = <<>> THEN Unknown ELSE f.vals[Len(f.vals)]

\* The binding is kept even when its expression aborts the call.
CommitLet ==
    LET v == Result(fr)
        new == [name |-> stmt.name, line |-> stmt.line, mutable |-> stmt.mutable, value |-> v]
    IN  /\ Evaluated("let")
        /\ SetTop([fr EXCEPT !.env[stmt.name] = v, !.bindings = Append(@, new),
                             !.aborted = AbortEmitted(fr), !.ep = 0,
                             !.code = MoveTo(cursor.pc + 1)])
        /\ Record(<<[ev |-> "bind", id |-> fr.id, name |-> stmt.name,
                     line |-> stmt.line, value |-> v]>>)
        /\ Quiet

CommitAssign ==
    LET v == Result(fr)
    IN  /\ Evaluated("assign")
        /\ SetTop([fr EXCEPT !.env[stmt.name] = v, !.ep = 0, !.code = MoveTo(cursor.pc + 1)])
        /\ Record(<<[ev |-> "write", id |-> fr.id, name |-> stmt.name, value |-> v]>>)
        /\ Quiet

\* `return` leaves the innermost execute_block only: an enclosing loop goes on.
CommitReturn ==
    /\ Evaluated("return")
    /\ SetTop([fr EXCEPT !.rv = Result(fr), !.ep = 0, !.code = MoveTo(Len(block) + 1)])
    /\ Quiet /\ UNCHANGED log

CommitExprStmt ==
    /\ Evaluated("expr")
    /\ SetTop([fr EXCEPT !.aborted = AbortEmitted(fr), !.ep = 0,
                         !.code = MoveTo(cursor.pc + 1)])
    /\ Quiet /\ UNCHANGED log

\* An assert is recorded, not evaluated.
ExecAssert ==
    /\ AtStmt({"assert"})
    /\ SetTop([fr EXCEPT !.asserts = @ + 1, !.code = MoveTo(cursor.pc + 1)])
    /\ Record(<<[ev |-> "assert", id |-> fr.id]>>)
    /\ Quiet

\* The loop variable is an ordinary variable of the function's one env; the
\* model's integers bring the counter into 0..MaxInt.
Iterate(f, code, s, i) == [f EXCEPT !.env[s.var] = Wrap(i), !.code = code]

LoopWrite(s, i) == [ev |-> "write", id |-> fr.id, name |-> s.var, value |-> Wrap(i)]

EnterFor ==
    /\ AtStmt({"for"})
    /\ stmt.lo < stmt.hi
    /\ SetTop(Iterate(fr, Append(fr.code, [block |-> stmt.body, pc |-> 1, i |-> stmt.lo]),
                      stmt, stmt.lo))
    /\ Record(<<LoopWrite(stmt, stmt.lo)>>)
    /\ Quiet

SkipFor ==
    /\ AtStmt({"for"})
    /\ stmt.lo >= stmt.hi
    /\ SetTop([fr EXCEPT !.code = MoveTo(cursor.pc + 1)])
    /\ Quiet /\ UNCHANGED log

NextIteration ==
    LET again == [block |-> cursor.block, pc |-> 1, i |-> cursor.i + 1]
    IN  /\ AtBlockEnd
        /\ Len(fr.code) > 1
        /\ again.i < loop.hi
        /\ SetTop(Iterate(fr, [fr.code EXCEPT ![Len(fr.code)] = again], loop, again.i))
        /\ Record(<<LoopWrite(loop, again.i)>>)
        /\ Quiet

EndFor ==
    LET outer == Front(fr.code)
    IN  /\ AtBlockEnd
        /\ Len(fr.code) > 1
        /\ cursor.i + 1 >= loop.hi
        /\ SetTop([fr EXCEPT !.code = [outer EXCEPT ![Len(outer)].pc = @ + 1]])
        /\ Quiet /\ UNCHANGED log

----------------------------------------------------------------------------

EvalExpr ==
    \/ EvalOperand \/ EvalBinary \/ EvalMethod \/ EvalSelect \/ EvalBranch \/ EvalJump \/ EvalBuiltin
    \/ EvalCall \/ EvalUnknownCall
    \/ EvalQualifiedCall \/ FallThroughQualifiedCall \/ EvalUnresolved

ExecuteBlock ==
    \/ BeginExpr \/ CommitLet \/ CommitAssign \/ CommitReturn \/ CommitExprStmt
    \/ ExecAssert \/ EnterFor \/ SkipFor \/ NextIteration \/ EndFor

EvalStep == EvalExpr \/ ExecuteBlock \/ FinishCall

\* An entry point runs without arguments (main) or with zeros (a transition).
ZeroArgs(f) == [k \in 1 .. Len(prog.fns[f].params) |-> 0]

EvalNext ==
    \/ \E f \in FnName : StartEntry(f, <<>>) \/ StartEntry(f, ZeroArgs(f))
    \/ EvalStep

EvalSpec == EvalInit /\ [][EvalNext]_evalVars

----------------------------------------------------------------------------
(* Properties *)

\* The variables hold what the code's types allow.
EvalTypeOK ==
    /\ prog \in Program
    /\ stack \in Seq(Frame)
    /\ done \in Seq(CallTrace)
    /\ calls \in Nat

\* after_binding never decreases along a call's sub_calls and never points past
\* its bindings, in the calls under evaluation and in the finished ones: what
\* the == test of emit_call_trace's inner loop silently relies on.
Placed(subs, bindings) ==
    \A j \in 1 .. Len(subs) :
        /\ subs[j].after <= Len(bindings)
        /\ \A i \in 1 .. j : subs[i].after <= subs[j].after

SubCallsPlaced ==
    /\ \A k \in 1 .. Len(stack) : Placed(stack[k].subs, stack[k].bindings)
    /\ \A k \in 1 .. Len(done) : Placed(done[k].subs, done[k].bindings)

=============================================================================
