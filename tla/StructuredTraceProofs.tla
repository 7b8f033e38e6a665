----------------------- MODULE StructuredTraceProofs -----------------------
(***************************************************************************)
(* What holds of the structured recording for every set of programs: the   *)
(* evaluator's types and the placement of the sub-calls it records; then   *)
(* the fact its emission rests on, that the walk over a CallTrace reaches  *)
(* every sub-call at its own binding.                                      *)
(***************************************************************************)
EXTENDS StructuredTrace, TLAPS

----------------------------------------------------------------------------
(* The inductive invariant of the evaluator *)

\* The frame is at a statement that has an expression.
InExprStmt(f) ==
    LET c == f.code[Len(f.code)]
        b == prog.fns[f.fn].blocks[c.block]
    IN  c.pc <= Len(b) /\ b[c.pc].kind \in {"let", "assign", "return", "expr"}

\* The cursor is at a `for`: where the activations below the innermost wait.
AtFor(fn, c) ==
    LET b == prog.fns[fn].blocks[c.block]
    IN  c.pc \in 1 .. Len(b) /\ b[c.pc].kind = "for"

\* The CallTraces that sub-calls nest are those of finished calls.
Nested(subs) == \A j \in 1 .. Len(subs) : subs[j].trace \in 1 .. Len(done)

\* Besides the placement itself: a frame has a block to run, its blocks exist,
\* and while it evaluates the expression of a statement no binding is added.
FrameShape(f) ==
    /\ f.code # <<>>
    /\ \A c \in 1 .. Len(f.code) : f.code[c].block \in 1 .. Len(prog.fns[f.fn].blocks)
    /\ \A c \in 1 .. Len(f.code) - 1 : AtFor(f.fn, f.code[c])
    /\ f.ep > 0 => InExprStmt(f) /\ f.after = Len(f.bindings)
    /\ Placed(f.subs, f.bindings)

FrameOK(f) == FrameShape(f) /\ Nested(f.subs)

EvalInv ==
    /\ EvalTypeOK
    /\ BlocksExist(prog)
    /\ \A k \in 1 .. Len(stack) : FrameOK(stack[k])
    /\ \A k \in 1 .. Len(stack) - 1 : stack[k].ep > 0
    /\ \A k \in 1 .. Len(done) : Placed(done[k].subs, done[k].bindings) /\ Nested(done[k].subs)

----------------------------------------------------------------------------
(* The running frame *)

\* The frame that runs is typed and well formed.
LEMMA TopFrame ==
    ASSUME EvalInv, stack # <<>>
    PROVE  /\ fr \in Frame
           /\ FrameOK(fr)
           /\ Len(stack) \in Nat \ {0}
           /\ Len(fr.code) \in Nat \ {0}
           /\ cursor \in Cursor
           /\ prog.fns[fr.fn] \in Fn
           /\ block \in Seq(Stmt)
  <1>1. stack \in Seq(Frame) /\ Len(stack) \in Nat \ {0}
    BY DEF EvalInv, EvalTypeOK
  <1>2. fr \in Frame
    BY <1>1 DEF fr
  <1>3. FrameOK(fr)
    BY <1>1 DEF EvalInv, fr
  <1>4. fr.code \in Seq(Cursor)
    BY <1>2 DEF Frame
  <1>5. Len(fr.code) \in Nat \ {0} /\ cursor \in Cursor
    BY <1>3, <1>4 DEF FrameOK, FrameShape, cursor
  <1>6. prog.fns[fr.fn] \in Fn
    BY <1>2 DEF EvalInv, EvalTypeOK, Program, Frame
  <1>7. cursor.block \in 1 .. Len(prog.fns[fr.fn].blocks)
    BY <1>3, <1>5 DEF FrameOK, FrameShape, cursor
  <1>8. block \in Seq(Stmt)
    BY <1>6, <1>7 DEF block, Fn
  <1> QED BY <1>1, <1>2, <1>3, <1>5, <1>6, <1>8

\* What most steps do: the running frame is replaced by a well-formed one.
TopReplaced == \E f \in Frame : FrameOK(f) /\ SetTop(f)

LEMMA ReplaceTop ==
    ASSUME EvalInv, stack # <<>>, TopReplaced, UNCHANGED <<prog, done, calls>>
    PROVE  EvalInv'
  <1>1. stack \in Seq(Frame) /\ Len(stack) \in Nat \ {0}
    BY DEF EvalInv, EvalTypeOK
  <1>2. PICK f \in Frame : FrameOK(f) /\ stack' = [stack EXCEPT ![Len(stack)] = f]
    BY DEF TopReplaced, SetTop
  <1>3. stack' \in Seq(Frame) /\ Len(stack') = Len(stack)
    BY <1>1, <1>2
  <1>4. \A k \in 1 .. Len(stack) : stack'[k] = IF k = Len(stack) THEN f ELSE stack[k]
    BY <1>1, <1>2
  <1>5. EvalTypeOK' /\ BlocksExist(prog)'
    BY <1>3 DEF EvalInv, EvalTypeOK, BlocksExist
  <1>6. \A k \in 1 .. Len(stack') : FrameOK(stack'[k])
    BY <1>1, <1>2, <1>3, <1>4 DEF EvalInv
  <1>7. \A k \in 1 .. Len(stack') : FrameOK(stack[k])'
    BY <1>6 DEF FrameOK, FrameShape, InExprStmt, AtFor, Nested
  <1>8. \A k \in 1 .. Len(stack') - 1 : stack'[k].ep > 0
    <2> TAKE k \in 1 .. Len(stack') - 1
    <2>1. k \in 1 .. Len(stack) - 1
      BY <1>3
    <2>2. k \in 1 .. Len(stack) /\ k # Len(stack)
      BY <1>1, <2>1
    <2>3. stack'[k] = stack[k]
      BY <1>4, <2>2
    <2> QED BY <2>1, <2>3 DEF EvalInv
  <1>9. (\A k \in 1 .. Len(done) : Placed(done[k].subs, done[k].bindings) /\ Nested(done[k].subs))'
    BY DEF EvalInv, Placed, Nested
  <1> QED BY <1>5, <1>7, <1>8, <1>9 DEF EvalInv

\* A step inside an expression changes operands, position and io events only.
ExprAdvanced ==
    \E vs \in Seq(Value), ep \in Nat \ {0}, ios \in Seq(IoTag) :
        SetTop([fr EXCEPT !.vals = vs, !.ep = ep, !.ios = ios])

LEMMA ExprStep ==
    ASSUME EvalInv, stack # <<>>, fr.ep > 0, ExprAdvanced, UNCHANGED <<prog, done, calls>>
    PROVE  EvalInv'
  <1>1. PICK vs \in Seq(Value), ep \in Nat \ {0}, ios \in Seq(IoTag) :
            SetTop([fr EXCEPT !.vals = vs, !.ep = ep, !.ios = ios])
    BY DEF ExprAdvanced
  <1> DEFINE f == [fr EXCEPT !.vals = vs, !.ep = ep, !.ios = ios]
  <1>2. fr \in Frame /\ FrameOK(fr)
    BY TopFrame
  <1>3. f \in Frame
    BY <1>2 DEF Frame
  <1>4. /\ f.code = fr.code /\ f.fn = fr.fn /\ f.after = fr.after
        /\ f.bindings = fr.bindings /\ f.subs = fr.subs
    BY <1>2 DEF Frame
  <1>5. FrameOK(f)
    BY <1>2, <1>4 DEF FrameOK, FrameShape, InExprStmt, AtFor, Nested
  <1>6. TopReplaced
    BY <1>1, <1>3, <1>5 DEF TopReplaced
  <1> QED BY <1>6, ReplaceTop

\* The statement under evaluation has an expression; its operations are typed.
LEMMA OperationType ==
    ASSUME EvalInv, NEW ops, AtOp(ops)
    PROVE  stack # <<>> /\ fr.ep \in Nat \ {0} /\ operation \in Op /\ operation.op \in ops
  <1>1. stack # <<>> /\ fr.ep > 0 /\ fr.ep <= Len(stmt.expr) /\ operation.op \in ops
    BY DEF AtOp, Running, operation
  <1>2. fr \in Frame /\ FrameOK(fr) /\ block \in Seq(Stmt) /\ cursor \in Cursor
    BY <1>1, TopFrame
  <1>3. fr.ep \in Nat
    BY <1>2 DEF Frame
  <1>4. cursor.pc \in 1 .. Len(block) /\ stmt.kind \in {"let", "assign", "return", "expr"}
    <2>1. InExprStmt(fr)
      BY <1>1, <1>2 DEF FrameOK, FrameShape
    <2>2. cursor.pc <= Len(block) /\ stmt.kind \in {"let", "assign", "return", "expr"}
      BY <2>1 DEF InExprStmt, cursor, block, stmt
    <2>3. cursor.pc \in Nat \ {0} /\ Len(block) \in Nat
      BY <1>2 DEF Cursor
    <2> QED BY <2>2, <2>3
  <1>5. stmt \in Stmt
    BY <1>2, <1>4 DEF stmt
  <1>6. stmt.expr \in Expr
    BY <1>4, <1>5 DEF Stmt
  <1>7. operation \in Op
    BY <1>1, <1>3, <1>6 DEF operation, Expr
  <1> QED BY <1>1, <1>3, <1>7

LEMMA OperandsType ==
    ASSUME EvalInv, stack # <<>>, NEW n \in Nat
    PROVE  Operands(n) \in Seq(Value) /\ Len(Operands(n)) = n /\ Below(n) \in Seq(Value)
  <1>1. fr.vals \in Seq(Value) /\ Len(fr.vals) \in Nat
    BY TopFrame DEF Frame
  <1>2. \A k \in 1 .. n : Operands(n)[k] \in Value
    BY <1>1 DEF Operands, Value
  <1>3. Operands(n) \in [1 .. n -> Value]
    BY <1>2 DEF Operands
  <1>4. Below(n) \in Seq(Value)
    <2>1. CASE Len(fr.vals) >= n
      BY <1>1, <2>1 DEF Below
    <2>2. CASE Len(fr.vals) < n
      BY <1>1, <2>2 DEF Below
    <2> QED BY <1>1, <2>1, <2>2
  <1> QED BY <1>3, <1>4

LEMMA WrapType == \A n \in Int : Wrap(n) \in Value
  BY MaxIntAssumption DEF Wrap, Value

LEMMA AsIntType == \A v \in Value : AsInt(v) \in 0 .. MaxInt
  BY MaxIntAssumption DEF AsInt, Value

----------------------------------------------------------------------------
(* eval_expr keeps the invariant *)

LEMMA EvalOperandInv == ASSUME EvalInv, EvalOperand PROVE EvalInv'
  <1> DEFINE v == IF operation.op = "lit" THEN operation.value ELSE fr.env[operation.name]
  <1>1. /\ stack # <<>> /\ fr.ep \in Nat \ {0}
        /\ operation \in Op /\ operation.op \in {"lit", "var"}
    BY OperationType DEF EvalOperand
  <1>2. fr \in Frame
    BY <1>1, TopFrame
  <1>3. v \in Value
    BY <1>1, <1>2 DEF Op, BinaryOp, Checked, Comparison, Frame
  <1>4. Append(fr.vals, v) \in Seq(Value) /\ fr.ep + 1 \in Nat \ {0} /\ fr.ios \in Seq(IoTag)
    BY <1>1, <1>2, <1>3 DEF Frame
  <1>5. SetTop([fr EXCEPT !.vals = Append(fr.vals, v), !.ep = fr.ep + 1, !.ios = fr.ios])
    BY <1>2 DEF EvalOperand, SetTop, Advance, Frame
  <1>6. ExprAdvanced
    BY <1>4, <1>5 DEF ExprAdvanced
  <1> QED BY <1>1, <1>6, ExprStep DEF EvalOperand, Quiet

\* The operations that pop n operands, push a value and record io events.
LEMMA PushStep ==
    ASSUME EvalInv, stack # <<>>, fr.ep \in Nat \ {0}, UNCHANGED <<prog, done, calls>>,
           \E n \in Nat, v \in Value, ios \in Seq(IoTag) :
               SetTop([Advance(fr, Append(Below(n), v)) EXCEPT !.ios = ios])
    PROVE  EvalInv'
  <1>1. PICK n \in Nat, v \in Value, ios \in Seq(IoTag) :
            SetTop([Advance(fr, Append(Below(n), v)) EXCEPT !.ios = ios])
    OBVIOUS
  <1>2. fr \in Frame /\ Below(n) \in Seq(Value)
    BY TopFrame, OperandsType
  <1>3. Append(Below(n), v) \in Seq(Value) /\ fr.ep + 1 \in Nat \ {0}
    BY <1>2
  <1>4. SetTop([fr EXCEPT !.vals = Append(Below(n), v), !.ep = fr.ep + 1, !.ios = ios])
    BY <1>1, <1>2 DEF SetTop, Advance, Frame
  <1>5. ExprAdvanced
    BY <1>3, <1>4 DEF ExprAdvanced
  <1> QED BY <1>5, ExprStep

\* A quotient of natural numbers is at most the dividend, and a remainder too.
LEMMA QuotientBelow ==
    ASSUME NEW a \in Nat, NEW b \in Nat \ {0}
    PROVE  /\ a \div b \in Nat /\ a \div b <= a
           /\ a % b \in Nat /\ a % b <= a
  OBVIOUS

\* What a binary operation leaves is in the type.
LEMMA ComputedType ==
    ASSUME NEW op \in BinaryOp, NEW a \in 0 .. MaxInt, NEW b \in 0 .. MaxInt
    PROVE  Computed(op, a, b) \in Value
  <1>1. CASE op \in Checked
    <2>1. Mathematical(op, a, b) \in Int
      BY <1>1, MaxIntAssumption DEF Checked, Mathematical
    <2>2. op \notin {"div", "rem"} /\ op \notin Comparison
      BY <1>1 DEF Checked, Comparison
    <2>3. Computed(op, a, b) = Wrap(Mathematical(op, a, b))
      BY <1>1, <2>2 DEF Computed
    <2> QED
      BY <2>1, <2>3, WrapType
  <1>2. CASE op \in {"div", "rem"}
    <2>0. op \notin Checked /\ op \notin Comparison
      BY <1>2 DEF Checked, Comparison
    <2>1. CASE b = 0
      <3>1. Computed(op, a, b) = 0
        BY <1>2, <2>0, <2>1 DEF Computed
      <3> QED
        BY <3>1, MaxIntAssumption DEF Value
    <2>2. CASE b # 0
      <3>1. /\ a \div b \in Nat /\ a \div b <= a
            /\ a % b \in Nat /\ a % b <= a
        BY <2>2, QuotientBelow, MaxIntAssumption
      <3>2. Computed(op, a, b) \in {a \div b, a % b}
        <4>1. op = "div" => Computed(op, a, b) = a \div b
          BY <2>0, <2>2 DEF Computed
        <4>2. op = "rem" => Computed(op, a, b) = a % b
          BY <2>0, <2>2 DEF Computed
        <4> QED
          BY <1>2, <4>1, <4>2
      <3>3. \A n \in Nat : n <= a => n \in Value
        BY MaxIntAssumption DEF Value
      <3> QED
        BY <3>1, <3>2, <3>3
    <2> QED
      BY <2>1, <2>2
  <1>3. CASE op \in Comparison
    BY <1>3, MaxIntAssumption DEF Computed, Checked, Comparison, Value
  <1> QED
    BY <1>1, <1>2, <1>3 DEF BinaryOp

LEMMA EvalBinaryInv == ASSUME EvalInv, EvalBinary PROVE EvalInv'
  <1> DEFINE a == AsInt(Operands(2)[1])
             b == AsInt(Operands(2)[2])
             v == Computed(operation.op, a, b)
             events == IF Overflows(operation.op, a, b) THEN <<"LeoOverflow">> ELSE <<>>
  <1>1. stack # <<>> /\ fr.ep \in Nat \ {0} /\ operation.op \in BinaryOp
    BY OperationType DEF EvalBinary
  <1>2. fr \in Frame /\ Operands(2) \in Seq(Value) /\ Len(Operands(2)) = 2
    BY <1>1, TopFrame, OperandsType
  <1>3. v \in Value
    <2>1. Operands(2)[1] \in Value /\ Operands(2)[2] \in Value
      BY <1>2
    <2>2. a \in 0 .. MaxInt /\ b \in 0 .. MaxInt
      BY <2>1, AsIntType
    <2> QED BY <1>1, <2>2, ComputedType
  <1>4. fr.ios \o events \in Seq(IoTag)
    <2>1. fr.ios \in Seq(IoTag)
      BY <1>2 DEF Frame
    <2>2. events \in Seq(IoTag)
      <3>1. "LeoOverflow" \in IoTag
        BY DEF IoTag
      <3> QED BY <3>1
    <2> QED BY <2>1, <2>2
  <1>5. SetTop([Advance(fr, Append(Below(2), v)) EXCEPT !.ios = fr.ios \o events])
    BY <1>2 DEF EvalBinary, SetTop, Advance, Frame
  <1> QED BY <1>1, <1>3, <1>4, <1>5, PushStep DEF EvalBinary, Quiet

LEMMA EvalMethodInv == ASSUME EvalInv, EvalMethod PROVE EvalInv'
  <1> DEFINE arg == Operands(2)[1]
             receiver == Operands(2)[2]
             v == MethodValue(operation, receiver, arg)
             n == Mathematical(operation.of, receiver, AsInt(arg))
  <1>1. /\ stack # <<>> /\ fr.ep \in Nat \ {0}
        /\ operation \in Op /\ operation.op \in {"wrapped", "saturating", "other_method"}
    BY OperationType DEF EvalMethod
  <1>2. fr \in Frame /\ Operands(2) \in Seq(Value) /\ Len(Operands(2)) = 2
    BY <1>1, TopFrame, OperandsType
  <1>3. v \in Value
    <2>1. arg \in Value /\ receiver \in Value /\ AsInt(arg) \in 0 .. MaxInt
      BY <1>2, AsIntType
    <2>2. CASE receiver = Unknown \/ operation.op = "other_method"
      BY <2>2 DEF MethodValue, Value
    <2>3. CASE receiver # Unknown /\ operation.op # "other_method"
      <3>1. operation.of \in Checked /\ receiver \in 0 .. MaxInt
        BY <1>1, <2>1, <2>3 DEF Op, BinaryOp, Checked, Comparison, Value
      <3>2. n \in Int
        BY <2>1, <3>1, MaxIntAssumption DEF Checked, Mathematical
      <3>3. v \in {Wrap(n), Clamped(n)}
        BY <2>3 DEF MethodValue
      <3>4. Clamped(n) \in Value
        <4> HIDE DEF n
        <4> QED BY <3>2, MaxIntAssumption DEF Clamped, Value
      <3> QED
        BY <3>2, <3>3, <3>4, WrapType
    <2> QED BY <2>2, <2>3
  <1>4. fr.ios \in Seq(IoTag)
    BY <1>2 DEF Frame
  <1>5. SetTop([Advance(fr, Append(Below(2), v)) EXCEPT !.ios = fr.ios])
    BY <1>2 DEF EvalMethod, SetTop, Advance, Frame
  <1> QED BY <1>1, <1>3, <1>4, <1>5, PushStep DEF EvalMethod, Quiet

LEMMA EvalSelectInv == ASSUME EvalInv, EvalSelect PROVE EvalInv'
  <1> DEFINE vs == Operands(3)
             v == IF Truthy(vs[1]) THEN vs[2] ELSE vs[3]
  <1>1. stack # <<>> /\ fr.ep \in Nat \ {0}
    BY OperationType DEF EvalSelect
  <1>2. fr \in Frame /\ v \in Value
    <2>1. vs \in Seq(Value) /\ Len(vs) = 3
      BY <1>1, OperandsType
    <2>2. vs[1] \in Value /\ vs[2] \in Value /\ vs[3] \in Value
      BY <2>1
    <2> QED BY <1>1, <2>2, TopFrame
  <1>3. fr.ios \in Seq(IoTag)
    BY <1>2 DEF Frame
  <1>4. SetTop([Advance(fr, Append(Below(3), v)) EXCEPT !.ios = fr.ios])
    BY <1>2 DEF EvalSelect, SetTop, Advance, Frame
  <1> QED BY <1>1, <1>2, <1>3, <1>4, PushStep DEF EvalSelect, Quiet

LEMMA EvalBranchInv == ASSUME EvalInv, EvalBranch PROVE EvalInv'
  <1> DEFINE skipped == IF Truthy(Operands(1)[1]) THEN 0 ELSE operation.skip
  <1>1. /\ stack # <<>> /\ fr.ep \in Nat \ {0}
        /\ operation \in Op /\ operation.op \in {"jump_unless"}
    BY OperationType DEF EvalBranch
  <1>2. skipped \in Nat
    BY <1>1 DEF Op, BinaryOp, Checked, Comparison
  <1>3. fr \in Frame /\ Below(1) \in Seq(Value)
    BY <1>1, TopFrame, OperandsType
  <1>4. fr.ep + 1 + skipped \in Nat \ {0} /\ fr.ios \in Seq(IoTag)
    BY <1>1, <1>2, <1>3 DEF Frame
  <1>5. SetTop([fr EXCEPT !.vals = Below(1), !.ep = fr.ep + 1 + skipped, !.ios = fr.ios])
    BY <1>3 DEF EvalBranch, SetTop, Frame
  <1>6. ExprAdvanced
    BY <1>3, <1>4, <1>5 DEF ExprAdvanced
  <1> QED BY <1>1, <1>6, ExprStep DEF EvalBranch, Quiet

LEMMA EvalJumpInv == ASSUME EvalInv, EvalJump PROVE EvalInv'
  <1>1. /\ stack # <<>> /\ fr.ep \in Nat \ {0}
        /\ operation \in Op /\ operation.op \in {"jump"}
    BY OperationType DEF EvalJump
  <1>2. operation.skip \in Nat
    BY <1>1 DEF Op, BinaryOp, Checked, Comparison
  <1>3. fr \in Frame /\ fr.vals \in Seq(Value) /\ fr.ios \in Seq(IoTag)
    BY <1>1, TopFrame DEF Frame
  <1>4. fr.ep + 1 + operation.skip \in Nat \ {0}
    BY <1>1, <1>2
  <1>5. SetTop([fr EXCEPT !.vals = fr.vals, !.ep = fr.ep + 1 + operation.skip, !.ios = fr.ios])
    BY <1>3 DEF EvalJump, SetTop, Frame
  <1>6. ExprAdvanced
    BY <1>3, <1>4, <1>5 DEF ExprAdvanced
  <1> QED BY <1>1, <1>6, ExprStep DEF EvalJump, Quiet

LEMMA BuiltinValueType ==
    ASSUME EvalInv, stack # <<>>, NEW m \in Builtin, NEW n \in Nat
    PROVE  BuiltinValue(m, Operands(n)) \in Value
  <1> DEFINE vs == Operands(n)
  <1>1. vs \in Seq(Value) /\ Len(vs) = n
    BY OperandsType
  <1>2. CASE m \in {"get", "set", "remove", "unknown"}
    BY <1>2 DEF BuiltinValue, Value
  <1>2a. CASE m = "contains"
    BY <1>2a, MaxIntAssumption DEF BuiltinValue, Value
  <1>3. CASE m = "get_or_use"
    BY <1>1, <1>3 DEF BuiltinValue, Value
  <1>4. CASE m = "hash"
    <2> DEFINE int(k) == IF k <= Len(vs) THEN AsInt(vs[k]) ELSE 0
    <2>1. int(1) \in Nat /\ int(2) \in Nat
      BY <1>1, AsIntType
    <2>2. Wrap(int(1) + int(2)) \in Value
      BY <2>1, WrapType
    <2>3. BuiltinValue(m, vs) = Wrap(int(1) + int(2))
      BY <1>4 DEF BuiltinValue
    <2> QED BY <2>2, <2>3
  <1> QED BY <1>2, <1>2a, <1>3, <1>4 DEF Builtin

LEMMA EvalBuiltinInv == ASSUME EvalInv, EvalBuiltin PROVE EvalInv'
  <1> DEFINE m == operation.method
             n == operation.n
             v == BuiltinValue(m, Operands(n))
  <1>1. /\ stack # <<>> /\ fr.ep \in Nat \ {0}
        /\ operation \in Op /\ operation.op \in {"builtin"}
    BY OperationType DEF EvalBuiltin
  <1>2. m \in Builtin /\ n \in Nat
    BY <1>1 DEF Op, BinaryOp, Checked, Comparison
  <1>3. fr \in Frame /\ v \in Value
    BY <1>1, <1>2, TopFrame, BuiltinValueType
  <1>4. Append(fr.ios, BuiltinTag[m]) \in Seq(IoTag)
    BY <1>2, <1>3 DEF Frame, Builtin, BuiltinTag, IoTag
  <1>5. SetTop([Advance(fr, Append(Below(n), v)) EXCEPT !.ios = Append(fr.ios, BuiltinTag[m])])
    BY <1>3 DEF EvalBuiltin, SetTop, Advance, Frame
  <1> HIDE DEF v
  <1> QED BY <1>1, <1>2, <1>3, <1>4, <1>5, PushStep DEF EvalBuiltin, Quiet

LEMMA EvalUnknownCallInv == ASSUME EvalInv, EvalUnknownCall PROVE EvalInv'
  <1>1. /\ stack # <<>> /\ fr.ep \in Nat \ {0}
        /\ operation \in Op /\ operation.op \in {"call"}
    BY OperationType DEF EvalUnknownCall
  <1>2. operation.n \in Nat /\ Unknown \in Value
    BY <1>1 DEF Op, BinaryOp, Checked, Comparison, Value
  <1>3. fr \in Frame /\ fr.ios \in Seq(IoTag)
    BY <1>1, TopFrame DEF Frame
  <1>4. SetTop([Advance(fr, Append(Below(operation.n), Unknown)) EXCEPT !.ios = fr.ios])
    BY <1>3 DEF EvalUnknownCall, SetTop, Advance, Frame
  <1> QED BY <1>1, <1>2, <1>3, <1>4, PushStep DEF EvalUnknownCall, Quiet

LEMMA EvalUnresolvedInv == ASSUME EvalInv, EvalUnresolved PROVE EvalInv'
  <1>1. /\ stack # <<>> /\ fr.ep \in Nat \ {0}
        /\ operation \in Op /\ operation.op \in {"unresolved"}
    BY OperationType DEF EvalUnresolved
  <1>2. operation.n \in Nat /\ 0 \in Value
    BY <1>1, MaxIntAssumption DEF Op, BinaryOp, Checked, Comparison, Value
  <1>3. fr \in Frame /\ fr.ios \in Seq(IoTag)
    BY <1>1, TopFrame DEF Frame
  <1>4. SetTop([Advance(fr, Append(Below(operation.n), 0)) EXCEPT !.ios = fr.ios])
    BY <1>3 DEF EvalUnresolved, SetTop, Advance, Frame
  <1> QED BY <1>1, <1>2, <1>3, <1>4, PushStep DEF EvalUnresolved, Quiet

LEMMA FallThroughInv == ASSUME EvalInv, FallThroughQualifiedCall PROVE EvalInv'
  <1>1. /\ stack # <<>> /\ fr.ep \in Nat \ {0}
        /\ operation \in Op /\ operation.op \in {"qualified"}
    BY OperationType DEF FallThroughQualifiedCall
  <1>2. operation.n \in Nat
    BY <1>1 DEF Op, BinaryOp, Checked, Comparison
  <1>3. fr \in Frame /\ fr.ios \in Seq(IoTag) /\ Below(operation.n) \in Seq(Value)
    BY <1>1, <1>2, TopFrame, OperandsType DEF Frame
  <1>4. fr.ep + 1 \in Nat \ {0}
    BY <1>1
  <1>5. SetTop([fr EXCEPT !.vals = Below(operation.n), !.ep = fr.ep + 1, !.ios = fr.ios])
    BY <1>3 DEF FallThroughQualifiedCall, SetTop, Advance, Frame
  <1>6. ExprAdvanced
    BY <1>3, <1>4, <1>5 DEF ExprAdvanced
  <1> QED BY <1>1, <1>6, ExprStep DEF FallThroughQualifiedCall, Quiet

----------------------------------------------------------------------------
(* Calls keep the invariant *)

LEMMA NewFrameOK ==
    ASSUME EvalInv, NEW id \in Nat, NEW f \in FnName, NEW args \in Seq(Value)
    PROVE  NewFrame(id, f, args) \in Frame /\ FrameOK(NewFrame(id, f, args))
  <1> DEFINE new == NewFrame(id, f, args)
             root == [block |-> 1, pc |-> 1, i |-> 0]
  <1>1. InitialEnv(f, args) \in [Name -> Value]
    <2> SUFFICES ASSUME NEW x \in Name PROVE InitialEnv(f, args)[x] \in Value
      BY DEF InitialEnv
    <2> DEFINE at == {k \in 1 .. Len(args) : prog.fns[f].params[k] = x}
    <2>1. CASE at = {}
      BY <2>1 DEF InitialEnv, Value
    <2>2. CASE at # {}
      <3>1. (CHOOSE k \in at : TRUE) \in at
        BY <2>2
      <3>2. args[CHOOSE k \in at : TRUE] \in Value
        BY <3>1
      <3> QED BY <2>2, <3>2 DEF InitialEnv
    <2> QED BY <2>1, <2>2
  <1>2. <<root>> \in Seq(Cursor) /\ <<root>> # <<>> /\ Len(<<root>>) = 1
    BY DEF Cursor
  <1>3. Unknown \in Value
    BY DEF Value
  <1>4. new \in Frame
    BY <1>1, <1>2, <1>3 DEF NewFrame, Frame
  <1>5. Len(prog.fns[f].blocks) > 0 /\ Len(prog.fns[f].blocks) \in Nat
    BY DEF EvalInv, EvalTypeOK, BlocksExist, Program, Fn
  <1>6. /\ new.code = <<root>> /\ new.fn = f /\ new.ep = 0
        /\ new.subs = <<>> /\ new.bindings = <<>>
    BY DEF NewFrame
  <1>7. FrameOK(new)
    BY <1>2, <1>5, <1>6 DEF FrameOK, FrameShape, Placed, Nested
  <1> QED BY <1>4, <1>7

LEMMA FormalsType ==
    ASSUME EvalInv, NEW f \in FnName, NEW vs \in Seq(Value)
    PROVE  Formals(f, vs) \in Seq(Value)
  <1>1. Len(prog.fns[f].params) \in Nat
    BY DEF EvalInv, EvalTypeOK, Program, Fn
  <1>2. \A k \in 1 .. Len(prog.fns[f].params) : Formals(f, vs)[k] \in Value
    BY <1>1 DEF Formals, Value
  <1>3. Formals(f, vs) \in [1 .. Len(prog.fns[f].params) -> Value]
    BY <1>2 DEF Formals
  <1> QED BY <1>1, <1>3

LEMMA StartEntryInv ==
    ASSUME EvalInv, \E f \in FnName, args \in Seq(Value) : StartEntry(f, args)
    PROVE  EvalInv'
  <1>1. PICK f \in FnName, args \in Seq(Value) : StartEntry(f, args)
    OBVIOUS
  <1> DEFINE new == NewFrame(calls + 1, f, args)
  <1>2. calls + 1 \in Nat
    BY DEF EvalInv, EvalTypeOK
  <1>3. new \in Frame /\ FrameOK(new)
    BY <1>2, NewFrameOK
  <1>4. stack' = <<new>> /\ calls' = calls + 1 /\ UNCHANGED <<prog, done>>
    BY <1>1 DEF StartEntry
  <1> HIDE DEF new
  <1>4a. stack' \in Seq(Frame) /\ Len(stack') = 1 /\ stack'[1] = new
    BY <1>3, <1>4
  <1>5. EvalTypeOK' /\ BlocksExist(prog)'
    BY <1>2, <1>4, <1>4a DEF EvalInv, EvalTypeOK, BlocksExist
  <1>6. \A k \in 1 .. Len(stack') : FrameOK(stack[k])'
    <2>1. \A k \in 1 .. Len(stack') : FrameOK(stack'[k])
      BY <1>3, <1>4a
    <2>2. UNCHANGED <<prog, done>>
      BY <1>4
    <2> QED BY <2>1, <2>2 DEF FrameOK, FrameShape, InExprStmt, AtFor, Nested
  <1>7. \A k \in 1 .. Len(stack') - 1 : stack'[k].ep > 0
    BY <1>4a
  <1>8. (\A k \in 1 .. Len(done) : Placed(done[k].subs, done[k].bindings) /\ Nested(done[k].subs))'
    BY <1>4 DEF EvalInv, Placed, Nested
  <1> QED BY <1>5, <1>6, <1>7, <1>8 DEF EvalInv

LEMMA EnterCalleeInv ==
    ASSUME EvalInv, stack # <<>>, fr.ep > 0,
           \E f \in FnName, n \in Nat, skip \in Nat : EnterCallee(f, n, skip)
    PROVE  EvalInv'
  <1>1. PICK f \in FnName, n \in Nat, skip \in Nat : EnterCallee(f, n, skip)
    OBVIOUS
  <1> DEFINE args == Formals(f, Operands(n))
             caller == [fr EXCEPT !.vals = Below(n), !.ep = @ + 1 + skip]
             new == NewFrame(calls + 1, f, args)
  <1>2. stack \in Seq(Frame) /\ Len(stack) \in Nat \ {0} /\ calls + 1 \in Nat
    BY DEF EvalInv, EvalTypeOK
  <1>3. fr \in Frame /\ FrameOK(fr) /\ Below(n) \in Seq(Value) /\ Operands(n) \in Seq(Value)
    BY TopFrame, OperandsType
  <1>4. caller \in Frame /\ caller.ep > 0
    <2>1. fr.ep + 1 + skip \in Nat /\ fr.ep + 1 + skip > 0
      BY <1>3 DEF Frame
    <2>2. caller.ep = fr.ep + 1 + skip /\ caller \in Frame
      BY <1>3, <2>1 DEF Frame
    <2> QED BY <2>1, <2>2
  <1>5. FrameOK(caller)
    <2>1. /\ caller.code = fr.code /\ caller.fn = fr.fn /\ caller.after = fr.after
          /\ caller.bindings = fr.bindings /\ caller.subs = fr.subs
      BY <1>3 DEF Frame
    <2> QED BY <1>3, <2>1 DEF FrameOK, FrameShape, InExprStmt, AtFor, Nested
  <1>6. args \in Seq(Value)
    BY <1>3, FormalsType
  <1>7. new \in Frame /\ FrameOK(new)
    BY <1>2, <1>6, NewFrameOK
  <1>8. /\ stack' = Append([stack EXCEPT ![Len(stack)] = caller], new)
        /\ calls' = calls + 1 /\ UNCHANGED <<prog, done>>
    BY <1>1 DEF EnterCallee
  <1> HIDE DEF caller, new, args
  <1>9. /\ stack' \in Seq(Frame) /\ Len(stack') = Len(stack) + 1
        /\ \A k \in 1 .. Len(stack') : stack'[k] = IF k = Len(stack) + 1 THEN new
                                                   ELSE IF k = Len(stack) THEN caller
                                                   ELSE stack[k]
    BY <1>2, <1>4, <1>7, <1>8
  <1>10. EvalTypeOK' /\ BlocksExist(prog)'
    BY <1>2, <1>8, <1>9 DEF EvalInv, EvalTypeOK, BlocksExist
  <1>11. \A k \in 1 .. Len(stack') : FrameOK(stack[k])'
    <2>1. \A k \in 1 .. Len(stack') : FrameOK(stack'[k])
      <3> TAKE k \in 1 .. Len(stack')
      <3>1. k \in 1 .. Len(stack) \/ k = Len(stack) + 1
        BY <1>2, <1>9
      <3> QED BY <1>2, <1>5, <1>7, <1>9, <3>1 DEF EvalInv
    <2>2. UNCHANGED <<prog, done>>
      BY <1>8
    <2> QED BY <2>1, <2>2 DEF FrameOK, FrameShape, InExprStmt, AtFor, Nested
  <1>12. \A k \in 1 .. Len(stack') - 1 : stack'[k].ep > 0
    <2> TAKE k \in 1 .. Len(stack') - 1
    <2>1. k \in 1 .. Len(stack)
      BY <1>2, <1>9
    <2>2. CASE k = Len(stack)
      BY <1>2, <1>4, <1>9, <2>2
    <2>3. CASE k # Len(stack)
      <3>1. k \in 1 .. Len(stack) - 1 /\ stack'[k] = stack[k]
        BY <1>2, <1>9, <2>1, <2>3
      <3> QED BY <3>1 DEF EvalInv
    <2> QED BY <2>2, <2>3
  <1>13. (\A k \in 1 .. Len(done) : Placed(done[k].subs, done[k].bindings) /\ Nested(done[k].subs))'
    BY <1>8 DEF EvalInv, Placed, Nested
  <1> QED BY <1>10, <1>11, <1>12, <1>13 DEF EvalInv

LEMMA EvalCallInv == ASSUME EvalInv, EvalCall PROVE EvalInv'
  <1>1. /\ stack # <<>> /\ fr.ep \in Nat \ {0}
        /\ operation \in Op /\ operation.op \in {"call"}
    BY OperationType DEF EvalCall
  <1>2. operation.callee \in FnName /\ operation.n \in Nat /\ 0 \in Nat
    BY <1>1 DEF Op, BinaryOp, Checked, Comparison
  <1>3. EnterCallee(operation.callee, operation.n, 0)
    BY DEF EvalCall
  <1> QED BY <1>1, <1>2, <1>3, EnterCalleeInv

LEMMA EvalQualifiedCallInv == ASSUME EvalInv, EvalQualifiedCall PROVE EvalInv'
  <1>1. /\ stack # <<>> /\ fr.ep \in Nat \ {0}
        /\ operation \in Op /\ operation.op \in {"qualified"}
    BY OperationType DEF EvalQualifiedCall
  <1>2. operation.callee \in FnName /\ operation.n \in Nat /\ operation.skip \in Nat
    BY <1>1 DEF Op, BinaryOp, Checked, Comparison
  <1>3. EnterCallee(operation.callee, operation.n, operation.skip)
    BY DEF EvalQualifiedCall
  <1> QED BY <1>1, <1>2, <1>3, EnterCalleeInv

LEMMA TraceOfType ==
    ASSUME NEW f \in Frame
    PROVE  /\ TraceOf(f) \in CallTrace
           /\ TraceOf(f).subs = f.subs
           /\ Len(TraceOf(f).bindings) = Len(f.bindings)
  <1>1. f.bindings \in Seq(Binding) /\ Len(f.bindings) \in Nat /\ f.env \in [Name -> Value]
    BY DEF Frame
  <1>2. \A k \in 1 .. Len(f.bindings) : Synced(f)[k] \in Binding
    <2> TAKE k \in 1 .. Len(f.bindings)
    <2>1. f.bindings[k] \in Binding
      BY <1>1
    <2>2. f.env[f.bindings[k].name] \in Value
      BY <1>1, <2>1 DEF Binding
    <2>3. Synced(f)[k] = [f.bindings[k] EXCEPT !.value = f.env[f.bindings[k].name]]
      BY DEF Synced
    <2> QED BY <2>1, <2>2, <2>3 DEF Binding
  <1>3. Synced(f) \in Seq(Binding) /\ Len(Synced(f)) = Len(f.bindings)
    <2>1. Synced(f) \in [1 .. Len(f.bindings) -> Binding]
      BY <1>2 DEF Synced
    <2> QED BY <1>1, <2>1
  <1>4. (IF f.aborted THEN Unknown ELSE f.rv) \in Value
    BY DEF Frame, Value
  <1> QED BY <1>3, <1>4 DEF TraceOf, CallTrace, Frame

\* A sub-call recorded during the caller's expression stays where it is placed.
LEMMA SubCallPlaced ==
    ASSUME NEW caller \in Frame, FrameOK(caller), caller.ep > 0, NEW f \in Frame,
           done \in Seq(CallTrace)
    PROVE  /\ SubCallOf(f, caller) \in SubCall
           /\ Placed(Append(caller.subs, SubCallOf(f, caller)), caller.bindings)
           /\ \A j \in 1 .. Len(Append(caller.subs, SubCallOf(f, caller))) :
                  Append(caller.subs, SubCallOf(f, caller))[j].trace \in 1 .. Len(done) + 1
  <1> DEFINE sub == SubCallOf(f, caller)
             subs == caller.subs
  <1>1. sub \in SubCall /\ sub.after = caller.after /\ sub.trace = Len(done) + 1
    BY DEF SubCallOf, SubCall, Frame
  <1>2. subs \in Seq(SubCall) /\ caller.bindings \in Seq(Binding)
    BY DEF Frame
  <1>3. sub.after = Len(caller.bindings) /\ Placed(subs, caller.bindings)
    BY <1>1 DEF FrameOK, FrameShape
  <1> HIDE DEF sub, subs
  <1>4. /\ Len(Append(subs, sub)) = Len(subs) + 1
        /\ \A j \in 1 .. Len(subs) + 1 :
               Append(subs, sub)[j] = IF j = Len(subs) + 1 THEN sub ELSE subs[j]
    BY <1>1, <1>2
  <1>5. ASSUME NEW j \in 1 .. Len(subs) + 1
        PROVE  Append(subs, sub)[j].after <= Len(caller.bindings)
    <2>1. CASE j = Len(subs) + 1
      BY <1>2, <1>3, <1>4, <2>1
    <2>2. CASE j \in 1 .. Len(subs)
      BY <1>2, <1>3, <1>4, <2>2 DEF Placed
    <2> QED BY <1>2, <2>1, <2>2
  <1>6. ASSUME NEW j \in 1 .. Len(subs) + 1, NEW i \in 1 .. j
        PROVE  Append(subs, sub)[i].after <= Append(subs, sub)[j].after
    <2>1. CASE j = Len(subs) + 1
      <3>1. i \in 1 .. Len(subs) + 1
        BY <1>2
      <3> QED BY <1>3, <1>4, <1>5, <2>1, <3>1
    <2>2. CASE j \in 1 .. Len(subs)
      <3>1. i \in 1 .. Len(subs) /\ i # Len(subs) + 1 /\ j # Len(subs) + 1
        BY <1>2, <2>2
      <3> QED BY <1>3, <1>4, <2>2, <3>1 DEF Placed
    <2> QED BY <1>2, <2>1, <2>2
  <1>7. Placed(Append(subs, sub), caller.bindings)
    BY <1>2, <1>4, <1>5, <1>6 DEF Placed
  <1>8. \A j \in 1 .. Len(Append(subs, sub)) : Append(subs, sub)[j].trace \in 1 .. Len(done) + 1
    <2> TAKE j \in 1 .. Len(Append(subs, sub))
    <2>1. Len(done) \in Nat /\ Len(subs) \in Nat
      BY <1>2
    <2>2. CASE j = Len(subs) + 1
      BY <1>1, <1>4, <2>1, <2>2
    <2>3. CASE j # Len(subs) + 1
      <3>1. j \in 1 .. Len(subs) /\ Append(subs, sub)[j] = subs[j]
        BY <1>4, <2>1, <2>3
      <3>2. subs[j].trace \in 1 .. Len(done)
        BY <3>1 DEF FrameOK, FrameShape, Nested, subs
      <3> QED BY <2>1, <3>1, <3>2
    <2> QED BY <2>2, <2>3
  <1> QED BY <1>1, <1>7, <1>8 DEF sub, subs

LEMMA FinishCallInv == ASSUME EvalInv, FinishCall PROVE EvalInv'
  <1> DEFINE trace == TraceOf(fr)
             n == Len(stack)
             caller == stack[n - 1]
             resumed == [caller EXCEPT !.vals = Append(@, trace.rv),
                                       !.subs = Append(@, SubCallOf(fr, caller))]
  <1>1. stack # <<>> /\ done' = Append(done, trace) /\ UNCHANGED <<prog, calls>>
    BY DEF FinishCall
  <1>2. fr \in Frame /\ FrameOK(fr) /\ n \in Nat \ {0} /\ stack \in Seq(Frame)
    BY <1>1, TopFrame DEF EvalInv, EvalTypeOK
  <1>3. /\ trace \in CallTrace /\ trace.subs = fr.subs
        /\ Len(trace.bindings) = Len(fr.bindings)
    BY <1>2, TraceOfType
  <1>4. Placed(trace.subs, trace.bindings)
    BY <1>2, <1>3 DEF FrameOK, FrameShape, Placed
  <1>5. done \in Seq(CallTrace)
    BY DEF EvalInv, EvalTypeOK
  <1>6. done' \in Seq(CallTrace) /\ Len(done') = Len(done) + 1
        /\ \A k \in 1 .. Len(done') : done'[k] = IF k = Len(done) + 1 THEN trace ELSE done[k]
    <2> HIDE DEF trace
    <2> QED BY <1>1, <1>3, <1>5
  <1>7. \A k \in 1 .. Len(done') :
            Placed(done'[k].subs, done'[k].bindings) /\ Nested(done[k].subs)'
    <2> HIDE DEF trace
    <2> TAKE k \in 1 .. Len(done')
    <2>1. CASE k = Len(done) + 1
      <3>1. Nested(trace.subs)
        BY <1>2, <1>3 DEF FrameOK
      <3> QED BY <1>4, <1>5, <1>6, <2>1, <3>1 DEF Nested
    <2>2. CASE k \in 1 .. Len(done)
      <3>1. done'[k] = done[k]
        BY <1>5, <1>6, <2>2
      <3>2. Placed(done[k].subs, done[k].bindings) /\ Nested(done[k].subs)
        BY <2>2 DEF EvalInv
      <3> QED BY <1>5, <1>6, <3>1, <3>2 DEF Nested
    <2> QED BY <1>5, <1>6, <2>1, <2>2
  <1>8. (\A k \in 1 .. Len(done) : Placed(done[k].subs, done[k].bindings) /\ Nested(done[k].subs))'
    BY <1>7 DEF Placed
  <1>9. CASE n = 1
    <2>1. stack' = <<>>
      BY <1>9 DEF FinishCall
    <2>2. EvalTypeOK' /\ BlocksExist(prog)'
      BY <1>1, <1>6, <2>1 DEF EvalInv, EvalTypeOK, BlocksExist
    <2>3. Len(stack') = 0 /\ \A k \in 1 .. Len(stack') : FALSE
      BY <2>1
    <2>4. (\A k \in 1 .. Len(stack) : FrameOK(stack[k]))'
      BY <2>3
    <2>5. (\A k \in 1 .. Len(stack) - 1 : stack[k].ep > 0)'
      BY <2>3
    <2> QED BY <1>8, <2>2, <2>4, <2>5 DEF EvalInv
  <1>10. CASE n # 1
    <2>1. n - 1 \in 1 .. n /\ n - 1 \in 1 .. Len(stack) - 1 /\ n - 1 \in Nat \ {0}
      <3>1. n \in Nat /\ n # 0 /\ n # 1
        BY <1>2, <1>10
      <3> HIDE DEF n
      <3>2. n - 1 \in 1 .. n /\ n - 1 \in 1 .. n - 1 /\ n - 1 \in Nat \ {0}
        BY <3>1
      <3> QED BY <3>2 DEF n
    <2>2. caller \in Frame /\ FrameOK(caller) /\ caller.ep > 0
      BY <1>2, <2>1 DEF EvalInv
    <2>3. /\ SubCallOf(fr, caller) \in SubCall
          /\ Placed(Append(caller.subs, SubCallOf(fr, caller)), caller.bindings)
          /\ \A j \in 1 .. Len(Append(caller.subs, SubCallOf(fr, caller))) :
                 Append(caller.subs, SubCallOf(fr, caller))[j].trace \in 1 .. Len(done) + 1
      BY <1>2, <1>5, <2>2, SubCallPlaced
    <2>4. resumed \in Frame
      <3> HIDE DEF trace, caller
      <3>1. trace.rv \in Value
        BY <1>3 DEF CallTrace
      <3>2. Append(caller.vals, trace.rv) \in Seq(Value)
        BY <2>2, <3>1 DEF Frame
      <3>3. Append(caller.subs, SubCallOf(fr, caller)) \in Seq(SubCall)
        BY <2>2, <2>3 DEF Frame
      <3> QED BY <2>2, <3>2, <3>3 DEF Frame
    <2>5. /\ resumed.code = caller.code /\ resumed.fn = caller.fn /\ resumed.ep = caller.ep
          /\ resumed.after = caller.after /\ resumed.bindings = caller.bindings
          /\ resumed.subs = Append(caller.subs, SubCallOf(fr, caller))
      <3> HIDE DEF trace, caller
      <3> QED BY <2>2 DEF Frame
    <2>6. /\ FrameShape(resumed)
          /\ \A j \in 1 .. Len(resumed.subs) : resumed.subs[j].trace \in 1 .. Len(done')
      <3> HIDE DEF resumed, caller
      <3> QED BY <1>6, <2>2, <2>3, <2>5 DEF FrameOK, FrameShape, InExprStmt, AtFor
    <2>7. stack' = [Front(stack) EXCEPT ![n - 1] = resumed]
      BY <1>10 DEF FinishCall
    <2>8. /\ stack' \in Seq(Frame) /\ Len(stack') = n - 1
          /\ \A k \in 1 .. n - 1 : stack'[k] = IF k = n - 1 THEN resumed ELSE stack[k]
      <3> HIDE DEF resumed, caller
      <3>1. /\ Front(stack) \in Seq(Frame) /\ Len(Front(stack)) = n - 1
            /\ \A k \in 1 .. n - 1 : Front(stack)[k] = stack[k]
        BY <1>2, <2>1 DEF Front
      <3> QED BY <2>1, <2>4, <2>7, <3>1
    <2> HIDE DEF resumed, caller, trace
    <2>9. \A k \in 1 .. n - 1 :
              /\ FrameShape(stack'[k])
              /\ \A j \in 1 .. Len(stack'[k].subs) : stack'[k].subs[j].trace \in 1 .. Len(done')
              /\ k < n - 1 => stack'[k].ep > 0
      <3> TAKE k \in 1 .. n - 1
      <3>1. CASE k = n - 1
        BY <2>1, <2>6, <2>8, <3>1
      <3>2. CASE k # n - 1
        <4>1. k \in 1 .. Len(stack) /\ k \in 1 .. Len(stack) - 1 /\ stack'[k] = stack[k]
          BY <2>1, <2>8, <3>2
        <4>2. FrameShape(stack[k]) /\ Nested(stack[k].subs) /\ stack[k].ep > 0
          BY <4>1 DEF EvalInv, FrameOK
        <4>3. \A j \in 1 .. Len(stack[k].subs) : stack[k].subs[j].trace \in 1 .. Len(done')
          BY <1>5, <1>6, <4>2 DEF Nested
        <4> QED BY <4>1, <4>2, <4>3
      <3> QED BY <3>1, <3>2
    <2>10. (\A k \in 1 .. Len(stack) : FrameOK(stack[k]))'
      BY <1>1, <2>8, <2>9 DEF FrameOK, FrameShape, InExprStmt, AtFor, Nested
    <2>11. (\A k \in 1 .. Len(stack) - 1 : stack[k].ep > 0)'
      BY <2>1, <2>8, <2>9
    <2>12. EvalTypeOK' /\ BlocksExist(prog)'
      BY <1>1, <1>6, <2>8 DEF EvalInv, EvalTypeOK, BlocksExist
    <2> QED BY <1>8, <2>10, <2>11, <2>12 DEF EvalInv
  <1> QED BY <1>9, <1>10

----------------------------------------------------------------------------
(* execute_block keeps the invariant *)

\* A statement's expression begins: from here on the bindings do not grow.
LEMMA BeginExprInv == ASSUME EvalInv, BeginExpr PROVE EvalInv'
  <1> DEFINE f == [fr EXCEPT !.ep = 1, !.vals = <<>>, !.after = Len(fr.bindings),
                             !.ioBefore = Len(fr.ios)]
  <1>1. stack # <<>> /\ SetTop(f)
    BY DEF BeginExpr, AtStmt, BetweenStmts, Running
  <1>2. fr \in Frame /\ FrameOK(fr)
    BY <1>1, TopFrame
  <1>3. Len(fr.bindings) \in Nat /\ Len(fr.ios) \in Nat
    BY <1>2 DEF Frame
  <1>3a. <<>> \in Seq(Value) /\ 1 \in Nat
    OBVIOUS
  <1>4. f \in Frame
    BY <1>2, <1>3, <1>3a DEF Frame
  <1>5. /\ f.code = fr.code /\ f.fn = fr.fn /\ f.ep = 1 /\ f.after = Len(fr.bindings)
        /\ f.bindings = fr.bindings /\ f.subs = fr.subs
    BY <1>2 DEF Frame
  <1>6. InExprStmt(fr)
    BY DEF BeginExpr, AtStmt, InExprStmt, stmt, block, cursor
  <1>7. FrameOK(f)
    <2> HIDE DEF f
    <2> QED BY <1>2, <1>5, <1>6 DEF FrameOK, FrameShape, InExprStmt, AtFor, Nested
  <1>8. TopReplaced
    BY <1>1, <1>4, <1>7 DEF TopReplaced
  <1> QED BY <1>1, <1>8, ReplaceTop DEF BeginExpr, Quiet

\* What the rest do to the code and the bindings of the running frame: no
\* expression is under evaluation, the blocks in use exist, bindings may be added.
Rested(f) ==
    /\ f.fn = fr.fn /\ f.subs = fr.subs /\ f.ep = 0
    /\ f.code # <<>>
    /\ \A c \in 1 .. Len(f.code) : f.code[c].block \in 1 .. Len(prog.fns[fr.fn].blocks)
    /\ \A c \in 1 .. Len(f.code) - 1 : AtFor(fr.fn, f.code[c])
    /\ Len(fr.bindings) <= Len(f.bindings)

StmtExecuted == \E f \in Frame : Rested(f) /\ SetTop(f)

LEMMA StmtStep ==
    ASSUME EvalInv, stack # <<>>, StmtExecuted, UNCHANGED <<prog, done, calls>>
    PROVE  EvalInv'
  <1>1. PICK f \in Frame : Rested(f) /\ SetTop(f)
    BY DEF StmtExecuted
  <1>2. fr \in Frame /\ FrameOK(fr)
    BY TopFrame
  <1>3. /\ Len(fr.bindings) \in Nat /\ Len(f.bindings) \in Nat /\ Len(fr.subs) \in Nat
        /\ \A j \in 1 .. Len(fr.subs) : fr.subs[j].after \in Nat
    <2>1. /\ fr.bindings \in Seq(Binding) /\ f.bindings \in Seq(Binding)
          /\ fr.subs \in Seq(SubCall)
      BY <1>2 DEF Frame
    <2>2. \A j \in 1 .. Len(fr.subs) : fr.subs[j] \in SubCall
      BY <2>1
    <2> QED BY <2>1, <2>2 DEF SubCall
  <1>4. Placed(f.subs, f.bindings)
    BY <1>1, <1>2, <1>3 DEF Rested, FrameOK, FrameShape, Placed
  <1>5. FrameOK(f)
    BY <1>1, <1>2, <1>4 DEF Rested, FrameOK, FrameShape
  <1>6. TopReplaced
    BY <1>1, <1>5 DEF TopReplaced
  <1> QED BY <1>6, ReplaceTop

\* Moving the cursor within its block.
LEMMA MoveToType ==
    ASSUME EvalInv, stack # <<>>, NEW pc \in Nat \ {0}
    PROVE  /\ MoveTo(pc) \in Seq(Cursor)
           /\ MoveTo(pc) # <<>>
           /\ \A c \in 1 .. Len(MoveTo(pc)) :
                  MoveTo(pc)[c].block \in 1 .. Len(prog.fns[fr.fn].blocks)
           /\ \A c \in 1 .. Len(MoveTo(pc)) - 1 : AtFor(fr.fn, MoveTo(pc)[c])
  <1>1. fr \in Frame /\ FrameOK(fr) /\ cursor \in Cursor /\ Len(fr.code) \in Nat \ {0}
    BY TopFrame
  <1>2. fr.code \in Seq(Cursor)
    BY <1>1 DEF Frame
  <1> DEFINE moved == [cursor EXCEPT !.pc = pc]
  <1>3. moved \in Cursor /\ moved.block = cursor.block
    BY <1>1 DEF Cursor
  <1>4. MoveTo(pc) = [fr.code EXCEPT ![Len(fr.code)] = moved]
    BY <1>1, <1>2 DEF MoveTo, cursor
  <1> HIDE DEF moved
  <1>5. /\ MoveTo(pc) \in Seq(Cursor) /\ Len(MoveTo(pc)) = Len(fr.code)
        /\ \A c \in 1 .. Len(fr.code) :
               MoveTo(pc)[c] = IF c = Len(fr.code) THEN moved ELSE fr.code[c]
    BY <1>1, <1>2, <1>3, <1>4
  <1>6. \A c \in 1 .. Len(fr.code) :
            MoveTo(pc)[c].block \in 1 .. Len(prog.fns[fr.fn].blocks)
    BY <1>1, <1>3, <1>5 DEF FrameOK, FrameShape, cursor
  <1>7. \A c \in 1 .. Len(fr.code) - 1 : AtFor(fr.fn, MoveTo(pc)[c])
    <2> TAKE c \in 1 .. Len(fr.code) - 1
    <2>1. c \in 1 .. Len(fr.code) /\ c # Len(fr.code)
      BY <1>1
    <2>2. MoveTo(pc)[c] = fr.code[c]
      BY <1>5, <2>1
    <2> QED BY <1>1, <2>2 DEF FrameOK, FrameShape
  <1> QED BY <1>1, <1>5, <1>6, <1>7

\* The statement whose expression has just been evaluated.
LEMMA StmtType ==
    ASSUME EvalInv, stack # <<>>, fr.ep > 0
    PROVE  stmt \in Stmt /\ stmt.kind \in {"let", "assign", "return", "expr"}
  <1>1. FrameOK(fr) /\ block \in Seq(Stmt) /\ cursor \in Cursor
    BY TopFrame
  <1>2. cursor.pc <= Len(block) /\ stmt.kind \in {"let", "assign", "return", "expr"}
    BY <1>1 DEF FrameOK, FrameShape, InExprStmt, cursor, block, stmt
  <1>3. cursor.pc \in 1 .. Len(block)
    BY <1>1, <1>2 DEF Cursor
  <1> QED BY <1>1, <1>2, <1>3 DEF stmt

LEMMA ResultType == ASSUME NEW f \in Frame PROVE Result(f) \in Value
  <1>1. f.vals \in Seq(Value)
    BY DEF Frame
  <1>2. CASE f.vals = <<>>
    BY <1>2 DEF Result, Value
  <1>3. CASE f.vals # <<>>
    <2>1. Len(f.vals) \in 1 .. Len(f.vals)
      BY <1>1, <1>3
    <2> QED BY <1>1, <1>3, <2>1 DEF Result
  <1> QED BY <1>2, <1>3

\* A statement other than `for` has been executed.
Committed ==
    \E env \in [Name -> Value], bs \in Seq(Binding), as \in Nat, rv \in Value,
       ab \in BOOLEAN, pc \in Nat \ {0} :
        /\ Len(fr.bindings) <= Len(bs)
        /\ SetTop([fr EXCEPT !.env = env, !.bindings = bs, !.asserts = as, !.rv = rv,
                             !.aborted = ab, !.ep = 0, !.code = MoveTo(pc)])

LEMMA CommitStep ==
    ASSUME EvalInv, stack # <<>>, Committed, UNCHANGED <<prog, done, calls>>
    PROVE  EvalInv'
  <1>1. PICK env \in [Name -> Value], bs \in Seq(Binding), as \in Nat, rv \in Value,
             ab \in BOOLEAN, pc \in Nat \ {0} :
            /\ Len(fr.bindings) <= Len(bs)
            /\ SetTop([fr EXCEPT !.env = env, !.bindings = bs, !.asserts = as, !.rv = rv,
                                 !.aborted = ab, !.ep = 0, !.code = MoveTo(pc)])
    BY DEF Committed
  <1> DEFINE f == [fr EXCEPT !.env = env, !.bindings = bs, !.asserts = as, !.rv = rv,
                             !.aborted = ab, !.ep = 0, !.code = MoveTo(pc)]
  <1>2. fr \in Frame
    BY TopFrame
  <1>3. /\ MoveTo(pc) \in Seq(Cursor) /\ MoveTo(pc) # <<>>
        /\ \A c \in 1 .. Len(MoveTo(pc)) :
               MoveTo(pc)[c].block \in 1 .. Len(prog.fns[fr.fn].blocks)
        /\ \A c \in 1 .. Len(MoveTo(pc)) - 1 : AtFor(fr.fn, MoveTo(pc)[c])
    BY MoveToType
  <1>4. f \in Frame
    BY <1>2, <1>3 DEF Frame
  <1>5. /\ f.fn = fr.fn /\ f.subs = fr.subs /\ f.ep = 0 /\ f.code = MoveTo(pc)
        /\ f.bindings = bs
    BY <1>2 DEF Frame
  <1> HIDE DEF f
  <1>6. Rested(f)
    BY <1>1, <1>3, <1>5 DEF Rested
  <1>7. SetTop(f)
    BY <1>1 DEF f
  <1>8. StmtExecuted
    BY <1>4, <1>6, <1>7 DEF StmtExecuted
  <1> QED BY <1>8, StmtStep

\* What CommitStep asks of the frame's untouched parts.
LEMMA FrameParts ==
    ASSUME EvalInv, stack # <<>>
    PROVE  /\ fr.env \in [Name -> Value] /\ fr.bindings \in Seq(Binding)
           /\ fr.asserts \in Nat /\ fr.rv \in Value /\ fr.aborted \in BOOLEAN
           /\ Len(fr.bindings) \in Nat /\ Len(fr.bindings) <= Len(fr.bindings)
           /\ fr \in Frame
           /\ cursor.pc \in Nat \ {0} /\ cursor.pc + 1 \in Nat \ {0}
  <1>1. fr \in Frame /\ cursor \in Cursor
    BY TopFrame
  <1> QED BY <1>1 DEF Frame, Cursor

LEMMA CommitLetInv == ASSUME EvalInv, CommitLet PROVE EvalInv'
  <1> DEFINE v == Result(fr)
             new == [name |-> stmt.name, line |-> stmt.line, mutable |-> stmt.mutable,
                     value |-> v]
  <1>1. stack # <<>> /\ fr.ep > 0 /\ stmt.kind = "let"
    BY DEF CommitLet, Evaluated, Running
  <1>2. stmt \in Stmt
    BY <1>1, StmtType
  <1>3. stmt.name \in Name /\ stmt.line \in Line /\ stmt.mutable \in BOOLEAN
    BY <1>1, <1>2 DEF Stmt
  <1>4. v \in Value
    BY <1>1, FrameParts, ResultType
  <1>5. [fr.env EXCEPT ![stmt.name] = v] \in [Name -> Value]
    BY <1>1, <1>3, <1>4, FrameParts
  <1>6. /\ Append(fr.bindings, new) \in Seq(Binding)
        /\ Len(fr.bindings) <= Len(Append(fr.bindings, new))
    <2>1. new \in Binding
      BY <1>3, <1>4 DEF Binding
    <2> HIDE DEF new
    <2> QED BY <1>1, <2>1, FrameParts
  <1>7. AbortEmitted(fr) \in BOOLEAN
    BY DEF AbortEmitted
  <1>8. SetTop([fr EXCEPT !.env = [fr.env EXCEPT ![stmt.name] = v],
                          !.bindings = Append(fr.bindings, new),
                          !.asserts = fr.asserts, !.rv = fr.rv,
                          !.aborted = AbortEmitted(fr), !.ep = 0,
                          !.code = MoveTo(cursor.pc + 1)])
    BY <1>1, FrameParts DEF CommitLet, SetTop, Frame
  <1> HIDE DEF v, new
  <1>9. Committed
    BY <1>1, <1>5, <1>6, <1>7, <1>8, FrameParts DEF Committed
  <1> QED BY <1>1, <1>9, CommitStep DEF CommitLet, Quiet

LEMMA CommitAssignInv == ASSUME EvalInv, CommitAssign PROVE EvalInv'
  <1> DEFINE v == Result(fr)
  <1>1. stack # <<>> /\ fr.ep > 0 /\ stmt.kind = "assign"
    BY DEF CommitAssign, Evaluated, Running
  <1>2. stmt \in Stmt
    BY <1>1, StmtType
  <1>3. stmt.name \in Name /\ v \in Value
    BY <1>1, <1>2, FrameParts, ResultType DEF Stmt
  <1>4. [fr.env EXCEPT ![stmt.name] = v] \in [Name -> Value]
    BY <1>1, <1>3, FrameParts
  <1>5. SetTop([fr EXCEPT !.env = [fr.env EXCEPT ![stmt.name] = v],
                          !.bindings = fr.bindings, !.asserts = fr.asserts, !.rv = fr.rv,
                          !.aborted = fr.aborted, !.ep = 0,
                          !.code = MoveTo(cursor.pc + 1)])
    BY <1>1, FrameParts DEF CommitAssign, SetTop, Frame
  <1> HIDE DEF v
  <1>6. Committed
    BY <1>1, <1>4, <1>5, FrameParts DEF Committed
  <1> QED BY <1>1, <1>6, CommitStep DEF CommitAssign, Quiet

LEMMA CommitReturnInv == ASSUME EvalInv, CommitReturn PROVE EvalInv'
  <1>1. stack # <<>>
    BY DEF CommitReturn, Evaluated, Running
  <1>2. Result(fr) \in Value
    BY <1>1, FrameParts, ResultType
  <1>3. Len(block) + 1 \in Nat \ {0}
    BY <1>1, TopFrame
  <1>4. SetTop([fr EXCEPT !.env = fr.env, !.bindings = fr.bindings, !.asserts = fr.asserts,
                          !.rv = Result(fr), !.aborted = fr.aborted, !.ep = 0,
                          !.code = MoveTo(Len(block) + 1)])
    BY <1>1, FrameParts DEF CommitReturn, SetTop, Frame
  <1>5. Committed
    BY <1>1, <1>2, <1>3, <1>4, FrameParts DEF Committed
  <1> QED BY <1>1, <1>5, CommitStep DEF CommitReturn, Quiet

LEMMA CommitExprStmtInv == ASSUME EvalInv, CommitExprStmt PROVE EvalInv'
  <1>1. stack # <<>>
    BY DEF CommitExprStmt, Evaluated, Running
  <1>2. AbortEmitted(fr) \in BOOLEAN
    BY DEF AbortEmitted
  <1>3. SetTop([fr EXCEPT !.env = fr.env, !.bindings = fr.bindings, !.asserts = fr.asserts,
                          !.rv = fr.rv, !.aborted = AbortEmitted(fr), !.ep = 0,
                          !.code = MoveTo(cursor.pc + 1)])
    BY <1>1, FrameParts DEF CommitExprStmt, SetTop, Frame
  <1>4. Committed
    BY <1>1, <1>2, <1>3, FrameParts DEF Committed
  <1> QED BY <1>1, <1>4, CommitStep DEF CommitExprStmt, Quiet

LEMMA ExecAssertInv == ASSUME EvalInv, ExecAssert PROVE EvalInv'
  <1>1. stack # <<>> /\ fr.ep = 0
    BY DEF ExecAssert, AtStmt, BetweenStmts, Running
  <1>2. fr.asserts + 1 \in Nat
    BY <1>1, FrameParts
  <1>3. SetTop([fr EXCEPT !.env = fr.env, !.bindings = fr.bindings,
                          !.asserts = fr.asserts + 1, !.rv = fr.rv,
                          !.aborted = fr.aborted, !.ep = 0,
                          !.code = MoveTo(cursor.pc + 1)])
    BY <1>1, FrameParts DEF ExecAssert, SetTop, Frame
  <1>4. Committed
    BY <1>1, <1>2, <1>3, FrameParts DEF Committed
  <1> QED BY <1>1, <1>4, CommitStep DEF ExecAssert, Quiet

LEMMA SkipForInv == ASSUME EvalInv, SkipFor PROVE EvalInv'
  <1>1. stack # <<>> /\ fr.ep = 0
    BY DEF SkipFor, AtStmt, BetweenStmts, Running
  <1>2. SetTop([fr EXCEPT !.env = fr.env, !.bindings = fr.bindings, !.asserts = fr.asserts,
                          !.rv = fr.rv, !.aborted = fr.aborted, !.ep = 0,
                          !.code = MoveTo(cursor.pc + 1)])
    BY <1>1, FrameParts DEF SkipFor, SetTop, Frame
  <1>3. Committed
    BY <1>1, <1>2, FrameParts DEF Committed
  <1> QED BY <1>1, <1>3, CommitStep DEF SkipFor, Quiet

\* A `for` statement is entered, goes round or ends.
Looped ==
    \E env \in [Name -> Value], code \in Seq(Cursor) :
        /\ code # <<>>
        /\ \A c \in 1 .. Len(code) : code[c].block \in 1 .. Len(prog.fns[fr.fn].blocks)
        /\ \A c \in 1 .. Len(code) - 1 : AtFor(fr.fn, code[c])
        /\ SetTop([fr EXCEPT !.env = env, !.code = code])

LEMMA LoopStep ==
    ASSUME EvalInv, stack # <<>>, fr.ep = 0, Looped, UNCHANGED <<prog, done, calls>>
    PROVE  EvalInv'
  <1>1. PICK env \in [Name -> Value], code \in Seq(Cursor) :
            /\ code # <<>>
            /\ \A c \in 1 .. Len(code) : code[c].block \in 1 .. Len(prog.fns[fr.fn].blocks)
            /\ \A c \in 1 .. Len(code) - 1 : AtFor(fr.fn, code[c])
            /\ SetTop([fr EXCEPT !.env = env, !.code = code])
    BY DEF Looped
  <1> DEFINE f == [fr EXCEPT !.env = env, !.code = code]
  <1>2. fr \in Frame
    BY TopFrame
  <1>3. f \in Frame
    BY <1>2 DEF Frame
  <1>4. /\ f.fn = fr.fn /\ f.subs = fr.subs /\ f.ep = 0 /\ f.code = code
        /\ f.bindings = fr.bindings /\ Len(fr.bindings) <= Len(fr.bindings)
    BY <1>2, FrameParts DEF Frame
  <1> HIDE DEF f
  <1>5. Rested(f)
    BY <1>1, <1>4 DEF Rested
  <1>6. SetTop(f)
    BY <1>1 DEF f
  <1>7. StmtExecuted
    BY <1>3, <1>5, <1>6 DEF StmtExecuted
  <1> QED BY <1>7, StmtStep

\* The code of the running frame: typed, not empty, and its blocks exist.
LEMMA CodeParts ==
    ASSUME EvalInv, stack # <<>>
    PROVE  /\ fr.code \in Seq(Cursor) /\ Len(fr.code) \in Nat \ {0}
           /\ cursor = fr.code[Len(fr.code)] /\ cursor \in Cursor
           /\ cursor.i \in Nat /\ cursor.block \in Nat \ {0}
           /\ \A c \in 1 .. Len(fr.code) :
                  fr.code[c].block \in 1 .. Len(prog.fns[fr.fn].blocks)
           /\ \A c \in 1 .. Len(fr.code) - 1 : AtFor(fr.fn, fr.code[c])
  <1>1. fr \in Frame /\ FrameOK(fr) /\ Len(fr.code) \in Nat \ {0} /\ cursor \in Cursor
    BY TopFrame
  <1> QED BY <1>1 DEF Frame, FrameOK, FrameShape, cursor, Cursor

LEMMA EnterForInv == ASSUME EvalInv, EnterFor PROVE EvalInv'
  <1> DEFINE new == [block |-> stmt.body, pc |-> 1, i |-> stmt.lo]
             env == [fr.env EXCEPT ![stmt.var] = Wrap(stmt.lo)]
             code == Append(fr.code, new)
  <1>1. /\ stack # <<>> /\ fr.ep = 0 /\ stmt.kind = "for" /\ cursor.pc <= Len(block)
    BY DEF EnterFor, AtStmt, BetweenStmts, Running
  <1>2. cursor.pc \in 1 .. Len(block)
    BY <1>1, FrameParts, TopFrame
  <1>3. stmt \in Stmt
    BY <1>1, <1>2, TopFrame DEF stmt
  <1>4. stmt.lo \in Nat /\ stmt.body \in Nat
    BY <1>1, <1>3 DEF Stmt
  <1>5. stmt.body \in 1 .. Len(prog.fns[fr.fn].blocks)
    <2>1. fr.fn \in FnName /\ cursor.block \in 1 .. Len(prog.fns[fr.fn].blocks)
      <3>1. fr \in Frame
        BY <1>1, FrameParts
      <3>2. /\ Len(fr.code) \in Nat \ {0} /\ cursor = fr.code[Len(fr.code)]
            /\ \A c \in 1 .. Len(fr.code) :
                   fr.code[c].block \in 1 .. Len(prog.fns[fr.fn].blocks)
        BY <1>1, CodeParts
      <3> QED BY <3>1, <3>2 DEF Frame
    <2>2. BlocksExist(prog)
      BY DEF EvalInv
    <2>3. block = prog.fns[fr.fn].blocks[cursor.block] /\ stmt = block[cursor.pc]
      BY DEF block, stmt
    <2>4. block[cursor.pc].kind = "for" => block[cursor.pc].body \in 1 .. Len(prog.fns[fr.fn].blocks)
      BY <1>2, <2>1, <2>2, <2>3 DEF BlocksExist
    <2> QED BY <1>1, <2>3, <2>4
  <1>6. env \in [Name -> Value]
    <2>1. Wrap(stmt.lo) \in Value
      BY <1>4, WrapType
    <2> QED BY <1>1, <2>1, FrameParts
  <1>7. new \in Cursor /\ new.block = stmt.body
    BY <1>4, <1>5 DEF Cursor
  <1>8. /\ code \in Seq(Cursor) /\ code # <<>>
        /\ \A c \in 1 .. Len(code) : code[c].block \in 1 .. Len(prog.fns[fr.fn].blocks)
        /\ \A c \in 1 .. Len(code) - 1 : AtFor(fr.fn, code[c])
    <2> HIDE DEF new
    <2>1. /\ code \in Seq(Cursor) /\ Len(code) = Len(fr.code) + 1
          /\ \A c \in 1 .. Len(fr.code) + 1 :
                 code[c] = IF c = Len(fr.code) + 1 THEN new ELSE fr.code[c]
      BY <1>1, <1>7, CodeParts
    <2> HIDE DEF code
    <2>2. \A c \in 1 .. Len(code) : code[c].block \in 1 .. Len(prog.fns[fr.fn].blocks)
      <3> TAKE c \in 1 .. Len(code)
      <3>1. CASE c = Len(fr.code) + 1
        BY <1>1, <1>5, <1>7, <2>1, <3>1, CodeParts
      <3>2. CASE c # Len(fr.code) + 1
        <4>1. c \in 1 .. Len(fr.code) /\ code[c] = fr.code[c]
          BY <1>1, <2>1, <3>2, CodeParts
        <4> QED BY <1>1, <4>1, CodeParts
      <3> QED BY <3>1, <3>2
    <2>3. code # <<>>
      BY <1>1, <2>1, CodeParts
    <2>4. \A c \in 1 .. Len(code) - 1 : AtFor(fr.fn, code[c])
      <3> TAKE c \in 1 .. Len(code) - 1
      <3>1. c \in 1 .. Len(fr.code) /\ code[c] = fr.code[c]
        BY <1>1, <2>1, CodeParts
      <3>2. CASE c = Len(fr.code)
        <4>1. AtFor(fr.fn, cursor)
          BY <1>1, <1>2 DEF AtFor, block, stmt
        <4> QED BY <3>1, <3>2, <4>1 DEF cursor
      <3>3. CASE c # Len(fr.code)
        <4>1. c \in 1 .. Len(fr.code) - 1
          BY <1>1, <3>1, <3>3, CodeParts
        <4> QED BY <1>1, <3>1, <4>1, CodeParts
      <3> QED BY <3>2, <3>3
    <2> QED BY <2>1, <2>2, <2>3, <2>4
  <1>9. SetTop([fr EXCEPT !.env = env, !.code = code])
    BY <1>1, FrameParts DEF EnterFor, Iterate, SetTop, Frame
  <1> HIDE DEF env, code
  <1>10. Looped
    BY <1>6, <1>8, <1>9 DEF Looped
  <1> QED BY <1>1, <1>10, LoopStep DEF EnterFor, Quiet

LEMMA NextIterationInv == ASSUME EvalInv, NextIteration PROVE EvalInv'
  <1> DEFINE turned == [block |-> cursor.block, pc |-> 1, i |-> cursor.i + 1]
             env == [fr.env EXCEPT ![loop.var] = Wrap(cursor.i + 1)]
             code == [fr.code EXCEPT ![Len(fr.code)] = turned]
  <1>1. stack # <<>> /\ fr.ep = 0
    BY DEF NextIteration, AtBlockEnd, BetweenStmts, Running
  <1>2. cursor.i + 1 \in Nat
    BY <1>1, CodeParts
  <1>3. env \in [Name -> Value]
    <2>1. Wrap(cursor.i + 1) \in Value
      BY <1>2, WrapType
    <2> QED BY <1>1, <2>1, FrameParts
  <1>4. turned \in Cursor /\ turned.block = cursor.block
    <2>1. cursor.block \in Nat \ {0}
      BY <1>1, CodeParts
    <2> QED BY <1>2, <2>1 DEF Cursor
  <1>5. /\ code \in Seq(Cursor) /\ code # <<>>
        /\ \A c \in 1 .. Len(code) : code[c].block \in 1 .. Len(prog.fns[fr.fn].blocks)
        /\ \A c \in 1 .. Len(code) - 1 : AtFor(fr.fn, code[c])
    <2> HIDE DEF turned
    <2>0. fr.code \in Seq(Cursor) /\ Len(fr.code) \in Nat \ {0}
      BY <1>1, CodeParts
    <2>1. /\ code \in Seq(Cursor) /\ Len(code) = Len(fr.code)
          /\ \A c \in 1 .. Len(fr.code) :
                 code[c] = IF c = Len(fr.code) THEN turned ELSE fr.code[c]
      BY <1>4, <2>0
    <2> HIDE DEF code
    <2>2. code # <<>>
      BY <1>1, <2>1, CodeParts
    <2>3. \A c \in 1 .. Len(code) : code[c].block \in 1 .. Len(prog.fns[fr.fn].blocks)
      BY <1>1, <1>4, <2>1, CodeParts
    <2>4. \A c \in 1 .. Len(code) - 1 : AtFor(fr.fn, code[c])
      <3> TAKE c \in 1 .. Len(code) - 1
      <3>1. c \in 1 .. Len(fr.code) - 1 /\ code[c] = fr.code[c]
        BY <2>0, <2>1
      <3> QED BY <1>1, <3>1, CodeParts
    <2> QED BY <2>1, <2>2, <2>3, <2>4
  <1>6. SetTop([fr EXCEPT !.env = env, !.code = code])
    <2>1. cursor = fr.code[Len(fr.code)] /\ fr.code \in Seq(Cursor) /\ fr \in Frame
      BY <1>1, CodeParts, FrameParts
    <2>2. SetTop(Iterate(fr, code, loop, cursor.i + 1))
      BY DEF NextIteration
    <2>3. Iterate(fr, code, loop, cursor.i + 1) = [fr EXCEPT !.env = env, !.code = code]
      <3> HIDE DEF code
      <3> QED BY <2>1 DEF Iterate, Frame
    <2> HIDE DEF code, env
    <2> QED BY <2>2, <2>3
  <1> HIDE DEF env, code
  <1>7. Looped
    BY <1>3, <1>5, <1>6 DEF Looped
  <1> QED BY <1>1, <1>7, LoopStep DEF NextIteration, Quiet

LEMMA EndForInv == ASSUME EvalInv, EndFor PROVE EvalInv'
  <1> DEFINE n == Len(fr.code)
             next == [fr.code[n - 1] EXCEPT !.pc = @ + 1]
             code == [Front(fr.code) EXCEPT ![n - 1] = next]
  <1>1. stack # <<>> /\ fr.ep = 0 /\ n > 1
    BY DEF EndFor, AtBlockEnd, BetweenStmts, Running
  <1>2. fr.code \in Seq(Cursor) /\ n \in Nat
    BY <1>1, CodeParts
  <1>3. n - 1 \in 1 .. n /\ n - 1 \in Nat
    BY <1>1, <1>2
  <1>4. next \in Cursor /\ next.block = fr.code[n - 1].block
    <2>1. fr.code[n - 1] \in Cursor
      BY <1>2, <1>3
    <2> QED BY <2>1 DEF Cursor
  <1>5. /\ Front(fr.code) \in Seq(Cursor) /\ Len(Front(fr.code)) = n - 1
        /\ \A c \in 1 .. n - 1 : Front(fr.code)[c] = fr.code[c]
    BY <1>2, <1>3 DEF Front
  <1>6. /\ code \in Seq(Cursor) /\ Len(code) = n - 1
        /\ \A c \in 1 .. n - 1 : code[c] = IF c = n - 1 THEN next ELSE fr.code[c]
    <2> HIDE DEF next
    <2> QED BY <1>3, <1>4, <1>5
  <1>7. \A c \in 1 .. Len(code) : code[c].block \in 1 .. Len(prog.fns[fr.fn].blocks)
    <2> HIDE DEF next, code
    <2> TAKE c \in 1 .. Len(code)
    <2>1. c \in 1 .. n - 1 /\ c \in 1 .. n
      BY <1>2, <1>3, <1>6
    <2>2. code[c].block = fr.code[c].block
      BY <1>4, <1>6, <2>1
    <2> QED BY <1>1, <2>1, <2>2, CodeParts
  <1>12. \A c \in 1 .. Len(code) - 1 : AtFor(fr.fn, code[c])
    <2> HIDE DEF next, code
    <2> TAKE c \in 1 .. Len(code) - 1
    <2>1. c \in 1 .. n - 1 /\ c # n - 1
      BY <1>3, <1>6
    <2>2. code[c] = fr.code[c] /\ c \in 1 .. Len(fr.code) - 1
      BY <1>6, <2>1
    <2> QED BY <1>1, <2>2, CodeParts
  <1>8. code # <<>>
    <2> HIDE DEF code
    <2> QED BY <1>1, <1>3, <1>6
  <1>9. SetTop([fr EXCEPT !.env = fr.env, !.code = code])
    <2>1. [Front(fr.code) EXCEPT ![Len(Front(fr.code))].pc = @ + 1] = code
      <3>1. Front(fr.code)[n - 1] = fr.code[n - 1] /\ Len(Front(fr.code)) = n - 1
        BY <1>1, <1>2, <1>5
      <3> DEFINE outer == Front(fr.code)
      <3>2. [outer EXCEPT ![n - 1].pc = @ + 1]
              = [outer EXCEPT ![n - 1] = [outer[n - 1] EXCEPT !.pc = outer[n - 1].pc + 1]]
        OBVIOUS
      <3> QED BY <3>1, <3>2
    <2>2. fr \in Frame
      BY <1>1, FrameParts
    <2>3. SetTop([fr EXCEPT !.code = [Front(fr.code) EXCEPT ![Len(Front(fr.code))].pc = @ + 1]])
      BY DEF EndFor
    <2>4. SetTop([fr EXCEPT !.code = code])
      <3> HIDE DEF code
      <3> QED BY <2>1, <2>3
    <2>5. [fr EXCEPT !.env = fr.env, !.code = code] = [fr EXCEPT !.code = code]
      <3> HIDE DEF code
      <3> QED BY <2>2 DEF Frame
    <2> HIDE DEF code
    <2> QED BY <2>4, <2>5
  <1>10. fr.env \in [Name -> Value]
    BY <1>1, FrameParts
  <1> HIDE DEF code
  <1>11. Looped
    BY <1>6, <1>7, <1>8, <1>9, <1>10, <1>12 DEF Looped
  <1> QED BY <1>1, <1>11, LoopStep DEF EndFor, Quiet

----------------------------------------------------------------------------
(* The theorems *)

LEMMA InitInv == EvalInit => EvalInv
  <1> SUFFICES ASSUME EvalInit PROVE EvalInv
    OBVIOUS
  <1>1. prog \in Program /\ BlocksExist(prog)
    BY ProgramsAssumption DEF EvalInit
  <1>2. stack = <<>> /\ done = <<>> /\ calls = 0
    BY DEF EvalInit
  <1> QED BY <1>1, <1>2 DEF EvalInv, EvalTypeOK

\* One step of the evaluator, whichever it is.
LEMMA StepInv == ASSUME EvalInv, EvalStep PROVE EvalInv'
  <1>1. CASE EvalExpr
    BY <1>1, EvalOperandInv, EvalBinaryInv, EvalMethodInv, EvalSelectInv, EvalBranchInv, EvalJumpInv,
       EvalBuiltinInv, EvalCallInv, EvalUnknownCallInv, EvalQualifiedCallInv,
       FallThroughInv, EvalUnresolvedInv DEF EvalExpr
  <1>2. CASE ExecuteBlock
    BY <1>2, BeginExprInv, CommitLetInv, CommitAssignInv, CommitReturnInv,
       CommitExprStmtInv, ExecAssertInv, EnterForInv, SkipForInv, NextIterationInv,
       EndForInv DEF ExecuteBlock
  <1>3. CASE FinishCall
    BY <1>3, FinishCallInv
  <1> QED BY <1>1, <1>2, <1>3 DEF EvalStep

LEMMA ZeroArgsType == ASSUME EvalInv, NEW f \in FnName PROVE ZeroArgs(f) \in Seq(Value)
  <1>1. Len(prog.fns[f].params) \in Nat
    BY DEF EvalInv, EvalTypeOK, Program, Fn
  <1>2. 0 \in Value
    BY MaxIntAssumption DEF Value
  <1>3. ZeroArgs(f) \in [1 .. Len(prog.fns[f].params) -> Value]
    BY <1>2 DEF ZeroArgs
  <1> QED BY <1>1, <1>3

LEMMA StutterInv == ASSUME EvalInv, UNCHANGED evalVars PROVE EvalInv'
  <1>1. UNCHANGED <<prog, stack, done, calls>>
    BY DEF evalVars
  <1>2. EvalTypeOK' /\ BlocksExist(prog)'
    BY <1>1 DEF EvalInv, EvalTypeOK, BlocksExist
  <1>3. (\A k \in 1 .. Len(stack) : FrameOK(stack[k]))'
    BY <1>1 DEF EvalInv, FrameOK, FrameShape, InExprStmt, AtFor, Placed, Nested
  <1>4. (\A k \in 1 .. Len(stack) - 1 : stack[k].ep > 0)'
    BY <1>1 DEF EvalInv
  <1>5. (\A k \in 1 .. Len(done) : Placed(done[k].subs, done[k].bindings) /\ Nested(done[k].subs))'
    BY <1>1 DEF EvalInv, Placed, Nested
  <1> QED BY <1>2, <1>3, <1>4, <1>5 DEF EvalInv

LEMMA NextInv == EvalInv /\ [EvalNext]_evalVars => EvalInv'
  <1> SUFFICES ASSUME EvalInv, [EvalNext]_evalVars PROVE EvalInv'
    OBVIOUS
  <1>1. CASE \E f \in FnName : StartEntry(f, <<>>) \/ StartEntry(f, ZeroArgs(f))
    <2>1. PICK f \in FnName : StartEntry(f, <<>>) \/ StartEntry(f, ZeroArgs(f))
      BY <1>1
    <2>2. <<>> \in Seq(Value) /\ ZeroArgs(f) \in Seq(Value)
      BY ZeroArgsType
    <2>3. \E args \in Seq(Value) : StartEntry(f, args)
      BY <2>1, <2>2
    <2> QED BY <2>3, StartEntryInv
  <1>2. CASE EvalStep
    BY <1>2, StepInv
  <1>3. CASE UNCHANGED evalVars
    BY <1>3, StutterInv
  <1> QED BY <1>1, <1>2, <1>3 DEF EvalNext

LEMMA EvalInvariant == EvalSpec => []EvalInv
  <1>1. EvalInit => EvalInv
    BY InitInv
  <1>2. EvalInv /\ [EvalNext]_evalVars => EvalInv'
    BY NextInv
  <1> QED BY <1>1, <1>2, PTL DEF EvalSpec

\* Whatever the programs, the evaluator's variables hold what the types of
\* execute_leo_function's locals allow.
THEOREM EvalTypeCorrect == EvalSpec => []EvalTypeOK
  <1>1. EvalInv => EvalTypeOK
    BY DEF EvalInv
  <1> QED BY <1>1, EvalInvariant, PTL

\* The placement follows from the invariant.
LEMMA InvPlaced == EvalInv => SubCallsPlaced
  BY DEF EvalInv, FrameOK, FrameShape, SubCallsPlaced

\* Whatever the programs, the after_binding that eval_expr gives the sub-calls
\* of a call never decreases and never points past the call's bindings.
THEOREM SubCallPlacement == EvalSpec => []SubCallsPlaced
  BY InvPlaced, EvalInvariant, PTL

----------------------------------------------------------------------------
(* The inductive invariant of the emission *)

\* An activation of emit_call_trace is within its CallTrace and has no pending
\* sub-call behind it.
ActOK(a) ==
    LET t == done[a.trace]
    IN  /\ a.trace \in 1 .. Len(done)
        /\ a.bi <= Len(t.bindings)
        /\ a.si <= Len(t.subs)
        /\ \A j \in (a.si + 1) .. Len(t.subs) : t.subs[j].after >= a.bi

\* An entry point under evaluation is a function, and leaves a CallTrace.
RunningOK ==
    mode = "running" => /\ entryFn \in FnName
                        /\ stack # <<>> \/ done # <<>>

WalkInv ==
    /\ EvalInv
    /\ entries \subseteq 1 .. Len(prog.decls)
    /\ mode \in {"idle", "running", "emitting"}
    /\ walk \in Seq(Activation)
    /\ mode # "emitting" => walk = <<>>
    /\ RunningOK
    /\ \A k \in 1 .. Len(walk) : ActOK(walk[k])

----------------------------------------------------------------------------
(* The activation that runs *)

LEMMA ActType ==
    ASSUME WalkInv, walk # <<>>
    PROVE  /\ walk \in Seq(Activation) /\ Len(walk) \in Nat \ {0}
           /\ act \in Activation /\ ActOK(act)
           /\ done \in Seq(CallTrace) /\ emitted \in CallTrace
           /\ act.bi \in Nat /\ act.si \in Nat
  <1>1. walk \in Seq(Activation) /\ Len(walk) \in Nat \ {0}
    BY DEF WalkInv
  <1>2. act \in Activation
    BY <1>1 DEF act
  <1>3. ActOK(act)
    BY <1>1 DEF WalkInv, act
  <1>4. done \in Seq(CallTrace)
    BY DEF WalkInv, EvalInv, EvalTypeOK
  <1>5. emitted \in CallTrace
    BY <1>3, <1>4 DEF ActOK, emitted
  <1> QED BY <1>1, <1>2, <1>3, <1>4, <1>5 DEF Activation

\* The parts of the CallTrace under the walk.
LEMMA EmittedParts ==
    ASSUME WalkInv, walk # <<>>
    PROVE  /\ emitted.subs \in Seq(SubCall) /\ emitted.bindings \in Seq(Binding)
           /\ \A j \in 1 .. Len(emitted.subs) :
                  emitted.subs[j] \in SubCall /\ emitted.subs[j].after \in Nat
           /\ Placed(emitted.subs, emitted.bindings)
           /\ Nested(emitted.subs)
  <1>1. emitted \in CallTrace /\ act.trace \in 1 .. Len(done)
    BY ActType DEF ActOK
  <1>2. emitted.subs \in Seq(SubCall) /\ emitted.bindings \in Seq(Binding)
    BY <1>1 DEF CallTrace
  <1>3. \A j \in 1 .. Len(emitted.subs) : emitted.subs[j] \in SubCall
    BY <1>2
  <1>4. \A j \in 1 .. Len(emitted.subs) : emitted.subs[j].after \in Nat
    BY <1>3 DEF SubCall
  <1>5. Placed(emitted.subs, emitted.bindings) /\ Nested(emitted.subs)
    BY <1>1 DEF WalkInv, EvalInv, emitted
  <1> QED BY <1>2, <1>3, <1>4, <1>5

\* What most emission steps do: the running activation is replaced.
ActReplaced == \E a \in Activation : ActOK(a) /\ SetAct(a)

LEMMA ReplaceAct ==
    ASSUME WalkInv, walk # <<>>, mode = "emitting", ActReplaced,
           UNCHANGED <<evalVars, entries, mode>>
    PROVE  WalkInv'
  <1>1. PICK a \in Activation : ActOK(a) /\ walk' = [walk EXCEPT ![Len(walk)] = a]
    BY DEF ActReplaced, SetAct
  <1>2. walk \in Seq(Activation) /\ Len(walk) \in Nat \ {0}
    BY ActType
  <1>3. walk' \in Seq(Activation) /\ Len(walk') = Len(walk)
        /\ \A k \in 1 .. Len(walk) : walk'[k] = IF k = Len(walk) THEN a ELSE walk[k]
    BY <1>1, <1>2
  <1>4. \A k \in 1 .. Len(walk') : ActOK(walk'[k])
    BY <1>1, <1>3 DEF WalkInv
  <1>5. UNCHANGED <<prog, stack, done, calls>> /\ UNCHANGED <<entries, mode>>
    BY DEF evalVars
  <1>6. (\A k \in 1 .. Len(walk) : ActOK(walk[k]))'
    BY <1>4, <1>5 DEF ActOK
  <1>7. EvalInv'
    BY StutterInv DEF WalkInv
  <1>8. mode' = "emitting" /\ RunningOK'
    BY <1>5 DEF RunningOK
  <1> QED BY <1>3, <1>5, <1>6, <1>7, <1>8 DEF WalkInv

----------------------------------------------------------------------------
(* emit_call_trace keeps the invariant *)

LEMMA OpenCallInv == ASSUME WalkInv, OpenCall PROVE WalkInv'
  <1> DEFINE a == [act EXCEPT !.at = "bindings"]
  <1>1. walk # <<>> /\ mode = "emitting" /\ SetAct(a)
    BY DEF OpenCall, At
  <1>2. act \in Activation /\ ActOK(act)
    BY <1>1, ActType
  <1>3. a \in Activation /\ a.trace = act.trace /\ a.bi = act.bi /\ a.si = act.si
    BY <1>2 DEF Activation
  <1> HIDE DEF a
  <1>4. ActOK(a)
    BY <1>2, <1>3 DEF ActOK
  <1>5. ActReplaced
    BY <1>1, <1>3, <1>4 DEF ActReplaced
  <1> QED BY <1>1, <1>5, ReplaceAct DEF OpenCall

\* The binding is passed only when no pending sub-call is placed before the next.
LEMMA EmitBindingInv == ASSUME WalkInv, EmitBinding PROVE WalkInv'
  <1> DEFINE a == [act EXCEPT !.bi = @ + 1]
  <1>1. /\ walk # <<>> /\ mode = "emitting" /\ SetAct(a)
        /\ act.bi < Len(emitted.bindings) /\ ~SubIsHere
    BY DEF EmitBinding, At
  <1>2. act \in Activation /\ ActOK(act) /\ act.bi \in Nat /\ act.si \in Nat
    BY <1>1, ActType
  <1>3. a \in Activation /\ a.trace = act.trace /\ a.bi = act.bi + 1 /\ a.si = act.si
    BY <1>2 DEF Activation
  <1> DEFINE subs == emitted.subs
  <1>4. /\ \A j \in (act.si + 1) .. Len(subs) : subs[j].after >= act.bi
        /\ act.trace \in 1 .. Len(done) /\ act.si <= Len(subs)
    BY <1>2 DEF ActOK, emitted
  <1>5. /\ subs \in Seq(SubCall) /\ emitted.bindings \in Seq(Binding)
        /\ \A j \in 1 .. Len(subs) : subs[j].after \in Nat
        /\ \A j \in 1 .. Len(subs) : \A i \in 1 .. j : subs[i].after <= subs[j].after
    BY <1>1, EmittedParts DEF Placed
  <1>6. \A j \in (act.si + 1) .. Len(subs) : subs[j].after >= act.bi + 1
    <2> TAKE j \in (act.si + 1) .. Len(subs)
    <2>1. /\ j \in 1 .. Len(subs) /\ act.si + 1 \in 1 .. j
          /\ act.si + 1 \in 1 .. Len(subs) /\ act.si < Len(subs)
          /\ act.si + 1 \in (act.si + 1) .. Len(subs)
      BY <1>2, <1>5
    <2>2. subs[act.si + 1].after # act.bi
      BY <1>1, <2>1 DEF SubIsHere, nextSub
    <2>3. subs[act.si + 1].after >= act.bi /\ subs[act.si + 1].after \in Nat
      BY <1>4, <1>5, <2>1
    <2>4. subs[act.si + 1].after <= subs[j].after /\ subs[j].after \in Nat
      BY <1>5, <2>1
    <2> HIDE DEF subs
    <2> QED BY <1>2, <2>2, <2>3, <2>4
  <1>7. act.bi + 1 <= Len(emitted.bindings)
    BY <1>1, <1>2, <1>5
  <1> HIDE DEF a
  <1>8. ActOK(a)
    BY <1>3, <1>4, <1>6, <1>7 DEF ActOK, emitted
  <1>9. ActReplaced
    BY <1>1, <1>3, <1>8 DEF ActReplaced
  <1> QED BY <1>1, <1>9, ReplaceAct DEF EmitBinding

LEMMA EndBindingsInv == ASSUME WalkInv, EndBindings PROVE WalkInv'
  <1> DEFINE a == [act EXCEPT !.at = "trailing"]
  <1>1. walk # <<>> /\ mode = "emitting" /\ SetAct(a)
    BY DEF EndBindings, At
  <1>2. act \in Activation /\ ActOK(act)
    BY <1>1, ActType
  <1>3. a \in Activation /\ a.trace = act.trace /\ a.bi = act.bi /\ a.si = act.si
    BY <1>2 DEF Activation
  <1> HIDE DEF a
  <1>4. ActOK(a)
    BY <1>2, <1>3 DEF ActOK
  <1>5. ActReplaced
    BY <1>1, <1>3, <1>4 DEF ActReplaced
  <1> QED BY <1>1, <1>5, ReplaceAct DEF EndBindings

\* A new activation is well formed: nothing precedes binding 0.
LEMMA OpeningOK ==
    ASSUME EvalInv, NEW trace \in 1 .. Len(done), NEW args \in Seq(Value), NEW e \in BOOLEAN
    PROVE  Opening(trace, args, e) \in Activation /\ ActOK(Opening(trace, args, e))
  <1> DEFINE a == Opening(trace, args, e)
             t == done[trace]
  <1>1. done \in Seq(CallTrace)
    BY DEF EvalInv, EvalTypeOK
  <1>2. t.subs \in Seq(SubCall) /\ t.bindings \in Seq(Binding)
    <2>1. t \in CallTrace
      BY <1>1
    <2> QED BY <2>1 DEF CallTrace
  <1>3. \A j \in 1 .. Len(t.subs) : t.subs[j].after \in Nat
    <2> TAKE j \in 1 .. Len(t.subs)
    <2>1. t.subs[j] \in SubCall
      BY <1>2
    <2> QED BY <2>1 DEF SubCall
  <1>4. a \in Activation
    BY <1>1 DEF Opening, Activation
  <1>5. a.trace = trace /\ a.bi = 0 /\ a.si = 0
    BY DEF Opening
  <1>6. 0 <= Len(t.bindings) /\ 0 <= Len(t.subs)
    BY <1>2
  <1>7. \A j \in (0 + 1) .. Len(t.subs) : t.subs[j].after >= 0
    BY <1>3
  <1> HIDE DEF a
  <1>8. ActOK(a)
    BY <1>5, <1>6, <1>7 DEF ActOK
  <1> QED BY <1>4, <1>8 DEF a

LEMMA DescendInv ==
    ASSUME WalkInv, walk # <<>>, mode = "emitting", act.si < Len(emitted.subs), Descend
    PROVE  WalkInv'
  <1> DEFINE n == Len(walk)
             a == [act EXCEPT !.si = @ + 1]
             passed == [walk EXCEPT ![n].si = @ + 1]
             new == Opening(nextSub.trace, nextSub.args, FALSE)
  <1>1. /\ walk \in Seq(Activation) /\ n \in Nat \ {0}
        /\ act \in Activation /\ ActOK(act) /\ act.si \in Nat /\ act.bi \in Nat
    BY ActType
  <1>2. a \in Activation /\ a.trace = act.trace /\ a.bi = act.bi /\ a.si = act.si + 1
    <2>1. act.si + 1 \in Nat
      BY <1>1
    <2> QED BY <1>1, <2>1 DEF Activation
  <1>3. ActOK(a)
    <2>1. emitted.subs \in Seq(SubCall)
      BY EmittedParts
    <2>2. /\ act.trace \in 1 .. Len(done) /\ act.bi <= Len(emitted.bindings)
          /\ \A j \in (act.si + 1) .. Len(emitted.subs) : emitted.subs[j].after >= act.bi
      BY <1>1 DEF ActOK, emitted
    <2>3. \A j \in (act.si + 1 + 1) .. Len(emitted.subs) : emitted.subs[j].after >= act.bi
      <3> TAKE j \in (act.si + 1 + 1) .. Len(emitted.subs)
      <3>1. j \in (act.si + 1) .. Len(emitted.subs)
        BY <1>1, <2>1
      <3> QED BY <2>2, <3>1
    <2>4. act.si + 1 <= Len(emitted.subs)
      BY <1>1, <2>1
    <2> HIDE DEF a
    <2> QED BY <1>2, <2>2, <2>3, <2>4 DEF ActOK, emitted
  <1>4. passed = [walk EXCEPT ![n] = a]
    BY <1>1 DEF act
  <1>5. new \in Activation /\ ActOK(new)
    <2>1. act.si + 1 \in 1 .. Len(emitted.subs)
      BY <1>1, EmittedParts
    <2>2. nextSub \in SubCall /\ nextSub.trace \in 1 .. Len(done)
      BY <2>1, EmittedParts DEF nextSub, Nested
    <2>3. nextSub.args \in Seq(Value)
      BY <2>2 DEF SubCall
    <2> QED BY <2>2, <2>3, OpeningOK DEF WalkInv
  <1>6. walk' = IF nextSub.callee \in prog.known THEN Append(passed, new) ELSE passed
    BY DEF Descend
  <1> HIDE DEF a, new, passed
  <1>7. /\ passed \in Seq(Activation) /\ Len(passed) = n
        /\ \A k \in 1 .. n : passed[k] = IF k = n THEN a ELSE walk[k]
    BY <1>1, <1>2, <1>4
  <1>8. \A k \in 1 .. n : ActOK(passed[k])
    BY <1>3, <1>7 DEF WalkInv
  <1>9. walk' \in Seq(Activation) /\ \A k \in 1 .. Len(walk') : ActOK(walk'[k])
    <2>1. CASE walk' = passed
      BY <1>7, <1>8, <2>1
    <2>2. CASE walk' = Append(passed, new)
      <3>1. /\ walk' \in Seq(Activation) /\ Len(walk') = n + 1
            /\ \A k \in 1 .. n + 1 : walk'[k] = IF k = n + 1 THEN new ELSE passed[k]
        BY <1>1, <1>5, <1>7, <2>2
      <3>2. ASSUME NEW k \in 1 .. n + 1 PROVE ActOK(walk'[k])
        <4>1. k = n + 1 \/ k \in 1 .. n
          BY <1>1
        <4> QED BY <1>1, <1>5, <1>8, <3>1, <4>1
      <3> QED BY <3>1, <3>2
    <2> QED BY <1>6, <2>1, <2>2
  <1>10. UNCHANGED <<prog, stack, done, calls>> /\ UNCHANGED <<entries, mode>>
    BY DEF Descend, evalVars
  <1>11. (\A k \in 1 .. Len(walk) : ActOK(walk[k]))'
    BY <1>9, <1>10 DEF ActOK
  <1>12. EvalInv'
    BY StutterInv DEF WalkInv, Descend
  <1>13. mode' = "emitting" /\ RunningOK'
    BY <1>10 DEF RunningOK
  <1> QED BY <1>9, <1>10, <1>11, <1>12, <1>13 DEF WalkInv

LEMMA EmitSubCallInv == ASSUME WalkInv, EmitSubCall PROVE WalkInv'
  BY DescendInv DEF EmitSubCall, At, SubIsHere

LEMMA EmitTrailingSubCallInv == ASSUME WalkInv, EmitTrailingSubCall PROVE WalkInv'
  BY DescendInv DEF EmitTrailingSubCall, At

LEMMA CloseCallInv == ASSUME WalkInv, CloseCall PROVE WalkInv'
  <1>1. /\ walk # <<>> /\ mode = "emitting" /\ walk' = Front(walk)
        /\ UNCHANGED <<evalVars, entries, mode>>
    BY DEF CloseCall, At
  <1>2. walk \in Seq(Activation) /\ Len(walk) \in Nat \ {0}
    BY <1>1, ActType
  <1>3. /\ walk' \in Seq(Activation) /\ Len(walk') = Len(walk) - 1
        /\ \A k \in 1 .. Len(walk) - 1 : walk'[k] = walk[k]
    <2>1. walk' = SubSeq(walk, 1, Len(walk) - 1) /\ Len(walk) - 1 \in Nat
      BY <1>1, <1>2 DEF Front
    <2>2. CASE Len(walk) = 1
      BY <1>2, <2>1, <2>2
    <2>3. CASE Len(walk) # 1
      <3>1. Len(walk) - 1 \in 1 .. Len(walk) /\ Len(walk) - 1 \in Nat \ {0}
        <4> DEFINE n == Len(walk)
        <4>1. n \in Nat /\ n # 0 /\ n # 1
          BY <1>2, <2>3
        <4> HIDE DEF n
        <4>2. n - 1 \in 1 .. n /\ n - 1 \in Nat \ {0}
          BY <4>1
        <4> QED BY <4>2 DEF n
      <3> DEFINE w == SubSeq(walk, 1, Len(walk) - 1)
      <3>2. w \in Seq(Activation) /\ Len(w) = Len(walk) - 1
        BY <1>2, <3>1
      <3>3. \A k \in 1 .. Len(walk) - 1 : w[k] = walk[k]
        BY <1>2, <3>1
      <3> QED BY <2>1, <3>2, <3>3
    <2> QED BY <2>2, <2>3
  <1>4. \A k \in 1 .. Len(walk') : ActOK(walk'[k])
    BY <1>2, <1>3 DEF WalkInv
  <1>5. UNCHANGED <<prog, stack, done, calls>> /\ UNCHANGED <<entries, mode>>
    BY <1>1 DEF evalVars
  <1>6. (\A k \in 1 .. Len(walk) : ActOK(walk[k]))'
    BY <1>4, <1>5 DEF ActOK
  <1>7. EvalInv'
    BY <1>1, StutterInv DEF WalkInv
  <1>8. mode' = "emitting" /\ RunningOK'
    BY <1>1, <1>5 DEF RunningOK
  <1> QED BY <1>3, <1>5, <1>6, <1>7, <1>8 DEF WalkInv

----------------------------------------------------------------------------
(* emit_trace_events keeps the invariant *)

LEMMA EntryArgsType ==
    ASSUME EvalInv, NEW f \in FnName
    PROVE  EntryArgs(f) \in Seq(Value)
  BY ZeroArgsType DEF EntryArgs

LEMMA DispatchEntryInv == ASSUME WalkInv, DispatchEntry PROVE WalkInv'
  <1>1. /\ mode = "idle" /\ mode' = "running" /\ walk = <<>> /\ walk' = <<>>
        /\ UNCHANGED entries /\ StartEntry(entryFn, EntryArgs(entryFn))
    BY DEF DispatchEntry, WalkInv
  <1>2. UNCHANGED <<prog, done>> /\ stack' # <<>> /\ entryFn \in FnName
    BY <1>1 DEF StartEntry, WalkInv, EvalInv, EvalTypeOK, Program
  <1>3. EntryArgs(entryFn) \in Seq(Value)
    BY <1>2, EntryArgsType DEF WalkInv
  <1>4. EvalInv'
    BY <1>1, <1>2, <1>3, StartEntryInv DEF WalkInv
  <1>5. entryFn' = entryFn
    BY <1>1, <1>2 DEF entryFn, position
  <1>6. RunningOK'
    BY <1>2, <1>5 DEF RunningOK
  <1>7. walk' \in Seq(Activation) /\ \A k \in 1 .. Len(walk') : FALSE
    BY <1>1
  <1>8. (\A k \in 1 .. Len(walk) : ActOK(walk[k]))'
    BY <1>7
  <1> QED BY <1>1, <1>2, <1>4, <1>6, <1>7, <1>8 DEF WalkInv

\* A step of the evaluator leaves a frame on the stack or a CallTrace behind.
LEMMA StepLeavesSomething ==
    ASSUME EvalInv, EvalStep
    PROVE  (stack' # <<>> \/ done' # <<>>) /\ UNCHANGED prog
  <1>1. stack \in Seq(Frame) /\ done \in Seq(CallTrace)
    BY DEF EvalInv, EvalTypeOK
  <1>2. ASSUME stack # <<>>, NEW f, SetTop(f) PROVE stack' # <<>>
    BY <1>1, <1>2 DEF SetTop
  <1>3. ASSUME stack # <<>>, NEW f, NEW n, NEW skip, EnterCallee(f, n, skip)
        PROVE  stack' # <<>> /\ UNCHANGED prog
    <2>1. \E s, x : stack' = Append(s, x)
      BY <1>3 DEF EnterCallee
    <2> QED BY <1>3, <2>1 DEF EnterCallee
  <1>4. CASE EvalExpr
    <2>1. stack # <<>>
      BY <1>4 DEF EvalExpr, EvalOperand, EvalBinary, EvalMethod, EvalSelect, EvalBranch, EvalJump,
         EvalBuiltin, EvalCall, EvalUnknownCall, EvalQualifiedCall,
         FallThroughQualifiedCall, EvalUnresolved, AtOp, Running
    <2> QED BY <1>2, <1>3, <1>4, <2>1 DEF EvalExpr, EvalOperand, EvalBinary, EvalMethod, EvalSelect,
         EvalBranch, EvalJump, EvalBuiltin, EvalCall, EvalUnknownCall, EvalQualifiedCall,
         FallThroughQualifiedCall, EvalUnresolved, Quiet
  <1>5. CASE ExecuteBlock
    <2>1. stack # <<>>
      BY <1>5 DEF ExecuteBlock, BeginExpr, CommitLet, CommitAssign, CommitReturn,
         CommitExprStmt, ExecAssert, EnterFor, SkipFor, NextIteration, EndFor,
         Evaluated, AtStmt, AtBlockEnd, BetweenStmts, Running
    <2> QED BY <1>2, <1>5, <2>1 DEF ExecuteBlock, BeginExpr, CommitLet, CommitAssign,
         CommitReturn, CommitExprStmt, ExecAssert, EnterFor, SkipFor, NextIteration,
         EndFor, Quiet
  <1>6. CASE FinishCall
    <2>1. stack # <<>> /\ done' = Append(done, TraceOf(fr)) /\ UNCHANGED prog
      BY <1>6 DEF FinishCall
    <2>2. TraceOf(fr) \in CallTrace
      BY <2>1, TopFrame, TraceOfType
    <2>3. done' # <<>>
      BY <1>1, <2>1, <2>2
    <2> QED BY <2>1, <2>3
  <1> QED BY <1>4, <1>5, <1>6 DEF EvalStep

LEMMA EvaluateInv == ASSUME WalkInv, Evaluate PROVE WalkInv'
  <1>1. /\ mode = "running" /\ walk = <<>> /\ EvalStep /\ UNCHANGED <<entries, mode, walk>>
    BY DEF Evaluate, emitVars, WalkInv
  <1>2. EvalInv'
    BY <1>1, StepInv DEF WalkInv
  <1>3. (stack' # <<>> \/ done' # <<>>) /\ UNCHANGED prog
    BY <1>1, StepLeavesSomething DEF WalkInv
  <1>4. entryFn' = entryFn
    BY <1>1, <1>3 DEF entryFn, position
  <1>5. RunningOK'
    BY <1>1, <1>3, <1>4 DEF RunningOK, WalkInv
  <1>6. walk' \in Seq(Activation) /\ \A k \in 1 .. Len(walk') : FALSE
    BY <1>1
  <1>7. (\A k \in 1 .. Len(walk) : ActOK(walk[k]))'
    BY <1>6
  <1> QED BY <1>1, <1>2, <1>3, <1>5, <1>6, <1>7 DEF WalkInv

LEMMA BeginEmissionInv == ASSUME WalkInv, BeginEmission PROVE WalkInv'
  <1> DEFINE a == Opening(Len(done), EntryArgs(entryFn), MainOnly)
  <1>1. /\ mode = "running" /\ stack = <<>> /\ walk' = <<a>> /\ mode' = "emitting"
        /\ UNCHANGED <<evalVars, entries>>
    BY DEF BeginEmission
  <1>2. done \in Seq(CallTrace) /\ done # <<>> /\ entryFn \in FnName
    BY <1>1 DEF WalkInv, RunningOK, EvalInv, EvalTypeOK
  <1>3. Len(done) \in 1 .. Len(done) /\ MainOnly \in BOOLEAN
    BY <1>2 DEF MainOnly
  <1>4. EntryArgs(entryFn) \in Seq(Value)
    BY <1>2, EntryArgsType DEF WalkInv
  <1>5. a \in Activation /\ ActOK(a)
    BY <1>3, <1>4, OpeningOK DEF WalkInv
  <1> HIDE DEF a
  <1>6. walk' \in Seq(Activation) /\ Len(walk') = 1 /\ walk'[1] = a
    BY <1>1, <1>5
  <1>7. UNCHANGED <<prog, done>>
    BY <1>1 DEF evalVars
  <1>8. (\A k \in 1 .. Len(walk) : ActOK(walk[k]))'
    BY <1>5, <1>6, <1>7 DEF ActOK
  <1>9. EvalInv'
    BY <1>1, StutterInv DEF WalkInv
  <1> QED BY <1>1, <1>6, <1>7, <1>8, <1>9 DEF WalkInv, RunningOK

LEMMA EndEmissionInv == ASSUME WalkInv, EndEmission PROVE WalkInv'
  <1>1. /\ walk = <<>> /\ mode' = "idle" /\ entries' \subseteq entries
        /\ UNCHANGED evalVars /\ UNCHANGED walk
    BY DEF EndEmission
  <1>2. UNCHANGED prog
    BY <1>1 DEF evalVars
  <1>3. EvalInv'
    BY <1>1, StutterInv DEF WalkInv
  <1>4. walk' \in Seq(Activation) /\ \A k \in 1 .. Len(walk') : FALSE
    BY <1>1
  <1>5. (\A k \in 1 .. Len(walk) : ActOK(walk[k]))'
    BY <1>4
  <1> QED BY <1>1, <1>2, <1>3, <1>4, <1>5 DEF WalkInv, RunningOK

LEMMA WalkStutterInv == ASSUME WalkInv, UNCHANGED vars PROVE WalkInv'
  <1>1. UNCHANGED evalVars /\ UNCHANGED <<prog, stack, done, entries, mode, walk>>
    BY DEF vars, evalVars
  <1>2. EvalInv'
    BY <1>1, StutterInv DEF WalkInv
  <1>3. entryFn' = entryFn
    BY <1>1 DEF entryFn, position
  <1>4. RunningOK'
    BY <1>1, <1>3 DEF WalkInv, RunningOK
  <1>5. (\A k \in 1 .. Len(walk) : ActOK(walk[k]))'
    BY <1>1 DEF WalkInv, ActOK
  <1> QED BY <1>1, <1>2, <1>4, <1>5 DEF WalkInv

----------------------------------------------------------------------------
(* The theorems *)

LEMMA InitWalkInv == Init => WalkInv
  <1> SUFFICES ASSUME Init PROVE WalkInv
    OBVIOUS
  <1>1. EvalInv
    BY InitInv DEF Init
  <1>2. mode = "idle" /\ walk = <<>> /\ walk \in Seq(Activation)
    BY DEF Init
  <1>3. entries \subseteq 1 .. Len(prog.decls)
    BY DEF Init, Entries
  <1> QED BY <1>1, <1>2, <1>3 DEF WalkInv, RunningOK

LEMMA NextWalkInv == WalkInv /\ [Next]_vars => WalkInv'
  BY DispatchEntryInv, EvaluateInv, BeginEmissionInv, OpenCallInv, EmitSubCallInv,
     EmitBindingInv, EndBindingsInv, EmitTrailingSubCallInv, CloseCallInv,
     EndEmissionInv, WalkStutterInv
  DEF Next, EmitCallTrace, Stutter

LEMMA WalkInvariant == Spec => []WalkInv
  <1>1. Init => WalkInv
    BY InitWalkInv
  <1>2. WalkInv /\ [Next]_vars => WalkInv'
    BY NextWalkInv
  <1> QED BY <1>1, <1>2, PTL DEF Spec

\* Whatever the programs, evaluator and emission hold what the types of their
\* locals and parameters allow.
THEOREM TypeCorrect == Spec => []TypeOK
  <1>1. WalkInv => TypeOK
    BY DEF WalkInv, EvalInv, TypeOK
  <1> QED BY <1>1, WalkInvariant, PTL

\* Whatever the programs, the sub-calls of every call the recorder evaluates
\* are placed in order and within the call's bindings.
THEOREM RecordedSubCallPlacement == Spec => []SubCallsPlaced
  <1>1. WalkInv => SubCallsPlaced
    BY InvPlaced DEF WalkInv
  <1> QED BY <1>1, WalkInvariant, PTL

\* Whatever the programs, emit_call_trace's equality test never leaves a
\* sub-call behind a binding it passes.
THEOREM WalkComplete == Spec => []NoSubCallLeftBehind
  <1>1. WalkInv => NoSubCallLeftBehind
    BY DEF WalkInv, ActOK, NoSubCallLeftBehind
  <1> QED BY <1>1, WalkInvariant, PTL

=============================================================================
