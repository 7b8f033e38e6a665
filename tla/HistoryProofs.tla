---------------------------- MODULE HistoryProofs ----------------------------
(***************************************************************************)
(* What the recording says of the execution: the stream of records against *)
(* the history `log` of what the evaluator did, for every set of programs. *)
(***************************************************************************)
EXTENDS StructuredTraceProofs, SelectionProofs, SequenceTheorems, FiniteSetTheorems

----------------------------------------------------------------------------
(* What a step of the evaluator does to the running call *)

\* The running frame is replaced by f, which is the same call.
Continues(f) ==
    /\ stack # <<>> /\ ~fr.aborted /\ SetTop(f) /\ Quiet
    /\ f.id = fr.id /\ f.fn = fr.fn /\ f.args = fr.args /\ f.subs = fr.subs

\* Nothing is reported; only an expression with an abort ends the call.
Silent(f) ==
    /\ Continues(f) /\ UNCHANGED log
    /\ f.env = fr.env /\ f.bindings = fr.bindings /\ f.asserts = fr.asserts /\ f.ios = fr.ios
    /\ f.aborted => fr.ep > 0 /\ AbortEmitted(fr)
    /\ f.ep > 0 => f.ioBefore = Len(fr.ios) \/ (fr.ep > 0 /\ f.ioBefore = fr.ioBefore)

\* An io event inside an expression.
Reports(f, tag) ==
    /\ Continues(f) /\ Record(<<Io(tag)>>) /\ fr.ep > 0
    /\ f.env = fr.env /\ f.bindings = fr.bindings /\ f.asserts = fr.asserts
    /\ f.ios = Append(fr.ios, tag)
    /\ ~f.aborted /\ f.ioBefore = fr.ioBefore

\* A `let` binds.
Binds(f, b) ==
    /\ Continues(f)
    /\ Record(<<[ev |-> "bind", id |-> fr.id, name |-> b.name, line |-> b.line, value |-> b.value]>>)
    /\ f.env = [fr.env EXCEPT ![b.name] = b.value]
    /\ f.bindings = Append(fr.bindings, b) /\ f.asserts = fr.asserts /\ f.ios = fr.ios
    /\ fr.ep > 0 /\ f.ep = 0
    /\ f.aborted => AbortEmitted(fr)

\* An assignment or a loop stores.
Writes(f, x, v) ==
    /\ Continues(f)
    /\ Record(<<[ev |-> "write", id |-> fr.id, name |-> x, value |-> v]>>)
    /\ f.env = [fr.env EXCEPT ![x] = v]
    /\ f.bindings = fr.bindings /\ f.asserts = fr.asserts /\ f.ios = fr.ios
    /\ f.ep = 0 /\ ~f.aborted

Asserts(f) ==
    /\ Continues(f)
    /\ Record(<<[ev |-> "assert", id |-> fr.id]>>)
    /\ f.env = fr.env /\ f.bindings = fr.bindings /\ f.ios = fr.ios
    /\ f.asserts = fr.asserts + 1
    /\ f.ep = 0 /\ ~f.aborted

\* A call is entered: c is the caller, which waits, and args what the callee gets.
Enters(c, g, args) ==
    /\ stack # <<>> /\ ~fr.aborted /\ fr.ep > 0
    /\ stack' = Append([stack EXCEPT ![Len(stack)] = c], NewFrame(calls + 1, g, args))
    /\ calls' = calls + 1
    /\ Record(<<[ev |-> "enter", id |-> calls + 1, fn |-> g]>>)
    /\ UNCHANGED <<prog, done>>
    /\ c.id = fr.id /\ c.fn = fr.fn /\ c.args = fr.args /\ c.subs = fr.subs
    /\ c.env = fr.env /\ c.bindings = fr.bindings /\ c.asserts = fr.asserts /\ c.ios = fr.ios
    /\ ~c.aborted /\ c.ioBefore = fr.ioBefore /\ c.after = fr.after /\ c.ep > 0
    /\ g \in prog.known

Effect ==
    \/ \E f \in Frame : Silent(f)
    \/ \E f \in Frame, tag \in IoTag : Reports(f, tag)
    \/ \E f \in Frame, b \in Binding : Binds(f, b)
    \/ \E f \in Frame, x \in Name, v \in Value : Writes(f, x, v)
    \/ \E f \in Frame : Asserts(f)
    \/ \E c \in Frame, g \in FnName, args \in Seq(Value) : Enters(c, g, args)
    \/ FinishCall

\* The frame put in the place of the running one is typed.
LEMMA ReplacedType ==
    ASSUME EvalInv, EvalInv', stack # <<>>, NEW f, SetTop(f)
    PROVE  f \in Frame
  <1>1. stack \in Seq(Frame) /\ Len(stack) \in Nat \ {0}
    BY DEF EvalInv, EvalTypeOK
  <1>2. stack' = [stack EXCEPT ![Len(stack)] = f]
    BY DEF SetTop
  <1>3. Len(stack') = Len(stack) /\ stack'[Len(stack)] = f
    BY <1>1, <1>2
  <1>4. stack' \in Seq(Frame)
    BY DEF EvalInv, EvalTypeOK
  <1> QED BY <1>1, <1>3, <1>4

\* Inside an expression, operands and position change without a report.
LEMMA QuietExpr ==
    ASSUME EvalInv, EvalInv', stack # <<>>, ~fr.aborted, fr.ep > 0, Quiet, UNCHANGED log,
           NEW vs, NEW ep, SetTop([fr EXCEPT !.vals = vs, !.ep = ep])
    PROVE  Effect
  <1>1. PICK f : f = [fr EXCEPT !.vals = vs, !.ep = ep]
    OBVIOUS
  <1>2. SetTop(f)
    BY <1>1
  <1>3. fr \in Frame /\ f \in Frame
    BY <1>2, TopFrame, ReplacedType
  <1>4. /\ f.id = fr.id /\ f.fn = fr.fn /\ f.args = fr.args /\ f.subs = fr.subs
        /\ f.env = fr.env /\ f.bindings = fr.bindings /\ f.asserts = fr.asserts /\ f.ios = fr.ios
        /\ f.aborted = fr.aborted /\ f.ioBefore = fr.ioBefore
    BY <1>1, <1>3 DEF Frame
  <1>5. Silent(f)
    BY <1>2, <1>4 DEF Silent, Continues
  <1> QED BY <1>3, <1>5 DEF Effect

LEMMA QuietExprSteps ==
    ASSUME EvalInv, EvalInv',
           \/ EvalOperand \/ EvalMethod \/ EvalSelect \/ EvalBranch \/ EvalJump
           \/ EvalUnknownCall \/ FallThroughQualifiedCall \/ EvalUnresolved
    PROVE  Effect
  <1>1. stack # <<>> /\ ~fr.aborted /\ fr.ep > 0 /\ Quiet /\ UNCHANGED log
    BY DEF EvalOperand, EvalMethod, EvalSelect, EvalBranch, EvalJump, EvalUnknownCall,
       FallThroughQualifiedCall, EvalUnresolved, AtOp, Running
  <1>2. \E vs, ep : SetTop([fr EXCEPT !.vals = vs, !.ep = ep])
    <2>1. fr \in Frame
      BY <1>1, TopFrame
    <2>2. fr.ep + 1 \in Nat
      BY <2>1 DEF Frame
    <2>3. ASSUME NEW vs, SetTop(Advance(fr, vs))
          PROVE  \E us, ep : SetTop([fr EXCEPT !.vals = us, !.ep = ep])
      BY <2>3 DEF Advance
    <2>4. CASE EvalJump
      <3>1. [fr EXCEPT !.ep = fr.ep + 1 + operation.skip]
            = [fr EXCEPT !.vals = fr.vals, !.ep = fr.ep + 1 + operation.skip]
        BY <2>1 DEF Frame
      <3> QED BY <2>4, <3>1 DEF EvalJump
    <2>5. CASE EvalBranch
      BY <2>5 DEF EvalBranch
    <2> QED BY <2>3, <2>4, <2>5 DEF EvalOperand, EvalMethod, EvalSelect, EvalUnknownCall,
           FallThroughQualifiedCall, EvalUnresolved
  <1>3. PICK vs, ep : SetTop([fr EXCEPT !.vals = vs, !.ep = ep])
    BY <1>2
  <1> QED BY <1>1, <1>3, QuietExpr

\* What the history records.
Event == [ev : {"enter"}, id : Nat, fn : FnName]
         \cup [ev : {"exit"}, id : Nat, rv : Value]
         \cup [ev : {"bind"}, id : Nat, name : Name, line : Line, value : Value]
         \cup [ev : {"write"}, id : Nat, name : Name, value : Value]
         \cup [ev : {"assert"}, id : Nat]
         \cup [ev : {"io"}, id : Nat, tag : IoTag]

\* An operation that reports a tag.
LEMMA ReportingExpr ==
    ASSUME EvalInv, EvalInv', stack # <<>>, ~fr.aborted, fr.ep > 0, Quiet,
           NEW tag \in IoTag, Record(<<Io(tag)>>),
           NEW vs, NEW ep, NEW ios, ios = Append(fr.ios, tag),
           SetTop([fr EXCEPT !.vals = vs, !.ep = ep, !.ios = ios])
    PROVE  Effect
  <1>1. PICK f : f = [fr EXCEPT !.vals = vs, !.ep = ep, !.ios = ios]
    OBVIOUS
  <1>2. SetTop(f)
    BY <1>1
  <1>3. fr \in Frame /\ f \in Frame
    BY <1>2, TopFrame, ReplacedType
  <1>4. /\ f.id = fr.id /\ f.fn = fr.fn /\ f.args = fr.args /\ f.subs = fr.subs
        /\ f.env = fr.env /\ f.bindings = fr.bindings /\ f.asserts = fr.asserts
        /\ f.ios = ios /\ f.aborted = fr.aborted /\ f.ioBefore = fr.ioBefore
    BY <1>1, <1>3 DEF Frame
  <1>5. Reports(f, tag)
    BY <1>2, <1>4 DEF Reports, Continues
  <1> QED BY <1>3, <1>5 DEF Effect

LEMMA EvalBinaryEffect ==
    ASSUME EvalInv, EvalInv', log \in Seq(Event), EvalBinary PROVE Effect
  <1> DEFINE a == AsInt(Operands(2)[1])
             b == AsInt(Operands(2)[2])
             vs == Append(Below(2), Computed(operation.op, a, b))
             events == IF Overflows(operation.op, a, b) THEN <<"LeoOverflow">> ELSE <<>>
  <1>1. stack # <<>> /\ ~fr.aborted /\ fr.ep > 0 /\ Quiet
    BY DEF EvalBinary, AtOp, Running
  <1>2. fr \in Frame /\ fr.ios \in Seq(IoTag)
    BY <1>1, TopFrame DEF Frame
  <1>3. /\ SetTop([fr EXCEPT !.vals = vs, !.ep = fr.ep + 1, !.ios = fr.ios \o events])
        /\ Record([k \in 1 .. Len(events) |-> Io(events[k])])
    BY <1>2 DEF EvalBinary, SetTop, Advance, Frame
  <1> HIDE DEF vs, a, b
  <1>4. CASE events = <<>>
    <2>1. fr.ios \o events = fr.ios
      <3> HIDE DEF events
      <3>1. fr.ios \o <<>> = fr.ios
        BY <1>2, ConcatOne
      <3> QED BY <1>4, <3>1
    <2>2. [k \in 1 .. Len(events) |-> Io(events[k])] = <<>>
      BY <1>4
    <2>3. UNCHANGED log
      BY <1>3, <2>2 DEF Record
    <2>4. [fr EXCEPT !.vals = vs, !.ep = fr.ep + 1, !.ios = fr.ios]
          = [fr EXCEPT !.vals = vs, !.ep = fr.ep + 1]
      BY <1>2 DEF Frame
    <2>5. SetTop([fr EXCEPT !.vals = vs, !.ep = fr.ep + 1])
      BY <1>3, <2>1, <2>4
    <2> QED BY <1>1, <2>3, <2>5, QuietExpr
  <1>5. CASE events = <<"LeoOverflow">>
    <2>1. fr.ios \o events = Append(fr.ios, "LeoOverflow")
      <3> HIDE DEF events
      <3>1. fr.ios \o <<"LeoOverflow">> = Append(fr.ios, "LeoOverflow")
        BY <1>2, ConcatOne DEF IoTag
      <3> QED BY <1>5, <3>1
    <2>2. [k \in 1 .. Len(events) |-> Io(events[k])] = <<Io("LeoOverflow")>>
      BY <1>5
    <2>3. "LeoOverflow" \in IoTag
      BY DEF IoTag
    <2>4. Record(<<Io("LeoOverflow")>>)
      BY <1>3, <2>2
    <2>5. SetTop([fr EXCEPT !.vals = vs, !.ep = fr.ep + 1, !.ios = Append(fr.ios, "LeoOverflow")])
      BY <1>3, <2>1
    <2> HIDE DEF events
    <2> QED BY <1>1, <2>3, <2>4, <2>5, ReportingExpr
  <1> QED BY <1>4, <1>5

LEMMA EvalBuiltinEffect == ASSUME EvalInv, EvalInv', EvalBuiltin PROVE Effect
  <1> DEFINE m == operation.method
             vs == Append(Below(operation.n), BuiltinValue(m, Operands(operation.n)))
  <1>1. /\ stack # <<>> /\ ~fr.aborted /\ fr.ep > 0 /\ Quiet /\ Record(<<Io(BuiltinTag[m])>>)
        /\ operation \in Op /\ operation.op \in {"builtin"}
    BY OperationType DEF EvalBuiltin, AtOp, Running
  <1>2. BuiltinTag[m] \in IoTag
    <2>1. m \in Builtin
      BY <1>1 DEF Op, BinaryOp, Checked, Comparison
    <2> QED BY <2>1 DEF Builtin, BuiltinTag, IoTag
  <1>3. fr \in Frame
    BY <1>1, TopFrame
  <1>4. SetTop([fr EXCEPT !.vals = vs, !.ep = fr.ep + 1, !.ios = Append(fr.ios, BuiltinTag[m])])
    BY <1>3 DEF EvalBuiltin, SetTop, Advance, Frame
  <1>5. PICK tag \in IoTag : tag = BuiltinTag[m]
    BY <1>2
  <1> HIDE DEF m, vs
  <1> QED BY <1>1, <1>4, <1>5, ReportingExpr

\* A call of a known function.
LEMMA EntersEffect ==
    ASSUME EvalInv, EvalInv', stack # <<>>, ~fr.aborted, fr.ep > 0,
           NEW g \in prog.known, g \in FnName, NEW n \in Nat, NEW skip \in Nat,
           EnterCallee(g, n, skip)
    PROVE  Effect
  <1>1. PICK c : c = [fr EXCEPT !.vals = Below(n), !.ep = @ + 1 + skip]
    OBVIOUS
  <1>2. PICK args : args = Formals(g, Operands(n))
    OBVIOUS
  <1>3. fr \in Frame /\ fr.ep \in Nat /\ Below(n) \in Seq(Value)
    BY TopFrame, OperandsType DEF Frame
  <1>4. args \in Seq(Value)
    BY <1>2, OperandsType, FormalsType
  <1>5. c \in Frame
    <2>1. fr.ep + 1 + skip \in Nat
      BY <1>3
    <2> QED BY <1>1, <1>3, <2>1 DEF Frame
  <1>6. /\ c.id = fr.id /\ c.fn = fr.fn /\ c.args = fr.args /\ c.subs = fr.subs
        /\ c.env = fr.env /\ c.bindings = fr.bindings /\ c.asserts = fr.asserts /\ c.ios = fr.ios
        /\ c.aborted = fr.aborted /\ c.ioBefore = fr.ioBefore /\ c.after = fr.after
        /\ c.ep = fr.ep + 1 + skip
    BY <1>1, <1>3 DEF Frame
  <1>7. c.ep > 0
    BY <1>3, <1>6
  <1>8. /\ stack' = Append([stack EXCEPT ![Len(stack)] = c], NewFrame(calls + 1, g, args))
        /\ calls' = calls + 1 /\ UNCHANGED <<prog, done>>
        /\ Record(<<[ev |-> "enter", id |-> calls + 1, fn |-> g]>>)
    BY <1>1, <1>2 DEF EnterCallee
  <1>9. Enters(c, g, args)
    BY <1>6, <1>7, <1>8 DEF Enters
  <1> QED BY <1>4, <1>5, <1>9 DEF Effect

LEMMA CallEffect ==
    ASSUME EvalInv, EvalInv', EvalCall \/ EvalQualifiedCall PROVE Effect
  <1>1. stack # <<>> /\ ~fr.aborted /\ fr.ep > 0
    BY DEF EvalCall, EvalQualifiedCall, AtOp, Running
  <1>2. operation \in Op /\ operation.op \in {"call", "qualified"}
    BY OperationType DEF EvalCall, EvalQualifiedCall
  <1>3. operation.callee \in FnName /\ operation.n \in Nat
    BY <1>2 DEF Op, BinaryOp, Checked, Comparison
  <1>4. CASE EvalCall
    <2>1. operation.callee \in prog.known /\ EnterCallee(operation.callee, operation.n, 0)
      BY <1>4 DEF EvalCall
    <2> QED BY <1>1, <1>3, <2>1, EntersEffect
  <1>5. CASE EvalQualifiedCall
    <2>1. operation.op \in {"qualified"}
      BY <1>5, OperationType DEF EvalQualifiedCall
    <2>2. operation.skip \in Nat
      BY <1>2, <2>1 DEF Op, BinaryOp, Checked, Comparison
    <2>3. /\ operation.callee \in prog.known
          /\ EnterCallee(operation.callee, operation.n, operation.skip)
      BY <1>5 DEF EvalQualifiedCall
    <2> QED BY <1>1, <1>3, <2>2, <2>3, EntersEffect
  <1> QED BY <1>4, <1>5

\* The statements that report nothing.
LEMMA SilentStatements ==
    ASSUME EvalInv, EvalInv',
           BeginExpr \/ CommitReturn \/ CommitExprStmt \/ SkipFor \/ EndFor
    PROVE  Effect
  <1>1. stack # <<>> /\ ~fr.aborted /\ Quiet /\ UNCHANGED log
    BY DEF BeginExpr, CommitReturn, CommitExprStmt, SkipFor, EndFor, AtStmt, AtBlockEnd,
       BetweenStmts, Evaluated, Running
  <1>2. fr \in Frame
    BY <1>1, TopFrame
  <1>3. \E f : /\ SetTop(f)
               /\ f.id = fr.id /\ f.fn = fr.fn /\ f.args = fr.args /\ f.subs = fr.subs
               /\ f.env = fr.env /\ f.bindings = fr.bindings
               /\ f.asserts = fr.asserts /\ f.ios = fr.ios
               /\ f.aborted => fr.ep > 0 /\ AbortEmitted(fr)
               /\ f.ep > 0 => f.ioBefore = Len(fr.ios)
    <2>1. CASE BeginExpr
      <3>1. PICK f : f = [fr EXCEPT !.ep = 1, !.vals = <<>>, !.after = Len(fr.bindings),
                                    !.ioBefore = Len(fr.ios)]
        OBVIOUS
      <3>2. SetTop(f)
        BY <2>1, <3>1 DEF BeginExpr
      <3>3. /\ f.id = fr.id /\ f.fn = fr.fn /\ f.args = fr.args /\ f.subs = fr.subs
            /\ f.env = fr.env /\ f.bindings = fr.bindings
            /\ f.asserts = fr.asserts /\ f.ios = fr.ios
            /\ f.aborted = fr.aborted /\ f.ioBefore = Len(fr.ios)
        BY <1>2, <3>1 DEF Frame
      <3> QED BY <1>1, <3>2, <3>3
    <2>2. CASE CommitReturn
      <3>1. PICK f : f = [fr EXCEPT !.rv = Result(fr), !.ep = 0, !.code = MoveTo(Len(block) + 1)]
        OBVIOUS
      <3>2. SetTop(f)
        BY <2>2, <3>1 DEF CommitReturn
      <3>3. /\ f.id = fr.id /\ f.fn = fr.fn /\ f.args = fr.args /\ f.subs = fr.subs
            /\ f.env = fr.env /\ f.bindings = fr.bindings
            /\ f.asserts = fr.asserts /\ f.ios = fr.ios
            /\ f.aborted = fr.aborted /\ f.ep = 0
        BY <1>2, <3>1 DEF Frame
      <3>4. ~(f.ep > 0)
        BY <3>3
      <3> QED BY <1>1, <3>2, <3>3, <3>4
    <2>3. CASE CommitExprStmt
      <3>1. PICK f : f = [fr EXCEPT !.aborted = AbortEmitted(fr), !.ep = 0,
                                    !.code = MoveTo(cursor.pc + 1)]
        OBVIOUS
      <3>2. SetTop(f) /\ fr.ep > 0
        BY <2>3, <3>1 DEF CommitExprStmt, Evaluated
      <3>3. f.aborted = AbortEmitted(fr) /\ f.ep = 0
        BY <1>2, <3>1 DEF Frame
      <3>4. f.aborted => AbortEmitted(fr)
        BY <3>3
      <3>5. ~(f.ep > 0)
        BY <3>3
      <3>6. /\ f.id = fr.id /\ f.fn = fr.fn /\ f.args = fr.args /\ f.subs = fr.subs
            /\ f.env = fr.env /\ f.bindings = fr.bindings
            /\ f.asserts = fr.asserts /\ f.ios = fr.ios
        BY <1>2, <3>1 DEF Frame
      <3> QED BY <3>2, <3>4, <3>5, <3>6
    <2>4. CASE SkipFor
      <3>1. PICK f : f = [fr EXCEPT !.code = MoveTo(cursor.pc + 1)]
        OBVIOUS
      <3>2. SetTop(f) /\ fr.ep = 0
        BY <2>4, <3>1 DEF SkipFor, AtStmt, BetweenStmts
      <3>3. /\ f.id = fr.id /\ f.fn = fr.fn /\ f.args = fr.args /\ f.subs = fr.subs
            /\ f.env = fr.env /\ f.bindings = fr.bindings
            /\ f.asserts = fr.asserts /\ f.ios = fr.ios
            /\ f.aborted = fr.aborted /\ f.ep = fr.ep
        BY <1>2, <3>1 DEF Frame
      <3>4. ~(f.ep > 0)
        BY <3>2, <3>3
      <3> QED BY <1>1, <3>2, <3>3, <3>4
    <2>5. CASE EndFor
      <3>1. PICK code : SetTop([fr EXCEPT !.code = code])
        BY <2>5 DEF EndFor
      <3>2. PICK f : f = [fr EXCEPT !.code = code]
        OBVIOUS
      <3>3. SetTop(f) /\ fr.ep = 0
        BY <2>5, <3>1, <3>2 DEF EndFor, AtBlockEnd, BetweenStmts
      <3>4. /\ f.id = fr.id /\ f.fn = fr.fn /\ f.args = fr.args /\ f.subs = fr.subs
            /\ f.env = fr.env /\ f.bindings = fr.bindings
            /\ f.asserts = fr.asserts /\ f.ios = fr.ios
            /\ f.aborted = fr.aborted /\ f.ep = fr.ep
        BY <1>2, <3>2 DEF Frame
      <3>5. ~(f.ep > 0)
        BY <3>3, <3>4
      <3> QED BY <1>1, <3>3, <3>4, <3>5
    <2> QED BY <2>1, <2>2, <2>3, <2>4, <2>5
  <1>4. PICK f : /\ SetTop(f)
                 /\ f.id = fr.id /\ f.fn = fr.fn /\ f.args = fr.args /\ f.subs = fr.subs
                 /\ f.env = fr.env /\ f.bindings = fr.bindings
                 /\ f.asserts = fr.asserts /\ f.ios = fr.ios
                 /\ f.aborted => fr.ep > 0 /\ AbortEmitted(fr)
                 /\ f.ep > 0 => f.ioBefore = Len(fr.ios)
    BY <1>3
  <1>5. f \in Frame
    BY <1>1, <1>4, ReplacedType
  <1>6. Silent(f)
    BY <1>1, <1>4 DEF Silent, Continues
  <1> QED BY <1>5, <1>6 DEF Effect

LEMMA CommitLetEffect == ASSUME EvalInv, EvalInv', CommitLet PROVE Effect
  <1>1. stack # <<>> /\ ~fr.aborted /\ fr.ep > 0 /\ Quiet /\ stmt.kind = "let"
    BY DEF CommitLet, Evaluated, Running
  <1>2. fr \in Frame /\ stmt \in Stmt
    BY <1>1, TopFrame, StmtType
  <1>3. stmt.name \in Name /\ stmt.line \in Line /\ stmt.mutable \in BOOLEAN
    BY <1>1, <1>2 DEF Stmt
  <1>4. Result(fr) \in Value
    BY <1>2, ResultType
  <1>5. PICK b : b = [name |-> stmt.name, line |-> stmt.line, mutable |-> stmt.mutable,
                      value |-> Result(fr)]
    OBVIOUS
  <1>6. /\ b \in Binding /\ b.name = stmt.name /\ b.line = stmt.line /\ b.value = Result(fr)
    BY <1>3, <1>4, <1>5 DEF Binding
  <1>7. PICK f : f = [fr EXCEPT !.env[stmt.name] = Result(fr), !.bindings = Append(@, b),
                                !.aborted = AbortEmitted(fr), !.ep = 0,
                                !.code = MoveTo(cursor.pc + 1)]
    OBVIOUS
  <1>8. SetTop(f) /\ Record(<<[ev |-> "bind", id |-> fr.id, name |-> b.name, line |-> b.line,
                               value |-> b.value]>>)
    BY <1>5, <1>6, <1>7 DEF CommitLet
  <1>9. /\ f.id = fr.id /\ f.fn = fr.fn /\ f.args = fr.args /\ f.subs = fr.subs
        /\ f.env = [fr.env EXCEPT ![b.name] = b.value]
        /\ f.bindings = Append(fr.bindings, b)
        /\ f.asserts = fr.asserts /\ f.ios = fr.ios /\ f.ep = 0
    BY <1>2, <1>6, <1>7 DEF Frame
  <1>10. f.aborted => AbortEmitted(fr)
    BY <1>2, <1>7 DEF Frame
  <1>11. f \in Frame
    BY <1>1, <1>8, ReplacedType
  <1>12. Binds(f, b)
    BY <1>1, <1>8, <1>9, <1>10 DEF Binds, Continues
  <1> QED BY <1>6, <1>11, <1>12 DEF Effect

\* An assignment, and the counter a loop stores.
LEMMA StoreEffect ==
    ASSUME EvalInv, EvalInv', stack # <<>>, ~fr.aborted, Quiet,
           NEW x \in Name, NEW v \in Value, NEW code,
           SetTop([fr EXCEPT !.env[x] = v, !.ep = 0, !.code = code]),
           Record(<<[ev |-> "write", id |-> fr.id, name |-> x, value |-> v]>>)
    PROVE  Effect
  <1>1. PICK f : f = [fr EXCEPT !.env[x] = v, !.ep = 0, !.code = code]
    OBVIOUS
  <1>2. SetTop(f)
    BY <1>1
  <1>3. fr \in Frame /\ f \in Frame
    BY <1>2, TopFrame, ReplacedType
  <1>4. /\ f.id = fr.id /\ f.fn = fr.fn /\ f.args = fr.args /\ f.subs = fr.subs
        /\ f.env = [fr.env EXCEPT ![x] = v] /\ f.bindings = fr.bindings
        /\ f.asserts = fr.asserts /\ f.ios = fr.ios /\ f.aborted = fr.aborted /\ f.ep = 0
    BY <1>1, <1>3 DEF Frame
  <1>5. Writes(f, x, v)
    BY <1>2, <1>4 DEF Writes, Continues
  <1> QED BY <1>3, <1>5 DEF Effect

LEMMA CommitAssignEffect == ASSUME EvalInv, EvalInv', CommitAssign PROVE Effect
  <1>1. stack # <<>> /\ ~fr.aborted /\ fr.ep > 0 /\ Quiet /\ stmt.kind = "assign"
    BY DEF CommitAssign, Evaluated, Running
  <1>2. fr \in Frame /\ stmt \in Stmt
    BY <1>1, TopFrame, StmtType
  <1>3. stmt.name \in Name /\ Result(fr) \in Value
    BY <1>1, <1>2, ResultType DEF Stmt
  <1> QED BY <1>1, <1>3, StoreEffect DEF CommitAssign

\* A loop's counter is stored in its variable.
LEMMA IterateEffect ==
    ASSUME EvalInv, EvalInv', stack # <<>>, ~fr.aborted, fr.ep = 0, Quiet,
           NEW s, s.var \in Name, NEW i \in Int, NEW code,
           SetTop(Iterate(fr, code, s, i)), Record(<<LoopWrite(s, i)>>)
    PROVE  Effect
  <1>1. fr \in Frame /\ Wrap(i) \in Value
    BY TopFrame, WrapType
  <1>2. PICK x \in Name : x = s.var
    OBVIOUS
  <1>3. PICK v \in Value : v = Wrap(i)
    BY <1>1
  <1>4. Iterate(fr, code, s, i) = [fr EXCEPT !.env[x] = v, !.ep = 0, !.code = code]
    BY <1>1, <1>2, <1>3 DEF Iterate, Frame
  <1>5. LoopWrite(s, i) = [ev |-> "write", id |-> fr.id, name |-> x, value |-> v]
    BY <1>2, <1>3 DEF LoopWrite
  <1> QED BY <1>4, <1>5, StoreEffect

LEMMA EnterForEffect == ASSUME EvalInv, EvalInv', EnterFor PROVE Effect
  <1>1. /\ stack # <<>> /\ ~fr.aborted /\ fr.ep = 0 /\ Quiet
        /\ stmt.kind = "for" /\ cursor.pc <= Len(block)
    BY DEF EnterFor, AtStmt, BetweenStmts, Running
  <1>2. stmt \in Stmt
    <2>1. block \in Seq(Stmt) /\ cursor \in Cursor
      BY <1>1, TopFrame
    <2>2. cursor.pc \in 1 .. Len(block)
      BY <1>1, <2>1 DEF Cursor
    <2> QED BY <2>1, <2>2 DEF stmt
  <1>3. stmt.var \in Name /\ stmt.lo \in Int
    BY <1>1, <1>2 DEF Stmt
  <1> QED BY <1>1, <1>3, IterateEffect DEF EnterFor

\* The activation below the innermost is at a `for`.
LEMMA LoopType ==
    ASSUME EvalInv, stack # <<>>, Len(fr.code) > 1
    PROVE  loop \in Stmt /\ loop.kind = "for"
  <1>0. Len(fr.code) \in Nat \ {0}
    BY CodeParts
  <1>1. PICK n \in Nat : n = Len(fr.code) - 1
    BY <1>0
  <1>2. n \in 1 .. Len(fr.code) /\ n \in 1 .. Len(fr.code) - 1
    BY <1>1, CodeParts
  <1>3. PICK c : c = fr.code[n]
    OBVIOUS
  <1>4. c.block \in 1 .. Len(prog.fns[fr.fn].blocks) /\ AtFor(fr.fn, c)
    BY <1>2, <1>3, CodeParts
  <1>5. prog.fns[fr.fn].blocks \in Seq(Seq(Stmt))
    BY TopFrame DEF Fn
  <1>6. PICK b \in Seq(Stmt) : b = prog.fns[fr.fn].blocks[c.block]
    BY <1>4, <1>5
  <1>7. c.pc \in 1 .. Len(b) /\ b[c.pc].kind = "for"
    BY <1>4, <1>6 DEF AtFor
  <1>8. loop = b[c.pc]
    BY <1>1, <1>3, <1>6 DEF loop
  <1> QED BY <1>6, <1>7, <1>8

LEMMA NextIterationEffect == ASSUME EvalInv, EvalInv', NextIteration PROVE Effect
  <1>1. stack # <<>> /\ ~fr.aborted /\ fr.ep = 0 /\ Quiet /\ Len(fr.code) > 1
    BY DEF NextIteration, AtBlockEnd, BetweenStmts, Running
  <1>2. loop.var \in Name
    BY <1>1, LoopType DEF Stmt
  <1>3. cursor.i + 1 \in Int
    BY <1>1, CodeParts
  <1> QED BY <1>1, <1>2, <1>3, IterateEffect DEF NextIteration

LEMMA ExecAssertEffect == ASSUME EvalInv, EvalInv', ExecAssert PROVE Effect
  <1>1. stack # <<>> /\ ~fr.aborted /\ fr.ep = 0 /\ Quiet
    BY DEF ExecAssert, AtStmt, BetweenStmts, Running
  <1>2. fr \in Frame
    BY <1>1, TopFrame
  <1>3. PICK f : f = [fr EXCEPT !.asserts = @ + 1, !.code = MoveTo(cursor.pc + 1)]
    OBVIOUS
  <1>4. SetTop(f) /\ Record(<<[ev |-> "assert", id |-> fr.id]>>)
    BY <1>3 DEF ExecAssert
  <1>5. /\ f.id = fr.id /\ f.fn = fr.fn /\ f.args = fr.args /\ f.subs = fr.subs
        /\ f.env = fr.env /\ f.bindings = fr.bindings
        /\ f.asserts = fr.asserts + 1 /\ f.ios = fr.ios /\ f.aborted = fr.aborted
        /\ f.ep = fr.ep
    BY <1>2, <1>3 DEF Frame
  <1>6. Asserts(f)
    BY <1>1, <1>4, <1>5 DEF Asserts, Continues
  <1>7. f \in Frame
    BY <1>1, <1>4, ReplacedType
  <1> QED BY <1>6, <1>7 DEF Effect

\* Whatever the step, its effect is one of these.
LEMMA StepEffect ==
    ASSUME EvalInv, EvalStep, log \in Seq(Event) PROVE Effect
  <1>1. EvalInv'
    BY StepInv
  <1>2. CASE EvalExpr
    BY <1>1, <1>2, QuietExprSteps, EvalBinaryEffect, EvalBuiltinEffect, CallEffect DEF EvalExpr
  <1>3. CASE ExecuteBlock
    BY <1>1, <1>3, SilentStatements, CommitLetEffect, CommitAssignEffect, ExecAssertEffect,
       EnterForEffect, NextIterationEffect DEF ExecuteBlock
  <1>4. CASE FinishCall
    BY <1>4 DEF Effect
  <1> QED BY <1>2, <1>3, <1>4 DEF EvalStep

----------------------------------------------------------------------------
(* What a step does to the stack and to the finished calls *)

\* The frames below the running one stay.
LEMMA ContinuesStack ==
    ASSUME EvalInv, NEW f \in Frame, Continues(f)
    PROVE  /\ stack \in Seq(Frame) /\ stack' \in Seq(Frame)
           /\ Len(stack) \in Nat \ {0} /\ Len(stack') = Len(stack)
           /\ \A k \in 1 .. Len(stack) : stack'[k] = IF k = Len(stack) THEN f ELSE stack[k]
           /\ fr = stack[Len(stack)] /\ fr \in Frame
           /\ done' = done /\ calls' = calls /\ prog' = prog
  <1>1. stack \in Seq(Frame) /\ Len(stack) \in Nat \ {0} /\ fr \in Frame
    BY TopFrame DEF Continues, EvalInv, EvalTypeOK
  <1>2. stack' = [stack EXCEPT ![Len(stack)] = f]
    BY DEF Continues, SetTop
  <1>3. /\ stack' \in Seq(Frame) /\ Len(stack') = Len(stack)
        /\ \A k \in 1 .. Len(stack) : stack'[k] = IF k = Len(stack) THEN f ELSE stack[k]
    BY <1>1, <1>2
  <1> QED BY <1>1, <1>3 DEF Continues, Quiet, fr

\* The caller waits below the callee's fresh frame.
LEMMA EntersStack ==
    ASSUME EvalInv, NEW c \in Frame, NEW g \in FnName, NEW args \in Seq(Value), Enters(c, g, args)
    PROVE  /\ stack \in Seq(Frame) /\ stack' \in Seq(Frame)
           /\ Len(stack) \in Nat \ {0} /\ Len(stack') = Len(stack) + 1
           /\ \A k \in 1 .. Len(stack) : stack'[k] = IF k = Len(stack) THEN c ELSE stack[k]
           /\ stack'[Len(stack) + 1] = NewFrame(calls + 1, g, args)
           /\ NewFrame(calls + 1, g, args) \in Frame
           /\ fr = stack[Len(stack)] /\ fr \in Frame
           /\ calls \in Nat /\ calls' = calls + 1 /\ done' = done /\ prog' = prog
  <1>1. /\ stack \in Seq(Frame) /\ Len(stack) \in Nat \ {0} /\ fr \in Frame
        /\ calls \in Nat /\ calls + 1 \in Nat
    BY TopFrame DEF Enters, EvalInv, EvalTypeOK
  <1>2. PICK new : new = NewFrame(calls + 1, g, args)
    OBVIOUS
  <1>3. new \in Frame
    BY <1>1, <1>2, NewFrameOK
  <1>4. stack' = Append([stack EXCEPT ![Len(stack)] = c], new)
    BY <1>2 DEF Enters
  <1>5. PICK s : s = [stack EXCEPT ![Len(stack)] = c]
    OBVIOUS
  <1>6. /\ s \in Seq(Frame) /\ Len(s) = Len(stack)
        /\ \A k \in 1 .. Len(stack) : s[k] = IF k = Len(stack) THEN c ELSE stack[k]
    BY <1>1, <1>5
  <1>7. stack' = Append(s, new)
    BY <1>4, <1>5
  <1>8. /\ stack' \in Seq(Frame) /\ Len(stack') = Len(s) + 1 /\ stack'[Len(s) + 1] = new
        /\ \A k \in 1 .. Len(s) : stack'[k] = s[k]
    BY <1>3, <1>6, <1>7, AppendElement
  <1>9. \A k \in 1 .. Len(stack) : stack'[k] = IF k = Len(stack) THEN c ELSE stack[k]
    BY <1>6, <1>8
  <1> QED BY <1>1, <1>2, <1>3, <1>6, <1>8, <1>9 DEF Enters, fr

\* The caller as FinishCall leaves it.
Resumed(f, caller) ==
    [caller EXCEPT !.vals = Append(@, TraceOf(f).rv), !.subs = Append(@, SubCallOf(f, caller))]

\* A finished call leaves its CallTrace, and its caller resumes.
LEMMA FinishStack ==
    ASSUME EvalInv, FinishCall
    PROVE  /\ stack \in Seq(Frame) /\ Len(stack) \in Nat \ {0}
           /\ fr = stack[Len(stack)] /\ fr \in Frame /\ FrameOK(fr)
           /\ done \in Seq(CallTrace) /\ done' \in Seq(CallTrace)
           /\ Len(done) \in Nat /\ Len(done') = Len(done) + 1
           /\ \A k \in 1 .. Len(done) : done'[k] = done[k]
           /\ done'[Len(done) + 1] = TraceOf(fr) /\ TraceOf(fr) \in CallTrace
           /\ calls' = calls /\ prog' = prog
           /\ Len(stack) = 1 => stack' = <<>>
           /\ Len(stack) # 1 =>
                  /\ Len(stack) - 1 \in 1 .. Len(stack) - 1
                  /\ stack' \in Seq(Frame) /\ Len(stack') = Len(stack) - 1
                  /\ \A k \in 1 .. Len(stack) - 1 :
                         stack'[k] = IF k = Len(stack) - 1
                                     THEN Resumed(fr, stack[Len(stack) - 1]) ELSE stack[k]
                  /\ stack[Len(stack) - 1] \in Frame /\ FrameOK(stack[Len(stack) - 1])
                  /\ stack[Len(stack) - 1].ep > 0
                  /\ Resumed(fr, stack[Len(stack) - 1]) \in Frame
  <1>1. /\ stack \in Seq(Frame) /\ Len(stack) \in Nat \ {0} /\ fr \in Frame /\ FrameOK(fr)
        /\ done \in Seq(CallTrace) /\ fr = stack[Len(stack)]
    BY TopFrame DEF FinishCall, EvalInv, EvalTypeOK, fr
  <1>2. PICK t : t = TraceOf(fr)
    OBVIOUS
  <1>3. t \in CallTrace
    BY <1>1, <1>2, TraceOfType
  <1>4. done' = Append(done, t) /\ calls' = calls /\ prog' = prog
    BY <1>2 DEF FinishCall
  <1>5. /\ done' \in Seq(CallTrace) /\ Len(done) \in Nat /\ Len(done') = Len(done) + 1
        /\ \A k \in 1 .. Len(done) : done'[k] = done[k]
        /\ done'[Len(done) + 1] = t
    BY <1>1, <1>3, <1>4, AppendElement
  <1>6. Len(stack) = 1 => stack' = <<>>
    BY DEF FinishCall
  <1>7. ASSUME Len(stack) # 1
        PROVE  /\ Len(stack) - 1 \in 1 .. Len(stack) - 1
               /\ stack' \in Seq(Frame) /\ Len(stack') = Len(stack) - 1
               /\ \A k \in 1 .. Len(stack) - 1 :
                      stack'[k] = IF k = Len(stack) - 1
                                  THEN Resumed(fr, stack[Len(stack) - 1]) ELSE stack[k]
               /\ stack[Len(stack) - 1] \in Frame /\ FrameOK(stack[Len(stack) - 1])
               /\ stack[Len(stack) - 1].ep > 0
               /\ Resumed(fr, stack[Len(stack) - 1]) \in Frame
    <2>0. Len(stack) - 1 \in Nat \ {0}
      BY <1>1, <1>7
    <2>1. PICK n \in Nat \ {0} : n = Len(stack) - 1
      BY <2>0
    <2>2. n \in 1 .. n /\ n \in 1 .. Len(stack) - 1 /\ n \in 1 .. Len(stack) /\ Len(stack) = n + 1
      BY <1>1, <2>1
    <2>3. PICK caller \in Frame : caller = stack[n]
      BY <1>1, <2>2
    <2>4. FrameOK(caller) /\ caller.ep > 0
      BY <2>2, <2>3 DEF EvalInv
    <2>5. SubCallOf(fr, caller) \in SubCall
      BY <1>1, <2>4, SubCallPlaced
    <2>6. PICK r : r = Resumed(fr, caller)
      OBVIOUS
    <2>7. r \in Frame
      <3>1. TraceOf(fr).rv \in Value
        BY <1>2, <1>3 DEF CallTrace
      <3>2. Append(caller.vals, TraceOf(fr).rv) \in Seq(Value)
        BY <3>1 DEF Frame
      <3>3. Append(caller.subs, SubCallOf(fr, caller)) \in Seq(SubCall)
        BY <2>5 DEF Frame
      <3> QED BY <2>6, <3>2, <3>3 DEF Frame, Resumed
    <2>8. stack' = [Front(stack) EXCEPT ![n] = r]
      <3>1. stack' = [Front(stack) EXCEPT ![Len(stack) - 1] =
                         [stack[Len(stack) - 1] EXCEPT
                             !.vals = Append(@, TraceOf(fr).rv),
                             !.subs = Append(@, SubCallOf(fr, stack[Len(stack) - 1]))]]
        BY <1>7 DEF FinishCall
      <3> QED BY <2>1, <2>3, <2>6, <3>1 DEF Resumed
    <2>9. PICK s : s = Front(stack)
      OBVIOUS
    <2>10. s \in Seq(Frame) /\ Len(s) = n /\ \A k \in 1 .. n : s[k] = stack[k]
      BY <1>1, <2>1, <2>2, <2>9 DEF Front
    <2>11. stack' = [s EXCEPT ![n] = r]
      BY <2>8, <2>9
    <2>12. /\ stack' \in Seq(Frame) /\ Len(stack') = n
           /\ \A k \in 1 .. n : stack'[k] = IF k = n THEN r ELSE s[k]
      BY <2>2, <2>7, <2>10, <2>11
    <2> QED BY <2>1, <2>2, <2>3, <2>4, <2>6, <2>7, <2>10, <2>12
  <1> QED BY <1>1, <1>2, <1>3, <1>4, <1>5, <1>6, <1>7

----------------------------------------------------------------------------
(* Calls are numbered as they start *)

\* The sub-calls of c are of known functions and started after it.
SubsLater(c) ==
    \A j \in 1 .. Len(c.subs) :
        c.subs[j].callee \in prog.known /\ done[c.subs[j].trace].id > c.id

\* The numbers of the open calls grow, and no finished call has one of them.
CallsNumbered ==
    /\ \A k \in 1 .. Len(stack) :
           stack[k].id \in 1 .. calls /\ stack[k].fn \in prog.known /\ SubsLater(stack[k])
    /\ \A k \in 1 .. Len(stack) : \A j \in 1 .. k - 1 : stack[j].id < stack[k].id
    /\ \A k \in 1 .. Len(done) :
           /\ done[k].id \in 1 .. calls /\ SubsLater(done[k])
           /\ \A j \in 1 .. Len(stack) : stack[j].id # done[k].id

\* The history is of calls that have started.
LogTyped == log \in Seq(Event) /\ \A k \in 1 .. Len(log) : log[k].id \in 1 .. calls

\* When main is the one entry point, it is the first call.
MainFirst ==
    MainOnly =>
        /\ \A a, b \in entries : a = b
        /\ mode = "idle" /\ entries # {} => calls = 0
        /\ mode = "running" /\ stack # <<>> => stack[1].id = 1
        /\ mode = "running" /\ stack = <<>> => done[Len(done)].id = 1
        /\ walk # <<>> => done[walk[1].trace].id = 1

\* The walk started at the entry point's CallTrace, follows calls into later
\* calls and has opened all of its activations but perhaps the last.
WalkNests ==
    /\ mode # "running" => stack = <<>>
    /\ walk # <<>> => walk[1].trace = Len(done)
    /\ \A k \in 1 .. Len(walk) : walk[k].entry <=> MainOnly /\ k = 1
    /\ \A k \in 1 .. Len(walk) - 1 : walk[k].at # "open"
    /\ \A k \in 1 .. Len(walk) : \A j \in 1 .. k - 1 :
           done[walk[j].trace].id < done[walk[k].trace].id

HistoryInv == WalkInv /\ CallsNumbered /\ LogTyped /\ MainFirst /\ WalkNests

\* The identity of the open calls is kept.
SameCalls ==
    /\ Len(stack') = Len(stack)
    /\ \A k \in 1 .. Len(stack) : /\ stack'[k].id = stack[k].id /\ stack'[k].fn = stack[k].fn
                                  /\ stack'[k].subs = stack[k].subs
    /\ done' = done /\ calls' = calls /\ prog' = prog

LEMMA ContinuesSame ==
    ASSUME EvalInv, NEW f \in Frame, Continues(f) PROVE SameCalls
  <1>1. /\ Len(stack) \in Nat \ {0} /\ Len(stack') = Len(stack)
        /\ \A k \in 1 .. Len(stack) : stack'[k] = IF k = Len(stack) THEN f ELSE stack[k]
        /\ fr = stack[Len(stack)]
        /\ done' = done /\ calls' = calls /\ prog' = prog
    BY ContinuesStack
  <1>2. f.id = fr.id /\ f.fn = fr.fn /\ f.subs = fr.subs
    BY DEF Continues
  <1>3. \A k \in 1 .. Len(stack) : /\ stack'[k].id = stack[k].id /\ stack'[k].fn = stack[k].fn
                                   /\ stack'[k].subs = stack[k].subs
    BY <1>1, <1>2
  <1> QED BY <1>1, <1>3 DEF SameCalls

LEMMA SameCallsNumbered == ASSUME CallsNumbered, SameCalls PROVE CallsNumbered'
  <1>1. (\A k \in 1 .. Len(stack) :
            stack[k].id \in 1 .. calls /\ stack[k].fn \in prog.known /\ SubsLater(stack[k]))'
    BY DEF CallsNumbered, SameCalls, SubsLater
  <1>2. (\A k \in 1 .. Len(stack) : \A j \in 1 .. k - 1 : stack[j].id < stack[k].id)'
    <2> SUFFICES ASSUME NEW k \in 1 .. Len(stack'), NEW j \in 1 .. k - 1
                 PROVE  stack'[j].id < stack'[k].id
      OBVIOUS
    <2>1. k \in 1 .. Len(stack) /\ j \in 1 .. Len(stack)
      BY DEF SameCalls
    <2>2. stack[j].id < stack[k].id
      BY <2>1 DEF CallsNumbered
    <2> QED BY <2>1, <2>2 DEF SameCalls
  <1>3. (\A k \in 1 .. Len(done) :
            /\ done[k].id \in 1 .. calls /\ SubsLater(done[k])
            /\ \A j \in 1 .. Len(stack) : stack[j].id # done[k].id)'
    BY DEF CallsNumbered, SameCalls, SubsLater
  <1> QED BY <1>1, <1>2, <1>3 DEF CallsNumbered

LEMMA EntersNumbered ==
    ASSUME EvalInv, CallsNumbered,
           NEW c \in Frame, NEW g \in FnName, NEW args \in Seq(Value), Enters(c, g, args)
    PROVE  CallsNumbered'
  <1>1. PICK new \in Frame : new = NewFrame(calls + 1, g, args)
    BY EntersStack
  <1>2. PICK n \in Nat \ {0} : n = Len(stack)
    BY EntersStack
  <1>3. /\ Len(stack') = n + 1 /\ stack'[n + 1] = new
        /\ \A k \in 1 .. n : stack'[k] = IF k = n THEN c ELSE stack[k]
        /\ fr = stack[n] /\ calls \in Nat /\ calls' = calls + 1 /\ done' = done /\ prog' = prog
    BY <1>1, <1>2, EntersStack
  <1>4. /\ new.id = calls + 1 /\ new.fn = g /\ new.subs = <<>>
    BY <1>1 DEF NewFrame
  <1>5. c.id = fr.id /\ c.fn = fr.fn /\ c.subs = fr.subs /\ g \in prog.known
    BY DEF Enters
  <1>6. \A k \in 1 .. n : /\ stack'[k].id = stack[k].id /\ stack'[k].fn = stack[k].fn
                          /\ stack'[k].subs = stack[k].subs
    BY <1>3, <1>5
  <1>7. \A k \in 1 .. n + 1 : k \in 1 .. n \/ k = n + 1
    BY <1>2
  <1>8. \A k \in 1 .. n + 1 :
            stack'[k].id \in 1 .. calls + 1 /\ stack'[k].fn \in prog.known /\ SubsLater(stack'[k])
    <2>1. \A k \in 1 .. n : stack'[k].id \in 1 .. calls + 1 /\ stack'[k].fn \in prog.known
      BY <1>2, <1>3, <1>6 DEF CallsNumbered
    <2>2. \A k \in 1 .. n : SubsLater(stack'[k])
      BY <1>2, <1>6 DEF CallsNumbered, SubsLater
    <2>3. SubsLater(new)
      BY <1>4 DEF SubsLater
    <2>4. calls + 1 \in 1 .. calls + 1
      BY <1>3
    <2> QED BY <1>3, <1>4, <1>5, <1>7, <2>1, <2>2, <2>3, <2>4
  <1>9. \A k \in 1 .. n + 1 : \A j \in 1 .. k - 1 : stack'[j].id < stack'[k].id
    <2> TAKE k \in 1 .. n + 1
    <2> TAKE j \in 1 .. k - 1
    <2>1. j \in 1 .. n
      BY <1>2
    <2>2. CASE k \in 1 .. n
      BY <1>2, <1>6, <2>1, <2>2 DEF CallsNumbered
    <2>3. CASE k = n + 1
      <3>1. stack[j].id \in 1 .. calls
        BY <1>2, <2>1 DEF CallsNumbered
      <3> QED BY <1>3, <1>4, <1>6, <2>1, <2>3, <3>1
    <2> QED BY <1>7, <2>2, <2>3
  <1>10. \A k \in 1 .. Len(done) :
            /\ done[k].id \in 1 .. calls + 1 /\ SubsLater(done[k])
            /\ \A j \in 1 .. n + 1 : stack'[j].id # done[k].id
    <2> TAKE k \in 1 .. Len(done)
    <2>1. done[k].id \in 1 .. calls /\ SubsLater(done[k])
          /\ \A j \in 1 .. n : stack[j].id # done[k].id
      BY <1>2 DEF CallsNumbered
    <2>2. done[k].id \in 1 .. calls + 1 /\ done[k].id # calls + 1
      BY <1>3, <2>1
    <2> QED BY <1>3, <1>4, <1>6, <1>7, <2>1, <2>2
  <1> QED BY <1>3, <1>8, <1>9, <1>10 DEF CallsNumbered, SubsLater

\* The CallTrace of a call is that call's, and the caller gains one sub-call.
LEMMA TraceParts ==
    ASSUME NEW f
    PROVE  /\ TraceOf(f).id = f.id /\ TraceOf(f).fn = f.fn /\ TraceOf(f).subs = f.subs
           /\ TraceOf(f).bindings = Synced(f) /\ TraceOf(f).asserts = f.asserts
           /\ TraceOf(f).ios = f.ios /\ TraceOf(f).aborted = f.aborted
           /\ TraceOf(f).rv = IF f.aborted THEN Unknown ELSE f.rv
  BY DEF TraceOf

LEMMA ResumedParts ==
    ASSUME NEW f \in Frame, NEW c \in Frame, FrameOK(c), c.ep > 0, done \in Seq(CallTrace)
    PROVE  /\ Resumed(f, c).id = c.id /\ Resumed(f, c).fn = c.fn /\ Resumed(f, c).env = c.env
           /\ Resumed(f, c).bindings = c.bindings /\ Resumed(f, c).asserts = c.asserts
           /\ Resumed(f, c).ios = c.ios /\ Resumed(f, c).aborted = c.aborted
           /\ Resumed(f, c).ioBefore = c.ioBefore /\ Resumed(f, c).ep = c.ep
           /\ Len(c.subs) \in Nat /\ Len(Resumed(f, c).subs) = Len(c.subs) + 1
           /\ \A j \in 1 .. Len(c.subs) : Resumed(f, c).subs[j] = c.subs[j]
           /\ Resumed(f, c).subs[Len(c.subs) + 1].callee = f.fn
           /\ Resumed(f, c).subs[Len(c.subs) + 1].after = Len(c.bindings)
           /\ Resumed(f, c).subs[Len(c.subs) + 1].trace = Len(done) + 1
  <1>1. PICK u : u = SubCallOf(f, c)
    OBVIOUS
  <1>2. u \in SubCall
    BY <1>1, SubCallPlaced
  <1>3. u.callee = f.fn /\ u.after = c.after /\ u.trace = Len(done) + 1
    BY <1>1 DEF SubCallOf
  <1>4. c.after = Len(c.bindings)
    BY DEF FrameOK, FrameShape
  <1>5. PICK s \in Seq(SubCall) : s = c.subs
    BY DEF Frame
  <1>6. PICK r : r = Append(s, u)
    OBVIOUS
  <1>7. /\ Len(s) \in Nat /\ Len(r) = Len(s) + 1 /\ r[Len(s) + 1] = u
        /\ \A j \in 1 .. Len(s) : r[j] = s[j]
    BY <1>2, <1>6, AppendElement
  <1>8. PICK q : q = Resumed(f, c)
    OBVIOUS
  <1>9. /\ q.id = c.id /\ q.fn = c.fn /\ q.env = c.env
        /\ q.bindings = c.bindings /\ q.asserts = c.asserts
        /\ q.ios = c.ios /\ q.aborted = c.aborted
        /\ q.ioBefore = c.ioBefore /\ q.ep = c.ep /\ q.subs = r
    BY <1>1, <1>5, <1>6, <1>8 DEF Resumed, Frame
  <1> QED BY <1>3, <1>4, <1>5, <1>7, <1>8, <1>9

LEMMA FinishNumbered == ASSUME EvalInv, CallsNumbered, FinishCall PROVE CallsNumbered'
  <1>1. PICK n \in Nat \ {0} : n = Len(stack)
    BY FinishStack
  <1>2. PICK m \in Nat : m = Len(done)
    BY FinishStack
  <1>3. PICK t \in CallTrace : t = TraceOf(fr)
    BY FinishStack
  <1>4. /\ fr = stack[n] /\ Len(done') = m + 1 /\ done'[m + 1] = t
        /\ \A k \in 1 .. m : done'[k] = done[k]
        /\ calls' = calls /\ prog' = prog /\ fr \in Frame
    BY <1>1, <1>2, <1>3, FinishStack
  <1>5. t.id = fr.id /\ t.subs = fr.subs
    BY <1>3, TraceParts
  <1>6. \A k \in 1 .. m + 1 : k \in 1 .. m \/ k = m + 1
    BY <1>2
  <1>7. \A k \in 1 .. n : Nested(stack[k].subs)
    BY <1>1 DEF EvalInv, FrameOK
  <1>8. \A k \in 1 .. n : \A j \in 1 .. Len(stack[k].subs) :
            /\ stack[k].subs[j].trace \in 1 .. m
            /\ stack[k].subs[j].callee \in prog.known
            /\ done[stack[k].subs[j].trace].id > stack[k].id
    BY <1>1, <1>2, <1>7 DEF Nested, CallsNumbered, SubsLater
  <1>9. \A k \in 1 .. m : \A j \in 1 .. Len(done[k].subs) :
            /\ done[k].subs[j].trace \in 1 .. m
            /\ done[k].subs[j].callee \in prog.known
            /\ done[done[k].subs[j].trace].id > done[k].id
    BY <1>2 DEF EvalInv, Nested, CallsNumbered, SubsLater
  <1>10. \A k \in 1 .. m + 1 :
            /\ done'[k].id \in 1 .. calls
            /\ \A j \in 1 .. Len(done'[k].subs) :
                  /\ done'[k].subs[j].callee \in prog.known
                  /\ done'[done'[k].subs[j].trace].id > done'[k].id
    <2> TAKE k \in 1 .. m + 1
    <2>1. CASE k \in 1 .. m
      BY <1>2, <1>4, <1>9, <2>1 DEF CallsNumbered
    <2>2. CASE k = m + 1
      <3>1. n \in 1 .. n
        BY <1>1
      <3> QED BY <1>1, <1>2, <1>4, <1>5, <1>8, <2>2, <3>1 DEF CallsNumbered
    <2> QED BY <1>6, <2>1, <2>2
  <1>11. CASE n = 1
    <2>1. stack' = <<>>
      BY <1>1, <1>11, FinishStack
    <2>2. Len(stack') = 0 /\ \A k \in 1 .. Len(stack') : FALSE
      BY <2>1
    <2> QED BY <1>4, <1>10, <2>2 DEF CallsNumbered, SubsLater
  <1>12. CASE n # 1
    <2>1. PICK p \in Nat \ {0} : p = n - 1
      <3>1. n - 1 \in Nat \ {0}
        BY <1>1, <1>12
      <3> QED BY <3>1
    <2>2. PICK c \in Frame : c = stack[p]
      BY <1>1, <1>12, <2>1, FinishStack
    <2>3. /\ FrameOK(c) /\ c.ep > 0
          /\ Len(stack') = p
          /\ \A k \in 1 .. p : stack'[k] = IF k = p THEN Resumed(fr, c) ELSE stack[k]
      BY <1>1, <1>12, <2>1, <2>2, FinishStack
    <2>4. PICK r : r = Resumed(fr, c)
      OBVIOUS
    <2>5. /\ r.id = c.id /\ r.fn = c.fn /\ Len(c.subs) \in Nat /\ Len(r.subs) = Len(c.subs) + 1
          /\ \A j \in 1 .. Len(c.subs) : r.subs[j] = c.subs[j]
          /\ r.subs[Len(c.subs) + 1].callee = fr.fn
          /\ r.subs[Len(c.subs) + 1].trace = m + 1
      <3>1. done \in Seq(CallTrace) /\ fr \in Frame /\ FrameOK(c) /\ c.ep > 0
        BY <1>4, <2>3, FinishStack
      <3>2. /\ r.id = c.id /\ r.fn = c.fn /\ Len(c.subs) \in Nat
            /\ Len(r.subs) = Len(c.subs) + 1
        BY <2>4, <3>1, ResumedParts
      <3>3. \A j \in 1 .. Len(c.subs) : r.subs[j] = c.subs[j]
        BY <2>4, <3>1, ResumedParts
      <3>4. /\ r.subs[Len(c.subs) + 1].callee = fr.fn
            /\ r.subs[Len(c.subs) + 1].trace = Len(done) + 1
        BY <2>4, <3>1, ResumedParts
      <3> QED BY <1>2, <3>2, <3>3, <3>4
    <2>6. p \in 1 .. n /\ n \in 1 .. n /\ p \in 1 .. n - 1 /\ \A k \in 1 .. p : k \in 1 .. n
      BY <1>1, <2>1
    <2>7. fr.id > c.id /\ fr.fn \in prog.known
      <3>1. stack[p].id < stack[n].id /\ stack[n].fn \in prog.known
        BY <1>1, <2>6 DEF CallsNumbered
      <3>2. stack[p].id \in 1 .. calls /\ stack[n].id \in 1 .. calls
        BY <1>1, <2>6 DEF CallsNumbered
      <3> QED BY <1>4, <2>2, <3>1, <3>2
    <2>8. \A j \in 1 .. Len(r.subs) :
              r.subs[j].callee \in prog.known /\ done'[r.subs[j].trace].id > r.id
      <3> TAKE j \in 1 .. Len(r.subs)
      <3>1. CASE j = Len(c.subs) + 1
        BY <1>4, <1>5, <2>5, <2>7, <3>1
      <3>2. CASE j \in 1 .. Len(c.subs)
        BY <1>4, <1>8, <2>2, <2>5, <2>6, <3>2
      <3> QED BY <2>5, <3>1, <3>2
    <2>9. \A k \in 1 .. p : stack'[k].id = stack[k].id /\ stack'[k].fn = stack[k].fn
      BY <2>2, <2>3, <2>4, <2>5
    <2>10. \A k \in 1 .. p : \A j \in 1 .. Len(stack'[k].subs) :
              /\ stack'[k].subs[j].callee \in prog.known
              /\ done'[stack'[k].subs[j].trace].id > stack'[k].id
      <3> TAKE k \in 1 .. p
      <3>1. CASE k = p
        BY <2>3, <2>4, <2>8, <3>1
      <3>2. CASE k # p
        <4>1. stack'[k] = stack[k]
          BY <2>3, <3>2
        <4> QED BY <1>4, <1>8, <2>6, <4>1
      <3> QED BY <3>1, <3>2
    <2>11. \A k \in 1 .. p : stack'[k].id \in 1 .. calls /\ stack'[k].fn \in prog.known
      BY <1>1, <2>6, <2>9 DEF CallsNumbered
    <2>12. \A k \in 1 .. p : \A j \in 1 .. k - 1 : stack'[j].id < stack'[k].id
      <3> TAKE k \in 1 .. p
      <3> TAKE j \in 1 .. k - 1
      <3>1. j \in 1 .. p
        BY <2>1
      <3> QED BY <1>1, <2>6, <2>9, <3>1 DEF CallsNumbered
    <2>13. \A k \in 1 .. m + 1 : \A j \in 1 .. p : stack'[j].id # done'[k].id
      <3> TAKE k \in 1 .. m + 1
      <3> TAKE j \in 1 .. p
      <3>1. CASE k \in 1 .. m
        BY <1>1, <1>2, <1>4, <2>6, <2>9, <3>1 DEF CallsNumbered
      <3>2. CASE k = m + 1
        <4>1. j \in 1 .. n - 1 /\ j \in 1 .. n
          BY <1>1, <2>1
        <4>2. stack[j].id < stack[n].id
          BY <1>1, <2>6, <4>1 DEF CallsNumbered
        <4>3. stack[j].id \in 1 .. calls /\ stack[n].id \in 1 .. calls
          BY <1>1, <2>6, <4>1 DEF CallsNumbered
        <4> QED BY <1>4, <1>5, <2>9, <3>2, <4>2, <4>3
      <3> QED BY <1>6, <3>1, <3>2
    <2> QED BY <1>4, <1>10, <2>3, <2>10, <2>11, <2>12, <2>13 DEF CallsNumbered, SubsLater
  <1> QED BY <1>11, <1>12

LEMMA StartNumbered ==
    ASSUME EvalInv, CallsNumbered, NEW f \in prog.known, NEW args, StartEntry(f, args)
    PROVE  CallsNumbered' /\ stack'[1].id = calls + 1
  <1>1. PICK new : new = NewFrame(calls + 1, f, args)
    OBVIOUS
  <1>2. new.id = calls + 1 /\ new.fn = f /\ new.subs = <<>>
    BY <1>1 DEF NewFrame
  <1>3. stack' = <<new>> /\ calls' = calls + 1 /\ UNCHANGED <<prog, done>> /\ calls \in Nat
    BY <1>1 DEF StartEntry, EvalInv, EvalTypeOK
  <1>4. Len(stack') = 1 /\ stack'[1] = new
    BY <1>3
  <1>5. SubsLater(new)
    BY <1>2 DEF SubsLater
  <1>6. (\A k \in 1 .. Len(stack) :
            stack[k].id \in 1 .. calls /\ stack[k].fn \in prog.known /\ SubsLater(stack[k]))'
    BY <1>2, <1>3, <1>4, <1>5 DEF SubsLater
  <1>7. (\A k \in 1 .. Len(stack) : \A j \in 1 .. k - 1 : stack[j].id < stack[k].id)'
    BY <1>4
  <1>8. (\A k \in 1 .. Len(done) :
           /\ done[k].id \in 1 .. calls /\ SubsLater(done[k])
           /\ \A j \in 1 .. Len(stack) : stack[j].id # done[k].id)'
    <2>1. \A k \in 1 .. Len(done) : done[k].id \in 1 .. calls /\ SubsLater(done[k])
      BY DEF CallsNumbered
    <2> QED BY <1>2, <1>3, <1>4, <2>1 DEF SubsLater
  <1> QED BY <1>2, <1>4, <1>6, <1>7, <1>8 DEF CallsNumbered

\* The events of a call.
LEMMA EventTypes ==
    ASSUME NEW id \in Nat
    PROVE  /\ \A f \in FnName : [ev |-> "enter", id |-> id, fn |-> f] \in Event
           /\ \A v \in Value : [ev |-> "exit", id |-> id, rv |-> v] \in Event
           /\ \A x \in Name, l \in Line, v \in Value :
                  [ev |-> "bind", id |-> id, name |-> x, line |-> l, value |-> v] \in Event
           /\ \A x \in Name, v \in Value :
                  [ev |-> "write", id |-> id, name |-> x, value |-> v] \in Event
           /\ [ev |-> "assert", id |-> id] \in Event
           /\ \A t \in IoTag : [ev |-> "io", id |-> id, tag |-> t] \in Event
  <1>1. \A f \in FnName : [ev |-> "enter", id |-> id, fn |-> f] \in Event
    BY DEF Event
  <1>2. \A v \in Value : [ev |-> "exit", id |-> id, rv |-> v] \in Event
    BY DEF Event
  <1>3. \A x \in Name, l \in Line, v \in Value :
            [ev |-> "bind", id |-> id, name |-> x, line |-> l, value |-> v] \in Event
    BY DEF Event
  <1>4. \A x \in Name, v \in Value :
            [ev |-> "write", id |-> id, name |-> x, value |-> v] \in Event
    BY DEF Event
  <1>5. [ev |-> "assert", id |-> id] \in Event
    BY DEF Event
  <1>6. \A t \in IoTag : [ev |-> "io", id |-> id, tag |-> t] \in Event
    BY DEF Event
  <1> QED BY <1>1, <1>2, <1>3, <1>4, <1>5, <1>6

\* The history grows by one event of a call that has started.
LogGrows(e) ==
    /\ e \in Event /\ e.id \in 1 .. calls'
    /\ log' = Append(log, e)

LEMMA LogGrowsTyped ==
    ASSUME LogTyped, calls \in Nat, calls' \in Nat, calls <= calls', NEW e, LogGrows(e)
    PROVE  /\ LogTyped' /\ Len(log) \in Nat /\ Len(log') = Len(log) + 1
           /\ \A k \in 1 .. Len(log) : log'[k] = log[k]
           /\ log'[Len(log) + 1] = e
  <1>1. log \in Seq(Event) /\ e \in Event /\ log' = Append(log, e)
    BY DEF LogTyped, LogGrows
  <1>2. /\ log' \in Seq(Event) /\ Len(log') = Len(log) + 1 /\ Len(log) \in Nat
        /\ \A k \in 1 .. Len(log) : log'[k] = log[k]
        /\ log'[Len(log) + 1] = e
    BY <1>1, AppendElement
  <1>3. \A k \in 1 .. Len(log') : log'[k].id \in 1 .. calls'
    <2> TAKE k \in 1 .. Len(log')
    <2>1. CASE k \in 1 .. Len(log)
      BY <1>2, <2>1 DEF LogTyped
    <2>2. CASE k = Len(log) + 1
      BY <1>2, <2>2 DEF LogGrows
    <2> QED BY <1>2, <2>1, <2>2
  <1> QED BY <1>2, <1>3 DEF LogTyped

\* One record more is one event more.
LEMMA RecordOne ==
    ASSUME LogTyped, NEW e \in Event, Record(<<e>>), e.id \in 1 .. calls'
    PROVE  LogGrows(e)
  <1>1. log \in Seq(Event) /\ log' = log \o <<e>>
    BY DEF LogTyped, Record
  <1>2. log \o <<e>> = Append(log, e)
    BY <1>1, ConcatOne
  <1> QED BY <1>1, <1>2 DEF LogGrows

\* What each effect adds to the history.
LEMMA EffectEvents ==
    ASSUME EvalInv, CallsNumbered, LogTyped
    PROVE  /\ \A f \in Frame : Silent(f) => log' = log
           /\ \A f \in Frame, t \in IoTag : Reports(f, t) => LogGrows(Io(t))
           /\ \A f \in Frame, b \in Binding :
                 Binds(f, b) => LogGrows([ev |-> "bind", id |-> fr.id, name |-> b.name,
                                          line |-> b.line, value |-> b.value])
           /\ \A f \in Frame, x \in Name, v \in Value :
                 Writes(f, x, v) => LogGrows([ev |-> "write", id |-> fr.id, name |-> x,
                                              value |-> v])
           /\ \A f \in Frame : Asserts(f) => LogGrows([ev |-> "assert", id |-> fr.id])
           /\ \A c \in Frame, g \in FnName, args \in Seq(Value) :
                 Enters(c, g, args) => LogGrows([ev |-> "enter", id |-> calls + 1, fn |-> g])
           /\ FinishCall => LogGrows([ev |-> "exit", id |-> fr.id, rv |-> TraceOf(fr).rv])
  <1>0. calls \in Nat
    BY DEF EvalInv, EvalTypeOK
  <1>1. ASSUME stack # <<>> PROVE fr.id \in 1 .. calls /\ fr.id \in Nat
    <2>1. Len(stack) \in 1 .. Len(stack)
      BY <1>1 DEF EvalInv, EvalTypeOK
    <2> QED BY <1>0, <2>1 DEF CallsNumbered, fr
  <1>2. ASSUME NEW f, Continues(f) PROVE fr.id \in 1 .. calls' /\ fr.id \in Nat
    BY <1>1, <1>2 DEF Continues, Quiet
  <1>3. \A f \in Frame : Silent(f) => log' = log
    BY DEF Silent
  <1>4. ASSUME NEW f \in Frame, NEW t \in IoTag, Reports(f, t) PROVE LogGrows(Io(t))
    <2>1. Continues(f) /\ Record(<<Io(t)>>)
      BY <1>4 DEF Reports
    <2>2. Io(t) \in Event /\ Io(t).id = fr.id
      BY <1>2, <2>1, EventTypes DEF Io
    <2> QED BY <1>2, <2>1, <2>2, RecordOne
  <1>5. ASSUME NEW f \in Frame, NEW b \in Binding, Binds(f, b)
        PROVE  LogGrows([ev |-> "bind", id |-> fr.id, name |-> b.name,
                         line |-> b.line, value |-> b.value])
    <2>1. PICK e : e = [ev |-> "bind", id |-> fr.id, name |-> b.name,
                        line |-> b.line, value |-> b.value]
      OBVIOUS
    <2>2. Continues(f) /\ Record(<<e>>)
      BY <1>5, <2>1 DEF Binds
    <2>3. b.name \in Name /\ b.line \in Line /\ b.value \in Value
      BY DEF Binding
    <2>4. e \in Event /\ e.id = fr.id
      BY <1>2, <2>1, <2>2, <2>3, EventTypes
    <2>5. LogGrows(e)
      BY <1>2, <2>2, <2>4, RecordOne
    <2> QED BY <2>1, <2>5
  <1>6. ASSUME NEW f \in Frame, NEW x \in Name, NEW v \in Value, Writes(f, x, v)
        PROVE  LogGrows([ev |-> "write", id |-> fr.id, name |-> x, value |-> v])
    <2>1. PICK e : e = [ev |-> "write", id |-> fr.id, name |-> x, value |-> v]
      OBVIOUS
    <2>2. Continues(f) /\ Record(<<e>>)
      BY <1>6, <2>1 DEF Writes
    <2>3. e \in Event /\ e.id = fr.id
      BY <1>2, <2>1, <2>2, EventTypes
    <2>4. LogGrows(e)
      BY <1>2, <2>2, <2>3, RecordOne
    <2> QED BY <2>1, <2>4
  <1>7. ASSUME NEW f \in Frame, Asserts(f) PROVE LogGrows([ev |-> "assert", id |-> fr.id])
    <2>1. PICK e : e = [ev |-> "assert", id |-> fr.id]
      OBVIOUS
    <2>2. Continues(f) /\ Record(<<e>>)
      BY <1>7, <2>1 DEF Asserts
    <2>3. e \in Event /\ e.id = fr.id
      BY <1>2, <2>1, <2>2, EventTypes
    <2>4. LogGrows(e)
      BY <1>2, <2>2, <2>3, RecordOne
    <2> QED BY <2>1, <2>4
  <1>8. ASSUME NEW c \in Frame, NEW g \in FnName, NEW args \in Seq(Value), Enters(c, g, args)
        PROVE  LogGrows([ev |-> "enter", id |-> calls + 1, fn |-> g])
    <2>1. PICK e : e = [ev |-> "enter", id |-> calls + 1, fn |-> g]
      OBVIOUS
    <2>2. Record(<<e>>) /\ calls' = calls + 1
      BY <1>8, <2>1 DEF Enters
    <2>3. calls + 1 \in Nat /\ calls + 1 \in 1 .. calls'
      BY <1>0, <2>2
    <2>4. e \in Event /\ e.id = calls + 1
      BY <2>1, <2>3, EventTypes
    <2>5. LogGrows(e)
      BY <2>2, <2>3, <2>4, RecordOne
    <2> QED BY <2>1, <2>5
  <1>9. ASSUME FinishCall PROVE LogGrows([ev |-> "exit", id |-> fr.id, rv |-> TraceOf(fr).rv])
    <2>1. PICK e : e = [ev |-> "exit", id |-> fr.id, rv |-> TraceOf(fr).rv]
      OBVIOUS
    <2>2. stack # <<>> /\ Record(<<e>>) /\ calls' = calls
      BY <1>9, <2>1 DEF FinishCall
    <2>3. TraceOf(fr).rv \in Value
      BY <1>9, FinishStack DEF CallTrace
    <2>4. e \in Event /\ e.id = fr.id
      BY <1>1, <2>1, <2>2, <2>3, EventTypes
    <2>5. LogGrows(e)
      BY <1>1, <2>2, <2>4, RecordOne
    <2> QED BY <2>1, <2>5
  <1> QED BY <1>3, <1>4, <1>5, <1>6, <1>7, <1>8, <1>9

LEMMA StepNumbered ==
    ASSUME EvalInv, CallsNumbered, LogTyped, EvalStep
    PROVE  CallsNumbered' /\ LogTyped' /\ prog' = prog
  <1>0. calls \in Nat /\ Effect
    BY StepEffect DEF EvalInv, EvalTypeOK, LogTyped
  <1>1. ASSUME NEW f \in Frame, Continues(f), \/ log' = log \/ \E e : LogGrows(e)
        PROVE  CallsNumbered' /\ LogTyped' /\ prog' = prog
    <2>1. SameCalls
      BY <1>1, ContinuesSame
    <2>2. CallsNumbered' /\ calls' = calls /\ prog' = prog
      BY <2>1, SameCallsNumbered DEF SameCalls
    <2>3. LogTyped'
      BY <1>0, <1>1, <2>2, LogGrowsTyped DEF LogTyped
    <2> QED BY <2>2, <2>3
  <1>2. CASE \E f \in Frame : Silent(f)
    BY <1>1, <1>2, EffectEvents DEF Silent
  <1>3. CASE \E f \in Frame, tag \in IoTag : Reports(f, tag)
    BY <1>1, <1>3, EffectEvents DEF Reports
  <1>4. CASE \E f \in Frame, b \in Binding : Binds(f, b)
    BY <1>1, <1>4, EffectEvents DEF Binds
  <1>5. CASE \E f \in Frame, x \in Name, v \in Value : Writes(f, x, v)
    BY <1>1, <1>5, EffectEvents DEF Writes
  <1>6. CASE \E f \in Frame : Asserts(f)
    BY <1>1, <1>6, EffectEvents DEF Asserts
  <1>7. CASE \E c \in Frame, g \in FnName, args \in Seq(Value) : Enters(c, g, args)
    <2>1. PICK c \in Frame, g \in FnName, args \in Seq(Value) : Enters(c, g, args)
      BY <1>7
    <2>2. CallsNumbered' /\ calls' = calls + 1 /\ prog' = prog
      BY <2>1, EntersNumbered DEF Enters
    <2>3. \E e : LogGrows(e)
      BY <2>1, EffectEvents
    <2> QED BY <1>0, <2>2, <2>3, LogGrowsTyped
  <1>8. CASE FinishCall
    <2>1. CallsNumbered' /\ calls' = calls /\ prog' = prog
      BY <1>8, FinishNumbered DEF FinishCall
    <2>2. \E e : LogGrows(e)
      BY <1>8, EffectEvents
    <2> QED BY <1>0, <2>1, <2>2, LogGrowsTyped
  <1> QED BY <1>0, <1>2, <1>3, <1>4, <1>5, <1>6, <1>7, <1>8 DEF Effect

\* An entry point is entered.
LEMMA DispatchStarts ==
    ASSUME HistoryInv, DispatchEntry
    PROVE  /\ entryFn \in prog.known /\ entryFn \in FnName
           /\ LogGrows([ev |-> "enter", id |-> calls + 1, fn |-> entryFn])
           /\ calls \in Nat /\ calls' = calls + 1 /\ prog' = prog /\ done' = done
           /\ stack = <<>> /\ stack' = <<NewFrame(calls + 1, entryFn, EntryArgs(entryFn))>>
           /\ mode = "idle" /\ mode' = "running" /\ entries' = entries
           /\ walk' = walk /\ out' = out
  <1>1. StartEntry(entryFn, EntryArgs(entryFn)) /\ calls \in Nat
    BY DEF DispatchEntry, HistoryInv, WalkInv, EvalInv, EvalTypeOK
  <1>2. PICK e : e = [ev |-> "enter", id |-> calls + 1, fn |-> entryFn]
    OBVIOUS
  <1>3. Record(<<e>>) /\ calls' = calls + 1 /\ entryFn \in prog.known /\ entryFn \in FnName
    BY <1>1, <1>2 DEF StartEntry, HistoryInv, WalkInv, EvalInv, EvalTypeOK, Program
  <1>4. calls + 1 \in Nat /\ calls + 1 \in 1 .. calls'
    BY <1>1, <1>3
  <1>5. e \in Event /\ e.id = calls + 1
    BY <1>2, <1>3, <1>4, EventTypes
  <1>6. LogGrows(e)
    BY <1>3, <1>4, <1>5, RecordOne DEF HistoryInv
  <1> QED BY <1>1, <1>2, <1>3, <1>6 DEF DispatchEntry, StartEntry

LEMMA DispatchNumbered ==
    ASSUME HistoryInv, DispatchEntry PROVE CallsNumbered' /\ LogTyped'
  <1>1. /\ entryFn \in prog.known
        /\ \E e : LogGrows(e)
        /\ calls \in Nat /\ calls' = calls + 1
    BY DispatchStarts
  <1>2. CallsNumbered'
    BY <1>1, StartNumbered DEF DispatchEntry, HistoryInv, WalkInv
  <1>3. LogTyped'
    <2>1. calls' \in Nat /\ calls <= calls'
      BY <1>1
    <2> QED BY <1>1, <2>1, LogGrowsTyped DEF HistoryInv
  <1> QED BY <1>2, <1>3

\* The steps of the emission leave the evaluator alone.
LEMMA EvalKept ==
    ASSUME HistoryInv, UNCHANGED evalVars PROVE CallsNumbered' /\ LogTyped'
  <1>1. prog' = prog /\ stack' = stack /\ done' = done /\ calls' = calls /\ log' = log
    BY DEF evalVars
  <1> QED BY <1>1 DEF HistoryInv, CallsNumbered, LogTyped, SubsLater

----------------------------------------------------------------------------
(* What a step of the emission does to the walk *)

\* The activation that runs goes on as a.
Stays(a) ==
    /\ mode = "emitting" /\ walk # <<>> /\ SetAct(a)
    /\ a.trace = act.trace /\ a.entry = act.entry /\ a.args = act.args /\ a.at # "open"
    /\ UNCHANGED <<evalVars, entries, mode>>

Passed == [act EXCEPT !.si = @ + 1]

Pushed == Opening(nextSub.trace, nextSub.args, FALSE)

\* It goes into its next sub-call.
Descends ==
    /\ mode = "emitting" /\ walk # <<>> /\ act.at # "open" /\ act.si < Len(emitted.subs)
    /\ walk' = Append([walk EXCEPT ![Len(walk)] = Passed], Pushed)
    /\ UNCHANGED <<evalVars, entries, mode, out>>

LEMMA StaysWalk ==
    ASSUME WalkInv, NEW a \in Activation, Stays(a)
    PROVE  /\ walk \in Seq(Activation) /\ walk' \in Seq(Activation)
           /\ Len(walk) \in Nat \ {0} /\ Len(walk') = Len(walk)
           /\ \A k \in 1 .. Len(walk) : walk'[k] = IF k = Len(walk) THEN a ELSE walk[k]
           /\ act = walk[Len(walk)] /\ act \in Activation /\ act' = a
  <1>1. walk \in Seq(Activation) /\ Len(walk) \in Nat \ {0} /\ act \in Activation
    BY ActType DEF Stays
  <1>2. walk' = [walk EXCEPT ![Len(walk)] = a]
    BY DEF Stays, SetAct
  <1>3. /\ walk' \in Seq(Activation) /\ Len(walk') = Len(walk)
        /\ \A k \in 1 .. Len(walk) : walk'[k] = IF k = Len(walk) THEN a ELSE walk[k]
    BY <1>1, <1>2
  <1>4. act' = a
    BY <1>1, <1>3 DEF act
  <1> QED BY <1>1, <1>3, <1>4 DEF act

\* The sub-call the walk is about to enter.
LEMMA NextSubParts ==
    ASSUME WalkInv, CallsNumbered, walk # <<>>, act.si < Len(emitted.subs)
    PROVE  /\ nextSub \in SubCall /\ act.si + 1 \in 1 .. Len(emitted.subs)
           /\ nextSub.trace \in 1 .. Len(done) /\ done[nextSub.trace] \in CallTrace
           /\ nextSub.callee \in prog.known /\ done[nextSub.trace].id > emitted.id
           /\ Passed \in Activation /\ Pushed \in Activation
           /\ Passed.trace = act.trace /\ Passed.entry = act.entry /\ Passed.args = act.args
           /\ Passed.at = act.at /\ Passed.bi = act.bi /\ Passed.si = act.si + 1
           /\ Pushed.trace = nextSub.trace /\ Pushed.entry = FALSE /\ Pushed.at = "open"
           /\ Pushed.bi = 0 /\ Pushed.si = 0
  <1>1. /\ act \in Activation /\ act.si \in Nat /\ ActOK(act)
        /\ emitted.subs \in Seq(SubCall) /\ Nested(emitted.subs) /\ done \in Seq(CallTrace)
    BY ActType, EmittedParts
  <1>2. act.si + 1 \in 1 .. Len(emitted.subs)
    BY <1>1
  <1>3. nextSub \in SubCall /\ nextSub.trace \in 1 .. Len(done)
    BY <1>1, <1>2 DEF nextSub, Nested
  <1>4. nextSub.args \in Seq(Value)
    BY <1>3 DEF SubCall
  <1>5. nextSub.callee \in prog.known /\ done[nextSub.trace].id > emitted.id
    <2>1. act.trace \in 1 .. Len(done)
      BY <1>1 DEF ActOK
    <2> QED BY <1>2, <2>1 DEF CallsNumbered, SubsLater, emitted, nextSub
  <1>6. Pushed \in Activation
    <2>1. nextSub.trace \in Nat
      BY <1>3 DEF SubCall
    <2> QED BY <1>4, <2>1 DEF Pushed, Opening, Activation
  <1>7. Passed \in Activation
    <2>1. act.si + 1 \in Nat
      BY <1>1
    <2> QED BY <1>1, <2>1 DEF Passed, Activation
  <1>8. /\ Passed.trace = act.trace /\ Passed.entry = act.entry /\ Passed.args = act.args
        /\ Passed.at = act.at /\ Passed.bi = act.bi /\ Passed.si = act.si + 1
    BY <1>1 DEF Passed, Activation
  <1>9. /\ Pushed.trace = nextSub.trace /\ Pushed.entry = FALSE /\ Pushed.at = "open"
        /\ Pushed.bi = 0 /\ Pushed.si = 0
    BY DEF Pushed, Opening
  <1>10. done[nextSub.trace] \in CallTrace
    BY <1>1, <1>3
  <1> QED BY <1>2, <1>3, <1>5, <1>6, <1>7, <1>8, <1>9, <1>10

LEMMA DescendsWalk ==
    ASSUME WalkInv, CallsNumbered, Descends
    PROVE  /\ walk \in Seq(Activation) /\ walk' \in Seq(Activation)
           /\ Len(walk) \in Nat \ {0} /\ Len(walk') = Len(walk) + 1
           /\ \A k \in 1 .. Len(walk) : walk'[k] = IF k = Len(walk) THEN Passed ELSE walk[k]
           /\ walk'[Len(walk) + 1] = Pushed
           /\ act = walk[Len(walk)] /\ act' = Pushed
  <1>1. walk \in Seq(Activation) /\ Len(walk) \in Nat \ {0}
    BY ActType DEF Descends
  <1>2. PICK p \in Activation : p = Passed
    BY NextSubParts DEF Descends
  <1>3. PICK new \in Activation : new = Pushed
    BY NextSubParts DEF Descends
  <1>4. PICK w : w = [walk EXCEPT ![Len(walk)] = p]
    OBVIOUS
  <1>5. /\ w \in Seq(Activation) /\ Len(w) = Len(walk)
        /\ \A k \in 1 .. Len(walk) : w[k] = IF k = Len(walk) THEN p ELSE walk[k]
    BY <1>1, <1>2, <1>4
  <1>6. walk' = Append(w, new)
    BY <1>2, <1>3, <1>4 DEF Descends
  <1>7. /\ walk' \in Seq(Activation) /\ Len(walk') = Len(w) + 1 /\ walk'[Len(w) + 1] = new
        /\ \A k \in 1 .. Len(w) : walk'[k] = w[k]
    BY <1>3, <1>5, <1>6, AppendElement
  <1>8. act' = new
    BY <1>1, <1>5, <1>7 DEF act
  <1> QED BY <1>1, <1>2, <1>3, <1>5, <1>7, <1>8 DEF act

\* The steps of emit_call_trace, as moves of the walk.
LEMMA EmissionMoves ==
    ASSUME WalkInv, CallsNumbered
    PROVE  /\ OpenCall => \E a \in Activation :
                 /\ Stays(a) /\ act.at = "open" /\ a.at = "bindings" /\ a.bi = act.bi /\ a.si = act.si
           /\ EmitBinding => \E a \in Activation :
                 /\ Stays(a) /\ act.at = "bindings" /\ a.at = "bindings"
                 /\ a.bi = act.bi + 1 /\ a.si = act.si
           /\ EndBindings => \E a \in Activation :
                 /\ Stays(a) /\ act.at = "bindings" /\ a.at = "trailing"
                 /\ a.bi = act.bi /\ a.si = act.si /\ UNCHANGED out
           /\ EmitSubCall \/ EmitTrailingSubCall => Descends
  <1>1. ASSUME OpenCall
        PROVE  \E a \in Activation :
                 /\ Stays(a) /\ act.at = "open" /\ a.at = "bindings" /\ a.bi = act.bi /\ a.si = act.si
    <2>1. PICK a : a = [act EXCEPT !.at = "bindings"]
      OBVIOUS
    <2>2. /\ walk # <<>> /\ mode = "emitting" /\ SetAct(a) /\ act.at = "open"
          /\ UNCHANGED <<evalVars, entries, mode>>
      BY <1>1, <2>1 DEF OpenCall, At
    <2>3. act \in Activation
      BY <2>2, ActType
    <2>4. /\ a \in Activation /\ a.trace = act.trace /\ a.entry = act.entry /\ a.args = act.args
          /\ a.at = "bindings" /\ a.bi = act.bi /\ a.si = act.si
      BY <2>1, <2>3 DEF Activation
    <2> QED BY <2>2, <2>4 DEF Stays
  <1>2. ASSUME EmitBinding
        PROVE  \E a \in Activation :
                 /\ Stays(a) /\ act.at = "bindings" /\ a.at = "bindings"
                 /\ a.bi = act.bi + 1 /\ a.si = act.si
    <2>1. PICK a : a = [act EXCEPT !.bi = @ + 1]
      OBVIOUS
    <2>2. /\ walk # <<>> /\ mode = "emitting" /\ SetAct(a) /\ act.at = "bindings"
          /\ UNCHANGED <<evalVars, entries, mode>>
      BY <1>2, <2>1 DEF EmitBinding, At
    <2>3. act \in Activation /\ act.bi + 1 \in Nat
      BY <2>2, ActType
    <2>4. /\ a \in Activation /\ a.trace = act.trace /\ a.entry = act.entry /\ a.args = act.args
          /\ a.at = act.at /\ a.bi = act.bi + 1 /\ a.si = act.si
      BY <2>1, <2>3 DEF Activation
    <2> QED BY <2>2, <2>4 DEF Stays
  <1>3. ASSUME EndBindings
        PROVE  \E a \in Activation :
                 /\ Stays(a) /\ act.at = "bindings" /\ a.at = "trailing"
                 /\ a.bi = act.bi /\ a.si = act.si /\ UNCHANGED out
    <2>1. PICK a : a = [act EXCEPT !.at = "trailing"]
      OBVIOUS
    <2>2. /\ walk # <<>> /\ mode = "emitting" /\ SetAct(a) /\ act.at = "bindings"
          /\ UNCHANGED <<evalVars, entries, mode>> /\ UNCHANGED out
      BY <1>3, <2>1 DEF EndBindings, At
    <2>3. act \in Activation
      BY <2>2, ActType
    <2>4. /\ a \in Activation /\ a.trace = act.trace /\ a.entry = act.entry /\ a.args = act.args
          /\ a.at = "trailing" /\ a.bi = act.bi /\ a.si = act.si
      BY <2>1, <2>3 DEF Activation
    <2> QED BY <2>2, <2>4 DEF Stays
  <1>4. ASSUME EmitSubCall \/ EmitTrailingSubCall PROVE Descends
    <2>1. /\ walk # <<>> /\ mode = "emitting" /\ act.at # "open" /\ Descend
          /\ act.si < Len(emitted.subs)
      BY <1>4 DEF EmitSubCall, EmitTrailingSubCall, At, SubIsHere
    <2>2. nextSub.callee \in prog.known /\ walk \in Seq(Activation) /\ Len(walk) \in Nat \ {0}
      BY <2>1, NextSubParts, ActType
    <2>3. [walk EXCEPT ![Len(walk)].si = @ + 1] = [walk EXCEPT ![Len(walk)] = Passed]
      BY <2>2 DEF Passed, act
    <2>4. walk' = Append([walk EXCEPT ![Len(walk)].si = @ + 1], Pushed)
      BY <2>1, <2>2 DEF Descend, Pushed
    <2> QED BY <2>1, <2>3, <2>4 DEF Descends, Descend
  <1> QED BY <1>1, <1>2, <1>3, <1>4

\* The innermost activation is left.
LEMMA ClosesWalk ==
    ASSUME WalkInv, CloseCall
    PROVE  /\ walk \in Seq(Activation) /\ walk' \in Seq(Activation)
           /\ Len(walk) \in Nat \ {0} /\ Len(walk') = Len(walk) - 1
           /\ \A k \in 1 .. Len(walk) - 1 : walk'[k] = walk[k]
           /\ act = walk[Len(walk)]
           /\ mode = "emitting" /\ walk # <<>> /\ act.at = "trailing"
           /\ act.si = Len(emitted.subs)
           /\ Write(CloseRecords(emitted, act.entry)) /\ UNCHANGED <<evalVars, entries, mode>>
  <1>1. /\ walk # <<>> /\ mode = "emitting" /\ walk' = Front(walk) /\ act.at = "trailing"
        /\ act.si = Len(emitted.subs)
        /\ Write(CloseRecords(emitted, act.entry)) /\ UNCHANGED <<evalVars, entries, mode>>
    BY DEF CloseCall, At
  <1>2. walk \in Seq(Activation) /\ Len(walk) \in Nat \ {0}
    BY <1>1, ActType
  <1>3. PICK n \in Nat : n = Len(walk) - 1
    <2>1. Len(walk) - 1 \in Nat
      BY <1>2
    <2> QED BY <2>1
  <1>4. walk' = SubSeq(walk, 1, n)
    BY <1>1, <1>3 DEF Front
  <1>5. walk' \in Seq(Activation) /\ Len(walk') = n /\ \A k \in 1 .. n : walk'[k] = walk[k]
    <2>1. n <= Len(walk) /\ \A k \in 1 .. n : walk[k] \in Activation
      BY <1>2, <1>3
    <2>2. walk' = [k \in 1 .. n |-> walk[k]]
      <3>1. CASE n = 0
        BY <1>2, <1>4, <3>1
      <3>2. CASE n # 0
        BY <1>2, <1>4, <2>1, <3>2
      <3> QED BY <3>1, <3>2
    <2> QED BY <2>1, <2>2
  <1> QED BY <1>1, <1>2, <1>3, <1>5 DEF act

\* A step of the emission keeps the activations below, and opens at most one.
LEMMA WalkMoved ==
    ASSUME HistoryInv, WalkInv', mode = "emitting", UNCHANGED <<evalVars, entries, mode>>,
           NEW n \in Nat, NEW m \in Nat, n <= Len(walk), Len(walk') = m, m = n \/ m = n + 1,
           \A k \in 1 .. n : /\ walk'[k].trace = walk[k].trace /\ walk'[k].entry = walk[k].entry
                             /\ k < m => walk'[k].at # "open",
           m = n + 1 => /\ n = Len(walk) /\ n > 0 /\ walk'[m].entry = FALSE
                        /\ done[walk'[m].trace].id > done[walk[n].trace].id
    PROVE  MainFirst' /\ WalkNests'
  <1>1. /\ prog' = prog /\ stack' = stack /\ done' = done /\ calls' = calls
        /\ entries' = entries /\ mode' = mode
    BY DEF evalVars
  <1>2. /\ walk \in Seq(Activation) /\ walk' \in Seq(Activation) /\ Len(walk) \in Nat
        /\ MainOnly' = MainOnly
    BY <1>1 DEF HistoryInv, WalkInv, MainOnly
  <1>3. \A k \in 1 .. n : k \in 1 .. Len(walk)
    BY <1>2
  <1>4. \A k \in 1 .. m : k \in 1 .. n \/ (k = n + 1 /\ m = n + 1)
    OBVIOUS
  <1>5. ASSUME walk' # <<>> PROVE n > 0 /\ walk # <<>> /\ walk'[1].trace = walk[1].trace
    <2>1. m # 0
      BY <1>2, <1>5
    <2>2. n > 0
      BY <2>1
    <2>3. 1 \in 1 .. n /\ walk # <<>>
      BY <1>2, <2>2
    <2> QED BY <2>2, <2>3
  <1>6. MainFirst'
    <2>1. ASSUME MainOnly, walk' # <<>> PROVE done[walk'[1].trace].id = 1
      BY <1>5, <2>1 DEF HistoryInv, MainFirst
    <2>2. MainOnly => \A a, b \in entries : a = b
      BY DEF HistoryInv, MainFirst
    <2> QED BY <1>1, <1>2, <2>1, <2>2 DEF MainFirst
  <1>7. \A k \in 1 .. m : walk'[k].entry <=> MainOnly /\ k = 1
    <2> TAKE k \in 1 .. m
    <2>1. CASE k \in 1 .. n
      BY <1>3, <2>1 DEF HistoryInv, WalkNests
    <2>2. CASE k = n + 1 /\ m = n + 1
      BY <2>2
    <2> QED BY <1>4, <2>1, <2>2
  <1>8. \A k \in 1 .. m - 1 : walk'[k].at # "open"
    OBVIOUS
  <1>9. \A k \in 1 .. m : \A j \in 1 .. k - 1 : done[walk'[j].trace].id < done[walk'[k].trace].id
    <2> TAKE k \in 1 .. m
    <2> TAKE j \in 1 .. k - 1
    <2>0. j \in 1 .. n /\ \A i \in 1 .. n : walk'[i].trace = walk[i].trace
      OBVIOUS
    <2>1. CASE k \in 1 .. n
      <3>1. done[walk[j].trace].id < done[walk[k].trace].id
        BY <1>3, <2>1 DEF HistoryInv, WalkNests
      <3> QED BY <2>0, <2>1, <3>1
    <2>2. CASE k = n + 1 /\ m = n + 1
      <3>1. n \in 1 .. Len(walk) /\ \A i \in 1 .. n - 1 :
               done[walk[i].trace].id < done[walk[n].trace].id
        BY <2>2 DEF HistoryInv, WalkNests
      <3>2. \A i \in 1 .. n : done[walk[i].trace].id \in Int
        <4> TAKE i \in 1 .. n
        <4>1. walk[i].trace \in 1 .. Len(done) /\ calls \in Nat
          BY <1>3 DEF HistoryInv, WalkInv, ActOK, EvalInv, EvalTypeOK
        <4> QED BY <4>1 DEF HistoryInv, CallsNumbered
      <3>3. done[walk'[k].trace].id \in Int
        <4>1. walk'[k].trace \in 1 .. Len(done)
          BY <1>1 DEF WalkInv, ActOK
        <4>2. calls \in Nat
          BY DEF HistoryInv, WalkInv, EvalInv, EvalTypeOK
        <4> QED BY <4>1, <4>2 DEF HistoryInv, CallsNumbered
      <3>4. j = n \/ j \in 1 .. n - 1
        BY <2>0
      <3> QED BY <2>0, <2>2, <3>1, <3>2, <3>3, <3>4
    <2> QED BY <1>4, <2>1, <2>2
  <1>10. walk' # <<>> => walk'[1].trace = Len(done)
    BY <1>5 DEF HistoryInv, WalkNests
  <1>11. mode # "running" => stack = <<>>
    BY DEF HistoryInv, WalkNests
  <1> QED BY <1>1, <1>2, <1>6, <1>7, <1>8, <1>9, <1>10, <1>11 DEF WalkNests

LEMMA EmissionHistory == ASSUME HistoryInv, EmitCallTrace PROVE HistoryInv'
  <1>0. WalkInv /\ CallsNumbered
    BY DEF HistoryInv
  <1>1. WalkInv'
    BY <1>0, OpenCallInv, EmitSubCallInv, EmitBindingInv, EndBindingsInv, EmitTrailingSubCallInv,
       CloseCallInv DEF EmitCallTrace
  <1>2. ASSUME NEW a \in Activation, Stays(a) PROVE HistoryInv'
    <2>1. /\ mode = "emitting" /\ UNCHANGED <<evalVars, entries, mode>>
          /\ a.trace = act.trace /\ a.entry = act.entry
      BY <1>2 DEF Stays
    <2>2. PICK n \in Nat \ {0} : n = Len(walk)
      BY <1>0, <1>2, StaysWalk
    <2>3. /\ Len(walk') = n /\ act = walk[n]
          /\ \A k \in 1 .. n : walk'[k] = IF k = n THEN a ELSE walk[k]
      BY <1>0, <1>2, <2>2, StaysWalk
    <2>4. \A k \in 1 .. n : /\ walk'[k].trace = walk[k].trace /\ walk'[k].entry = walk[k].entry
                            /\ k < n => walk'[k].at # "open"
      BY <2>1, <2>2, <2>3 DEF HistoryInv, WalkNests
    <2>5. MainFirst' /\ WalkNests'
      <3>1. n \in Nat /\ n <= Len(walk) /\ n # n + 1
        BY <2>2
      <3> QED BY <1>1, <2>1, <2>3, <2>4, <3>1, WalkMoved
    <2> QED BY <1>1, <2>1, <2>5, EvalKept DEF HistoryInv
  <1>3. ASSUME Descends PROVE HistoryInv'
    <2>1. /\ mode = "emitting" /\ UNCHANGED <<evalVars, entries, mode>> /\ act.at # "open"
          /\ walk # <<>> /\ act.si < Len(emitted.subs)
      BY <1>3 DEF Descends
    <2>2. PICK n \in Nat \ {0} : n = Len(walk)
      BY <1>0, <1>3, DescendsWalk
    <2>3. /\ Len(walk') = n + 1 /\ act = walk[n]
          /\ \A k \in 1 .. n : walk'[k] = IF k = n THEN Passed ELSE walk[k]
          /\ walk'[n + 1] = Pushed
      BY <1>0, <1>3, <2>2, DescendsWalk
    <2>4. /\ Passed.trace = act.trace /\ Passed.entry = act.entry /\ Passed.at = act.at
          /\ Pushed.trace = nextSub.trace /\ Pushed.entry = FALSE
          /\ done[nextSub.trace].id > emitted.id
      BY <1>0, <2>1, NextSubParts
    <2>5. \A k \in 1 .. n : /\ walk'[k].trace = walk[k].trace /\ walk'[k].entry = walk[k].entry
                            /\ k < n + 1 => walk'[k].at # "open"
      <3> TAKE k \in 1 .. n
      <3>1. CASE k = n
        BY <2>1, <2>3, <2>4, <3>1
      <3>2. CASE k # n
        <4>1. k \in 1 .. Len(walk) - 1
          BY <2>2, <3>2
        <4> QED BY <2>3, <3>2, <4>1 DEF HistoryInv, WalkNests
      <3> QED BY <3>1, <3>2
    <2>6. /\ n + 1 \in Nat /\ n = Len(walk) /\ n > 0 /\ walk'[n + 1].entry = FALSE
          /\ done[walk'[n + 1].trace].id > done[walk[n].trace].id
      BY <2>2, <2>3, <2>4 DEF emitted
    <2>7. MainFirst' /\ WalkNests'
      <3>1. PICK m \in Nat : m = n + 1
        BY <2>6
      <3>2. n \in Nat /\ n <= Len(walk)
        BY <2>2
      <3> QED BY <1>1, <2>1, <2>3, <2>5, <2>6, <3>1, <3>2, WalkMoved
    <2> QED BY <1>1, <2>1, <2>7, EvalKept DEF HistoryInv
  <1>4. ASSUME CloseCall PROVE HistoryInv'
    <2>1. /\ mode = "emitting" /\ UNCHANGED <<evalVars, entries, mode>>
      BY <1>0, <1>4, ClosesWalk
    <2>2. PICK n \in Nat : n = Len(walk) - 1
      <3>1. Len(walk) - 1 \in Nat
        BY <1>0, <1>4, ClosesWalk
      <3> QED BY <3>1
    <2>3. Len(walk') = n /\ Len(walk) = n + 1 /\ \A k \in 1 .. n : walk'[k] = walk[k]
      BY <1>0, <1>4, <2>2, ClosesWalk
    <2>4. \A k \in 1 .. n : /\ walk'[k].trace = walk[k].trace /\ walk'[k].entry = walk[k].entry
                            /\ k < n => walk'[k].at # "open"
      BY <2>3 DEF HistoryInv, WalkNests
    <2>5. MainFirst' /\ WalkNests'
      <3>1. n \in Nat /\ n <= Len(walk) /\ n # n + 1
        BY <2>2, <2>3
      <3> QED BY <1>1, <2>1, <2>3, <2>4, <3>1, WalkMoved
    <2> QED BY <1>1, <2>1, <2>5, EvalKept DEF HistoryInv
  <1>5. CASE OpenCall
    BY <1>0, <1>2, <1>5, EmissionMoves
  <1>6. CASE EmitBinding
    BY <1>0, <1>2, <1>6, EmissionMoves
  <1>7. CASE EndBindings
    BY <1>0, <1>2, <1>7, EmissionMoves
  <1>8. CASE EmitSubCall \/ EmitTrailingSubCall
    BY <1>0, <1>3, <1>8, EmissionMoves
  <1> QED BY <1>4, <1>5, <1>6, <1>7, <1>8 DEF EmitCallTrace

\* The outermost call of a run stays the same until its CallTrace is left.
LEMMA RootKept ==
    ASSUME EvalInv, EvalStep, log \in Seq(Event)
    PROVE  /\ stack # <<>>
           /\ stack' # <<>> => stack'[1].id = stack[1].id /\ stack'[1].fn = stack[1].fn
           /\ stack' = <<>> => /\ done'[Len(done')].id = stack[1].id
                              /\ done'[Len(done')].fn = stack[1].fn
  <1>0. Effect
    BY StepEffect
  <1>1. ASSUME NEW f \in Frame, Continues(f)
        PROVE  /\ stack # <<>> /\ stack' # <<>>
               /\ stack'[1].id = stack[1].id /\ stack'[1].fn = stack[1].fn
    <2>1. SameCalls /\ stack # <<>>
      BY <1>1, ContinuesSame DEF Continues
    <2>2. Len(stack) \in Nat \ {0} /\ stack' \in Seq(Frame) /\ Len(stack') = Len(stack)
      BY <1>1, ContinuesStack
    <2>3. stack' # <<>> /\ 1 \in 1 .. Len(stack)
      BY <2>2
    <2> QED BY <2>1, <2>3 DEF SameCalls
  <1>2. ASSUME NEW c \in Frame, NEW g \in FnName, NEW args \in Seq(Value), Enters(c, g, args)
        PROVE  /\ stack # <<>> /\ stack' # <<>>
               /\ stack'[1].id = stack[1].id /\ stack'[1].fn = stack[1].fn
    <2>1. PICK n \in Nat \ {0} : n = Len(stack)
      BY <1>2, EntersStack
    <2>2. /\ stack' \in Seq(Frame) /\ Len(stack') = n + 1 /\ fr = stack[n]
          /\ \A k \in 1 .. n : stack'[k] = IF k = n THEN c ELSE stack[k]
      BY <1>2, <2>1, EntersStack
    <2>3. stack' # <<>> /\ 1 \in 1 .. n
      BY <2>1, <2>2
    <2> QED BY <1>2, <2>2, <2>3 DEF Enters
  <1>3. ASSUME FinishCall
        PROVE  /\ stack # <<>>
               /\ stack' # <<>> => stack'[1].id = stack[1].id /\ stack'[1].fn = stack[1].fn
               /\ stack' = <<>> => /\ done'[Len(done')].id = stack[1].id
                                  /\ done'[Len(done')].fn = stack[1].fn
    <2>1. PICK n \in Nat \ {0} : n = Len(stack)
      BY <1>3, FinishStack
    <2>2. /\ fr = stack[n] /\ fr \in Frame /\ done'[Len(done')] = TraceOf(fr)
          /\ done \in Seq(CallTrace)
      BY <1>3, <2>1, FinishStack
    <2>3. CASE n = 1
      <3>1. stack' = <<>>
        BY <1>3, <2>1, <2>3, FinishStack
      <3> QED BY <1>3, <2>2, <2>3, <3>1, TraceParts DEF FinishCall
    <2>4. CASE n # 1
      <3>1. PICK p \in Nat \ {0} : p = n - 1
        <4>1. n - 1 \in Nat \ {0}
          BY <2>1, <2>4
        <4> QED BY <4>1
      <3>2. PICK c \in Frame : c = stack[p]
        BY <1>3, <2>1, <2>4, <3>1, FinishStack
      <3>3. /\ FrameOK(c) /\ c.ep > 0 /\ stack' \in Seq(Frame) /\ Len(stack') = p
            /\ \A k \in 1 .. p : stack'[k] = IF k = p THEN Resumed(fr, c) ELSE stack[k]
        BY <1>3, <2>1, <2>4, <3>1, <3>2, FinishStack
      <3>4. Resumed(fr, c).id = c.id /\ Resumed(fr, c).fn = c.fn
        BY <2>2, <3>3, ResumedParts
      <3>5. stack' # <<>> /\ 1 \in 1 .. p
        BY <3>1, <3>3
      <3> QED BY <1>3, <3>2, <3>3, <3>4, <3>5 DEF FinishCall
    <2> QED BY <2>3, <2>4
  <1>4. CASE \E f \in Frame : Silent(f)
    BY <1>1, <1>4 DEF Silent
  <1>5. CASE \E f \in Frame, tag \in IoTag : Reports(f, tag)
    BY <1>1, <1>5 DEF Reports
  <1>6. CASE \E f \in Frame, b \in Binding : Binds(f, b)
    BY <1>1, <1>6 DEF Binds
  <1>7. CASE \E f \in Frame, x \in Name, v \in Value : Writes(f, x, v)
    BY <1>1, <1>7 DEF Writes
  <1>8. CASE \E f \in Frame : Asserts(f)
    BY <1>1, <1>8 DEF Asserts
  <1> QED BY <1>0, <1>2, <1>3, <1>4, <1>5, <1>6, <1>7, <1>8 DEF Effect

LEMMA EvaluateHistory == ASSUME HistoryInv, Evaluate PROVE HistoryInv'
  <1>1. /\ WalkInv' /\ mode = "running" /\ EvalStep /\ walk = <<>>
        /\ entries' = entries /\ mode' = mode /\ walk' = walk /\ out' = out
    BY EvaluateInv DEF HistoryInv, Evaluate, emitVars, WalkInv
  <1>2. CallsNumbered' /\ LogTyped' /\ prog' = prog
    BY <1>1, StepNumbered DEF HistoryInv, WalkInv
  <1>3. /\ stack # <<>>
        /\ stack' # <<>> => stack'[1].id = stack[1].id
        /\ stack' = <<>> => done'[Len(done')].id = stack[1].id
    BY <1>1, RootKept DEF HistoryInv, WalkInv, LogTyped
  <1>4. MainFirst'
    BY <1>1, <1>2, <1>3 DEF HistoryInv, MainFirst, MainOnly
  <1>5. Len(walk') = 0
    BY <1>1
  <1>6. WalkNests'
    BY <1>1, <1>5 DEF WalkNests
  <1> QED BY <1>1, <1>2, <1>4, <1>6 DEF HistoryInv

LEMMA DispatchHistory == ASSUME HistoryInv, DispatchEntry PROVE HistoryInv'
  <1>1. /\ calls \in Nat /\ prog' = prog /\ done' = done
        /\ stack' = <<NewFrame(calls + 1, entryFn, EntryArgs(entryFn))>>
        /\ mode = "idle" /\ mode' = "running" /\ entries' = entries /\ walk' = walk
    BY DispatchStarts
  <1>2. WalkInv' /\ CallsNumbered' /\ LogTyped' /\ walk = <<>> /\ entries # {}
    BY <1>1, DispatchEntryInv, DispatchNumbered DEF HistoryInv, WalkInv, DispatchEntry
  <1>3. stack' # <<>> /\ stack'[1].id = calls + 1
    BY <1>1 DEF NewFrame
  <1>4. MainFirst'
    BY <1>1, <1>2, <1>3 DEF HistoryInv, MainFirst, MainOnly
  <1>5. Len(walk') = 0
    BY <1>1, <1>2
  <1>6. WalkNests'
    BY <1>1, <1>2, <1>5 DEF WalkNests
  <1> QED BY <1>2, <1>4, <1>6 DEF HistoryInv

LEMMA BeginHistory == ASSUME HistoryInv, BeginEmission PROVE HistoryInv'
  <1>1. /\ mode = "running" /\ stack = <<>> /\ mode' = "emitting"
        /\ walk' = <<Opening(Len(done), EntryArgs(entryFn), MainOnly)>>
        /\ UNCHANGED <<evalVars, entries, out>>
    BY DEF BeginEmission
  <1>2. WalkInv' /\ CallsNumbered' /\ LogTyped'
    BY <1>1, BeginEmissionInv, EvalKept DEF HistoryInv
  <1>3. prog' = prog /\ stack' = stack /\ done' = done /\ calls' = calls /\ entries' = entries
    BY <1>1 DEF evalVars
  <1>4. /\ Len(walk') = 1 /\ walk'[1].trace = Len(done) /\ walk'[1].entry = MainOnly
    BY <1>1 DEF Opening
  <1>5. MainOnly' = MainOnly /\ MainOnly \in BOOLEAN
    BY <1>3 DEF MainOnly
  <1>6. MainFirst'
    BY <1>1, <1>3, <1>4, <1>5 DEF HistoryInv, MainFirst
  <1>7. WalkNests'
    BY <1>1, <1>3, <1>4, <1>5 DEF WalkNests
  <1> QED BY <1>2, <1>6, <1>7 DEF HistoryInv

LEMMA EndHistory == ASSUME HistoryInv, EndEmission PROVE HistoryInv'
  <1>1. /\ mode = "emitting" /\ walk = <<>> /\ mode' = "idle" /\ walk' = walk
        /\ entries' = entries \ {position} /\ UNCHANGED evalVars
    BY DEF EndEmission
  <1>2. WalkInv' /\ CallsNumbered' /\ LogTyped'
    BY <1>1, EndEmissionInv, EvalKept DEF HistoryInv
  <1>3. prog' = prog /\ stack' = stack /\ done' = done /\ calls' = calls
    BY <1>1 DEF evalVars
  <1>4. ASSUME MainOnly PROVE entries' = {}
    <2>1. \A a, b \in entries : a = b
      BY <1>4 DEF HistoryInv, MainFirst
    <2>2. CASE entries = {}
      BY <1>1, <2>2
    <2>3. CASE entries # {}
      <3>1. PICK e \in entries : TRUE
        BY <2>3
      <3>2. prog.decls \in Seq(FnName) /\ entries \subseteq 1 .. Len(prog.decls)
        BY DEF HistoryInv, WalkInv, EvalInv, EvalTypeOK, Program
      <3>3. e \in Int
        BY <3>2
      <3>4. \A j \in entries : e <= j
        BY <2>1, <3>3
      <3>5. position \in entries
        BY <3>4 DEF position
      <3> QED BY <1>1, <2>1, <3>5
    <2> QED BY <2>2, <2>3
  <1>5. MainFirst'
    BY <1>1, <1>3, <1>4 DEF MainFirst, MainOnly
  <1>6. Len(walk') = 0 /\ stack' = <<>>
    BY <1>1, <1>3 DEF HistoryInv, WalkNests
  <1>7. WalkNests'
    BY <1>1, <1>6 DEF WalkNests
  <1> QED BY <1>2, <1>5, <1>7 DEF HistoryInv

LEMMA StutterHistory == ASSUME HistoryInv, UNCHANGED vars PROVE HistoryInv'
  <1>1. /\ WalkInv' /\ UNCHANGED evalVars
        /\ prog' = prog /\ stack' = stack /\ done' = done /\ calls' = calls
        /\ entries' = entries /\ mode' = mode /\ walk' = walk
    BY WalkStutterInv DEF HistoryInv, vars, evalVars
  <1>2. CallsNumbered' /\ LogTyped'
    BY <1>1, EvalKept
  <1>3. MainFirst'
    BY <1>1 DEF HistoryInv, MainFirst, MainOnly
  <1>4. WalkNests'
    BY <1>1 DEF HistoryInv, WalkNests, MainOnly
  <1> QED BY <1>1, <1>2, <1>3, <1>4 DEF HistoryInv

LEMMA InitHistory == ASSUME Init PROVE HistoryInv
  <1>1. /\ WalkInv /\ stack = <<>> /\ done = <<>> /\ log = <<>> /\ calls = 0
        /\ mode = "idle" /\ walk = <<>> /\ entries = Entries(prog)
    BY InitWalkInv DEF Init, EvalInit
  <1>2. CallsNumbered /\ LogTyped
    BY <1>1 DEF CallsNumbered, LogTyped
  <1>3. ASSUME MainOnly, NEW a \in entries, NEW b \in entries PROVE a = b
    <2>1. Len(prog.decls) \in Nat
      BY <1>1 DEF WalkInv, EvalInv, EvalTypeOK, Program
    <2>2. /\ a \in 1 .. Len(prog.decls) /\ b \in 1 .. Len(prog.decls)
          /\ prog.decls[a] = Main /\ prog.decls[b] = Main
          /\ \A j \in 1 .. a - 1 : prog.decls[j] # Main
          /\ \A j \in 1 .. b - 1 : prog.decls[j] # Main
      BY <1>1, <1>3 DEF Entries, MainOnly
    <2>3. a < b => a \in 1 .. b - 1
      BY <2>1, <2>2
    <2>4. b < a => b \in 1 .. a - 1
      BY <2>1, <2>2
    <2>5. a \in Nat /\ b \in Nat
      BY <2>1, <2>2
    <2> QED BY <2>2, <2>3, <2>4, <2>5
  <1>4. MainFirst
    BY <1>1, <1>3 DEF MainFirst
  <1>5. WalkNests
    BY <1>1 DEF WalkNests
  <1> QED BY <1>1, <1>2, <1>4, <1>5 DEF HistoryInv

LEMMA NextHistory == HistoryInv /\ [Next]_vars => HistoryInv'
  BY DispatchHistory, EvaluateHistory, BeginHistory, EmissionHistory, EndHistory, StutterHistory
  DEF Next, Stutter

LEMMA HistoryInvariant == Spec => []HistoryInv
  <1>1. Init => HistoryInv
    BY InitHistory
  <1> QED BY <1>1, NextHistory, PTL DEF Spec

----------------------------------------------------------------------------
(* What is written *)

StreamRecord ==
    [rec : {"call"}, id : Nat, fn : FnName, args : Seq(Value)]
    \cup [rec : {"entry_step", "return_step"}, id : Nat]
    \cup [rec : {"bind"}, id : Nat, name : Name, line : Line, mutable : BOOLEAN, value : Value]
    \cup [rec : {"event"}, id : Nat, kind : {"Error", "Write", "Read"}, tag : IoTag \cup {"LeoAssert"}]
    \cup [rec : {"return"}, id : Nat, rv : Value]

OutTyped == out \in Seq(StreamRecord)

AssertRecord(t) == [rec |-> "event", id |-> t.id, kind |-> "Error", tag |-> "LeoAssert"]

IoRecord(t, tag) == [rec |-> "event", id |-> t.id, kind |-> EventKind(tag), tag |-> tag]

StepRecord(t) == [rec |-> "return_step", id |-> t.id]

ReturnRecord(t) == [rec |-> "return", id |-> t.id, rv |-> t.rv]

LEMMA ClosingTypes ==
    ASSUME NEW t \in CallTrace
    PROVE  /\ AssertRecord(t) \in StreamRecord /\ StepRecord(t) \in StreamRecord
           /\ ReturnRecord(t) \in StreamRecord
           /\ \A tag \in IoTag : IoRecord(t, tag) \in StreamRecord
  <1>1. t.id \in Nat /\ t.rv \in Value
    BY DEF CallTrace
  <1>2. \A tag \in IoTag : EventKind(tag) \in {"Error", "Write", "Read"}
    BY DEF EventKind, IoTag
  <1>3. AssertRecord(t) \in StreamRecord
    BY <1>1 DEF AssertRecord, StreamRecord
  <1>4. StepRecord(t) \in StreamRecord
    BY <1>1 DEF StepRecord, StreamRecord
  <1>5. ReturnRecord(t) \in StreamRecord
    BY <1>1 DEF ReturnRecord, StreamRecord
  <1>6. ASSUME NEW tag \in IoTag PROVE IoRecord(t, tag) \in StreamRecord
    <2>1. PICK k \in {"Error", "Write", "Read"} : k = EventKind(tag)
      BY <1>2
    <2>2. IoRecord(t, tag) = [rec |-> "event", id |-> t.id, kind |-> k, tag |-> tag]
      BY <2>1 DEF IoRecord
    <2> QED BY <1>1, <2>2 DEF StreamRecord
  <1> QED BY <1>3, <1>4, <1>5, <1>6

\* The records that close a call: its asserts, its io events, its last step and
\* its return, unless it is main.
LEMMA ClosingRecords ==
    ASSUME NEW t \in CallTrace, NEW entry \in BOOLEAN
    PROVE  /\ CloseRecords(t, entry) \in Seq(StreamRecord)
           /\ t.asserts \in Nat /\ Len(t.ios) \in Nat /\ t.ios \in Seq(IoTag)
           /\ Len(CloseRecords(t, entry)) =
                  t.asserts + Len(t.ios) + (IF entry THEN 1 ELSE 2)
           /\ \A k \in 1 .. t.asserts : CloseRecords(t, entry)[k] = AssertRecord(t)
           /\ \A k \in 1 .. Len(t.ios) :
                  CloseRecords(t, entry)[t.asserts + k] = IoRecord(t, t.ios[k])
           /\ CloseRecords(t, entry)[t.asserts + Len(t.ios) + 1] = StepRecord(t)
           /\ ~entry => CloseRecords(t, entry)[t.asserts + Len(t.ios) + 2] = ReturnRecord(t)
  <1>1. PICK n \in Nat : n = t.asserts
    BY DEF CallTrace
  <1>2. PICK ios \in Seq(IoTag) : ios = t.ios
    BY DEF CallTrace
  <1>3. PICK m \in Nat : m = Len(ios)
    OBVIOUS
  <1>4. PICK a0 : a0 = [k \in 1 .. n |-> AssertRecord(t)]
    OBVIOUS
  <1>5. a0 \in Seq(StreamRecord) /\ Len(a0) = n /\ \A k \in 1 .. n : a0[k] = AssertRecord(t)
    BY <1>4, ClosingTypes
  <1>6. PICK a1 : a1 = [k \in 1 .. m |-> IoRecord(t, ios[k])]
    OBVIOUS
  <1>7. a1 \in Seq(StreamRecord) /\ Len(a1) = m /\ \A k \in 1 .. m : a1[k] = IoRecord(t, ios[k])
    <2>1. \A k \in 1 .. m : ios[k] \in IoTag
      BY <1>3
    <2> QED BY <1>6, <2>1, ClosingTypes
  <1>8. PICK rs : rs = ReturnRecords(t, entry)
    OBVIOUS
  <1>9. PICK p \in {0, 1} : p = IF entry THEN 0 ELSE 1
    OBVIOUS
  <1>10. /\ rs \in Seq(StreamRecord) /\ Len(rs) = p
         /\ ~entry => rs[1] = ReturnRecord(t)
    <2>1. entry => rs = <<>>
      BY <1>8 DEF ReturnRecords
    <2>2. ~entry => rs = <<ReturnRecord(t)>>
      BY <1>8 DEF ReturnRecords, ReturnRecord
    <2>3. CASE entry
      BY <1>9, <2>1, <2>3
    <2>4. CASE ~entry
      <3>1. PICK r \in StreamRecord : r = ReturnRecord(t)
        BY ClosingTypes
      <3>2. rs = <<r>>
        BY <2>2, <2>4, <3>1
      <3>3. rs \in Seq(StreamRecord) /\ Len(rs) = 1 /\ rs[1] = r
        BY <3>2
      <3> QED BY <1>9, <2>4, <3>1, <3>3
    <2> QED BY <2>3, <2>4
  <1>11. PICK st : st = <<StepRecord(t)>>
    OBVIOUS
  <1>12. st \in Seq(StreamRecord) /\ Len(st) = 1 /\ st[1] = StepRecord(t)
    BY <1>11, ClosingTypes
  <1>13. CloseRecords(t, entry) = ((a0 \o a1) \o st) \o rs
    <2>1. a0 = AssertEvents(t)
      BY <1>1, <1>4 DEF AssertEvents, AssertRecord
    <2>2. a1 = IoEvents(t)
      BY <1>2, <1>3, <1>6 DEF IoEvents, IoRecord
    <2> QED BY <1>8, <1>11, <2>1, <2>2 DEF CloseRecords, StepRecord
  <1>14. PICK a2 : a2 = a0 \o a1
    OBVIOUS
  <1>15. /\ a2 \in Seq(StreamRecord) /\ Len(a2) = n + m
         /\ \A k \in 1 .. n : a2[k] = AssertRecord(t)
         /\ \A k \in 1 .. m : a2[n + k] = IoRecord(t, ios[k])
    <2>1. a0 \in Seq(StreamRecord) /\ a1 \in Seq(StreamRecord)
      BY <1>5, <1>7
    <2>2. /\ a2 \in Seq(StreamRecord) /\ Len(a2) = Len(a0) + Len(a1)
          /\ \A k \in 1 .. Len(a0) : a2[k] = a0[k]
          /\ \A k \in 1 .. Len(a1) : a2[Len(a0) + k] = a1[k]
      <3>1. /\ a0 \o a1 \in Seq(StreamRecord) /\ Len(a0 \o a1) = Len(a0) + Len(a1)
            /\ \A k \in 1 .. Len(a0) : (a0 \o a1)[k] = a0[k]
            /\ \A k \in 1 .. Len(a1) : (a0 \o a1)[Len(a0) + k] = a1[k]
        BY <2>1, ConcatElement
      <3> QED BY <1>14, <3>1
    <2> QED BY <1>5, <1>7, <2>2
  <1>16. PICK a3 : a3 = a2 \o st
    OBVIOUS
  <1>17. /\ a3 \in Seq(StreamRecord) /\ Len(a3) = n + m + 1
         /\ \A k \in 1 .. n + m : a3[k] = a2[k]
         /\ a3[n + m + 1] = StepRecord(t)
    <2>1. a2 \in Seq(StreamRecord) /\ st \in Seq(StreamRecord)
      BY <1>12, <1>15
    <2>2. /\ a3 \in Seq(StreamRecord) /\ Len(a3) = Len(a2) + Len(st)
          /\ \A k \in 1 .. Len(a2) : a3[k] = a2[k]
          /\ \A k \in 1 .. Len(st) : a3[Len(a2) + k] = st[k]
      <3>1. /\ a2 \o st \in Seq(StreamRecord) /\ Len(a2 \o st) = Len(a2) + Len(st)
            /\ \A k \in 1 .. Len(a2) : (a2 \o st)[k] = a2[k]
            /\ \A k \in 1 .. Len(st) : (a2 \o st)[Len(a2) + k] = st[k]
        BY <2>1, ConcatElement
      <3> QED BY <1>16, <3>1
    <2> QED BY <1>12, <1>15, <2>2
  <1>18. PICK a4 : a4 = a3 \o rs
    OBVIOUS
  <1>19. /\ a4 \in Seq(StreamRecord) /\ Len(a4) = n + m + 1 + p
         /\ \A k \in 1 .. n + m + 1 : a4[k] = a3[k]
         /\ ~entry => a4[n + m + 1 + 1] = ReturnRecord(t)
    <2>1. a3 \in Seq(StreamRecord) /\ rs \in Seq(StreamRecord)
      BY <1>10, <1>17
    <2>2. /\ a4 \in Seq(StreamRecord) /\ Len(a4) = Len(a3) + Len(rs)
          /\ \A k \in 1 .. Len(a3) : a4[k] = a3[k]
          /\ \A k \in 1 .. Len(rs) : a4[Len(a3) + k] = rs[k]
      <3>1. /\ a3 \o rs \in Seq(StreamRecord) /\ Len(a3 \o rs) = Len(a3) + Len(rs)
            /\ \A k \in 1 .. Len(a3) : (a3 \o rs)[k] = a3[k]
            /\ \A k \in 1 .. Len(rs) : (a3 \o rs)[Len(a3) + k] = rs[k]
        BY <2>1, ConcatElement
      <3> QED BY <1>18, <3>1
    <2>3. ~entry => 1 \in 1 .. Len(rs)
      BY <1>9, <1>10
    <2> QED BY <1>9, <1>10, <1>17, <2>2, <2>3
  <1>20. CloseRecords(t, entry) = a4
    BY <1>13, <1>14, <1>16, <1>18
  <1>21. \A k \in 1 .. n : a4[k] = AssertRecord(t)
    <2> TAKE k \in 1 .. n
    <2>1. k \in 1 .. n + m /\ k \in 1 .. n + m + 1
      OBVIOUS
    <2> QED BY <1>15, <1>17, <1>19, <2>1
  <1>22. \A k \in 1 .. m : a4[n + k] = IoRecord(t, ios[k])
    <2> TAKE k \in 1 .. m
    <2>1. n + k \in 1 .. n + m /\ n + k \in 1 .. n + m + 1
      OBVIOUS
    <2> QED BY <1>15, <1>17, <1>19, <2>1
  <1>23. a4[n + m + 1] = StepRecord(t) /\ n + m + 1 + 1 = n + m + 2
    BY <1>17, <1>19
  <1>24. Len(a4) = n + m + (IF entry THEN 1 ELSE 2)
    BY <1>9, <1>19
  <1> QED BY <1>1, <1>2, <1>3, <1>19, <1>20, <1>21, <1>22, <1>23, <1>24

\* R closes the call t: it opens and closes no other, and the return comes last.
Closes(R, t, entry) ==
    \E n \in Nat \ {0} :
        /\ R \in Seq(StreamRecord)
        /\ entry => Len(R) = n
        /\ ~entry => Len(R) = n + 1 /\ R[n + 1] = ReturnRecord(t)
        /\ \A k \in 1 .. n : R[k].rec \notin {"call", "return"} /\ R[k].id = t.id

LEMMA ClosingKinds ==
    ASSUME NEW t \in CallTrace, NEW entry \in BOOLEAN PROVE Closes(CloseRecords(t, entry), t, entry)
  <1>0. PICK R : R = CloseRecords(t, entry)
    OBVIOUS
  <1>1. PICK a \in Nat, m \in Nat : a = t.asserts /\ m = Len(t.ios)
    BY ClosingRecords
  <1>2. PICK n \in Nat \ {0} : n = a + m + 1
    <2>1. a + m + 1 \in Nat \ {0}
      OBVIOUS
    <2> QED BY <2>1
  <1>3. /\ R \in Seq(StreamRecord)
        /\ Len(R) = a + m + (IF entry THEN 1 ELSE 2)
        /\ ~entry => R[a + m + 2] = ReturnRecord(t)
        /\ \A k \in 1 .. a : R[k] = AssertRecord(t)
        /\ \A k \in 1 .. m : R[a + k] = IoRecord(t, t.ios[k])
        /\ R[a + m + 1] = StepRecord(t)
    BY <1>0, <1>1, ClosingRecords
  <1>4. a + m + 2 = n + 1
    BY <1>2
  <1>5. \A k \in 1 .. n : R[k].rec \notin {"call", "return"} /\ R[k].id = t.id
    <2> TAKE k \in 1 .. n
    <2>1. CASE k \in 1 .. a
      BY <1>3, <2>1 DEF AssertRecord
    <2>2. CASE k - a \in 1 .. m
      <3>1. a + (k - a) = k
        OBVIOUS
      <3>2. R[a + (k - a)] = IoRecord(t, t.ios[k - a])
        BY <1>3, <2>2
      <3> QED BY <3>1, <3>2 DEF IoRecord
    <2>3. CASE k = n
      BY <1>2, <1>3, <2>3 DEF StepRecord
    <2>4. k \in 1 .. a \/ k - a \in 1 .. m \/ k = n
      BY <1>2
    <2> QED BY <2>1, <2>2, <2>3, <2>4
  <1> QED BY <1>0, <1>2, <1>3, <1>4, <1>5 DEF Closes

----------------------------------------------------------------------------
(* Which calls are open *)

\* The activations whose call record has been written.
Opened == {a \in Activation : ~a.entry /\ a.at # "open"}

OpenOf(w) ==
    [k \in 1 .. Len(Select(w, Opened)) |-> done[Select(w, Opened)[k].trace].id]

LEMMA OpenCallsOf == OpenCalls = OpenOf(walk)
  BY DEF OpenCalls, OpenOf, Opened

LEMMA OpenOfParts ==
    ASSUME NEW w \in Seq(Activation)
    PROVE  /\ OpenOf(w) \in Seq({done[w[j].trace].id : j \in 1 .. Len(w)})
           /\ OpenOf(<<>>) = <<>>
           /\ \A a \in Activation :
                  OpenOf(Append(w, a)) = IF ~a.entry /\ a.at # "open"
                                         THEN Append(OpenOf(w), done[a.trace].id) ELSE OpenOf(w)
  <1>1. PICK s \in Seq(Activation) : s = Select(w, Opened)
    BY SelectType
  <1>2. \A k \in 1 .. Len(s) : \E j \in 1 .. Len(w) : w[j] = s[k]
    BY <1>1, SelectType
  <1>3. OpenOf(w) = [k \in 1 .. Len(s) |-> done[s[k].trace].id]
    BY <1>1 DEF OpenOf
  <1>4. PICK Ids : Ids = {done[w[j].trace].id : j \in 1 .. Len(w)}
    OBVIOUS
  <1>5. \A k \in 1 .. Len(s) : done[s[k].trace].id \in Ids
    BY <1>2, <1>4
  <1>6. OpenOf(w) \in Seq(Ids) /\ Len(OpenOf(w)) = Len(s)
    BY <1>1, <1>3, <1>5
  <1>7. OpenOf(<<>>) = <<>>
    BY SelectEmpty DEF OpenOf
  <1>8. ASSUME NEW a \in Activation
        PROVE  OpenOf(Append(w, a)) = IF ~a.entry /\ a.at # "open"
                                      THEN Append(OpenOf(w), done[a.trace].id) ELSE OpenOf(w)
    <2>1. Select(Append(w, a), Opened) = IF a \in Opened THEN Append(s, a) ELSE s
      BY <1>1, SelectAppend
    <2>2. a \in Opened <=> ~a.entry /\ a.at # "open"
      BY DEF Opened
    <2>3. CASE a \notin Opened
      <3>1. Select(Append(w, a), Opened) = s
        BY <2>1, <2>3
      <3>2. OpenOf(Append(w, a)) = OpenOf(w)
        BY <1>3, <3>1 DEF OpenOf
      <3> QED BY <2>2, <2>3, <3>2
    <2>4. CASE a \in Opened
      <3>1. PICK t : t = Append(s, a)
        OBVIOUS
      <3>2. /\ Len(t) = Len(s) + 1 /\ t[Len(s) + 1] = a /\ Len(s) \in Nat
            /\ \A k \in 1 .. Len(s) : t[k] = s[k]
        BY <1>1, <3>1, AppendElement
      <3>3. OpenOf(Append(w, a)) = [k \in 1 .. Len(t) |-> done[t[k].trace].id]
        <4>1. Select(Append(w, a), Opened) = t
          BY <2>1, <2>4, <3>1
        <4> QED BY <4>1 DEF OpenOf
      <3>4. PICK o \in Seq(Ids) : o = OpenOf(w)
        BY <1>6
      <3>5. o = [k \in 1 .. Len(s) |-> done[s[k].trace].id] /\ Len(o) = Len(s)
        BY <1>3, <1>6, <3>4
      <3>6. PICK id : id = done[a.trace].id
        OBVIOUS
      <3>7. [k \in 1 .. Len(t) |-> done[t[k].trace].id] = Append(o, id)
        <4>1. \A k \in 1 .. Len(s) + 1 :
                 done[t[k].trace].id = IF k = Len(s) + 1 THEN id ELSE o[k]
          BY <3>2, <3>5, <3>6
        <4>2. Append(o, id) = [k \in 1 .. Len(s) + 1 |-> IF k = Len(s) + 1 THEN id ELSE o[k]]
          BY <3>2, <3>5
        <4> QED BY <3>2, <4>1, <4>2
      <3> QED BY <2>2, <2>4, <3>3, <3>4, <3>6, <3>7
    <2> QED BY <2>3, <2>4
  <1> QED BY <1>4, <1>6, <1>7, <1>8

\* The walk is the activations below, and the one that runs.
LEMMA BelowAct ==
    ASSUME WalkInv, walk # <<>>
    PROVE  \E w \in Seq(Activation) :
               /\ walk = Append(w, act) /\ Len(walk) = Len(w) + 1 /\ Len(w) \in Nat
               /\ \A k \in 1 .. Len(w) : w[k] = walk[k]
               /\ Front(walk) = w
               /\ \A a \in Activation : [walk EXCEPT ![Len(walk)] = a] = Append(w, a)
  <1>1. walk \in Seq(Activation) /\ Len(walk) \in Nat \ {0} /\ act = walk[Len(walk)]
    BY ActType DEF act
  <1>2. PICK w \in Seq(Activation), a \in Activation : walk = Append(w, a) /\ Len(walk) = Len(w) + 1
    BY <1>1, LastElement
  <1>3. /\ Len(w) \in Nat /\ \A k \in 1 .. Len(w) : walk[k] = w[k]
        /\ walk[Len(w) + 1] = a
    BY <1>2, AppendElement
  <1>4. a = act
    BY <1>1, <1>2, <1>3
  <1>5. ASSUME NEW b \in Activation PROVE [walk EXCEPT ![Len(walk)] = b] = Append(w, b)
    <2>1. PICK v : v = [walk EXCEPT ![Len(walk)] = b]
      OBVIOUS
    <2>2. /\ v \in Seq(Activation) /\ Len(v) = Len(walk)
          /\ \A k \in 1 .. Len(walk) : v[k] = IF k = Len(walk) THEN b ELSE walk[k]
      BY <1>1, <2>1
    <2>3. PICK u : u = Append(w, b)
      OBVIOUS
    <2>4. /\ u \in Seq(Activation) /\ Len(u) = Len(walk) /\ u[Len(walk)] = b
          /\ \A k \in 1 .. Len(w) : u[k] = walk[k]
      BY <1>2, <1>3, <2>3, AppendElement
    <2>5. \A k \in 1 .. Len(walk) : k = Len(walk) \/ k \in 1 .. Len(w)
      BY <1>2, <1>3
    <2>6. \A k \in 1 .. Len(v) : v[k] = u[k]
      BY <2>2, <2>4, <2>5
    <2>7. v = u
      BY <2>2, <2>4, <2>6, SameElements
    <2> QED BY <2>1, <2>3, <2>7
  <1>6. Front(walk) = w
    BY <1>2 DEF Front
  <1> QED BY <1>2, <1>3, <1>4, <1>5, <1>6

\* The innermost open call is the one under the walk, and its number is new
\* among the others'.
LEMMA OpenInnermost ==
    ASSUME HistoryInv, walk # <<>>, NEW w \in Seq(Activation), walk = Append(w, act)
    PROVE  /\ emitted.id \in Nat /\ emitted.id # 0
           /\ \E S : OpenOf(w) \in Seq(S) /\ emitted.id \notin S
           /\ act.at # "open" => OpenCalls = IF act.entry THEN <<>> ELSE Append(OpenOf(w), emitted.id)
           /\ act.at = "open" => OpenCalls = OpenOf(w)
           /\ act.entry => MainOnly /\ emitted.id = 1 /\ OpenOf(w) = <<>>
           /\ MainOnly /\ emitted.id = 1 => act.entry
  <1>1. /\ walk \in Seq(Activation) /\ Len(walk) \in Nat \ {0} /\ act \in Activation
        /\ act = walk[Len(walk)] /\ act.trace \in 1 .. Len(done) /\ calls \in Nat
    BY ActType DEF HistoryInv, act, ActOK, WalkInv, EvalInv, EvalTypeOK
  <1>2. /\ Len(walk) = Len(w) + 1 /\ Len(w) \in Nat /\ \A k \in 1 .. Len(w) : w[k] = walk[k]
    BY <1>1, AppendElement
  <1>3. emitted.id \in 1 .. calls
    BY <1>1 DEF HistoryInv, CallsNumbered, emitted
  <1>4. PICK S : S = {done[w[j].trace].id : j \in 1 .. Len(w)}
    OBVIOUS
  <1>5. emitted.id \notin S
    <2>1. \A j \in 1 .. Len(w) : done[walk[j].trace].id < done[act.trace].id
      <3>1. Len(walk) \in 1 .. Len(walk) /\ Len(w) = Len(walk) - 1
        BY <1>1, <1>2
      <3> QED BY <1>1, <3>1 DEF HistoryInv, WalkNests
    <2>2. \A j \in 1 .. Len(w) : done[w[j].trace].id # emitted.id
      <3> TAKE j \in 1 .. Len(w)
      <3>1. j \in 1 .. Len(walk)
        BY <1>2
      <3>2. walk[j].trace \in 1 .. Len(done)
        BY <3>1 DEF HistoryInv, WalkInv, ActOK
      <3>3. done[walk[j].trace].id \in 1 .. calls
        BY <3>2 DEF HistoryInv, CallsNumbered
      <3> QED BY <1>1, <1>2, <1>3, <2>1, <3>3 DEF emitted
    <2> QED BY <1>4, <2>2
  <1>6. OpenOf(w) \in Seq(S)
    BY <1>4, OpenOfParts
  <1>7. OpenCalls = IF ~act.entry /\ act.at # "open" THEN Append(OpenOf(w), emitted.id) ELSE OpenOf(w)
    <2>1. OpenCalls = OpenOf(Append(w, act))
      BY OpenCallsOf
    <2> QED BY <1>1, <2>1, OpenOfParts DEF emitted
  <1>8. act.entry => MainOnly /\ Len(walk) = 1
    <2>1. Len(walk) \in 1 .. Len(walk)
      BY <1>1
    <2> QED BY <1>1, <2>1 DEF HistoryInv, WalkNests
  <1>9. act.entry => MainOnly /\ emitted.id = 1 /\ OpenOf(w) = <<>>
    <2> SUFFICES ASSUME act.entry PROVE MainOnly /\ emitted.id = 1 /\ OpenOf(w) = <<>>
      OBVIOUS
    <2>1. MainOnly /\ Len(walk) = 1
      BY <1>8
    <2>2. emitted.id = 1
      BY <1>1, <2>1 DEF HistoryInv, MainFirst, emitted
    <2>3. w = <<>>
      BY <1>2, <2>1
    <2> QED BY <2>1, <2>2, <2>3, OpenOfParts
  <1>10. ASSUME MainOnly, emitted.id = 1 PROVE act.entry
    <2>1. done[walk[1].trace].id = 1
      BY <1>10 DEF HistoryInv, MainFirst
    <2>2. Len(walk) = 1
      <3> SUFFICES ASSUME Len(walk) # 1 PROVE FALSE
        OBVIOUS
      <3>1. 1 \in 1 .. Len(walk) - 1 /\ Len(walk) \in 1 .. Len(walk)
        BY <1>1
      <3>2. done[walk[1].trace].id < done[walk[Len(walk)].trace].id
        BY <3>1 DEF HistoryInv, WalkNests
      <3> QED BY <1>1, <1>10, <2>1, <3>2 DEF emitted
    <2>3. 1 \in 1 .. Len(walk)
      BY <2>2
    <2> QED BY <1>1, <1>10, <2>2, <2>3 DEF HistoryInv, WalkNests
  <1>11. emitted.id \in Nat /\ emitted.id # 0
    BY <1>1, <1>3
  <1>12. act.at # "open" => OpenCalls = IF act.entry THEN <<>> ELSE Append(OpenOf(w), emitted.id)
    BY <1>7, <1>9
  <1>13. act.at = "open" => OpenCalls = OpenOf(w)
    BY <1>7
  <1> QED BY <1>5, <1>6, <1>9, <1>10, <1>11, <1>12, <1>13

----------------------------------------------------------------------------
(* Every record is written while its call is the innermost open one *)

Top == IF MainOnly THEN 1 ELSE 0

\* The calls open along a sequence of records, computed in any way.
LEMMA OpenAlongIs ==
    ASSUME NEW o, NEW R, Len(R) \in Nat, NEW f, f = [k \in 0 .. Len(R) |-> f[k]], f[0] = o,
           \A k \in 1 .. Len(R) : f[k] = Stream!OpenAfter(f[k - 1], R[k])
    PROVE  Stream!OpenAlong(o, R) = f
  <1> DEFINE n == Len(R)
             P(u) == u = [k \in 0 .. n |-> IF k = 0 THEN o ELSE Stream!OpenAfter(u[k - 1], R[k])]
  <1>1. P(f)
    <2>1. \A k \in 0 .. n : f[k] = IF k = 0 THEN o ELSE Stream!OpenAfter(f[k - 1], R[k])
      <3> TAKE k \in 0 .. n
      <3>1. k = 0 \/ k \in 1 .. n
        OBVIOUS
      <3> QED BY <3>1
    <2> QED BY <2>1, Zenon
  <1>2. ASSUME NEW u, P(u) PROVE u = f
    <2> DEFINE S == {k \in Nat : k <= n => u[k] = f[k]}
    <2>1. \A k \in 0 .. n : u[k] = IF k = 0 THEN o ELSE Stream!OpenAfter(u[k - 1], R[k])
      BY <1>2
    <2>2. 0 \in S
      BY <2>1
    <2>3. ASSUME NEW k \in Nat, k \in S PROVE k + 1 \in S
      <3> SUFFICES ASSUME k + 1 <= n PROVE u[k + 1] = f[k + 1]
        OBVIOUS
      <3>1. k <= n /\ k + 1 \in 1 .. n /\ k + 1 \in 0 .. n /\ (k + 1) - 1 = k /\ k + 1 # 0
        OBVIOUS
      <3>2. u[k] = f[k]
        BY <2>3, <3>1
      <3>3. u[k + 1] = Stream!OpenAfter(u[k], R[k + 1])
        BY <2>1, <3>1
      <3>4. f[k + 1] = Stream!OpenAfter(f[k], R[k + 1])
        BY <3>1
      <3> QED BY <3>2, <3>3, <3>4
    <2>4. Nat \subseteq S
      <3> HIDE DEF S
      <3> QED BY <2>2, <2>3, NatSetInduction
    <2>5. \A k \in 0 .. n : u[k] = f[k]
      <3> TAKE k \in 0 .. n
      <3>1. k \in Nat /\ k <= n
        OBVIOUS
      <3>2. k \in S
        BY <2>4, <3>1
      <3> QED BY <3>1, <3>2
    <2>6. u = [k \in 0 .. n |-> u[k]]
      BY <1>2
    <2> QED BY <2>5, <2>6
  <1>3. Stream!OpenAlong(o, R) = CHOOSE u : P(u)
    BY DEF Stream!OpenAlong
  <1> HIDE DEF P
  <1> QED BY <1>1, <1>2, <1>3, Zenon

\* Records written one after the other, each where it belongs.
LEMMA DeliversAll ==
    ASSUME OutTyped, NEW R \in Seq(StreamRecord), Len(R) # 0, Write(R), Top' = Top,
           NEW f, f = [k \in 0 .. Len(R) |-> f[k]], f[0] = OpenCalls,
           \A k \in 1 .. Len(R) : f[k] = Stream!OpenAfter(f[k - 1], R[k]),
           \A k \in 1 .. Len(R) : Stream!Belongs(f[k - 1], R[k]),
           OpenCalls' = f[Len(R)]
    PROVE  Stream!Deliver
  <1>1. out \in Seq(StreamRecord) /\ R \in Seq(StreamRecord)
    BY DEF OutTyped
  <1>2. PICK o : o = out \o R
    OBVIOUS
  <1>3. /\ o \in Seq(StreamRecord) /\ Len(o) = Len(out) + Len(R)
        /\ Len(out) \in Nat /\ Len(R) \in Nat
        /\ \A k \in 1 .. Len(out) : o[k] = out[k]
        /\ \A k \in 1 .. Len(R) : o[Len(out) + k] = R[k]
    <2>1. /\ out \o R \in Seq(StreamRecord) /\ Len(out \o R) = Len(out) + Len(R)
          /\ Len(out) \in Nat /\ Len(R) \in Nat
          /\ \A k \in 1 .. Len(out) : (out \o R)[k] = out[k]
          /\ \A k \in 1 .. Len(R) : (out \o R)[Len(out) + k] = R[k]
      BY <1>1, ConcatElement
    <2> QED BY <1>2, <2>1
  <1>4. out' = o
    BY <1>2 DEF Write
  <1>5. SubSeq(o, Len(out) + 1, Len(o)) = R
    <2>1. PICK n \in Nat, m \in Nat : n = Len(out) /\ m = Len(R)
      BY <1>3
    <2>2. PICK s : s = SubSeq(o, n + 1, n + m)
      OBVIOUS
    <2>3. /\ s \in Seq(StreamRecord) /\ Len(s) = m
          /\ \A k \in 1 .. m : s[k] = o[n + k]
      <3>1. \A k \in 1 .. m : o[n + k] \in StreamRecord
        BY <1>3, <2>1
      <3>2. m # 0 /\ n + 1 \in 1 .. Len(o) /\ n + m \in 1 .. Len(o) /\ Len(o) = n + m
        BY <1>3, <2>1
      <3>3. \A k \in n + 1 .. n + m : o[k] \in StreamRecord
        BY <1>3, <3>2
      <3>4. /\ s \in Seq(StreamRecord)
            /\ Len(s) = IF n + 1 <= n + m THEN (n + m) - (n + 1) + 1 ELSE 0
            /\ \A k \in 1 .. (n + m) - (n + 1) + 1 : s[k] = o[n + 1 + k - 1]
        <4>1. n + 1 \in Int /\ n + m \in Int
          OBVIOUS
        <4> QED BY <2>2, <3>3, <4>1, SubSeqProperties
      <3>5. n + 1 <= n + m /\ (n + m) - (n + 1) + 1 = m
        BY <3>2
      <3>6. \A k \in 1 .. m : n + 1 + k - 1 = n + k
        OBVIOUS
      <3> QED BY <3>4, <3>5, <3>6
    <2>4. \A k \in 1 .. m : s[k] = R[k]
      BY <1>3, <2>1, <2>3
    <2>5. s = R
      BY <1>1, <2>1, <2>3, <2>4, SameElements
    <2> QED BY <1>3, <2>1, <2>2, <2>5
  <1>6. Stream!IsStrictPrefix(out, o)
    <2>1. SubSeq(out, 1, Len(out)) = SubSeq(o, 1, Len(out))
      <3>1. PICK n \in Nat : n = Len(out)
        BY <1>3
      <3>2. SubSeq(out, 1, n) = [k \in 1 .. n |-> out[k]]
        BY <1>1, <3>1
      <3>3. SubSeq(o, 1, n) = [k \in 1 .. n |-> o[k]]
        BY <1>3, <3>1
      <3> QED BY <1>3, <3>1, <3>2, <3>3
    <2>2. Len(out) <= Len(o) /\ Len(out) # Len(o)
      BY <1>3
    <2> QED BY <2>1, <2>2 DEF Stream!IsStrictPrefix, Stream!IsPrefix
  <1>7. Stream!OpenAlong(OpenCalls, R) = f
    BY <1>3, OpenAlongIs
  <1> QED BY <1>4, <1>5, <1>6, <1>7 DEF Stream!Deliver, Top

\* One record alone.
LEMMA DeliversOne ==
    ASSUME OutTyped, NEW r \in StreamRecord, Write(<<r>>), Top' = Top,
           Stream!Belongs(OpenCalls, r), OpenCalls' = Stream!OpenAfter(OpenCalls, r)
    PROVE  Stream!Deliver
  <1>1. PICK R : R = <<r>>
    OBVIOUS
  <1>2. R \in Seq(StreamRecord) /\ Len(R) = 1 /\ R[1] = r
    BY <1>1
  <1>3. PICK a, b : a = OpenCalls /\ b = Stream!OpenAfter(OpenCalls, r)
    OBVIOUS
  <1>4. PICK f : f = [k \in 0 .. 1 |-> IF k = 0 THEN a ELSE b]
    OBVIOUS
  <1>5. f[0] = a /\ f[1] = b /\ f = [k \in 0 .. Len(R) |-> f[k]]
    BY <1>2, <1>4
  <1>6. \A k \in 1 .. Len(R) : f[k] = Stream!OpenAfter(f[k - 1], R[k]) /\ Stream!Belongs(f[k - 1], R[k])
    <2>1. \A k \in 1 .. Len(R) : k = 1 /\ k - 1 = 0
      BY <1>2
    <2>2. f[1] = Stream!OpenAfter(f[0], R[1]) /\ Stream!Belongs(f[0], R[1])
      BY <1>2, <1>3, <1>5
    <2> QED BY <2>1, <2>2
  <1>7. OpenCalls' = f[Len(R)]
    BY <1>2, <1>3, <1>5
  <1>8. Write(R) /\ Len(R) # 0 /\ f[0] = OpenCalls
    BY <1>1, <1>2, <1>3, <1>5
  <1> QED BY <1>2, <1>5, <1>6, <1>7, <1>8, DeliversAll

LEMMA OpenCallsAfter == ASSUME done' = done PROVE OpenCalls' = OpenOf(walk')
  BY DEF OpenCalls, OpenOf, Opened

\* A call that is opened or closed on top of others.
LEMMA OpenedOnTop ==
    ASSUME NEW S, NEW o \in Seq(S), NEW id, id \notin S, id # Top
    PROVE  /\ Append(o, id) # <<>> /\ Stream!Innermost(Append(o, id)) = id
           /\ Stream!Front(Append(o, id)) = o
           /\ id \notin Stream!Range(o) \cup {Top}
  <1>1. PICK T : T = S \cup {id}
    OBVIOUS
  <1>2. o \in Seq(T) /\ id \in T
    BY <1>1
  <1>3. PICK q \in Seq(T) : q = Append(o, id)
    BY <1>2, AppendElement
  <1>4. /\ Len(q) = Len(o) + 1 /\ Len(o) \in Nat /\ q[Len(o) + 1] = id
        /\ \A k \in 1 .. Len(o) : q[k] = o[k]
    BY <1>2, <1>3, AppendElement
  <1>5. q # <<>> /\ Stream!Innermost(q) = id
    BY <1>4 DEF Stream!Innermost, Stream!Last
  <1>6. Stream!Front(q) = o
    <2>1. PICK n \in Nat : n = Len(o)
      BY <1>4
    <2>2. PICK s : s = SubSeq(q, 1, n)
      OBVIOUS
    <2>3. \A k \in 1 .. n : q[k] \in T
      BY <1>4, <2>1
    <2>4. /\ s \in Seq(T) /\ Len(s) = IF 1 <= n THEN n - 1 + 1 ELSE 0
          /\ \A k \in 1 .. n - 1 + 1 : s[k] = q[1 + k - 1]
      BY <2>2, <2>3, SubSeqProperties
    <2>5. Len(s) = n /\ \A k \in 1 .. n : s[k] = o[k]
      <3>1. n - 1 + 1 = n /\ (~(1 <= n) => n = 0) /\ \A k \in 1 .. n : 1 + k - 1 = k
        OBVIOUS
      <3> QED BY <1>4, <2>1, <2>4, <3>1
    <2>6. s = o
      BY <1>2, <2>1, <2>4, <2>5, SameElements
    <2>7. Len(q) - 1 = n
      BY <1>4, <2>1
    <2> QED BY <2>2, <2>6, <2>7 DEF Stream!Front
  <1>7. id \notin Stream!Range(o)
    BY DEF Stream!Range
  <1> QED BY <1>3, <1>5, <1>6, <1>7

\* Once it has been opened, the call under the walk is the innermost.
LEMMA UnderTheWalk ==
    ASSUME HistoryInv, walk # <<>>, act.at # "open",
           NEW w \in Seq(Activation), walk = Append(w, act)
    PROVE  /\ Stream!Innermost(OpenCalls) = emitted.id
           /\ ~act.entry => OpenCalls # <<>> /\ Stream!Front(OpenCalls) = OpenOf(w)
  <1>1. CASE act.entry
    <2>1. OpenCalls = <<>> /\ MainOnly /\ emitted.id = 1
      BY <1>1, OpenInnermost
    <2> QED BY <1>1, <2>1 DEF Stream!Innermost
  <1>2. CASE ~act.entry
    <2>1. /\ OpenCalls = Append(OpenOf(w), emitted.id)
          /\ \E S : OpenOf(w) \in Seq(S) /\ emitted.id \notin S
          /\ emitted.id # Top
      BY <1>2, OpenInnermost DEF Top
    <2> QED BY <2>1, OpenedOnTop
  <1> QED BY <1>1, <1>2

\* What an activation becomes keeps the calls open, once it has been opened.
LEMMA StaysOpen ==
    ASSUME HistoryInv, NEW a \in Activation, Stays(a), act.at # "open"
    PROVE  OpenCalls' = OpenCalls
  <1>1. walk # <<>> /\ a.entry = act.entry /\ a.trace = act.trace /\ a.at # "open" /\ done' = done
        /\ SetAct(a)
    BY DEF Stays, evalVars
  <1>2. PICK w \in Seq(Activation) : /\ walk = Append(w, act)
                                     /\ [walk EXCEPT ![Len(walk)] = a] = Append(w, a)
    BY <1>1, BelowAct DEF HistoryInv
  <1>3. walk' = Append(w, a) /\ act \in Activation
    BY <1>1, <1>2, ActType DEF SetAct, HistoryInv
  <1>4. OpenCalls' = OpenOf(Append(w, a)) /\ OpenCalls = OpenOf(Append(w, act))
    BY <1>1, <1>2, <1>3, OpenCallsAfter, OpenCallsOf
  <1> QED BY <1>1, <1>3, <1>4, OpenOfParts

LEMMA OpenCallStream ==
    ASSUME HistoryInv, OutTyped, OpenCall, Top' = Top
    PROVE  OutTyped' /\ (Stream!Deliver \/ (UNCHANGED out /\ OpenCalls' = OpenCalls))
  <1>1. PICK a \in Activation : Stays(a) /\ act.at = "open" /\ a.at = "bindings"
    BY EmissionMoves DEF HistoryInv
  <1>2. /\ walk # <<>> /\ a.entry = act.entry /\ a.trace = act.trace /\ done' = done /\ SetAct(a)
        /\ act.args = act.args
    BY <1>1 DEF Stays, evalVars
  <1>3. PICK w \in Seq(Activation) : /\ walk = Append(w, act)
                                     /\ [walk EXCEPT ![Len(walk)] = a] = Append(w, a)
    BY <1>2, BelowAct DEF HistoryInv
  <1>4. OpenCalls' = OpenOf(Append(w, a)) /\ OpenCalls = OpenOf(w)
    <2>1. walk' = Append(w, a)
      BY <1>2, <1>3 DEF SetAct
    <2> QED BY <1>1, <1>2, <1>3, <2>1, OpenCallsAfter, OpenInnermost
  <1>5. act \in Activation /\ emitted \in CallTrace
    BY <1>2, ActType DEF HistoryInv
  <1>6. CASE act.entry
    <2>1. out' = out \o <<>>
      BY <1>6 DEF OpenCall, Write
    <2>2. out' = out
      BY <2>1, ConcatOne DEF OutTyped
    <2>3. OpenCalls' = OpenCalls
      BY <1>1, <1>2, <1>4, <1>6, OpenOfParts
    <2> QED BY <2>2, <2>3 DEF OutTyped
  <1>7. CASE ~act.entry
    <2>1. PICK o, id : o = OpenOf(w) /\ id = emitted.id
      OBVIOUS
    <2>2. PICK q : q = Append(o, id)
      OBVIOUS
    <2>3. PICK S : o \in Seq(S) /\ id \notin S /\ id # Top /\ id \in Nat
      BY <1>2, <1>3, <1>7, <2>1, OpenInnermost DEF Top
    <2>4. /\ q # <<>> /\ Stream!Innermost(q) = id
          /\ id \notin Stream!Range(o) \cup {Top}
      BY <2>2, <2>3, OpenedOnTop
    <2>5. PICK c : c = [rec |-> "call", id |-> id, fn |-> emitted.fn, args |-> act.args]
      OBVIOUS
    <2>6. PICK s : s = [rec |-> "entry_step", id |-> id]
      OBVIOUS
    <2>7. c \in StreamRecord /\ s \in StreamRecord
      <3>1. emitted.fn \in FnName /\ act.args \in Seq(Value)
        BY <1>5 DEF CallTrace, Activation
      <3>2. c \in StreamRecord
        BY <2>3, <2>5, <3>1 DEF StreamRecord
      <3>3. s \in StreamRecord
        BY <2>3, <2>6 DEF StreamRecord
      <3> QED BY <3>2, <3>3
    <2>8. PICK R : R = <<c, s>>
      OBVIOUS
    <2>9. R \in Seq(StreamRecord) /\ Len(R) = 2 /\ R[1] = c /\ R[2] = s
      BY <2>7, <2>8
    <2>10. Write(R)
      BY <1>7, <2>1, <2>5, <2>6, <2>8 DEF OpenCall
    <2>11. PICK f : f = [k \in 0 .. 2 |-> IF k = 0 THEN o ELSE q]
      OBVIOUS
    <2>12. f[0] = o /\ f[1] = q /\ f[2] = q /\ f = [k \in 0 .. Len(R) |-> f[k]]
      BY <2>9, <2>11
    <2>13. Stream!OpenAfter(o, c) = q /\ Stream!Belongs(o, c)
      BY <2>2, <2>4, <2>5 DEF Stream!OpenAfter, Stream!Belongs, Top
    <2>14. Stream!OpenAfter(q, s) = q /\ Stream!Belongs(q, s)
      BY <2>4, <2>6 DEF Stream!OpenAfter, Stream!Belongs
    <2>15. \A k \in 1 .. Len(R) : f[k] = Stream!OpenAfter(f[k - 1], R[k])
                                  /\ Stream!Belongs(f[k - 1], R[k])
      <3>1. \A k \in 1 .. Len(R) : (k = 1 /\ k - 1 = 0) \/ (k = 2 /\ k - 1 = 1)
        BY <2>9
      <3>2. /\ f[1] = Stream!OpenAfter(f[0], R[1]) /\ Stream!Belongs(f[0], R[1])
            /\ f[2] = Stream!OpenAfter(f[1], R[2]) /\ Stream!Belongs(f[1], R[2])
        BY <2>9, <2>12, <2>13, <2>14
      <3> QED BY <3>1, <3>2
    <2>16. OpenCalls' = f[Len(R)]
      <3>1. OpenOf(Append(w, a)) = Append(OpenOf(w), done[a.trace].id)
        BY <1>1, <1>2, <1>7, OpenOfParts
      <3>2. done[a.trace].id = id
        BY <1>2, <2>1 DEF emitted
      <3> QED BY <1>4, <2>1, <2>2, <2>9, <2>12, <3>1, <3>2
    <2>17. Stream!Deliver
      <3>1. f[0] = OpenCalls /\ Len(R) # 0
        BY <1>4, <2>1, <2>9, <2>12
      <3> QED BY <2>9, <2>10, <2>12, <2>15, <2>16, <3>1, DeliversAll
    <2>18. OutTyped'
      <3>1. out \in Seq(StreamRecord) /\ R \in Seq(StreamRecord)
        BY <2>9 DEF OutTyped
      <3>2. out \o R \in Seq(StreamRecord)
        BY <3>1, ConcatElement
      <3> QED BY <2>10, <3>2 DEF OutTyped, Write
    <2> QED BY <2>17, <2>18
  <1> QED BY <1>6, <1>7

LEMMA EmitBindingStream ==
    ASSUME HistoryInv, OutTyped, EmitBinding, Top' = Top
    PROVE  OutTyped' /\ Stream!Deliver
  <1>1. PICK a \in Activation : Stays(a) /\ act.at = "bindings"
    BY EmissionMoves DEF HistoryInv
  <1>2. walk # <<>> /\ act.bi < Len(emitted.bindings)
    BY DEF EmitBinding, At
  <1>3. PICK w \in Seq(Activation) : walk = Append(w, act)
    BY <1>2, BelowAct DEF HistoryInv
  <1>4. Stream!Innermost(OpenCalls) = emitted.id
    BY <1>1, <1>2, <1>3, UnderTheWalk
  <1>5. OpenCalls' = OpenCalls
    BY <1>1, StaysOpen
  <1>6. PICK b \in Binding : b = emitted.bindings[act.bi + 1]
    <2>1. act.bi \in Nat /\ emitted.bindings \in Seq(Binding)
      BY <1>2, ActType, EmittedParts DEF HistoryInv
    <2>2. act.bi + 1 \in 1 .. Len(emitted.bindings)
      BY <1>2, <2>1
    <2> QED BY <2>1, <2>2
  <1>7. PICK r : r = [rec |-> "bind", id |-> emitted.id, name |-> b.name, line |-> b.line,
                      mutable |-> b.mutable, value |-> b.value]
    OBVIOUS
  <1>8. r \in StreamRecord
    <2>1. emitted.id \in Nat
      BY <1>2, ActType DEF HistoryInv, CallTrace
    <2>2. b.name \in Name /\ b.line \in Line /\ b.mutable \in BOOLEAN /\ b.value \in Value
      BY DEF Binding
    <2> QED BY <1>7, <2>1, <2>2 DEF StreamRecord
  <1>9. Write(<<r>>)
    BY <1>6, <1>7 DEF EmitBinding
  <1>10. Stream!Belongs(OpenCalls, r) /\ Stream!OpenAfter(OpenCalls, r) = OpenCalls
    BY <1>4, <1>7 DEF Stream!Belongs, Stream!OpenAfter
  <1>11. Stream!Deliver
    BY <1>5, <1>8, <1>9, <1>10, DeliversOne
  <1>12. OutTyped'
    <2>1. out \in Seq(StreamRecord)
      BY DEF OutTyped
    <2>2. out \o <<r>> = Append(out, r) /\ Append(out, r) \in Seq(StreamRecord)
      BY <1>8, <2>1, ConcatOne, AppendElement
    <2> QED BY <1>9, <2>2 DEF OutTyped, Write
  <1> QED BY <1>11, <1>12

LEMMA CloseCallStream ==
    ASSUME HistoryInv, OutTyped, CloseCall, Top' = Top
    PROVE  OutTyped' /\ Stream!Deliver
  <1>1. /\ mode = "emitting" /\ walk # <<>> /\ act.at = "trailing" /\ done' = done
        /\ Write(CloseRecords(emitted, act.entry))
    BY ClosesWalk DEF HistoryInv, evalVars
  <1>2. PICK w \in Seq(Activation) : walk = Append(w, act) /\ Front(walk) = w
    BY <1>1, BelowAct DEF HistoryInv
  <1>3. act.entry \in BOOLEAN /\ emitted \in CallTrace
    BY <1>1, ActType DEF HistoryInv, Activation
  <1>4. PICK R : R = CloseRecords(emitted, act.entry)
    OBVIOUS
  <1>5. PICK n \in Nat \ {0} :
            /\ R \in Seq(StreamRecord)
            /\ act.entry => Len(R) = n
            /\ ~act.entry => Len(R) = n + 1 /\ R[n + 1] = ReturnRecord(emitted)
            /\ \A k \in 1 .. n : R[k].rec \notin {"call", "return"} /\ R[k].id = emitted.id
    <2>1. Closes(R, emitted, act.entry)
      BY <1>3, <1>4, ClosingKinds
    <2> QED BY <2>1 DEF Closes
  <1>6. /\ R \in Seq(StreamRecord) /\ Len(R) = IF act.entry THEN n ELSE n + 1
        /\ ~act.entry => R[n + 1] = ReturnRecord(emitted)
    BY <1>5
  <1>7. \A k \in 1 .. n : R[k].rec \notin {"call", "return"} /\ R[k].id = emitted.id
    BY <1>5
  <1>8. PICK o, p : o = OpenCalls /\ p = OpenCalls'
    OBVIOUS
  <1>9. /\ Stream!Innermost(o) = emitted.id
        /\ ~act.entry => o # <<>> /\ Stream!Front(o) = OpenOf(w)
    BY <1>1, <1>2, <1>8, UnderTheWalk
  <1>10. p = IF act.entry THEN o ELSE Stream!Front(o)
    <2>1. walk' = w
      BY <1>2 DEF CloseCall
    <2>2. p = OpenOf(w)
      BY <1>1, <1>8, <2>1, OpenCallsAfter
    <2>3. act.entry => o = <<>> /\ OpenOf(w) = <<>>
      BY <1>1, <1>2, <1>8, OpenInnermost
    <2> QED BY <1>9, <2>2, <2>3
  <1>11. PICK f : f = [k \in 0 .. Len(R) |-> IF k = n + 1 THEN p ELSE o]
    OBVIOUS
  <1>12. /\ f = [k \in 0 .. Len(R) |-> f[k]] /\ f[0] = o /\ Len(R) \in Nat /\ Len(R) # 0
         /\ \A k \in 0 .. n : f[k] = o
         /\ ~act.entry => f[n + 1] = p
    <2>1. Len(R) \in Nat /\ Len(R) >= n /\ n # 0 /\ (~act.entry => Len(R) = n + 1)
      BY <1>6
    <2>2. \A k \in 0 .. Len(R) : f[k] = IF k = n + 1 THEN p ELSE o
      BY <1>11
    <2>3. f = [k \in 0 .. Len(R) |-> f[k]]
      BY <1>11
    <2>4. \A k \in 0 .. n : k \in 0 .. Len(R) /\ k # n + 1
      BY <2>1
    <2>5. 0 \in 0 .. n
      OBVIOUS
    <2>6. ~act.entry => n + 1 \in 0 .. Len(R)
      BY <2>1
    <2> QED BY <2>1, <2>2, <2>3, <2>4, <2>5, <2>6
  <1>13. \A k \in 1 .. n : Stream!OpenAfter(o, R[k]) = o /\ Stream!Belongs(o, R[k])
    <2> TAKE k \in 1 .. n
    <2>1. R[k].rec # "call" /\ R[k].rec # "return" /\ R[k].id = emitted.id
      BY <1>7
    <2> QED BY <1>9, <2>1 DEF Stream!OpenAfter, Stream!Belongs
  <1>14. ~act.entry => Stream!OpenAfter(o, R[n + 1]) = p /\ Stream!Belongs(o, R[n + 1])
    <2> SUFFICES ASSUME ~act.entry
                 PROVE  Stream!OpenAfter(o, R[n + 1]) = p /\ Stream!Belongs(o, R[n + 1])
      OBVIOUS
    <2>1. R[n + 1].rec = "return" /\ R[n + 1].id = emitted.id
      BY <1>6 DEF ReturnRecord
    <2> QED BY <1>9, <1>10, <2>1 DEF Stream!OpenAfter, Stream!Belongs
  <1>15. \A k \in 1 .. Len(R) : f[k] = Stream!OpenAfter(f[k - 1], R[k])
                                /\ Stream!Belongs(f[k - 1], R[k])
    <2> TAKE k \in 1 .. Len(R)
    <2>1. CASE k \in 1 .. n
      <3>1. k \in 0 .. n /\ k - 1 \in 0 .. n
        BY <2>1
      <3> QED BY <1>12, <1>13, <2>1, <3>1
    <2>2. CASE k = n + 1 /\ ~act.entry
      <3>1. k - 1 = n /\ n \in 0 .. n
        BY <2>2
      <3> QED BY <1>12, <1>14, <2>2, <3>1
    <2>3. k \in 1 .. n \/ (k = n + 1 /\ ~act.entry)
      BY <1>6
    <2> QED BY <2>1, <2>2, <2>3
  <1>16. f[Len(R)] = p
    <2>1. CASE act.entry
      <3>1. Len(R) = n /\ n \in 0 .. n
        BY <1>6, <2>1
      <3> QED BY <1>10, <1>12, <2>1, <3>1
    <2>2. CASE ~act.entry
      BY <1>6, <1>12, <2>2
    <2> QED BY <2>1, <2>2
  <1>17. Write(R)
    BY <1>1, <1>4
  <1>18. Stream!Deliver
    BY <1>6, <1>8, <1>12, <1>15, <1>16, <1>17, DeliversAll
  <1>19. OutTyped'
    <2>1. out \in Seq(StreamRecord) /\ R \in Seq(StreamRecord)
      BY <1>6 DEF OutTyped
    <2>2. out \o R \in Seq(StreamRecord)
      BY <2>1, ConcatElement
    <2> QED BY <1>17, <2>2 DEF OutTyped, Write
  <1> QED BY <1>18, <1>19

\* A step that writes nothing.
LEMMA SilentStream ==
    ASSUME HistoryInv, OutTyped, HistoryInv',
           \/ DispatchEntry \/ Evaluate \/ BeginEmission \/ EndBindings \/ EmitSubCall
           \/ EmitTrailingSubCall \/ EndEmission \/ UNCHANGED vars
    PROVE  UNCHANGED out /\ OpenCalls' = OpenCalls
  <1>1. UNCHANGED out
    BY DEF DispatchEntry, Evaluate, BeginEmission, EndBindings, EmitSubCall, EmitTrailingSubCall,
       EndEmission, Descend, emitVars, vars
  <1>2. ASSUME walk = <<>>, walk' = <<>> PROVE OpenCalls' = OpenCalls
    BY <1>2, SelectEmpty DEF OpenCalls
  <1>3. CASE DispatchEntry \/ Evaluate \/ EndEmission
    <2>1. walk = <<>> /\ walk' = walk
      BY <1>3 DEF DispatchEntry, Evaluate, EndEmission, emitVars, HistoryInv, WalkInv
    <2> QED BY <1>1, <1>2, <2>1
  <1>4. CASE BeginEmission
    <2>1. /\ walk = <<>> /\ done' = done
          /\ walk' = <<Opening(Len(done), EntryArgs(entryFn), MainOnly)>>
      BY <1>4 DEF BeginEmission, HistoryInv, WalkInv, evalVars
    <2>2. PICK a : a = Opening(Len(done), EntryArgs(entryFn), MainOnly)
      OBVIOUS
    <2>3. walk' = <<a>> /\ a.at = "open" /\ a \in Activation
      <3>1. walk' \in Seq(Activation) /\ 1 \in 1 .. Len(walk') /\ walk'[1] = a
        BY <2>1, <2>2 DEF HistoryInv, WalkInv
      <3> QED BY <2>1, <2>2, <3>1 DEF Opening
    <2>4. <<>> \in Seq(Activation) /\ walk' = Append(<<>>, a)
      BY <2>3
    <2>5. OpenCalls' = OpenOf(Append(<<>>, a)) /\ OpenCalls = OpenOf(<<>>)
      BY <2>1, <2>4, OpenCallsAfter, OpenCallsOf
    <2> QED BY <1>1, <2>3, <2>4, <2>5, OpenOfParts
  <1>5. CASE EndBindings
    <2>1. PICK a \in Activation : Stays(a) /\ act.at = "bindings"
      BY <1>5, EmissionMoves DEF HistoryInv
    <2> QED BY <1>1, <2>1, StaysOpen
  <1>6. CASE EmitSubCall \/ EmitTrailingSubCall
    <2>1. Descends
      BY <1>6, EmissionMoves DEF HistoryInv
    <2>2. walk # <<>> /\ act.at # "open" /\ act.si < Len(emitted.subs) /\ done' = done
      BY <2>1 DEF Descends, evalVars
    <2>3. PICK w \in Seq(Activation) :
              /\ walk = Append(w, act)
              /\ \A a \in Activation : [walk EXCEPT ![Len(walk)] = a] = Append(w, a)
      BY <2>2, BelowAct DEF HistoryInv
    <2>4. PICK p \in Activation, q \in Activation :
              /\ p = Passed /\ q = Pushed /\ p.entry = act.entry /\ p.trace = act.trace
              /\ p.at = act.at /\ q.at = "open"
      BY <2>2, NextSubParts DEF HistoryInv
    <2>5. walk' = Append(Append(w, p), q)
      BY <2>1, <2>3, <2>4 DEF Descends
    <2>6. PICK v \in Seq(Activation) : v = Append(w, p)
      BY AppendElement
    <2>7. OpenCalls' = OpenOf(Append(v, q)) /\ OpenCalls = OpenOf(Append(w, act))
      BY <2>2, <2>3, <2>5, <2>6, OpenCallsAfter, OpenCallsOf
    <2>8. OpenOf(Append(v, q)) = OpenOf(v)
      BY <2>4, OpenOfParts
    <2>9. act \in Activation
      BY <2>2, ActType DEF HistoryInv
    <2>10. OpenOf(Append(w, p)) = OpenOf(Append(w, act))
      <3>1. OpenOf(Append(w, p)) = IF ~p.entry /\ p.at # "open"
                                   THEN Append(OpenOf(w), done[p.trace].id) ELSE OpenOf(w)
        BY OpenOfParts
      <3>2. OpenOf(Append(w, act)) = IF ~act.entry /\ act.at # "open"
                                     THEN Append(OpenOf(w), done[act.trace].id) ELSE OpenOf(w)
        BY <2>9, OpenOfParts
      <3> QED BY <2>4, <3>1, <3>2
    <2> QED BY <1>1, <2>6, <2>7, <2>8, <2>10
  <1>7. CASE UNCHANGED vars
    BY <1>7 DEF OpenCalls, vars, evalVars
  <1> QED BY <1>1, <1>3, <1>4, <1>5, <1>6, <1>7

LEMMA StreamStep ==
    HistoryInv /\ OutTyped /\ [Next]_vars => OutTyped' /\ [Stream!Deliver]_(Stream!streamVars)
  <1> SUFFICES ASSUME HistoryInv, OutTyped, [Next]_vars
               PROVE  OutTyped' /\ [Stream!Deliver]_(Stream!streamVars)
    OBVIOUS
  <1>1. HistoryInv'
    BY NextHistory
  <1>2. prog' = prog
    BY StepLeavesSomething
    DEF Next, EmitCallTrace, DispatchEntry, StartEntry, Evaluate, BeginEmission, OpenCall,
        EmitSubCall, EmitTrailingSubCall, EmitBinding, EndBindings, Descend, CloseCall, EndEmission,
        Stutter, vars, evalVars, HistoryInv, WalkInv
  <1>3. Top' = Top
    BY <1>2 DEF Top, MainOnly
  <1>4. ASSUME UNCHANGED out, OpenCalls' = OpenCalls
        PROVE  OutTyped' /\ UNCHANGED Stream!streamVars
    BY <1>3, <1>4 DEF OutTyped, Stream!streamVars, Top
  <1>5. CASE OpenCall
    BY <1>3, <1>4, <1>5, OpenCallStream
  <1>6. CASE EmitBinding
    BY <1>3, <1>6, EmitBindingStream
  <1>7. CASE CloseCall
    BY <1>3, <1>7, CloseCallStream
  <1>8. CASE \/ DispatchEntry \/ Evaluate \/ BeginEmission \/ EndBindings \/ EmitSubCall
             \/ EmitTrailingSubCall \/ EndEmission \/ UNCHANGED vars
    BY <1>1, <1>4, <1>8, SilentStream
  <1> QED BY <1>5, <1>6, <1>7, <1>8 DEF Next, EmitCallTrace, Stutter

LEMMA StreamInit == ASSUME Init PROVE Stream!Init /\ OutTyped
  <1>1. walk = <<>> /\ out = <<>>
    BY DEF Init
  <1>2. OpenCalls = <<>>
    BY <1>1, SelectEmpty DEF OpenCalls
  <1> QED BY <1>1, <1>2 DEF Stream!Init, OutTyped

\* Whatever the programs, the recording is a stream the writer understands:
\* emit_call_trace opens a call, writes what is of it, and closes it, and no
\* record is ever written while another call is the innermost open one.
THEOREM ImplementsTraceStream == Spec => ImplementsStream
  <1>1. Init => HistoryInv /\ OutTyped /\ Stream!Init
    BY InitHistory, StreamInit
  <1>2. HistoryInv /\ OutTyped /\ [Next]_vars
        => HistoryInv' /\ OutTyped' /\ [Stream!Deliver]_(Stream!streamVars)
    BY NextHistory, StreamStep
  <1> QED BY <1>1, <1>2, PTL DEF Spec, ImplementsStream, Stream!Spec

----------------------------------------------------------------------------
(* What a call has to show for its history *)

\* The stores to x in a call, and the asserts and io events of a call.
WritesOf(id, x) ==
    {k \in 1 .. Len(log) : log[k].ev \in {"bind", "write"} /\ log[k].id = id /\ log[k].name = x}

AssertEvent(id) == [ev : {"assert"}, id : {id}]

IoEvent(id) == [ev : {"io"}, id : {id}, tag : IoTag]

AtMostOne(S) == \A i \in S : \A j \in S : i = j

\* An abort of which the call has still to take notice is the last it did.
AbortOf(f) ==
    /\ f.aborted => HasAbort(f.ios) /\ AtMostOne(EffectsAfterAbort(f.id))
    /\ f.ep > 0 /\ AbortEmitted(f) => EffectsAfterAbort(f.id) = {}

\* The environment holds what was stored last, and what was bound was stored.
ValuesOf(f) ==
    /\ \A x \in Name : WritesOf(f.id, x) # {} => f.env[x] = LastWritten(f.id, x)
    /\ \A k \in 1 .. Len(f.bindings) : WritesOf(f.id, f.bindings[k].name) # {}

\* Asserts are counted and io events kept, each once and in order.
SpecialsOf(c) ==
    /\ Len(Select(log, AssertEvent(c.id))) = c.asserts
    /\ [k \in 1 .. Len(Select(log, IoEvent(c.id))) |-> Select(log, IoEvent(c.id))[k].tag] = c.ios

OpenHistory(f) == AbortOf(f) /\ ValuesOf(f) /\ SpecialsOf(f)

\* The same of a finished call.
DoneHistory(t) ==
    /\ t.aborted => /\ HasAbort(t.ios) /\ t.rv = Unknown
                    /\ AtMostOne(EffectsAfterAbort(t.id))
    /\ \A k \in 1 .. Len(t.bindings) : t.bindings[k].value = LastWritten(t.id, t.bindings[k].name)
    /\ \A k \in 1 .. Len(t.bindings) : WritesOf(t.id, t.bindings[k].name) # {}
    /\ SpecialsOf(t)

CallHistory ==
    /\ \A k \in 1 .. Len(stack) : OpenHistory(stack[k])
    /\ \A k \in 1 .. Len(done) : DoneHistory(done[k])

\* What the history says of a call is as before.
SameHistory(id) ==
    /\ \A x \in Name : /\ WritesOf(id, x)' = WritesOf(id, x)
                       /\ WritesOf(id, x) # {} => LastWritten(id, x)' = LastWritten(id, x)
    /\ EffectsAfterAbort(id)' \subseteq EffectsAfterAbort(id)
    /\ Select(log', AssertEvent(id)) = Select(log, AssertEvent(id))
    /\ Select(log', IoEvent(id)) = Select(log, IoEvent(id))

\* The history with one event more.
LEMMA LogElements ==
    ASSUME log \in Seq(Event), NEW e, LogGrows(e)
    PROVE  /\ Len(log) \in Nat /\ Len(log') = Len(log) + 1 /\ log'[Len(log) + 1] = e
           /\ \A k \in 1 .. Len(log) : log'[k] = log[k] /\ k \in 1 .. Len(log')
           /\ \A k \in 1 .. Len(log') : k \in 1 .. Len(log) \/ k = Len(log) + 1
           /\ e \in Event
  <1>1. log' = Append(log, e) /\ e \in Event
    BY DEF LogGrows
  <1>2. /\ Len(log) \in Nat /\ Len(log') = Len(log) + 1 /\ log'[Len(log) + 1] = e
        /\ \A k \in 1 .. Len(log) : log'[k] = log[k]
    BY <1>1, AppendElement
  <1> QED BY <1>1, <1>2

IsStore(e, id, x) == e.ev \in {"bind", "write"} /\ e.id = id /\ e.name = x

\* The last store to x is the last one to x, whatever else is done.
LEMMA GrowsWrites ==
    ASSUME log \in Seq(Event), NEW e, LogGrows(e), NEW id, NEW x
    PROVE  /\ ~IsStore(e, id, x) =>
                  /\ WritesOf(id, x)' = WritesOf(id, x)
                  /\ WritesOf(id, x) # {} => LastWritten(id, x)' = LastWritten(id, x)
           /\ IsStore(e, id, x) =>
                  WritesOf(id, x)' # {} /\ LastWritten(id, x)' = e.value
  <1>1. PICK n \in Nat : n = Len(log)
    BY LogElements
  <1>2. /\ Len(log') = n + 1 /\ log'[n + 1] = e
        /\ \A k \in 1 .. n : log'[k] = log[k] /\ k \in 1 .. n + 1
        /\ \A k \in 1 .. n + 1 : k \in 1 .. n \/ k = n + 1
    BY <1>1, LogElements
  <1>3. WritesOf(id, x) = {k \in 1 .. n : IsStore(log[k], id, x)}
    BY <1>1 DEF WritesOf, IsStore
  <1>4. WritesOf(id, x)' = {k \in 1 .. n + 1 : IsStore(log'[k], id, x)}
    BY <1>2 DEF WritesOf, IsStore
  <1>5. LastWritten(id, x) = log[CHOOSE k \in WritesOf(id, x) :
                                    \A j \in WritesOf(id, x) : j <= k].value
    BY DEF LastWritten, WritesOf
  <1>6. LastWritten(id, x)' = log'[CHOOSE k \in WritesOf(id, x)' :
                                      \A j \in WritesOf(id, x)' : j <= k].value
    BY DEF LastWritten, WritesOf
  <1>7. ASSUME ~IsStore(e, id, x)
        PROVE  /\ WritesOf(id, x)' = WritesOf(id, x)
               /\ WritesOf(id, x) # {} => LastWritten(id, x)' = LastWritten(id, x)
    <2>1. WritesOf(id, x)' = WritesOf(id, x)
      BY <1>2, <1>3, <1>4, <1>7
    <2>2. ASSUME WritesOf(id, x) # {} PROVE LastWritten(id, x)' = LastWritten(id, x)
      <3>1. PICK W : W = WritesOf(id, x)
        OBVIOUS
      <3>2. W \subseteq 1 .. n /\ W # {}
        BY <1>3, <2>2, <3>1
      <3>3. \E k \in W : \A j \in W : j <= k
        BY <3>2, GreatestIndex
      <3>4. PICK m : m = CHOOSE k \in W : \A j \in W : j <= k
        OBVIOUS
      <3>5. m \in W
        BY <3>3, <3>4
      <3>6. log'[m] = log[m]
        BY <1>2, <3>2, <3>5
      <3> QED BY <1>5, <1>6, <2>1, <3>1, <3>4, <3>6
    <2> QED BY <2>1, <2>2
  <1>8. ASSUME IsStore(e, id, x)
        PROVE  WritesOf(id, x)' # {} /\ LastWritten(id, x)' = e.value
    <2>1. n + 1 \in WritesOf(id, x)'
      BY <1>2, <1>4, <1>8
    <2>2. PICK W : W = WritesOf(id, x)'
      OBVIOUS
    <2>3. W \subseteq 1 .. n + 1 /\ n + 1 \in W
      BY <1>4, <2>1, <2>2
    <2>4. PICK m : m = CHOOSE k \in W : \A j \in W : j <= k
      OBVIOUS
    <2>5. \A j \in W : j <= n + 1
      BY <2>3
    <2>6. m \in W /\ \A j \in W : j <= m
      BY <2>3, <2>4, <2>5
    <2>7. m = n + 1
      BY <2>3, <2>6
    <2> QED BY <1>2, <1>6, <2>1, <2>2, <2>4, <2>7
  <1> QED BY <1>7, <1>8

IsAbort(e, id) == e.ev = "io" /\ e.id = id /\ e.tag = "LeoFinalizeAbort"

IsEffect(e, id) == e.ev \in {"bind", "write", "assert"} /\ e.id = id

\* An abort takes all effects behind it, another effect is one more at most.
LEMMA GrowsEffects ==
    ASSUME log \in Seq(Event), NEW e, LogGrows(e), NEW id
    PROVE  /\ ~IsEffect(e, id) => EffectsAfterAbort(id)' \subseteq EffectsAfterAbort(id)
           /\ EffectsAfterAbort(id)' \subseteq EffectsAfterAbort(id) \cup {Len(log) + 1}
           /\ IsAbort(e, id) => EffectsAfterAbort(id)' = {}
  <1>1. PICK n \in Nat : n = Len(log)
    BY LogElements
  <1>2. /\ Len(log') = n + 1 /\ log'[n + 1] = e
        /\ \A k \in 1 .. n : log'[k] = log[k] /\ k \in 1 .. n + 1
        /\ \A k \in 1 .. n + 1 : k \in 1 .. n \/ k = n + 1
    BY <1>1, LogElements
  <1>3. EffectsAfterAbort(id)
        = {j \in 1 .. n : /\ IsEffect(log[j], id)
                          /\ \A k \in {k \in 1 .. n : IsAbort(log[k], id)} : k < j}
    BY <1>1 DEF EffectsAfterAbort, IsEffect, IsAbort
  <1>4. EffectsAfterAbort(id)'
        = {j \in 1 .. n + 1 : /\ IsEffect(log'[j], id)
                              /\ \A k \in {k \in 1 .. n + 1 : IsAbort(log'[k], id)} : k < j}
    BY <1>2 DEF EffectsAfterAbort, IsEffect, IsAbort
  <1>5. \A j \in EffectsAfterAbort(id)' : j \in 1 .. n => j \in EffectsAfterAbort(id)
    <2> SUFFICES ASSUME NEW j \in EffectsAfterAbort(id)', j \in 1 .. n
                 PROVE  j \in EffectsAfterAbort(id)
      OBVIOUS
    <2>1. IsEffect(log[j], id)
      BY <1>2, <1>4
    <2>2. \A k \in 1 .. n : IsAbort(log[k], id) => k < j
      BY <1>2, <1>4
    <2> QED BY <1>3, <2>1, <2>2
  <1>6. \A j \in EffectsAfterAbort(id)' : j \in 1 .. n \/ (j = n + 1 /\ IsEffect(e, id))
    BY <1>2, <1>4
  <1>7. ASSUME IsAbort(e, id) PROVE EffectsAfterAbort(id)' = {}
    <2>1. \A j \in EffectsAfterAbort(id)' : j \in 1 .. n + 1 /\ n + 1 < j
      BY <1>2, <1>4, <1>7
    <2> QED BY <2>1
  <1> QED BY <1>1, <1>5, <1>6, <1>7

\* The events of a call that are counted, and those that are kept.
LEMMA GrowsSpecials ==
    ASSUME log \in Seq(Event), NEW e, LogGrows(e), NEW id
    PROVE  /\ Select(log', AssertEvent(id))
              = IF e \in AssertEvent(id) THEN Append(Select(log, AssertEvent(id)), e)
                ELSE Select(log, AssertEvent(id))
           /\ Select(log', IoEvent(id))
              = IF e \in IoEvent(id) THEN Append(Select(log, IoEvent(id)), e)
                ELSE Select(log, IoEvent(id))
  <1>1. log' = Append(log, e) /\ e \in Event
    BY DEF LogGrows
  <1> QED BY <1>1, SelectAppend

\* What is of another call, or the entry or the end of this one, changes nothing.
LEMMA OtherHistory ==
    ASSUME log \in Seq(Event), NEW e, LogGrows(e), NEW id,
           e.id # id \/ e.ev \in {"enter", "exit"}
    PROVE  SameHistory(id)
  <1>1. \A x : ~IsStore(e, id, x)
    BY DEF IsStore
  <1>2. ~IsEffect(e, id)
    BY DEF IsEffect
  <1>3. e \notin AssertEvent(id) /\ e \notin IoEvent(id)
    BY DEF AssertEvent, IoEvent
  <1>4. \A x \in Name : /\ WritesOf(id, x)' = WritesOf(id, x)
                        /\ WritesOf(id, x) # {} => LastWritten(id, x)' = LastWritten(id, x)
    BY <1>1, GrowsWrites
  <1>5. EffectsAfterAbort(id)' \subseteq EffectsAfterAbort(id)
    BY <1>2, GrowsEffects
  <1>6. /\ Select(log', AssertEvent(id)) = Select(log, AssertEvent(id))
        /\ Select(log', IoEvent(id)) = Select(log, IoEvent(id))
    BY <1>3, GrowsSpecials
  <1> QED BY <1>4, <1>5, <1>6 DEF SameHistory

LEMMA QuietHistory == ASSUME log' = log, NEW id PROVE SameHistory(id)
  <1>1. \A x : WritesOf(id, x)' = WritesOf(id, x) /\ LastWritten(id, x)' = LastWritten(id, x)
    BY DEF WritesOf, LastWritten
  <1>2. EffectsAfterAbort(id)' = EffectsAfterAbort(id)
    BY DEF EffectsAfterAbort
  <1> QED BY <1>1, <1>2 DEF SameHistory

\* The names of a call's bindings are names.
LEMMA BoundNames ==
    /\ \A f \in Frame : \A k \in 1 .. Len(f.bindings) : f.bindings[k].name \in Name
    /\ \A t \in CallTrace : \A k \in 1 .. Len(t.bindings) : t.bindings[k].name \in Name
  <1>1. ASSUME NEW s \in Seq(Binding), NEW k \in 1 .. Len(s) PROVE s[k].name \in Name
    <2>1. s[k] \in Binding
      OBVIOUS
    <2> QED BY <2>1 DEF Binding
  <1>2. \A f \in Frame : f.bindings \in Seq(Binding)
    BY DEF Frame
  <1>3. \A t \in CallTrace : t.bindings \in Seq(Binding)
    BY DEF CallTrace
  <1> QED BY <1>1, <1>2, <1>3

\* A call keeps its history when nothing is added to it, and with it every frame
\* of that call that stores, counts and reports the same.
LEMMA KeepsOpen ==
    ASSUME NEW f \in Frame, NEW g, OpenHistory(f), SameHistory(f.id),
           g.id = f.id, g.env = f.env, g.bindings = f.bindings, g.asserts = f.asserts,
           g.ios = f.ios, g.aborted = f.aborted, g.ioBefore = f.ioBefore, g.ep > 0 => f.ep > 0
    PROVE  OpenHistory(g)'
  <1>1. AbortEmitted(g) = AbortEmitted(f)
    BY DEF AbortEmitted
  <1>2. AbortOf(g)'
    <2>1. EffectsAfterAbort(g.id)' \subseteq EffectsAfterAbort(f.id)
      BY DEF SameHistory
    <2>2. f.aborted => HasAbort(f.ios) /\ AtMostOne(EffectsAfterAbort(f.id))
      BY DEF OpenHistory, AbortOf
    <2>3. f.ep > 0 /\ AbortEmitted(f) => EffectsAfterAbort(f.id) = {}
      BY DEF OpenHistory, AbortOf
    <2>4. AbortEmitted(g)' = AbortEmitted(g) /\ HasAbort(g.ios)' = HasAbort(f.ios)
      BY DEF AbortEmitted, HasAbort
    <2> HIDE DEF AbortEmitted, HasAbort, EffectsAfterAbort
    <2>5. g.aborted => HasAbort(g.ios)' /\ AtMostOne(EffectsAfterAbort(g.id)')
      BY <2>1, <2>2, <2>4 DEF AtMostOne
    <2>6. g.ep > 0 /\ AbortEmitted(g)' => EffectsAfterAbort(g.id)' = {}
      BY <1>1, <2>1, <2>3, <2>4
    <2> QED BY <2>5, <2>6 DEF AbortOf, AtMostOne
  <1>3. ValuesOf(g)'
    <2>1. \A k \in 1 .. Len(f.bindings) : f.bindings[k].name \in Name
      BY BoundNames
    <2> QED BY <2>1 DEF OpenHistory, ValuesOf, SameHistory
  <1>4. SpecialsOf(g)'
    BY DEF OpenHistory, SpecialsOf, SameHistory
  <1> QED BY <1>2, <1>3, <1>4 DEF OpenHistory

LEMMA KeepsDone ==
    ASSUME NEW t \in CallTrace, DoneHistory(t), SameHistory(t.id)
    PROVE  DoneHistory(t)'
  <1>1. t.aborted => HasAbort(t.ios) /\ t.rv = Unknown /\ AtMostOne(EffectsAfterAbort(t.id)')
    BY DEF DoneHistory, SameHistory, AtMostOne
  <1>2. SpecialsOf(t)'
    BY DEF DoneHistory, SpecialsOf, SameHistory
  <1>3. \A k \in 1 .. Len(t.bindings) : t.bindings[k].name \in Name
    BY BoundNames
  <1>4. \A k \in 1 .. Len(t.bindings) :
            /\ t.bindings[k].value = LastWritten(t.id, t.bindings[k].name)'
            /\ WritesOf(t.id, t.bindings[k].name)' # {}
    BY <1>3 DEF DoneHistory, SameHistory
  <1> QED BY <1>1, <1>2, <1>4 DEF DoneHistory, HasAbort, AtMostOne

\* The expression's abort is among the call's io events.
LEMMA AbortIsThere ==
    ASSUME NEW f \in Frame, AbortEmitted(f) PROVE HasAbort(f.ios)
  <1>1. f.ioBefore \in Nat /\ Len(f.ios) \in Nat
    BY DEF Frame
  <1>2. PICK k \in (f.ioBefore + 1) .. Len(f.ios) : f.ios[k] = "LeoFinalizeAbort"
    BY DEF AbortEmitted
  <1>3. k \in 1 .. Len(f.ios)
    BY <1>1, <1>2
  <1> QED BY <1>2, <1>3 DEF HasAbort

\* The tags of the io events of a call, and the same with one more.
LEMMA TagsAppend ==
    ASSUME NEW s \in Seq(Event), NEW e \in Event, NEW ios \in Seq(IoTag),
           [k \in 1 .. Len(s) |-> s[k].tag] = ios
    PROVE  [k \in 1 .. Len(Append(s, e)) |-> Append(s, e)[k].tag] = Append(ios, e.tag)
  <1>1. Len(ios) = Len(s) /\ Len(s) \in Nat
    <2>1. PICK n \in Nat : n = Len(s)
      OBVIOUS
    <2>2. PICK m \in Nat : m = Len(ios)
      OBVIOUS
    <2>3. DOMAIN ios = 1 .. n
      BY <2>1
    <2>4. 1 .. n = 1 .. m
      BY <2>2, <2>3
    <2>5. n = m
      <3>1. n > 0 => n \in 1 .. m
        BY <2>4
      <3>2. m > 0 => m \in 1 .. n
        BY <2>4
      <3> QED BY <3>1, <3>2
    <2> QED BY <2>1, <2>2, <2>5
  <1>2. PICK n \in Nat : n = Len(s)
    BY <1>1
  <1>3. PICK t \in Seq(Event) : t = Append(s, e)
    BY AppendElement
  <1>4. Len(t) = n + 1 /\ t[n + 1] = e /\ \A k \in 1 .. n : t[k] = s[k]
    BY <1>2, <1>3
  <1>5. PICK u : u = Append(ios, e.tag)
    OBVIOUS
  <1>6. u = [k \in 1 .. n + 1 |-> IF k \in 1 .. n THEN ios[k] ELSE e.tag]
    BY <1>1, <1>2, <1>5
  <1>7. \A k \in 1 .. n + 1 : (IF k \in 1 .. n THEN ios[k] ELSE e.tag) = t[k].tag
    <2>1. \A k \in 1 .. n : ios[k] = s[k].tag
      BY <1>2
    <2> QED BY <1>4, <2>1
  <1> QED BY <1>3, <1>4, <1>5, <1>6, <1>7

LEMMA SilentOpen ==
    ASSUME NEW f \in Frame, fr \in Frame, OpenHistory(fr), Silent(f)
    PROVE  OpenHistory(f)'
  <1>0. PICK c : c = fr.id
    OBVIOUS
  <1>9. log' = log /\ f.id = c
    BY <1>0 DEF Silent, Continues
  <1>1. SameHistory(c)
    BY <1>9, QuietHistory
  <1>2. PICK g \in Frame : g = fr
    OBVIOUS
  <1>3. SpecialsOf(f)'
    BY <1>0, <1>1, <1>9 DEF SameHistory, OpenHistory, SpecialsOf, Silent
  <1>4. ValuesOf(f)'
    <2>1. \A k \in 1 .. Len(f.bindings) : f.bindings[k].name \in Name
      BY BoundNames
    <2>2. ValuesOf(fr) /\ f.env = fr.env /\ f.bindings = fr.bindings
      BY DEF OpenHistory, Silent
    <2> QED BY <1>0, <1>1, <1>9, <2>1, <2>2 DEF SameHistory, ValuesOf
  <1>5. EffectsAfterAbort(f.id)' \subseteq EffectsAfterAbort(c)
    BY <1>1, <1>9 DEF SameHistory
  <1>6. f.aborted => HasAbort(f.ios)' /\ AtMostOne(EffectsAfterAbort(f.id)')
    <2> SUFFICES ASSUME f.aborted
                 PROVE  HasAbort(f.ios)' /\ AtMostOne(EffectsAfterAbort(f.id)')
      OBVIOUS
    <2>1. fr.ep > 0 /\ AbortEmitted(fr) /\ f.ios = fr.ios
      BY DEF Silent
    <2>2. EffectsAfterAbort(c) = {}
      BY <1>0, <2>1 DEF OpenHistory, AbortOf
    <2>3. EffectsAfterAbort(f.id)' = {}
      BY <1>5, <2>2
    <2>4. HasAbort(f.ios)
      BY <2>1, AbortIsThere
    <2>5. HasAbort(f.ios)'
      BY <2>4 DEF HasAbort
    <2> QED BY <2>3, <2>5 DEF AtMostOne
  <1>7. f.ep > 0 /\ AbortEmitted(f)' => EffectsAfterAbort(f.id)' = {}
    <2> SUFFICES ASSUME f.ep > 0, AbortEmitted(f) PROVE EffectsAfterAbort(f.id)' = {}
      BY DEF AbortEmitted
    <2>1. f.ios = fr.ios /\ (f.ioBefore = Len(fr.ios) \/ (fr.ep > 0 /\ f.ioBefore = fr.ioBefore))
      BY DEF Silent
    <2>2. f.ioBefore # Len(fr.ios)
      <3>1. Len(fr.ios) \in Nat
        BY <1>2 DEF Frame
      <3>2. f.ioBefore = Len(fr.ios) => (f.ioBefore + 1) .. Len(f.ios) = {}
        BY <2>1, <3>1
      <3> QED BY <3>2 DEF AbortEmitted
    <2>3. AbortEmitted(fr) /\ fr.ep > 0
      BY <2>1, <2>2 DEF AbortEmitted
    <2>4. EffectsAfterAbort(c) = {}
      BY <1>0, <2>3 DEF OpenHistory, AbortOf
    <2> QED BY <1>5, <2>4
  <1>8. AbortOf(f)'
    BY <1>6, <1>7 DEF AbortOf, AtMostOne
  <1> QED BY <1>3, <1>4, <1>8 DEF OpenHistory

LEMMA ReportsOpen ==
    ASSUME NEW f \in Frame, NEW tag \in IoTag, fr \in Frame, OpenHistory(fr), Reports(f, tag),
           log \in Seq(Event), LogGrows(Io(tag))
    PROVE  OpenHistory(f)'
  <1>1. PICK e : e = Io(tag)
    OBVIOUS
  <1>2. LogGrows(e) /\ e.ev = "io" /\ e.id = fr.id /\ e.tag = tag /\ e \in Event
    BY <1>1 DEF Io, LogGrows
  <1>3. /\ f.id = fr.id /\ f.env = fr.env /\ f.bindings = fr.bindings /\ f.asserts = fr.asserts
        /\ f.ios = Append(fr.ios, tag) /\ ~f.aborted /\ f.ioBefore = fr.ioBefore /\ fr.ep > 0
    BY DEF Reports, Continues
  <1>4. PICK c : c = fr.id
    OBVIOUS
  <1>5. \A x : ~IsStore(e, c, x)
    BY <1>2 DEF IsStore
  <1>6. \A x : /\ WritesOf(c, x)' = WritesOf(c, x)
               /\ WritesOf(c, x) # {} => LastWritten(c, x)' = LastWritten(c, x)
    BY <1>2, <1>5, GrowsWrites DEF LogTyped
  <1>7. ValuesOf(f)'
    BY <1>3, <1>4, <1>6 DEF OpenHistory, ValuesOf
  <1>8. e \in IoEvent(c) /\ e \notin AssertEvent(c)
    BY <1>1, <1>4 DEF IoEvent, AssertEvent, Io
  <1>9. /\ Select(log', AssertEvent(c)) = Select(log, AssertEvent(c))
        /\ Select(log', IoEvent(c)) = Append(Select(log, IoEvent(c)), e)
    BY <1>2, <1>8, GrowsSpecials DEF LogTyped
  <1>10. SpecialsOf(f)'
    <2>1. PICK s : s = Select(log, IoEvent(c))
      OBVIOUS
    <2>2. s \in Seq(Event)
      BY <2>1, SelectType DEF LogTyped
    <2>3. fr.ios \in Seq(IoTag)
      BY DEF Frame
    <2>4. [k \in 1 .. Len(s) |-> s[k].tag] = fr.ios
      BY <1>4, <2>1 DEF OpenHistory, SpecialsOf
    <2>5. [k \in 1 .. Len(Append(s, e)) |-> Append(s, e)[k].tag] = Append(fr.ios, e.tag)
      BY <1>2, <2>2, <2>3, <2>4, TagsAppend
    <2>6. Len(Select(log', AssertEvent(c))) = f.asserts
      BY <1>3, <1>4, <1>9 DEF OpenHistory, SpecialsOf
    <2> QED BY <1>2, <1>3, <1>4, <1>9, <2>1, <2>5, <2>6 DEF SpecialsOf
  <1>11. AbortOf(f)'
    <2>1. (f.ep > 0 /\ AbortEmitted(f)') => EffectsAfterAbort(f.id)' = {}
      <3> SUFFICES ASSUME AbortEmitted(f) PROVE EffectsAfterAbort(c)' = {}
        BY <1>3, <1>4 DEF AbortEmitted
      <3>1. CASE tag = "LeoFinalizeAbort"
        <4>1. IsAbort(e, c)
          BY <1>2, <1>4, <3>1 DEF IsAbort
        <4> QED BY <1>2, <4>1, GrowsEffects DEF LogTyped
      <3>2. CASE tag # "LeoFinalizeAbort"
        <4>1. AbortEmitted(fr)
          <5>1. fr.ios \in Seq(IoTag) /\ Len(fr.ios) \in Nat /\ fr.ioBefore \in Nat
            BY DEF Frame
          <5>2. /\ Len(f.ios) = Len(fr.ios) + 1 /\ f.ios[Len(fr.ios) + 1] = tag
                /\ \A k \in 1 .. Len(fr.ios) : f.ios[k] = fr.ios[k]
            BY <1>3, <5>1, AppendElement
          <5>3. PICK k \in (f.ioBefore + 1) .. Len(f.ios) : f.ios[k] = "LeoFinalizeAbort"
            BY DEF AbortEmitted
          <5>4. k \in (fr.ioBefore + 1) .. Len(fr.ios) /\ k \in 1 .. Len(fr.ios)
            BY <1>3, <3>2, <5>1, <5>2, <5>3
          <5> QED BY <5>2, <5>3, <5>4 DEF AbortEmitted
        <4>2. EffectsAfterAbort(c) = {}
          BY <1>3, <1>4, <4>1 DEF OpenHistory, AbortOf
        <4>3. ~IsEffect(e, c)
          BY <1>2 DEF IsEffect
        <4>4. EffectsAfterAbort(c)' \subseteq EffectsAfterAbort(c)
          BY <1>2, <4>3, GrowsEffects DEF LogTyped
        <4> QED BY <4>2, <4>4
      <3> QED BY <3>1, <3>2
    <2> QED BY <1>3, <2>1 DEF AbortOf
  <1> QED BY <1>7, <1>10, <1>11 DEF OpenHistory
LEMMA BindsOpen ==
    ASSUME NEW f \in Frame, NEW b \in Binding, fr \in Frame, OpenHistory(fr), Binds(f, b),
           log \in Seq(Event),
           LogGrows([ev |-> "bind", id |-> fr.id, name |-> b.name,
                     line |-> b.line, value |-> b.value])
    PROVE  OpenHistory(f)'
  <1>1. PICK e : e = [ev |-> "bind", id |-> fr.id, name |-> b.name,
                      line |-> b.line, value |-> b.value]
    OBVIOUS
  <1>2. PICK c : c = fr.id
    OBVIOUS
  <1>3. /\ LogGrows(e) /\ e.ev = "bind" /\ e.id = c /\ e.name = b.name /\ e.value = b.value
        /\ b.name \in Name
    BY <1>1, <1>2 DEF Binding
  <1>4. /\ f.id = c /\ f.env = [fr.env EXCEPT ![b.name] = b.value] /\ f.ios = fr.ios
        /\ f.bindings = Append(fr.bindings, b) /\ f.asserts = fr.asserts
        /\ fr.ep > 0 /\ f.ep = 0 /\ (f.aborted => AbortEmitted(fr))
    BY <1>2 DEF Binds, Continues
  <1>5. fr.env \in [Name -> Value] /\ fr.bindings \in Seq(Binding)
    BY DEF Frame
  <1>6. WritesOf(c, b.name)' # {} /\ LastWritten(c, b.name)' = b.value
    BY <1>3, GrowsWrites DEF IsStore
  <1>7. \A x : x # b.name =>
            /\ WritesOf(c, x)' = WritesOf(c, x)
            /\ WritesOf(c, x) # {} => LastWritten(c, x)' = LastWritten(c, x)
    BY <1>3, GrowsWrites DEF IsStore
  <1>8. ValuesOf(fr)
    BY DEF OpenHistory
  <1>9. \A x \in Name : WritesOf(c, x)' # {} => f.env[x] = LastWritten(c, x)'
    BY <1>2, <1>4, <1>5, <1>6, <1>7, <1>8 DEF ValuesOf
  <1>10. \A k \in 1 .. Len(f.bindings) : WritesOf(c, f.bindings[k].name)' # {}
    <2> SUFFICES ASSUME NEW k \in 1 .. Len(f.bindings)
                 PROVE  WritesOf(c, f.bindings[k].name)' # {}
      OBVIOUS
    <2>1. /\ k \in 1 .. Len(fr.bindings) /\ f.bindings[k] = fr.bindings[k]
          \/ f.bindings[k] = b
      BY <1>4, <1>5, AppendElement
    <2>2. CASE f.bindings[k] = b
      BY <1>6, <2>2
    <2>3. CASE k \in 1 .. Len(fr.bindings) /\ f.bindings[k] = fr.bindings[k]
      BY <1>2, <1>6, <1>7, <1>8, <2>3 DEF ValuesOf
    <2> QED BY <2>1, <2>2, <2>3
  <1>11. ValuesOf(f)'
    BY <1>4, <1>9, <1>10 DEF ValuesOf
  <1>12. SpecialsOf(f)'
    <2>1. e \notin AssertEvent(c) /\ e \notin IoEvent(c)
      BY <1>3 DEF AssertEvent, IoEvent
    <2>2. /\ Select(log', AssertEvent(c)) = Select(log, AssertEvent(c))
          /\ Select(log', IoEvent(c)) = Select(log, IoEvent(c))
      BY <1>3, <2>1, GrowsSpecials
    <2> QED BY <1>2, <1>4, <2>2 DEF OpenHistory, SpecialsOf
  <1>13. AbortOf(f)'
    <2> SUFFICES ASSUME f.aborted PROVE HasAbort(f.ios)' /\ AtMostOne(EffectsAfterAbort(c)')
      BY <1>4 DEF AbortOf, AtMostOne
    <2>1. AbortEmitted(fr)
      BY <1>4
    <2>2. EffectsAfterAbort(c) = {}
      BY <1>2, <1>4, <2>1 DEF OpenHistory, AbortOf
    <2>3. EffectsAfterAbort(c)' \subseteq EffectsAfterAbort(c) \cup {Len(log) + 1}
      BY <1>3, GrowsEffects
    <2>4. HasAbort(f.ios)
      BY <1>4, <2>1, AbortIsThere
    <2> QED BY <2>2, <2>3, <2>4 DEF AtMostOne, HasAbort
  <1> QED BY <1>11, <1>12, <1>13 DEF OpenHistory

LEMMA WritesOpen ==
    ASSUME NEW f \in Frame, NEW x \in Name, NEW v \in Value, fr \in Frame, OpenHistory(fr),
           Writes(f, x, v), log \in Seq(Event),
           LogGrows([ev |-> "write", id |-> fr.id, name |-> x, value |-> v])
    PROVE  OpenHistory(f)'
  <1>1. PICK e : e = [ev |-> "write", id |-> fr.id, name |-> x, value |-> v]
    OBVIOUS
  <1>2. PICK c : c = fr.id
    OBVIOUS
  <1>3. LogGrows(e) /\ e.ev = "write" /\ e.id = c /\ e.name = x /\ e.value = v
    BY <1>1, <1>2
  <1>4. /\ f.id = c /\ f.env = [fr.env EXCEPT ![x] = v] /\ f.ios = fr.ios
        /\ f.bindings = fr.bindings /\ f.asserts = fr.asserts /\ f.ep = 0 /\ ~f.aborted
    BY <1>2 DEF Writes, Continues
  <1>5. fr.env \in [Name -> Value]
    BY DEF Frame
  <1>6. WritesOf(c, x)' # {} /\ LastWritten(c, x)' = v
    BY <1>3, GrowsWrites DEF IsStore
  <1>7. \A y : y # x => /\ WritesOf(c, y)' = WritesOf(c, y)
                        /\ WritesOf(c, y) # {} => LastWritten(c, y)' = LastWritten(c, y)
    BY <1>3, GrowsWrites DEF IsStore
  <1>8. ValuesOf(fr)
    BY DEF OpenHistory
  <1>9. \A y \in Name : WritesOf(c, y)' # {} => f.env[y] = LastWritten(c, y)'
    BY <1>2, <1>4, <1>5, <1>6, <1>7, <1>8 DEF ValuesOf
  <1>10. \A k \in 1 .. Len(f.bindings) : WritesOf(c, f.bindings[k].name)' # {}
    BY <1>2, <1>4, <1>6, <1>7, <1>8 DEF ValuesOf
  <1>11. ValuesOf(f)'
    BY <1>4, <1>9, <1>10 DEF ValuesOf
  <1>12. SpecialsOf(f)'
    <2>1. e \notin AssertEvent(c) /\ e \notin IoEvent(c)
      BY <1>3 DEF AssertEvent, IoEvent
    <2>2. /\ Select(log', AssertEvent(c)) = Select(log, AssertEvent(c))
          /\ Select(log', IoEvent(c)) = Select(log, IoEvent(c))
      BY <1>3, <2>1, GrowsSpecials
    <2> QED BY <1>2, <1>4, <2>2 DEF OpenHistory, SpecialsOf
  <1>13. AbortOf(f)'
    BY <1>4 DEF AbortOf
  <1> QED BY <1>11, <1>12, <1>13 DEF OpenHistory

LEMMA AssertsOpen ==
    ASSUME NEW f \in Frame, fr \in Frame, OpenHistory(fr), Asserts(f), log \in Seq(Event),
           LogGrows([ev |-> "assert", id |-> fr.id])
    PROVE  OpenHistory(f)'
  <1>1. PICK e : e = [ev |-> "assert", id |-> fr.id]
    OBVIOUS
  <1>2. PICK c : c = fr.id
    OBVIOUS
  <1>3. LogGrows(e) /\ e.ev = "assert" /\ e.id = c /\ e \in Event
    BY <1>1, <1>2 DEF LogGrows
  <1>4. /\ f.id = c /\ f.env = fr.env /\ f.ios = fr.ios /\ f.bindings = fr.bindings
        /\ f.asserts = fr.asserts + 1 /\ f.ep = 0 /\ ~f.aborted
    BY <1>2 DEF Asserts, Continues
  <1>5. \A y : /\ WritesOf(c, y)' = WritesOf(c, y)
               /\ WritesOf(c, y) # {} => LastWritten(c, y)' = LastWritten(c, y)
    BY <1>3, GrowsWrites DEF IsStore
  <1>6. ValuesOf(f)'
    BY <1>2, <1>4, <1>5 DEF OpenHistory, ValuesOf
  <1>7. SpecialsOf(f)'
    <2>1. e \in AssertEvent(c) /\ e \notin IoEvent(c)
      BY <1>1, <1>2 DEF AssertEvent, IoEvent
    <2>2. PICK s : s = Select(log, AssertEvent(c))
      OBVIOUS
    <2>3. s \in Seq(Event)
      BY <2>2, SelectType
    <2>4. /\ Select(log', AssertEvent(c)) = Append(s, e)
          /\ Select(log', IoEvent(c)) = Select(log, IoEvent(c))
      BY <1>3, <2>1, <2>2, GrowsSpecials
    <2>5. Len(Append(s, e)) = Len(s) + 1
      BY <1>3, <2>3, AppendElement
    <2> QED BY <1>2, <1>4, <2>2, <2>4, <2>5 DEF OpenHistory, SpecialsOf
  <1>8. AbortOf(f)'
    BY <1>4 DEF AbortOf
  <1> QED BY <1>6, <1>7, <1>8 DEF OpenHistory
\* A call that starts has no history.
LEMMA FreshOpen ==
    ASSUME LogTyped, calls \in Nat, NEW e, LogGrows(e), e.ev = "enter", NEW f, f.id = calls + 1,
           f.bindings = <<>>, f.asserts = 0, f.ios = <<>>, ~f.aborted, f.ep = 0
    PROVE  OpenHistory(f)'
  <1>1. PICK c : c = calls + 1
    OBVIOUS
  <1>2. log \in Seq(Event) /\ f.id = c
    BY <1>1 DEF LogTyped
  <1>3. SameHistory(c)
    BY <1>2, OtherHistory
  <1>4. \A k \in 1 .. Len(log) : log[k].id # c
    BY <1>1 DEF LogTyped
  <1>5. \A x \in Name : WritesOf(c, x)' = {}
    BY <1>3, <1>4 DEF SameHistory, WritesOf
  <1>6. Select(log', AssertEvent(c)) = <<>> /\ Select(log', IoEvent(c)) = <<>>
    <2>1. \A k \in 1 .. Len(log) : log[k] \notin AssertEvent(c) /\ log[k] \notin IoEvent(c)
      BY <1>4 DEF AssertEvent, IoEvent
    <2>2. Select(log, AssertEvent(c)) = <<>> /\ Select(log, IoEvent(c)) = <<>>
      BY <1>2, <2>1, SelectNothing
    <2> QED BY <1>3, <2>2 DEF SameHistory
  <1>7. ValuesOf(f)'
    BY <1>2, <1>5 DEF ValuesOf
  <1>8. SpecialsOf(f)'
    <2>1. [k \in 1 .. Len(<<>>) |-> <<>>[k].tag] = <<>>
      OBVIOUS
    <2> QED BY <1>2, <1>6, <2>1 DEF SpecialsOf
  <1>9. AbortOf(f)'
    BY DEF AbortOf
  <1> QED BY <1>7, <1>8, <1>9 DEF OpenHistory

\* A finished call takes its history along; the sync reads the environment.
LEMMA FinishDone ==
    ASSUME NEW f \in Frame, NEW t, t = TraceOf(f), OpenHistory(f), SameHistory(f.id)
    PROVE  DoneHistory(t)'
  <1>1. /\ t.id = f.id /\ t.bindings = Synced(f) /\ t.asserts = f.asserts /\ t.ios = f.ios
        /\ t.aborted = f.aborted /\ t.rv = IF f.aborted THEN Unknown ELSE f.rv
    BY TraceParts
  <1>2. AbortOf(f) /\ ValuesOf(f) /\ SpecialsOf(f)
    BY DEF OpenHistory
  <1>3. SpecialsOf(t)'
    BY <1>1, <1>2 DEF SpecialsOf, SameHistory
  <1>4. t.aborted => HasAbort(t.ios) /\ t.rv = Unknown /\ AtMostOne(EffectsAfterAbort(t.id)')
    BY <1>1, <1>2 DEF AbortOf, SameHistory, AtMostOne
  <1>5. f.bindings \in Seq(Binding)
    BY DEF Frame
  <1>6. \A k \in 1 .. Len(f.bindings) : f.bindings[k] \in Binding /\ f.bindings[k].name \in Name
    BY <1>5, BoundNames
  <1>7. Len(t.bindings) = Len(f.bindings)
    BY <1>1, <1>5 DEF Synced
  <1>8. \A k \in 1 .. Len(f.bindings) :
            /\ t.bindings[k].name = f.bindings[k].name
            /\ t.bindings[k].value = f.env[f.bindings[k].name]
    <2> SUFFICES ASSUME NEW k \in 1 .. Len(f.bindings)
                 PROVE  /\ t.bindings[k].name = f.bindings[k].name
                        /\ t.bindings[k].value = f.env[f.bindings[k].name]
      OBVIOUS
    <2>1. t.bindings[k] = [f.bindings[k] EXCEPT !.value = f.env[f.bindings[k].name]]
      BY <1>1 DEF Synced
    <2> QED BY <1>6, <2>1 DEF Binding
  <1>9. \A k \in 1 .. Len(f.bindings) :
            /\ WritesOf(f.id, f.bindings[k].name)' # {}
            /\ f.env[f.bindings[k].name] = LastWritten(f.id, f.bindings[k].name)'
    BY <1>2, <1>6 DEF ValuesOf, SameHistory
  <1>10. \A k \in 1 .. Len(t.bindings) :
            /\ t.bindings[k].value = LastWritten(t.id, t.bindings[k].name)'
            /\ WritesOf(t.id, t.bindings[k].name)' # {}
    BY <1>1, <1>7, <1>8, <1>9
  <1> QED BY <1>3, <1>4, <1>10 DEF DoneHistory, HasAbort, AtMostOne

\* What is not of a call leaves its history.
LEMMA StepKeepsOthers ==
    ASSUME log \in Seq(Event), NEW id, \/ log' = log
                                       \/ \E e : LogGrows(e) /\ e.id # id
    PROVE  SameHistory(id)
  <1>1. CASE log' = log
    BY <1>1, QuietHistory
  <1>2. CASE \E e : LogGrows(e) /\ e.id # id
    <2>1. PICK e : LogGrows(e) /\ e.id # id
      BY <1>2
    <2> QED BY <2>1, OtherHistory
  <1> QED BY <1>1, <1>2

\* A step of the running call is its own, and no other call's.
LEMMA ContinuesHistory ==
    ASSUME EvalInv, CallsNumbered, LogTyped, CallHistory, NEW f \in Frame, Continues(f),
           OpenHistory(f)', \/ log' = log
                            \/ \E e : LogGrows(e) /\ e.id = fr.id
    PROVE  CallHistory'
  <1>1. PICK n \in Nat \ {0} : n = Len(stack)
    BY ContinuesStack
  <1>2. /\ stack \in Seq(Frame) /\ Len(stack') = n /\ fr = stack[n] /\ done' = done
        /\ \A k \in 1 .. n : stack'[k] = IF k = n THEN f ELSE stack[k]
    BY <1>1, ContinuesStack
  <1>3. ASSUME NEW id, id # fr.id PROVE SameHistory(id)
    BY <1>3, StepKeepsOthers DEF LogTyped
  <1>4. ASSUME NEW k \in 1 .. n PROVE OpenHistory(stack[k])'
    <2>1. CASE k = n
      <3>1. stack'[k] = f
        BY <1>2, <2>1
      <3> QED BY <3>1
    <2>2. CASE k # n
      <3>1. PICK g \in Frame : g = stack[k]
        BY <1>1, <1>2
      <3>2. stack'[k] = g /\ OpenHistory(g)
        BY <1>1, <1>2, <2>2, <3>1 DEF CallHistory
      <3>3. g.id # fr.id
        BY <1>1, <1>2, <2>2, <3>1 DEF CallsNumbered
      <3>4. SameHistory(g.id)
        BY <1>3, <3>3
      <3>5. OpenHistory(g)'
        BY <3>2, <3>4, KeepsOpen
      <3> QED BY <3>2, <3>5
    <2> QED BY <2>1, <2>2
  <1>5. ASSUME NEW k \in 1 .. Len(done) PROVE DoneHistory(done[k])'
    <2>1. PICK t \in CallTrace : t = done[k]
      BY DEF EvalInv, EvalTypeOK
    <2>2. DoneHistory(t) /\ t.id # fr.id
      BY <1>1, <1>2, <2>1 DEF CallHistory, CallsNumbered
    <2>3. SameHistory(t.id)
      BY <1>3, <2>2
    <2>4. DoneHistory(t)'
      BY <2>2, <2>3, KeepsDone
    <2> QED BY <1>2, <2>1, <2>4
  <1> QED BY <1>2, <1>4, <1>5 DEF CallHistory
\* The callee has no history yet, its caller keeps its own.
LEMMA EntersHistory ==
    ASSUME EvalInv, LogTyped, CallHistory,
           NEW c \in Frame, NEW g \in FnName, NEW args \in Seq(Value), Enters(c, g, args),
           NEW e, LogGrows(e), e.ev = "enter"
    PROVE  CallHistory'
  <1>1. PICK n \in Nat \ {0} : n = Len(stack)
    BY EntersStack
  <1>2. PICK new \in Frame : new = NewFrame(calls + 1, g, args)
    BY EntersStack
  <1>3. /\ stack \in Seq(Frame) /\ Len(stack') = n + 1 /\ fr = stack[n] /\ done' = done
        /\ \A k \in 1 .. n : stack'[k] = IF k = n THEN c ELSE stack[k]
        /\ stack'[n + 1] = new /\ calls \in Nat
    BY <1>1, <1>2, EntersStack
  <1>4. \A id : SameHistory(id)
    BY OtherHistory DEF LogTyped
  <1>5. OpenHistory(new)'
    <2>1. /\ new.id = calls + 1 /\ new.bindings = <<>> /\ new.asserts = 0 /\ new.ios = <<>>
          /\ ~new.aborted /\ new.ep = 0
      BY <1>2 DEF NewFrame
    <2> QED BY <1>3, <2>1, FreshOpen
  <1>6. OpenHistory(c)'
    <2>1. PICK f \in Frame : f = fr
      BY <1>1, <1>3
    <2>2. OpenHistory(f) /\ SameHistory(f.id)
      BY <1>1, <1>3, <1>4, <2>1 DEF CallHistory
    <2>3. /\ c.id = f.id /\ c.env = f.env /\ c.bindings = f.bindings /\ c.asserts = f.asserts
          /\ c.ios = f.ios /\ c.aborted = f.aborted /\ c.ioBefore = f.ioBefore /\ f.ep > 0
      BY <2>1 DEF Enters, Frame
    <2> QED BY <2>2, <2>3, KeepsOpen
  <1>7. ASSUME NEW k \in 1 .. n + 1 PROVE OpenHistory(stack[k])'
    <2>1. CASE k = n + 1
      BY <1>3, <1>5, <2>1
    <2>2. CASE k = n
      BY <1>3, <1>6, <2>2
    <2>3. CASE k \in 1 .. n /\ k # n
      <3>1. PICK f \in Frame : f = stack[k]
        BY <1>1, <1>3, <2>3
      <3>2. stack'[k] = f /\ OpenHistory(f)
        BY <1>1, <1>3, <2>3, <3>1 DEF CallHistory
      <3>3. OpenHistory(f)'
        BY <1>4, <3>2, KeepsOpen
      <3> QED BY <3>2, <3>3
    <2>4. k = n + 1 \/ k = n \/ (k \in 1 .. n /\ k # n)
      OBVIOUS
    <2> QED BY <2>1, <2>2, <2>3, <2>4
  <1>8. ASSUME NEW k \in 1 .. Len(done) PROVE DoneHistory(done[k])'
    <2>1. PICK t \in CallTrace : t = done[k]
      BY DEF EvalInv, EvalTypeOK
    <2>2. DoneHistory(t)'
      BY <1>4, <2>1, KeepsDone DEF CallHistory
    <2> QED BY <1>3, <2>1, <2>2
  <1> QED BY <1>3, <1>7, <1>8 DEF CallHistory

LEMMA FinishHistory ==
    ASSUME EvalInv, LogTyped, CallHistory, FinishCall, NEW e, LogGrows(e), e.ev = "exit"
    PROVE  CallHistory'
  <1>1. PICK n \in Nat \ {0} : n = Len(stack)
    BY FinishStack
  <1>2. PICK m \in Nat : m = Len(done)
    BY FinishStack
  <1>3. PICK f \in Frame : f = fr
    BY FinishStack
  <1>4. PICK t \in CallTrace : t = TraceOf(f)
    BY <1>3, FinishStack
  <1>5. /\ stack \in Seq(Frame) /\ f = stack[n] /\ done \in Seq(CallTrace)
        /\ Len(done') = m + 1 /\ done'[m + 1] = t /\ \A k \in 1 .. m : done'[k] = done[k]
    BY <1>1, <1>2, <1>3, <1>4, FinishStack
  <1>6. \A id : SameHistory(id)
    BY OtherHistory DEF LogTyped
  <1>7. OpenHistory(f)
    BY <1>1, <1>5 DEF CallHistory
  <1>8. DoneHistory(t)'
    BY <1>4, <1>6, <1>7, FinishDone
  <1>9. ASSUME NEW k \in 1 .. m + 1 PROVE DoneHistory(done[k])'
    <2>1. CASE k = m + 1
      BY <1>5, <1>8, <2>1
    <2>2. CASE k \in 1 .. m
      <3>1. PICK u \in CallTrace : u = done[k]
        BY <1>2, <1>5, <2>2
      <3>2. DoneHistory(u)'
        BY <1>2, <1>6, <2>2, <3>1, KeepsDone DEF CallHistory
      <3> QED BY <1>5, <2>2, <3>1, <3>2
    <2> QED BY <2>1, <2>2
  <1>10. CASE n = 1
    <2>1. Len(stack') = 0
      BY <1>1, <1>10, FinishStack
    <2> QED BY <1>5, <1>9, <2>1 DEF CallHistory
  <1>11. CASE n # 1
    <2>1. n - 1 \in Nat \ {0}
      BY <1>11
    <2>2. PICK i \in Nat \ {0} : i = n - 1
      BY <2>1
    <2>3. PICK c \in Frame : c = stack[i]
      BY <1>1, <1>11, <2>2, FinishStack
    <2>4. PICK r \in Frame : r = Resumed(f, c)
      BY <1>1, <1>3, <1>11, <2>2, <2>3, FinishStack
    <2>5. /\ Len(stack') = i /\ FrameOK(c) /\ c.ep > 0 /\ i \in 1 .. n
          /\ \A k \in 1 .. i : stack'[k] = IF k = i THEN r ELSE stack[k]
      BY <1>1, <1>3, <1>11, <2>2, <2>3, <2>4, FinishStack
    <2>6. /\ r.id = c.id /\ r.env = c.env /\ r.bindings = c.bindings /\ r.asserts = c.asserts
          /\ r.ios = c.ios /\ r.aborted = c.aborted /\ r.ioBefore = c.ioBefore
      BY <1>5, <2>4, <2>5, ResumedParts
    <2>7. OpenHistory(c)
      BY <1>1, <2>3, <2>5 DEF CallHistory
    <2>8. OpenHistory(r)'
      BY <1>6, <2>5, <2>6, <2>7, KeepsOpen
    <2>9. ASSUME NEW k \in 1 .. i PROVE OpenHistory(stack[k])'
      <3>1. CASE k = i
        BY <2>5, <2>8, <3>1
      <3>2. CASE k # i
        <4>1. PICK g \in Frame : g = stack[k]
          BY <1>1, <1>5, <2>2
        <4>2. stack'[k] = g /\ OpenHistory(g)
          BY <1>1, <2>2, <2>5, <3>2, <4>1 DEF CallHistory
        <4>3. OpenHistory(g)'
          BY <1>6, <4>2, KeepsOpen
        <4> QED BY <4>2, <4>3
      <3> QED BY <3>1, <3>2
    <2> QED BY <1>5, <1>9, <2>5, <2>9 DEF CallHistory
  <1> QED BY <1>10, <1>11

LEMMA EvalStepHistory ==
    ASSUME EvalInv, CallsNumbered, LogTyped, CallHistory, EvalStep PROVE CallHistory'
  <1>1. Effect /\ log \in Seq(Event)
    BY StepEffect DEF LogTyped
  <1>2. ASSUME NEW f, Continues(f) PROVE fr \in Frame /\ OpenHistory(fr)
    <2>1. stack # <<>> /\ fr \in Frame
      BY <1>2, TopFrame DEF Continues
    <2>2. Len(stack) \in 1 .. Len(stack)
      BY <2>1 DEF EvalInv, EvalTypeOK
    <2> QED BY <2>1, <2>2 DEF CallHistory, fr
  <1>3. CASE \E f \in Frame : Silent(f)
    <2>1. PICK f \in Frame : Silent(f)
      BY <1>3
    <2>2. Continues(f) /\ log' = log
      BY <2>1 DEF Silent
    <2>3. OpenHistory(f)'
      BY <1>2, <2>1, <2>2, SilentOpen
    <2> QED BY <2>2, <2>3, ContinuesHistory
  <1>4. CASE \E f \in Frame, tag \in IoTag : Reports(f, tag)
    <2>1. PICK f \in Frame, tag \in IoTag : Reports(f, tag)
      BY <1>4
    <2>2. Continues(f) /\ LogGrows(Io(tag)) /\ Io(tag).id = fr.id
      BY <2>1, EffectEvents DEF Reports, Io
    <2>3. OpenHistory(f)'
      BY <1>1, <1>2, <2>1, <2>2, ReportsOpen
    <2> QED BY <2>2, <2>3, ContinuesHistory
  <1>5. CASE \E f \in Frame, b \in Binding : Binds(f, b)
    <2>1. PICK f \in Frame, b \in Binding : Binds(f, b)
      BY <1>5
    <2>2. Continues(f)
      BY <2>1 DEF Binds
    <2>3. LogGrows([ev |-> "bind", id |-> fr.id, name |-> b.name, line |-> b.line, value |-> b.value])
      BY <2>1, EffectEvents
    <2>4. OpenHistory(f)'
      BY <1>1, <1>2, <2>1, <2>2, <2>3, BindsOpen
    <2>5. \E e : LogGrows(e) /\ e.id = fr.id
      BY <2>3
    <2> QED BY <2>2, <2>4, <2>5, ContinuesHistory
  <1>6. CASE \E f \in Frame, x \in Name, v \in Value : Writes(f, x, v)
    <2>1. PICK f \in Frame, x \in Name, v \in Value : Writes(f, x, v)
      BY <1>6
    <2>2. Continues(f)
      BY <2>1 DEF Writes
    <2>3. LogGrows([ev |-> "write", id |-> fr.id, name |-> x, value |-> v])
      BY <2>1, EffectEvents
    <2>4. OpenHistory(f)'
      BY <1>1, <1>2, <2>1, <2>2, <2>3, WritesOpen
    <2>5. \E e : LogGrows(e) /\ e.id = fr.id
      BY <2>3
    <2> QED BY <2>2, <2>4, <2>5, ContinuesHistory
  <1>7. CASE \E f \in Frame : Asserts(f)
    <2>1. PICK f \in Frame : Asserts(f)
      BY <1>7
    <2>2. Continues(f)
      BY <2>1 DEF Asserts
    <2>3. LogGrows([ev |-> "assert", id |-> fr.id])
      BY <2>1, EffectEvents
    <2>4. OpenHistory(f)'
      BY <1>1, <1>2, <2>1, <2>2, <2>3, AssertsOpen
    <2>5. \E e : LogGrows(e) /\ e.id = fr.id
      BY <2>3
    <2> QED BY <2>2, <2>4, <2>5, ContinuesHistory
  <1>8. CASE \E c \in Frame, g \in FnName, args \in Seq(Value) : Enters(c, g, args)
    <2>1. PICK c \in Frame, g \in FnName, args \in Seq(Value) : Enters(c, g, args)
      BY <1>8
    <2>2. PICK e : e = [ev |-> "enter", id |-> calls + 1, fn |-> g]
      OBVIOUS
    <2>3. LogGrows(e) /\ e.ev = "enter"
      BY <2>1, <2>2, EffectEvents
    <2> QED BY <2>1, <2>3, EntersHistory
  <1>9. CASE FinishCall
    <2>1. PICK e : e = [ev |-> "exit", id |-> fr.id, rv |-> TraceOf(fr).rv]
      OBVIOUS
    <2>2. LogGrows(e) /\ e.ev = "exit"
      BY <1>9, <2>1, EffectEvents
    <2> QED BY <1>9, <2>2, FinishHistory
  <1> QED BY <1>1, <1>3, <1>4, <1>5, <1>6, <1>7, <1>8, <1>9 DEF Effect

LEMMA DispatchCalls == ASSUME HistoryInv, CallHistory, DispatchEntry PROVE CallHistory'
  <1>1. PICK e : e = [ev |-> "enter", id |-> calls + 1, fn |-> entryFn]
    OBVIOUS
  <1>2. PICK new : new = NewFrame(calls + 1, entryFn, EntryArgs(entryFn))
    OBVIOUS
  <1>3. LogGrows(e) /\ e.ev = "enter" /\ calls \in Nat /\ done' = done /\ stack' = <<new>>
    BY <1>1, <1>2, DispatchStarts
  <1>4. LogTyped /\ done \in Seq(CallTrace)
    BY DEF HistoryInv, WalkInv, EvalInv, EvalTypeOK
  <1>5. /\ new.id = calls + 1 /\ new.bindings = <<>> /\ new.asserts = 0 /\ new.ios = <<>>
        /\ ~new.aborted /\ new.ep = 0
    BY <1>2 DEF NewFrame
  <1>6. OpenHistory(new)'
    BY <1>3, <1>4, <1>5, FreshOpen
  <1>7. ASSUME NEW k \in 1 .. Len(done) PROVE DoneHistory(done[k])'
    <2>1. PICK t \in CallTrace : t = done[k]
      BY <1>4
    <2>2. SameHistory(t.id)
      BY <1>3, <1>4, OtherHistory DEF LogTyped
    <2>3. DoneHistory(t)'
      BY <2>1, <2>2, KeepsDone DEF CallHistory
    <2> QED BY <1>3, <2>1, <2>3
  <1>8. Len(stack') = 1 /\ stack'[1] = new
    BY <1>3
  <1>9. ASSUME NEW k \in 1 .. Len(stack') PROVE OpenHistory(stack[k])'
    <2>1. stack'[k] = new
      BY <1>8
    <2> QED BY <1>6, <2>1
  <1> QED BY <1>3, <1>7, <1>9 DEF CallHistory

LEMMA KeptCalls == ASSUME HistoryInv, CallHistory, UNCHANGED evalVars PROVE CallHistory'
  <1>1. stack' = stack /\ done' = done /\ log' = log
    BY DEF evalVars
  <1>2. ASSUME NEW k \in 1 .. Len(stack) PROVE OpenHistory(stack[k])'
    <2>1. PICK f \in Frame : f = stack[k]
      BY DEF HistoryInv, WalkInv, EvalInv, EvalTypeOK
    <2>2. OpenHistory(f) /\ SameHistory(f.id)
      BY <1>1, <2>1, QuietHistory DEF CallHistory
    <2>3. OpenHistory(f)'
      BY <2>2, KeepsOpen
    <2> QED BY <1>1, <2>1, <2>3
  <1>3. ASSUME NEW k \in 1 .. Len(done) PROVE DoneHistory(done[k])'
    <2>1. PICK t \in CallTrace : t = done[k]
      BY DEF HistoryInv, WalkInv, EvalInv, EvalTypeOK
    <2>2. DoneHistory(t) /\ SameHistory(t.id)
      BY <1>1, <2>1, QuietHistory DEF CallHistory
    <2>3. DoneHistory(t)'
      BY <2>2, KeepsDone
    <2> QED BY <1>1, <2>1, <2>3
  <1> QED BY <1>1, <1>2, <1>3 DEF CallHistory

LEMMA NextCalls == HistoryInv /\ CallHistory /\ [Next]_vars => CallHistory'
  <1> SUFFICES ASSUME HistoryInv, CallHistory, [Next]_vars PROVE CallHistory'
    OBVIOUS
  <1>1. CASE DispatchEntry
    BY <1>1, DispatchCalls
  <1>2. CASE Evaluate
    BY <1>2, EvalStepHistory DEF Evaluate, HistoryInv, WalkInv
  <1>3. CASE BeginEmission \/ EmitCallTrace \/ EndEmission \/ UNCHANGED vars
    <2>1. UNCHANGED evalVars
      BY <1>3 DEF BeginEmission, EmitCallTrace, EndEmission, OpenCall, EmitSubCall,
         EmitTrailingSubCall, EmitBinding, EndBindings, Descend, CloseCall, vars
    <2> QED BY <2>1, KeptCalls
  <1> QED BY <1>1, <1>2, <1>3 DEF Next, Stutter

LEMMA CallHistoryInvariant == Spec => []CallHistory
  <1>1. Init => CallHistory
    BY DEF Init, EvalInit, CallHistory
  <1> QED BY <1>1, NextCalls, HistoryInvariant, PTL DEF Spec

\* A call found aborted has at most one effect behind the abort, that of the
\* expression that aborted, and returns Unknown: execute_block's early exit.
THEOREM AbortHalts == Spec => []AbortHaltsCall
  <1>1. LogTyped /\ CallHistory => AbortHaltsCall
    <2> SUFFICES ASSUME LogTyped, CallHistory, NEW k \in 1 .. Len(done), done[k].aborted
                 PROVE  /\ HasAbort(done[k].ios) /\ done[k].rv = Unknown
                        /\ Cardinality(EffectsAfterAbort(done[k].id)) <= 1
      BY DEF AbortHaltsCall
    <2>1. PICK E : E = EffectsAfterAbort(done[k].id)
      OBVIOUS
    <2>2. HasAbort(done[k].ios) /\ done[k].rv = Unknown /\ AtMostOne(E)
      BY <2>1 DEF CallHistory, DoneHistory
    <2>4. CASE E # {}
      <3>1. PICK j : j \in E
        BY <2>4
      <3>2. E = {j}
        BY <2>2, <3>1 DEF AtMostOne
      <3>3. Cardinality({j}) = 1
        BY FS_Singleton
      <3>4. Cardinality(E) <= 1
        BY <3>2, <3>3
      <3> QED BY <2>1, <2>2, <3>4
    <2>5. E = {} => Cardinality(E) <= 1
      BY FS_EmptySet, SMT
    <2> QED BY <2>1, <2>2, <2>4, <2>5
  <1>2. HistoryInv => LogTyped
    BY DEF HistoryInv
  <1> QED BY <1>1, <1>2, HistoryInvariant, CallHistoryInvariant, PTL

----------------------------------------------------------------------------
(* Bindings are written from the finished calls *)

\* A binding record shows a binding of a CallTrace.
FromTrace(r) ==
    r.rec = "bind" =>
        \E d \in 1 .. Len(done) : \E b \in 1 .. Len(done[d].bindings) :
            /\ r.id = done[d].id
            /\ r.name = done[d].bindings[b].name
            /\ r.value = done[d].bindings[b].value

BindingsFromTraces == \A k \in 1 .. Len(out) : FromTrace(out[k])

\* CallTraces are kept.
LEMMA DoneGrows ==
    ASSUME HistoryInv, [Next]_vars
    PROVE  /\ Len(done) \in Nat /\ Len(done') \in Nat /\ Len(done) <= Len(done')
           /\ \A k \in 1 .. Len(done) : done'[k] = done[k]
  <1>0. EvalInv /\ done \in Seq(CallTrace) /\ Len(done) \in Nat /\ log \in Seq(Event)
    BY DEF HistoryInv, WalkInv, EvalInv, EvalTypeOK, LogTyped
  <1>1. CASE done' = done
    BY <1>0, <1>1
  <1>2. CASE Evaluate
    <2>1. Effect
      BY <1>0, <1>2, StepEffect DEF Evaluate
    <2>2. CASE FinishCall
      <3>1. /\ Len(done') = Len(done) + 1
            /\ \A k \in 1 .. Len(done) : done'[k] = done[k]
        BY <1>0, <2>2, FinishStack
      <3> QED BY <1>0, <3>1
    <2>3. ~FinishCall => done' = done
      BY <2>1 DEF Effect, Silent, Reports, Binds, Writes, Asserts, Continues, Quiet, Enters
    <2> QED BY <1>1, <2>2, <2>3
  <1>3. ~Evaluate => done' = done
    BY DispatchStarts DEF Next, EmitCallTrace, BeginEmission, OpenCall, EmitSubCall,
       EmitTrailingSubCall, EmitBinding, EndBindings, Descend, CloseCall, EndEmission, Stutter,
       vars, evalVars
  <1> QED BY <1>1, <1>2, <1>3

\* A record once written from a CallTrace stays written from it.
LEMMA StaysFromTrace ==
    ASSUME HistoryInv, [Next]_vars, NEW r, FromTrace(r) PROVE FromTrace(r)'
  <1>1. /\ Len(done) \in Nat /\ Len(done') \in Nat /\ Len(done) <= Len(done')
        /\ \A k \in 1 .. Len(done) : done'[k] = done[k]
    BY DoneGrows
  <1>2. \A k \in 1 .. Len(done) : k \in 1 .. Len(done')
    BY <1>1
  <1> QED BY <1>1, <1>2 DEF FromTrace

\* What a step writes: the opening of a call, a binding, or its closing records.
LEMMA StepWrites ==
    ASSUME HistoryInv, OutTyped, [Next]_vars
    PROVE  \E R \in Seq(StreamRecord) :
              /\ out' = out \o R
              /\ \A k \in 1 .. Len(R) :
                    R[k].rec = "bind" =>
                        /\ EmitBinding
                        /\ R[k] = [rec |-> "bind", id |-> emitted.id,
                                   name |-> emitted.bindings[act.bi + 1].name,
                                   line |-> emitted.bindings[act.bi + 1].line,
                                   mutable |-> emitted.bindings[act.bi + 1].mutable,
                                   value |-> emitted.bindings[act.bi + 1].value]
              /\ \A k \in 1 .. Len(R) : R[k].rec \in {"event", "return_step"} => CloseCall
  <1>0. out \in Seq(StreamRecord)
    BY DEF OutTyped
  <1>1. CASE OpenCall
    <2>1. walk # <<>> /\ act \in Activation /\ emitted \in CallTrace
      BY <1>1, ActType DEF OpenCall, At, HistoryInv
    <2>2. CASE act.entry
      <3>1. PICK R : R = <<>>
        OBVIOUS
      <3>2. R \in Seq(StreamRecord) /\ 1 .. Len(R) = {}
        BY <3>1
      <3>3. out' = out \o R
        BY <1>1, <2>2, <3>1 DEF OpenCall, Write
      <3> QED BY <3>2, <3>3
    <2>3. CASE ~act.entry
      <3>1. PICK c, s : /\ c = [rec |-> "call", id |-> emitted.id, fn |-> emitted.fn, args |-> act.args]
                        /\ s = [rec |-> "entry_step", id |-> emitted.id]
        OBVIOUS
      <3>2. c \in StreamRecord /\ s \in StreamRecord
        <4>1. emitted.id \in Nat /\ emitted.fn \in FnName /\ act.args \in Seq(Value)
          BY <2>1 DEF CallTrace, Activation
        <4> QED BY <3>1, <4>1 DEF StreamRecord
      <3>3. out' = out \o <<c, s>>
        BY <1>1, <2>3, <3>1 DEF OpenCall, Write
      <3>4. c.rec = "call" /\ s.rec = "entry_step"
        BY <3>1
      <3>5. <<c, s>> \in Seq(StreamRecord) /\ Len(<<c, s>>) = 2 /\ <<c, s>>[1] = c /\ <<c, s>>[2] = s
        BY <3>2
      <3>6. \A k \in 1 .. Len(<<c, s>>) : <<c, s>>[k].rec \in {"call", "entry_step"}
        BY <3>4, <3>5
      <3> QED BY <3>3, <3>5, <3>6
    <2> QED BY <2>2, <2>3
  <1>2. CASE EmitBinding
    <2>1. walk # <<>> /\ act.bi \in Nat /\ act.bi < Len(emitted.bindings) /\ emitted \in CallTrace
      BY <1>2, ActType DEF EmitBinding, At, HistoryInv
    <2>2. PICK b \in Binding : b = emitted.bindings[act.bi + 1]
      <3>1. emitted.bindings \in Seq(Binding) /\ act.bi + 1 \in 1 .. Len(emitted.bindings)
        BY <2>1 DEF CallTrace
      <3> QED BY <3>1
    <2>3. PICK r : r = [rec |-> "bind", id |-> emitted.id, name |-> b.name, line |-> b.line,
                        mutable |-> b.mutable, value |-> b.value]
      OBVIOUS
    <2>4. r \in StreamRecord
      <3>1. emitted.id \in Nat
        BY <2>1 DEF CallTrace
      <3>2. b.name \in Name /\ b.line \in Line /\ b.mutable \in BOOLEAN /\ b.value \in Value
        BY DEF Binding
      <3> QED BY <2>3, <3>1, <3>2 DEF StreamRecord
    <2>5. out' = out \o <<r>>
      BY <1>2, <2>2, <2>3 DEF EmitBinding, Write
    <2>6. <<r>> \in Seq(StreamRecord) /\ Len(<<r>>) = 1 /\ <<r>>[1] = r
      BY <2>4
    <2>7. \A k \in 1 .. Len(<<r>>) : <<r>>[k] = r /\ <<r>>[k].rec = "bind"
      BY <2>3, <2>6
    <2>8. PICK R \in Seq(StreamRecord) : R = <<r>>
      BY <2>6
    <2>9. \A k \in 1 .. Len(R) : R[k].rec \notin {"event", "return_step"}
      BY <2>7, <2>8
    <2>10. r = [rec |-> "bind", id |-> emitted.id,
                name |-> emitted.bindings[act.bi + 1].name,
                line |-> emitted.bindings[act.bi + 1].line,
                mutable |-> emitted.bindings[act.bi + 1].mutable,
                value |-> emitted.bindings[act.bi + 1].value]
      BY <2>2, <2>3
    <2>11. \A k \in 1 .. Len(R) :
              R[k] = [rec |-> "bind", id |-> emitted.id,
                      name |-> emitted.bindings[act.bi + 1].name,
                      line |-> emitted.bindings[act.bi + 1].line,
                      mutable |-> emitted.bindings[act.bi + 1].mutable,
                      value |-> emitted.bindings[act.bi + 1].value]
      BY <2>7, <2>8, <2>10
    <2>12. out' = out \o R
      BY <2>5, <2>8
    <2> QED BY <1>2, <2>9, <2>11, <2>12
  <1>3. CASE CloseCall
    <2>1. walk # <<>> /\ act \in Activation /\ emitted \in CallTrace
      BY <1>3, ActType DEF CloseCall, At, HistoryInv
    <2>2. PICK R : R = CloseRecords(emitted, act.entry)
      OBVIOUS
    <2>3. act.entry \in BOOLEAN
      BY <2>1 DEF Activation
    <2>4. /\ R \in Seq(StreamRecord)
          /\ Len(R) = emitted.asserts + Len(emitted.ios) + (IF act.entry THEN 1 ELSE 2)
          /\ emitted.asserts \in Nat /\ Len(emitted.ios) \in Nat
          /\ \A k \in 1 .. emitted.asserts : R[k] = AssertRecord(emitted)
          /\ \A k \in 1 .. Len(emitted.ios) :
                  R[emitted.asserts + k] = IoRecord(emitted, emitted.ios[k])
          /\ R[emitted.asserts + Len(emitted.ios) + 1] = StepRecord(emitted)
          /\ ~act.entry => R[emitted.asserts + Len(emitted.ios) + 2] = ReturnRecord(emitted)
      BY <2>1, <2>2, <2>3, ClosingRecords
    <2>5. \A k \in 1 .. Len(R) : R[k].rec # "bind"
      <3> TAKE k \in 1 .. Len(R)
      <3>1. CASE k \in 1 .. emitted.asserts
        BY <2>4, <3>1 DEF AssertRecord
      <3>2. CASE k - emitted.asserts \in 1 .. Len(emitted.ios)
        <4>1. emitted.asserts + (k - emitted.asserts) = k
          BY <2>4
        <4>2. R[emitted.asserts + (k - emitted.asserts)]
              = IoRecord(emitted, emitted.ios[k - emitted.asserts])
          BY <2>4, <3>2
        <4> QED BY <4>1, <4>2 DEF IoRecord
      <3>3. CASE k = emitted.asserts + Len(emitted.ios) + 1
        BY <2>4, <3>3 DEF StepRecord
      <3>4. CASE k = emitted.asserts + Len(emitted.ios) + 2 /\ ~act.entry
        BY <2>4, <3>4 DEF ReturnRecord
      <3>5. \/ k \in 1 .. emitted.asserts \/ k - emitted.asserts \in 1 .. Len(emitted.ios)
            \/ k = emitted.asserts + Len(emitted.ios) + 1
            \/ k = emitted.asserts + Len(emitted.ios) + 2 /\ ~act.entry
        <4>1. CASE act.entry
          BY <2>4, <4>1
        <4>2. CASE ~act.entry
          BY <2>4, <4>2
        <4> QED BY <4>1, <4>2
      <3> QED BY <3>1, <3>2, <3>3, <3>4, <3>5
    <2>6. out' = out \o R
      BY <1>3, <2>2 DEF CloseCall, Write
    <2> QED BY <1>3, <2>4, <2>5, <2>6
  <1>4. CASE out' = out
    <2>0. PICK R : R = <<>>
      OBVIOUS
    <2>1. out' = out \o R
      BY <1>0, <1>4, <2>0
    <2>2. R \in Seq(StreamRecord) /\ 1 .. Len(R) = {}
      BY <2>0
    <2> QED BY <2>1, <2>2
  <1>5. \/ OpenCall \/ EmitBinding \/ CloseCall \/ out' = out
    BY DEF Next, EmitCallTrace, DispatchEntry, Evaluate, emitVars, BeginEmission, EmitSubCall,
       EmitTrailingSubCall, EndBindings, Descend, EndEmission, Stutter, vars
  <1> QED BY <1>1, <1>2, <1>3, <1>4, <1>5

LEMMA NextBindings ==
    ASSUME HistoryInv, OutTyped, BindingsFromTraces, [Next]_vars PROVE BindingsFromTraces'
  <1>1. PICK R \in Seq(StreamRecord) :
            /\ out' = out \o R
            /\ \A k \in 1 .. Len(R) :
                  R[k].rec = "bind" =>
                      /\ EmitBinding
                      /\ R[k] = [rec |-> "bind", id |-> emitted.id,
                                 name |-> emitted.bindings[act.bi + 1].name,
                                 line |-> emitted.bindings[act.bi + 1].line,
                                 mutable |-> emitted.bindings[act.bi + 1].mutable,
                                 value |-> emitted.bindings[act.bi + 1].value]
    BY StepWrites
  <1>2. ASSUME NEW k \in 1 .. Len(R) PROVE FromTrace(R[k])
    <2> SUFFICES ASSUME R[k].rec = "bind" PROVE FromTrace(R[k])
      BY DEF FromTrace
    <2>1. walk # <<>> /\ act.bi < Len(emitted.bindings) /\ act.bi \in Nat /\ ActOK(act)
          /\ emitted.bindings \in Seq(Binding)
      BY <1>1, ActType, EmittedParts DEF EmitBinding, At, HistoryInv
    <2>2. act.bi + 1 \in 1 .. Len(emitted.bindings)
      BY <2>1
    <2>3. act.trace \in 1 .. Len(done) /\ emitted = done[act.trace]
      BY <2>1 DEF ActOK, emitted
    <2>0. R[k] = [rec |-> "bind", id |-> emitted.id,
                  name |-> emitted.bindings[act.bi + 1].name,
                  line |-> emitted.bindings[act.bi + 1].line,
                  mutable |-> emitted.bindings[act.bi + 1].mutable,
                  value |-> emitted.bindings[act.bi + 1].value]
      BY <1>1
    <2>4. /\ R[k].id = emitted.id /\ R[k].name = emitted.bindings[act.bi + 1].name
          /\ R[k].value = emitted.bindings[act.bi + 1].value
      BY <2>0
    <2> QED BY <2>2, <2>3, <2>4 DEF FromTrace
  <1>3. out \in Seq(StreamRecord)
    BY DEF OutTyped
  <1>4. \A k \in 1 .. Len(out \o R) :
            \/ k \in 1 .. Len(out) /\ (out \o R)[k] = out[k]
            \/ k - Len(out) \in 1 .. Len(R) /\ (out \o R)[k] = R[k - Len(out)]
    BY <1>3, ConcatElement
  <1>5. ASSUME NEW k \in 1 .. Len(out') PROVE FromTrace(out[k])'
    <2>1. PICK r : r = out'[k]
      OBVIOUS
    <2>2. FromTrace(r)
      BY <1>1, <1>2, <1>4, <2>1 DEF BindingsFromTraces
    <2>3. FromTrace(r)'
      BY <2>2, StaysFromTrace
    <2> QED BY <2>1, <2>3
  <1> QED BY <1>5 DEF BindingsFromTraces

\* Whatever the programs, a binding is written with the value last stored under
\* its name in its call: the post-execution sync reads the final environment.
THEOREM BindingsCarryFinal == Spec => []BindingsCarryFinalValue
  <1>1. Init => HistoryInv /\ OutTyped /\ BindingsFromTraces
    BY InitHistory, StreamInit DEF Init, BindingsFromTraces
  <1>2. HistoryInv /\ OutTyped /\ BindingsFromTraces /\ [Next]_vars
        => HistoryInv' /\ OutTyped' /\ BindingsFromTraces'
    BY NextHistory, StreamStep, NextBindings
  <1>3. BindingsFromTraces /\ CallHistory => BindingsCarryFinalValue
    <2> SUFFICES ASSUME BindingsFromTraces, CallHistory, NEW k \in 1 .. Len(out), out[k].rec = "bind"
                 PROVE  out[k].value = LastWritten(out[k].id, out[k].name)
      BY DEF BindingsCarryFinalValue
    <2>0. PICK d \in 1 .. Len(done) :
              \E b \in 1 .. Len(done[d].bindings) :
                  /\ out[k].id = done[d].id
                  /\ out[k].name = done[d].bindings[b].name
                  /\ out[k].value = done[d].bindings[b].value
      BY DEF BindingsFromTraces, FromTrace
    <2>1. PICK b \in 1 .. Len(done[d].bindings) :
              /\ out[k].id = done[d].id
              /\ out[k].name = done[d].bindings[b].name
              /\ out[k].value = done[d].bindings[b].value
      BY <2>0
    <2>2. done[d].bindings[b].value = LastWritten(done[d].id, done[d].bindings[b].name)
      BY DEF CallHistory, DoneHistory
    <2> QED BY <2>1, <2>2
  <1> QED BY <1>1, <1>2, <1>3, CallHistoryInvariant, PTL DEF Spec

----------------------------------------------------------------------------
(* What was executed, and what is recorded of it *)

\* How the history and the records are compared.
LogView(e) == CASE e.ev = "bind"  -> <<"bind", e.id, e.line>>
                [] e.ev = "enter" -> <<"call", e.id, e.fn>>
                [] e.ev = "exit"  -> <<"return", e.id, e.rv>>

OutView(r) == CASE r.rec = "bind"   -> <<"bind", r.id, r.line>>
                [] r.rec = "call"   -> <<"call", r.id, r.fn>>
                [] r.rec = "return" -> <<"return", r.id, r.rv>>

\* A sequence with one more element, wherever it comes from.
Longer(s, t, v) ==
    /\ Len(t) = Len(s) + 1 /\ t[Len(s) + 1] = v
    /\ \A k \in 1 .. Len(s) : t[k] = s[k]

\* The first positions of t are those of s.
Extends(s, t) ==
    /\ Len(s) \in Nat /\ Len(t) \in Nat /\ Len(s) <= Len(t)
    /\ \A k \in 1 .. Len(s) : t[k] = s[k]

LEMMA Longer1 == ASSUME NEW s, NEW t, NEW v, Len(s) \in Nat, Longer(s, t, v) PROVE Extends(s, t)
  BY DEF Longer, Extends

\* The history's view grows with the events that are shown.
LEMMA ExecutedGrows ==
    ASSUME log \in Seq(Event), prog' = prog
    PROVE  /\ Len(Executed) \in Nat /\ CallId' = CallId
           /\ log' = log => Executed' = Executed
           /\ \A e : LogGrows(e) =>
                  /\ e \in Shown => Longer(Executed, Executed', LogView(e))
                  /\ e \notin Shown => Executed' = Executed
  <1>1. CallId' = CallId /\ Shown' = Shown
    BY DEF CallId, Shown, MainOnly
  <1>2. PICK S : S = Shown
    OBVIOUS
  <1>3. PICK s : s = Select(log, S)
    OBVIOUS
  <1>4. s \in Seq(Event) /\ Len(s) \in Nat
    BY <1>3, SelectType
  <1>5. Executed = [k \in 1 .. Len(s) |-> LogView(s[k])]
    BY <1>2, <1>3 DEF Executed, LogView
  <1>6. PICK t : t = Select(log', S)
    OBVIOUS
  <1>7. Executed' = [k \in 1 .. Len(t) |-> LogView(t[k])]
    BY <1>1, <1>2, <1>6 DEF Executed, LogView
  <1>8. Len(Executed) = Len(s)
    BY <1>4, <1>5
  <1>9. log' = log => Executed' = Executed
    BY <1>3, <1>5, <1>6, <1>7
  <1>10. ASSUME NEW e, LogGrows(e), e \in S PROVE Longer(Executed, Executed', LogView(e))
    <2>1. t = Append(s, e) /\ e \in Event
      BY <1>3, <1>6, <1>10, SelectAppend DEF LogGrows
    <2>2. Len(t) = Len(s) + 1 /\ t[Len(s) + 1] = e /\ \A k \in 1 .. Len(s) : t[k] = s[k]
      BY <1>4, <2>1, AppendElement
    <2>3. Len(Executed') = Len(t)
      <3>1. Len(t) \in Nat
        BY <1>4, <2>2
      <3> QED BY <1>7, <3>1
    <2>4. \A k \in 1 .. Len(t) : Executed'[k] = LogView(t[k])
      BY <1>7
    <2>5. \A k \in 1 .. Len(s) : Executed[k] = LogView(s[k]) /\ k \in 1 .. Len(t)
      BY <1>4, <1>5, <2>2
    <2>6. Len(s) + 1 \in 1 .. Len(t)
      BY <1>4, <2>2
    <2>7. Executed'[Len(s) + 1] = LogView(e)
      BY <2>2, <2>4, <2>6
    <2>8. \A k \in 1 .. Len(s) : Executed'[k] = Executed[k]
      BY <2>2, <2>4, <2>5
    <2> QED BY <1>8, <2>2, <2>3, <2>7, <2>8 DEF Longer
  <1>11. ASSUME NEW e, LogGrows(e), e \notin S PROVE Executed' = Executed
    <2>1. t = s
      BY <1>3, <1>6, <1>11, SelectAppend DEF LogGrows
    <2> QED BY <1>5, <1>7, <2>1
  <1> QED BY <1>1, <1>2, <1>4, <1>8, <1>9, <1>10, <1>11

\* The records that are compared.
Compared == {r \in StreamRecord : r.rec \in {"bind", "call", "return"}}

ComparedIn(o) == {r \in Range(o) : r.rec \in {"bind", "call", "return"}}

OutViews(s) == [k \in 1 .. Len(s) |-> OutView(s[k])]

LEMMA RecordedIs == Recorded = OutViews(Select(out, ComparedIn(out)))
  BY DEF Recorded, OutViews, OutView, ComparedIn

LEMMA ComparedOf ==
    ASSUME NEW o \in Seq(StreamRecord)
    PROVE  /\ Select(o, ComparedIn(o)) = Select(o, Compared)
           /\ Select(o, Compared) \in Seq(StreamRecord) /\ Len(Select(o, Compared)) \in Nat
  <1>1. Len(o) \in Nat
    OBVIOUS
  <1>2. \A j \in 1 .. Len(o) : o[j] \in ComparedIn(o) <=> o[j] \in Compared
    BY DEF Compared, ComparedIn, Range
  <1> QED BY <1>1, <1>2, SelectSame, SelectType

\* The records' view grows with the records that are compared.
LEMMA RecordedGrows ==
    ASSUME OutTyped, OutTyped'
    PROVE  /\ Len(Recorded) \in Nat
           /\ out' = out => Recorded' = Recorded
           /\ \A R \in Seq(StreamRecord) : out' = out \o R =>
                  /\ Select(R, Compared) = <<>> => Recorded' = Recorded
                  /\ \A r \in StreamRecord :
                        Select(R, Compared) = <<r>> => Longer(Recorded, Recorded', OutView(r))
  <1>0. out \in Seq(StreamRecord) /\ out' \in Seq(StreamRecord)
    BY DEF OutTyped, StreamRecord
  <1>1. PICK C : C = Compared
    OBVIOUS
  <1>2. PICK s : s = Select(out, C)
    OBVIOUS
  <1>3. PICK t : t = Select(out', C)
    OBVIOUS
  <1>4. /\ s \in Seq(StreamRecord) /\ Recorded = [k \in 1 .. Len(s) |-> OutView(s[k])]
        /\ Len(Recorded) = Len(s) /\ Len(s) \in Nat
    <2>1. s \in Seq(StreamRecord) /\ Recorded = OutViews(s) /\ Len(s) \in Nat
      BY <1>0, <1>1, <1>2, RecordedIs, ComparedOf
    <2> QED BY <2>1 DEF OutViews
  <1>5. /\ t \in Seq(StreamRecord) /\ Recorded' = [k \in 1 .. Len(t) |-> OutView(t[k])]
        /\ Len(Recorded') = Len(t) /\ Len(t) \in Nat
    <2>0. Recorded' = OutViews(Select(out', ComparedIn(out')))
      BY DEF Recorded, OutViews, OutView, ComparedIn
    <2>1. t \in Seq(StreamRecord) /\ Recorded' = OutViews(t) /\ Len(t) \in Nat
      BY <1>0, <1>1, <1>3, <2>0, ComparedOf
    <2> QED BY <2>1 DEF OutViews
  <1>6. out' = out => Recorded' = Recorded
    BY <1>2, <1>3, <1>4, <1>5
  <1>7. ASSUME NEW R \in Seq(StreamRecord), out' = out \o R, Select(R, C) = <<>>
        PROVE  Recorded' = Recorded
    <2>0. Select(out \o R, C) = Select(out, C) \o Select(R, C)
      BY <1>0, SelectConcat
    <2>1. t = s \o <<>>
      BY <1>2, <1>3, <1>7, <2>0
    <2>2. t = s
      BY <1>4, <2>1, ConcatOne
    <2> QED BY <1>4, <1>5, <2>2
  <1>8. ASSUME NEW R \in Seq(StreamRecord), out' = out \o R,
               NEW r \in StreamRecord, Select(R, C) = <<r>>
        PROVE  Longer(Recorded, Recorded', OutView(r))
    <2>0. Select(out \o R, C) = Select(out, C) \o Select(R, C)
      BY <1>0, SelectConcat
    <2>1. t = s \o <<r>>
      BY <1>2, <1>3, <1>8, <2>0
    <2>2. t = Append(s, r)
      BY <1>4, <2>1, ConcatOne
    <2>3. Len(t) = Len(s) + 1 /\ t[Len(s) + 1] = r /\ \A k \in 1 .. Len(s) : t[k] = s[k]
      BY <1>4, <2>2, AppendElement
    <2>4. \A k \in 1 .. Len(t) : Recorded'[k] = OutView(t[k])
      BY <1>5
    <2>5. \A k \in 1 .. Len(s) : Recorded[k] = OutView(s[k]) /\ k \in 1 .. Len(t)
      BY <1>4, <2>3
    <2>6. Len(s) + 1 \in 1 .. Len(t)
      BY <1>4, <2>3
    <2>7. Recorded'[Len(s) + 1] = OutView(r)
      BY <2>3, <2>4, <2>6
    <2>8. \A k \in 1 .. Len(s) : Recorded'[k] = Recorded[k]
      BY <2>3, <2>4, <2>5
    <2> QED BY <1>4, <1>5, <2>3, <2>7, <2>8 DEF Longer
  <1> QED BY <1>1, <1>4, <1>6, <1>7, <1>8

----------------------------------------------------------------------------
(* Where the walk is in its CallTraces *)

\* What it has passed is behind it, and it ends past the last binding.
Sits(a) ==
    /\ a.at = "open" => a.bi = 0 /\ a.si = 0
    /\ a.at = "trailing" => a.bi = Len(done[a.trace].bindings)
    /\ \A j \in 1 .. a.si : done[a.trace].subs[j].after <= a.bi

\* An activation waits for the sub-call it passed last, at that one's binding.
WaitsFor(a, b) ==
    /\ a.si > 0
    /\ done[a.trace].subs[a.si].after = a.bi
    /\ done[a.trace].subs[a.si].trace = b.trace

WalkSits ==
    /\ \A k \in 1 .. Len(walk) : Sits(walk[k])
    /\ \A k \in 1 .. Len(walk) - 1 : WaitsFor(walk[k], walk[k + 1])

\* The next sub-call, when the walk descends, is captured right here.
LEMMA DescendsHere ==
    ASSUME WalkInv, WalkSits, EmitSubCall \/ EmitTrailingSubCall
    PROVE  nextSub.after = act.bi /\ act.at # "open"
  <1>1. CASE EmitSubCall
    BY <1>1 DEF EmitSubCall, At, SubIsHere
  <1>2. CASE EmitTrailingSubCall
    <2>1. walk # <<>> /\ act.at = "trailing" /\ act.si < Len(emitted.subs)
      BY <1>2 DEF EmitTrailingSubCall, At
    <2>2. /\ act.si \in Nat /\ act.bi \in Nat /\ Len(walk) \in Nat \ {0} /\ ActOK(act)
          /\ act = walk[Len(walk)]
      BY <2>1, ActType DEF act
    <2>3. Sits(act)
      BY <2>2 DEF WalkSits
    <2>4. act.bi = Len(emitted.bindings)
      BY <2>1, <2>3 DEF Sits, emitted
    <2>5. act.si + 1 \in 1 .. Len(emitted.subs) /\ act.si + 1 \in (act.si + 1) .. Len(emitted.subs)
      <3>1. emitted.subs \in Seq(SubCall)
        BY <2>1, EmittedParts
      <3> QED BY <2>1, <2>2, <3>1
    <2>6. nextSub.after >= act.bi
      BY <2>2, <2>5 DEF ActOK, emitted, nextSub
    <2>7. nextSub.after <= Len(emitted.bindings) /\ nextSub.after \in Nat
      BY <2>1, <2>5, EmittedParts DEF Placed, nextSub
    <2> QED BY <2>1, <2>2, <2>4, <2>6, <2>7
  <1> QED BY <1>1, <1>2

LEMMA StaysSits ==
    ASSUME WalkInv, WalkSits, NEW a \in Activation, Stays(a), a.si = act.si,
           a.bi = act.bi \/ a.bi = act.bi + 1,
           a.at = "trailing" => a.bi = Len(emitted.bindings)
    PROVE  WalkSits'
  <1>1. PICK n \in Nat \ {0} : n = Len(walk)
    BY StaysWalk
  <1>2. /\ Len(walk') = n /\ act = walk[n]
        /\ \A k \in 1 .. n : walk'[k] = IF k = n THEN a ELSE walk[k]
        /\ done' = done /\ a.trace = act.trace /\ a.at # "open"
    BY <1>1, StaysWalk DEF Stays, evalVars
  <1>3. Sits(act) /\ act.si \in Nat /\ act.bi \in Nat /\ a.bi \in Nat
    BY <1>1, <1>2, ActType DEF WalkSits, Activation, Stays
  <1>4. \A j \in 1 .. a.si : done[a.trace].subs[j].after <= a.bi
    <2> SUFFICES ASSUME NEW j \in 1 .. a.si PROVE done[a.trace].subs[j].after <= a.bi
      OBVIOUS
    <2>1. j \in 1 .. Len(emitted.subs) /\ emitted = done[a.trace]
      BY <1>2, <1>3, ActType DEF ActOK, emitted, Stays
    <2>2. emitted.subs[j].after \in Nat
      BY <2>1, EmittedParts DEF Stays
    <2>3. emitted.subs[j].after <= act.bi
      BY <1>2, <1>3, <2>1 DEF Sits
    <2> QED BY <1>3, <2>1, <2>2, <2>3
  <1>5. Sits(a)'
    BY <1>2, <1>4 DEF Sits, emitted
  <1>6. ASSUME NEW k \in 1 .. n PROVE Sits(walk[k])'
    <2>1. CASE k = n
      BY <1>2, <1>5, <2>1
    <2>2. CASE k # n
      BY <1>1, <1>2, <2>2 DEF WalkSits, Sits
    <2> QED BY <2>1, <2>2
  <1>7. ASSUME NEW k \in 1 .. n - 1 PROVE WaitsFor(walk[k], walk[k + 1])'
    <2>1. k \in 1 .. n /\ k # n /\ k + 1 \in 1 .. n
      BY <1>1
    <2>2. walk'[k] = walk[k] /\ walk'[k + 1].trace = walk[k + 1].trace
      BY <1>2, <2>1
    <2>3. WaitsFor(walk[k], walk[k + 1])
      BY <1>1 DEF WalkSits
    <2> QED BY <1>2, <2>2, <2>3 DEF WaitsFor
  <1> QED BY <1>2, <1>6, <1>7 DEF WalkSits

LEMMA DescendsSits ==
    ASSUME WalkInv, CallsNumbered, WalkSits, Descends, nextSub.after = act.bi
    PROVE  WalkSits'
  <1>1. PICK n \in Nat \ {0} : n = Len(walk)
    BY DescendsWalk
  <1>2. /\ Len(walk') = n + 1 /\ act = walk[n] /\ walk'[n + 1] = Pushed
        /\ \A k \in 1 .. n : walk'[k] = IF k = n THEN Passed ELSE walk[k]
        /\ done' = done
    BY <1>1, DescendsWalk DEF Descends, evalVars
  <1>3. walk # <<>> /\ act.si < Len(emitted.subs) /\ act.at # "open"
    BY DEF Descends
  <1>4. PICK p, q : p = Passed /\ q = Pushed
    OBVIOUS
  <1>5. /\ p.trace = act.trace /\ p.at = act.at /\ p.bi = act.bi /\ p.si = act.si + 1
        /\ q.trace = nextSub.trace /\ q.at = "open" /\ q.bi = 0 /\ q.si = 0
    BY <1>3, <1>4, NextSubParts
  <1>6. Sits(act) /\ act.si \in Nat /\ act.bi \in Nat
    BY <1>1, <1>2, <1>3, ActType DEF WalkSits
  <1>7. emitted = done[act.trace] /\ nextSub = emitted.subs[act.si + 1]
    BY DEF emitted, nextSub
  <1>8. Sits(p)'
    <2>1. \A j \in 1 .. act.si + 1 : j \in 1 .. act.si \/ j = act.si + 1
      BY <1>6
    <2>2. \A j \in 1 .. p.si : done[p.trace].subs[j].after <= p.bi
      BY <1>5, <1>6, <1>7, <2>1 DEF Sits
    <2> QED BY <1>2, <1>3, <1>5, <1>6, <2>2 DEF Sits
  <1>9. Sits(q)'
    BY <1>5 DEF Sits
  <1>10. WaitsFor(p, q)'
    BY <1>2, <1>5, <1>6, <1>7 DEF WaitsFor
  <1>11. ASSUME NEW k \in 1 .. n + 1 PROVE Sits(walk[k])'
    <2>1. CASE k = n + 1
      BY <1>2, <1>4, <1>9, <2>1
    <2>2. CASE k = n
      BY <1>2, <1>4, <1>8, <2>2
    <2>3. CASE k \in 1 .. n /\ k # n
      BY <1>1, <1>2, <2>3 DEF WalkSits, Sits
    <2>4. k = n + 1 \/ k = n \/ (k \in 1 .. n /\ k # n)
      OBVIOUS
    <2> QED BY <2>1, <2>2, <2>3, <2>4
  <1>12. ASSUME NEW k \in 1 .. n PROVE WaitsFor(walk[k], walk[k + 1])'
    <2>1. CASE k = n
      BY <1>1, <1>2, <1>4, <1>10, <2>1
    <2>2. CASE k # n
      <3>1. k \in 1 .. Len(walk) - 1 /\ k + 1 \in 1 .. n
        BY <1>1, <2>2
      <3>2. walk'[k] = walk[k] /\ walk'[k + 1].trace = walk[k + 1].trace
        BY <1>2, <1>4, <1>5, <2>2, <3>1
      <3>3. WaitsFor(walk[k], walk[k + 1])
        BY <3>1 DEF WalkSits
      <3> QED BY <1>2, <3>2, <3>3 DEF WaitsFor
    <2> QED BY <2>1, <2>2
  <1> QED BY <1>1, <1>2, <1>11, <1>12 DEF WalkSits

LEMMA NextSits == HistoryInv /\ WalkSits /\ [Next]_vars => WalkSits'
  <1> SUFFICES ASSUME HistoryInv, WalkSits, [Next]_vars PROVE WalkSits'
    OBVIOUS
  <1>0. WalkInv /\ CallsNumbered
    BY DEF HistoryInv
  <1>1. CASE OpenCall
    BY <1>0, <1>1, EmissionMoves, StaysSits
  <1>2. CASE EmitBinding
    BY <1>0, <1>2, EmissionMoves, StaysSits
  <1>3. CASE EndBindings
    <2>1. act.bi = Len(emitted.bindings)
      BY <1>3 DEF EndBindings
    <2> QED BY <1>0, <1>3, <2>1, EmissionMoves, StaysSits
  <1>4. CASE EmitSubCall \/ EmitTrailingSubCall
    BY <1>0, <1>4, EmissionMoves, DescendsHere, DescendsSits
  <1>5. CASE CloseCall
    <2>1. PICK n \in Nat : n = Len(walk) - 1
      <3>1. Len(walk) - 1 \in Nat
        BY <1>0, <1>5, ClosesWalk
      <3> QED BY <3>1
    <2>2. Len(walk') = n /\ Len(walk) = n + 1 /\ \A k \in 1 .. n : walk'[k] = walk[k] /\ k \in 1 .. n + 1
      BY <1>0, <1>5, <2>1, ClosesWalk
    <2>3. done' = done
      BY <1>0, <1>5, ClosesWalk DEF evalVars
    <2>4. \A k \in 1 .. n - 1 : k \in 1 .. n /\ k + 1 \in 1 .. n
      BY <2>1
    <2> QED BY <2>2, <2>3, <2>4 DEF WalkSits, Sits, WaitsFor
  <1>6. CASE walk' = <<>>
    <2>1. Len(walk') = 0
      BY <1>6
    <2> QED BY <2>1 DEF WalkSits
  <1>7. CASE BeginEmission
    <2>1. PICK a : a = Opening(Len(done), EntryArgs(entryFn), MainOnly)
      OBVIOUS
    <2>2. walk' = <<a>> /\ a.bi = 0 /\ a.si = 0 /\ a.at = "open"
      BY <1>7, <2>1 DEF BeginEmission, Opening
    <2>3. Len(walk') = 1 /\ walk'[1] = a
      BY <2>2
    <2> QED BY <2>2, <2>3 DEF WalkSits, Sits
  <1>8. CASE UNCHANGED vars
    BY <1>8 DEF vars, evalVars, WalkSits, Sits, WaitsFor
  <1>9. CASE DispatchEntry \/ Evaluate \/ EndEmission
    BY <1>0, <1>6, <1>9 DEF DispatchEntry, Evaluate, EndEmission, WalkInv, emitVars
  <1> QED BY <1>1, <1>2, <1>3, <1>4, <1>5, <1>7, <1>8, <1>9 DEF Next, EmitCallTrace, Stutter

----------------------------------------------------------------------------
(* Where a call lies in the history *)

\* P[id][m] is a length of Executed: before the call id is entered (m = 0), after
\* m - 1 of its bindings and sub-calls, and, for a finished call, after its exit.
Positions == [Nat -> [Nat -> Nat]]

Steps(c) == Len(c.bindings) + Len(c.subs)

\* What comes between two positions is v alone.
NextIs(E, n, m, v) == m = n + 1 /\ m \in 1 .. Len(E) /\ E[m] = v

\* The entry and the exit of a call are there when calls of that number, K, are shown.
IsThere(K, E, id, n, m, v) == IF id \in K THEN NextIs(E, n, m, v) ELSE m = n

\* s sub-calls come before the k-th binding.
Before(c, k, s) ==
    /\ \A j \in 1 .. s : c.subs[j].after < k
    /\ \A j \in s + 1 .. Len(c.subs) : c.subs[j].after >= k

\* A sub-call lies where the call has executed as many steps.
SubsFit(c, D, P) ==
    \A j \in 1 .. Len(c.subs) :
        /\ P[c.id][c.subs[j].after + j] = P[D[c.subs[j].trace].id][0]
        /\ P[c.id][c.subs[j].after + j + 1]
           = P[D[c.subs[j].trace].id][Steps(D[c.subs[j].trace]) + 2]

BindingsFit(c, E, P) ==
    \A k \in 1 .. Len(c.bindings) : \A s \in 0 .. Len(c.subs) :
        Before(c, k, s) =>
            NextIs(E, P[c.id][k + s], P[c.id][k + s + 1], <<"bind", c.id, c.bindings[k].line>>)

\* A call that has begun, and one that has ended as well.
Begun(c, D, K, E, P) ==
    /\ IsThere(K, E, c.id, P[c.id][0], P[c.id][1], <<"call", c.id, c.fn>>)
    /\ SubsFit(c, D, P)
    /\ BindingsFit(c, E, P)

Ended(t, K, E, P) ==
    IsThere(K, E, t.id, P[t.id][Steps(t) + 1], P[t.id][Steps(t) + 2], <<"return", t.id, t.rv>>)

\* A frame or a CallTrace.
IsCall(c) ==
    /\ c.id \in Nat /\ c.bindings \in Seq(Binding) /\ c.subs \in Seq(SubCall)
    /\ Placed(c.subs, c.bindings)

\* The same call, with other values for its bindings perhaps.
Alike(c, d) ==
    /\ d.id = c.id /\ d.fn = c.fn /\ d.subs = c.subs /\ Len(d.bindings) = Len(c.bindings)
    /\ \A k \in 1 .. Len(c.bindings) : d.bindings[k].line = c.bindings[k].line

LEMMA StepsType ==
    ASSUME NEW c, IsCall(c)
    PROVE  /\ Len(c.bindings) \in Nat /\ Len(c.subs) \in Nat /\ Steps(c) \in Nat
           /\ \A j \in 1 .. Len(c.subs) :
                  /\ c.subs[j].after \in Nat /\ c.subs[j].after <= Len(c.bindings)
                  /\ c.subs[j].trace \in Nat
                  /\ c.subs[j].after + j \in 0 .. Steps(c)
                  /\ c.subs[j].after + j + 1 \in 0 .. Steps(c) + 1
           /\ \A k \in 1 .. Len(c.bindings), s \in 0 .. Len(c.subs) :
                  k + s \in 0 .. Steps(c) + 1 /\ k + s + 1 \in 0 .. Steps(c) + 1
  <1>1. /\ Len(c.bindings) \in Nat /\ Len(c.subs) \in Nat /\ Steps(c) = Len(c.bindings) + Len(c.subs)
    BY DEF IsCall, Steps
  <1>2. ASSUME NEW j \in 1 .. Len(c.subs)
        PROVE  c.subs[j].after \in Nat /\ c.subs[j].after <= Len(c.bindings) /\ c.subs[j].trace \in Nat
    <2>1. c.subs[j] \in SubCall
      BY DEF IsCall
    <2> QED BY <2>1 DEF SubCall, IsCall, Placed
  <1>3. ASSUME NEW j \in 1 .. Len(c.subs)
        PROVE  c.subs[j].after + j \in 0 .. Steps(c) /\ c.subs[j].after + j + 1 \in 0 .. Steps(c) + 1
    <2>1. PICK a \in Nat : a = c.subs[j].after
      BY <1>2
    <2>2. PICK n \in Nat, r \in Nat : n = Len(c.bindings) /\ r = Len(c.subs)
      BY <1>1
    <2>3. a <= n /\ j \in 1 .. r /\ Steps(c) = n + r
      BY <1>1, <1>2, <2>1, <2>2
    <2>4. a + j \in 0 .. n + r /\ a + j + 1 \in 0 .. n + r + 1
      BY <2>3
    <2> QED BY <2>1, <2>3, <2>4
  <1>4. ASSUME NEW k \in 1 .. Len(c.bindings), NEW s \in 0 .. Len(c.subs)
        PROVE  k + s \in 0 .. Steps(c) + 1 /\ k + s + 1 \in 0 .. Steps(c) + 1
    <2>1. PICK n \in Nat, r \in Nat : n = Len(c.bindings) /\ r = Len(c.subs)
      BY <1>1
    <2>2. k \in 1 .. n /\ s \in 0 .. r /\ Steps(c) = n + r
      BY <1>1, <2>1
    <2>3. k + s \in 0 .. n + r + 1 /\ k + s + 1 \in 0 .. n + r + 1
      BY <2>2
    <2> QED BY <2>2, <2>3
  <1>5. Steps(c) \in Nat
    <2>1. PICK n \in Nat, r \in Nat : n = Len(c.bindings) /\ r = Len(c.subs)
      BY <1>1
    <2>2. n + r \in Nat
      OBVIOUS
    <2> QED BY <1>1, <2>1, <2>2
  <1> QED BY <1>1, <1>2, <1>3, <1>4, <1>5

LEMMA IsThereKept ==
    ASSUME NEW E, NEW E2, Extends(E, E2), NEW K, NEW id, NEW n \in Nat, NEW m \in Nat, NEW v,
           IsThere(K, E, id, n, m, v)
    PROVE  IsThere(K, E2, id, n, m, v)
  BY DEF IsThere, NextIs, Extends

\* A call stays where it is when the history grows and its positions are kept.
LEMMA BegunKept ==
    ASSUME NEW c, IsCall(c), NEW d, Alike(c, d), NEW D, NEW D2, NEW K,
           NEW E, NEW E2, Extends(E, E2), NEW P \in Positions, NEW P2 \in Positions,
           \A m \in 0 .. Steps(c) + 1 : P2[c.id][m] = P[c.id][m],
           \A j \in 1 .. Len(c.subs) :
               /\ D2[c.subs[j].trace] = D[c.subs[j].trace]
               /\ P2[D[c.subs[j].trace].id][0] = P[D[c.subs[j].trace].id][0]
               /\ P2[D[c.subs[j].trace].id][Steps(D[c.subs[j].trace]) + 2]
                  = P[D[c.subs[j].trace].id][Steps(D[c.subs[j].trace]) + 2],
           Begun(c, D, K, E, P)
    PROVE  Begun(d, D2, K, E2, P2)
  <1>1. d.id = c.id /\ d.fn = c.fn /\ d.subs = c.subs /\ Len(d.bindings) = Len(c.bindings)
    BY DEF Alike
  <1>2. c.id \in Nat /\ \A m \in Nat : P[c.id][m] \in Nat
    BY DEF IsCall, Positions
  <1>3. 0 \in 0 .. Steps(c) + 1 /\ 1 \in 0 .. Steps(c) + 1
    BY StepsType
  <1>4. IsThere(K, E2, d.id, P2[d.id][0], P2[d.id][1], <<"call", d.id, d.fn>>)
    <2>1. IsThere(K, E, c.id, P[c.id][0], P[c.id][1], <<"call", c.id, c.fn>>)
      BY DEF Begun
    <2>2. IsThere(K, E2, c.id, P[c.id][0], P[c.id][1], <<"call", c.id, c.fn>>)
      BY <1>2, <2>1, IsThereKept
    <2> QED BY <1>1, <1>3, <2>2
  <1>5. SubsFit(d, D2, P2)
    <2>1. ASSUME NEW j \in 1 .. Len(c.subs)
          PROVE  /\ P2[c.id][c.subs[j].after + j] = P2[D2[c.subs[j].trace].id][0]
                 /\ P2[c.id][c.subs[j].after + j + 1]
                    = P2[D2[c.subs[j].trace].id][Steps(D2[c.subs[j].trace]) + 2]
      <3>1. c.subs[j].after + j \in 0 .. Steps(c) + 1 /\ c.subs[j].after + j + 1 \in 0 .. Steps(c) + 1
        BY StepsType
      <3>2. /\ P[c.id][c.subs[j].after + j] = P[D[c.subs[j].trace].id][0]
            /\ P[c.id][c.subs[j].after + j + 1]
               = P[D[c.subs[j].trace].id][Steps(D[c.subs[j].trace]) + 2]
        BY DEF Begun, SubsFit
      <3> QED BY <3>1, <3>2
    <2> QED BY <1>1, <2>1 DEF SubsFit
  <1>6. BindingsFit(d, E2, P2)
    <2>1. ASSUME NEW k \in 1 .. Len(c.bindings), NEW s \in 0 .. Len(c.subs), Before(d, k, s)
          PROVE  NextIs(E2, P2[d.id][k + s], P2[d.id][k + s + 1], <<"bind", d.id, d.bindings[k].line>>)
      <3>1. Before(c, k, s)
        BY <1>1, <2>1 DEF Before
      <3>2. NextIs(E, P[c.id][k + s], P[c.id][k + s + 1], <<"bind", c.id, c.bindings[k].line>>)
        BY <3>1 DEF Begun, BindingsFit
      <3>3. k + s \in 0 .. Steps(c) + 1 /\ k + s + 1 \in 0 .. Steps(c) + 1
        BY StepsType
      <3>4. NextIs(E, P2[c.id][k + s], P2[c.id][k + s + 1], <<"bind", c.id, c.bindings[k].line>>)
        BY <3>2, <3>3
      <3>5. NextIs(E2, P2[c.id][k + s], P2[c.id][k + s + 1], <<"bind", c.id, c.bindings[k].line>>)
        BY <3>4 DEF NextIs, Extends
      <3> QED BY <1>1, <3>5 DEF Alike
    <2> QED BY <1>1, <2>1 DEF BindingsFit
  <1> QED BY <1>4, <1>5, <1>6 DEF Begun

\* One more binding, which the history shows next.
LEMMA BegunBinds ==
    ASSUME NEW c, IsCall(c), NEW d, NEW b \in Binding,
           d.id = c.id, d.fn = c.fn, d.subs = c.subs, d.bindings = Append(c.bindings, b),
           NEW D, NEW K, NEW E, NEW P, Begun(c, D, K, E, P),
           NextIs(E, P[c.id][Steps(c) + 1], P[c.id][Steps(c) + 2], <<"bind", c.id, b.line>>)
    PROVE  Begun(d, D, K, E, P)
  <1>1. PICK n \in Nat : n = Len(c.bindings)
    BY StepsType
  <1>2. PICK r \in Nat : r = Len(c.subs)
    BY StepsType
  <1>3. /\ Len(d.bindings) = n + 1 /\ d.bindings[n + 1] = b
        /\ \A k \in 1 .. n : d.bindings[k] = c.bindings[k]
    BY <1>1, AppendElement DEF IsCall
  <1>4. Steps(c) = n + r
    BY <1>1, <1>2 DEF Steps
  <1>5. ASSUME NEW k \in 1 .. n + 1, NEW s \in 0 .. r, Before(d, k, s)
        PROVE  NextIs(E, P[c.id][k + s], P[c.id][k + s + 1], <<"bind", c.id, d.bindings[k].line>>)
    <2>1. Before(c, k, s)
      BY <1>5 DEF Before
    <2>2. CASE k \in 1 .. n
      BY <1>1, <1>2, <1>3, <2>1, <2>2 DEF Begun, BindingsFit
    <2>3. CASE k = n + 1
      <3>1. s = r
        <4> SUFFICES ASSUME s < r PROVE FALSE
          OBVIOUS
        <4>1. s + 1 \in s + 1 .. r /\ s + 1 \in 1 .. r
          BY <1>2
        <4>2. c.subs[s + 1].after >= k
          BY <1>2, <2>1, <4>1 DEF Before
        <4>3. c.subs[s + 1].after \in Nat /\ c.subs[s + 1].after <= n
          BY <1>1, <1>2, <4>1, StepsType
        <4> QED BY <1>1, <2>3, <4>2, <4>3
      <3>2. k + s = Steps(c) + 1 /\ k + s + 1 = Steps(c) + 2
        BY <1>4, <2>3, <3>1
      <3> QED BY <1>3, <2>3, <3>2
    <2>4. k \in 1 .. n \/ k = n + 1
      OBVIOUS
    <2> QED BY <2>2, <2>3, <2>4
  <1>6. BindingsFit(d, E, P)
    BY <1>2, <1>3, <1>5 DEF BindingsFit
  <1> QED BY <1>6 DEF Begun, SubsFit

\* One more sub-call, which has just been executed.
LEMMA BegunResumes ==
    ASSUME NEW c, IsCall(c), NEW d,
           d.id = c.id, d.fn = c.fn, d.bindings = c.bindings,
           Len(d.subs) = Len(c.subs) + 1, \A j \in 1 .. Len(c.subs) : d.subs[j] = c.subs[j],
           d.subs[Len(c.subs) + 1].after = Len(c.bindings),
           NEW D, NEW K, NEW E, NEW P, Begun(c, D, K, E, P),
           NEW q, q = D[d.subs[Len(c.subs) + 1].trace],
           P[c.id][Steps(c) + 1] = P[q.id][0], P[c.id][Steps(c) + 2] = P[q.id][Steps(q) + 2]
    PROVE  Begun(d, D, K, E, P)
  <1>1. PICK n \in Nat : n = Len(c.bindings)
    BY StepsType
  <1>2. PICK r \in Nat : r = Len(c.subs)
    BY StepsType
  <1>3. Steps(c) = n + r /\ r + 1 \in 1 .. r + 1
    BY <1>1, <1>2 DEF Steps
  <1>4. SubsFit(d, D, P)
    <2> SUFFICES ASSUME NEW j \in 1 .. r + 1
                 PROVE  /\ P[d.id][d.subs[j].after + j] = P[D[d.subs[j].trace].id][0]
                        /\ P[d.id][d.subs[j].after + j + 1]
                           = P[D[d.subs[j].trace].id][Steps(D[d.subs[j].trace]) + 2]
      BY <1>2 DEF SubsFit
    <2>1. CASE j \in 1 .. r
      <3>1. d.subs[j] = c.subs[j]
        BY <1>2, <2>1
      <3> QED BY <1>2, <2>1, <3>1 DEF Begun, SubsFit
    <2>2. CASE j = r + 1
      <3>0. d.subs[j].after = n
        BY <1>1, <1>2, <2>2
      <3>1. d.subs[j].after + j = Steps(c) + 1 /\ d.subs[j].after + j + 1 = Steps(c) + 2
        BY <1>3, <2>2, <3>0
      <3> QED BY <1>2, <2>2, <3>1
    <2> QED BY <2>1, <2>2
  <1>5. BindingsFit(d, E, P)
    <2> SUFFICES ASSUME NEW k \in 1 .. n, NEW s \in 0 .. r + 1, Before(d, k, s)
                 PROVE  NextIs(E, P[d.id][k + s], P[d.id][k + s + 1],
                               <<"bind", d.id, d.bindings[k].line>>)
      BY <1>1, <1>2 DEF BindingsFit
    <2>1. s # r + 1
      <3> SUFFICES ASSUME s = r + 1 PROVE FALSE
        OBVIOUS
      <3>1. d.subs[r + 1].after < k
        BY <1>3 DEF Before
      <3> QED BY <1>1, <1>2, <3>1
    <2>2. s \in 0 .. r
      BY <1>2, <2>1
    <2>3. Before(c, k, s)
      <3>1. \A j \in 1 .. s : c.subs[j].after < k
        <4> TAKE j \in 1 .. s
        <4>1. j \in 1 .. r
          BY <1>2, <2>2
        <4> QED BY <1>2, <4>1 DEF Before
      <3>2. \A j \in s + 1 .. r : c.subs[j].after >= k
        <4> TAKE j \in s + 1 .. r
        <4>1. j \in 1 .. r /\ j \in s + 1 .. r + 1
          BY <1>2, <2>2
        <4>2. d.subs[j].after >= k
          BY <1>2, <4>1 DEF Before
        <4> QED BY <1>2, <4>1, <4>2
      <3> QED BY <1>2, <3>1, <3>2 DEF Before
    <2> QED BY <1>1, <1>2, <2>2, <2>3 DEF Begun, BindingsFit
  <1> QED BY <1>4, <1>5 DEF Begun


\* P2 is P but for one position.
Sets(P, P2, id, m, v) ==
    /\ P2[id][m] = v
    /\ \A i, n \in Nat : i # id \/ n # m => P2[i][n] = P[i][n]

LEMMA SetPosition ==
    ASSUME NEW P \in Positions, NEW id \in Nat, NEW m \in Nat, NEW v \in Nat
    PROVE  \E P2 \in Positions : Sets(P, P2, id, m, v)
  <1>1. PICK P2 : P2 = [i \in Nat |-> [n \in Nat |-> IF i = id /\ n = m THEN v ELSE P[i][n]]]
    OBVIOUS
  <1>2. \A i, n \in Nat : P[i][n] \in Nat
    BY DEF Positions
  <1>3. P2 \in Positions
    BY <1>1, <1>2 DEF Positions
  <1> QED BY <1>1, <1>3 DEF Sets

\* Every call that has begun lies in the history; the running one is at its end,
\* and each of its callers where the call it waits for begins.
Located(P) ==
    /\ \A k \in 1 .. Len(stack) : Begun(stack[k], done, CallId, Executed, P)
    /\ \A k \in 1 .. Len(stack) - 1 : P[stack[k].id][Steps(stack[k]) + 1] = P[stack[k + 1].id][0]
    /\ stack # <<>> =>
           P[stack[Len(stack)].id][Steps(stack[Len(stack)]) + 1] = Len(Executed)
    /\ \A k \in 1 .. Len(done) :
           Begun(done[k], done, CallId, Executed, P) /\ Ended(done[k], CallId, Executed, P)
    /\ stack = <<>> /\ done # <<>> =>
           P[done[Len(done)].id][Steps(done[Len(done)]) + 2] = Len(Executed)

\* The positions of the calls so far are kept.
Keeps(P, P2) ==
    /\ \A k \in 1 .. Len(stack) : \A m \in 0 .. Steps(stack[k]) + 1 :
           P2[stack[k].id][m] = P[stack[k].id][m]
    /\ \A k \in 1 .. Len(done) : \A m \in 0 .. Steps(done[k]) + 2 :
           P2[done[k].id][m] = P[done[k].id][m]

LEMMA AreCalls ==
    ASSUME EvalInv
    PROVE  /\ Len(stack) \in Nat /\ Len(done) \in Nat
           /\ stack # <<>> => Len(stack) \in Nat \ {0}
           /\ \A k \in 1 .. Len(stack) : IsCall(stack[k]) /\ Nested(stack[k].subs)
           /\ \A k \in 1 .. Len(done) : IsCall(done[k]) /\ Nested(done[k].subs)
  <1>1. /\ stack \in Seq(Frame) /\ done \in Seq(CallTrace) /\ Len(stack) \in Nat /\ Len(done) \in Nat
        /\ stack # <<>> => Len(stack) \in Nat \ {0}
    BY DEF EvalInv, EvalTypeOK
  <1>2. ASSUME NEW k \in 1 .. Len(stack) PROVE IsCall(stack[k]) /\ Nested(stack[k].subs)
    <2>1. stack[k] \in Frame /\ FrameOK(stack[k])
      BY <1>1 DEF EvalInv
    <2>2. Placed(stack[k].subs, stack[k].bindings) /\ Nested(stack[k].subs)
      BY <2>1 DEF FrameOK, FrameShape
    <2> QED BY <2>1, <2>2 DEF IsCall, Frame
  <1>3. ASSUME NEW k \in 1 .. Len(done) PROVE IsCall(done[k]) /\ Nested(done[k].subs)
    <2>1. done[k] \in CallTrace /\ Placed(done[k].subs, done[k].bindings) /\ Nested(done[k].subs)
      BY <1>1 DEF EvalInv
    <2> QED BY <2>1 DEF IsCall, CallTrace
  <1> QED BY <1>1, <1>2, <1>3

LEMMA AlikeSelf == ASSUME NEW c PROVE Alike(c, c)
  BY DEF Alike

\* What has begun and ended stays where it is.
LEMMA LocatedKept ==
    ASSUME EvalInv, NEW P \in Positions, NEW P2 \in Positions, Located(P), Keeps(P, P2),
           NEW E, Extends(Executed, E), NEW D, \A k \in 1 .. Len(done) : D[k] = done[k]
    PROVE  /\ \A k \in 1 .. Len(stack) : \A d : Alike(stack[k], d) => Begun(d, D, CallId, E, P2)
           /\ \A k \in 1 .. Len(done) : Begun(done[k], D, CallId, E, P2) /\ Ended(done[k], CallId, E, P2)
  <1>1. ASSUME NEW c, IsCall(c), Nested(c.subs), NEW j \in 1 .. Len(c.subs)
        PROVE  /\ D[c.subs[j].trace] = done[c.subs[j].trace]
               /\ P2[done[c.subs[j].trace].id][0] = P[done[c.subs[j].trace].id][0]
               /\ P2[done[c.subs[j].trace].id][Steps(done[c.subs[j].trace]) + 2]
                  = P[done[c.subs[j].trace].id][Steps(done[c.subs[j].trace]) + 2]
    <2>1. PICK i \in 1 .. Len(done) : i = c.subs[j].trace
      BY <1>1 DEF Nested
    <2>2. Steps(done[i]) \in Nat
      BY AreCalls, StepsType
    <2>3. 0 \in 0 .. Steps(done[i]) + 2 /\ Steps(done[i]) + 2 \in 0 .. Steps(done[i]) + 2
      BY <2>2
    <2> QED BY <2>1, <2>3 DEF Keeps
  <1>2. ASSUME NEW k \in 1 .. Len(stack), NEW d, Alike(stack[k], d)
        PROVE  Begun(d, D, CallId, E, P2)
    <2>1. IsCall(stack[k]) /\ Nested(stack[k].subs)
      BY AreCalls
    <2>2. \A m \in 0 .. Steps(stack[k]) + 1 : P2[stack[k].id][m] = P[stack[k].id][m]
      BY DEF Keeps
    <2>3. Begun(stack[k], done, CallId, Executed, P)
      BY DEF Located
    <2>4. PICK c : c = stack[k]
      OBVIOUS
    <2> QED BY <1>1, <1>2, <2>1, <2>2, <2>3, <2>4, BegunKept
  <1>3. ASSUME NEW k \in 1 .. Len(done)
        PROVE  Begun(done[k], D, CallId, E, P2) /\ Ended(done[k], CallId, E, P2)
    <2>1. IsCall(done[k]) /\ Nested(done[k].subs) /\ Steps(done[k]) \in Nat /\ done[k].id \in Nat
      BY AreCalls, StepsType DEF IsCall
    <2>2. \A m \in 0 .. Steps(done[k]) + 2 : P2[done[k].id][m] = P[done[k].id][m]
      BY DEF Keeps
    <2>3. Begun(done[k], done, CallId, Executed, P) /\ Ended(done[k], CallId, Executed, P)
      BY DEF Located
    <2>4. PICK c : c = done[k]
      OBVIOUS
    <2>5. PICK n \in Nat : n = Steps(c)
      BY <2>1, <2>4
    <2>6. \A m \in 0 .. n + 1 : m \in 0 .. n + 2
      OBVIOUS
    <2>7. Begun(c, D, CallId, E, P2)
      <3>1. \A m \in 0 .. Steps(c) + 1 : P2[c.id][m] = P[c.id][m]
        BY <2>2, <2>4, <2>5, <2>6
      <3>2. IsCall(c) /\ Nested(c.subs) /\ Begun(c, done, CallId, Executed, P) /\ Alike(c, c)
        BY <2>1, <2>3, <2>4, AlikeSelf
      <3> QED BY <1>1, <3>1, <3>2, BegunKept
    <2>8. P[c.id][n + 1] \in Nat /\ P[c.id][n + 2] \in Nat
      <3>1. c.id \in Nat /\ n + 1 \in Nat /\ n + 2 \in Nat
        BY <2>1, <2>4
      <3> QED BY <3>1 DEF Positions
    <2>9. IsThere(CallId, E, c.id, P[c.id][n + 1], P[c.id][n + 2], <<"return", c.id, c.rv>>)
      BY <2>3, <2>4, <2>5, <2>8, IsThereKept DEF Ended
    <2>10. n + 1 \in 0 .. n + 2 /\ n + 2 \in 0 .. n + 2
      OBVIOUS
    <2>11. Ended(c, CallId, E, P2)
      BY <2>2, <2>4, <2>5, <2>9, <2>10 DEF Ended
    <2> QED BY <2>4, <2>7, <2>11
  <1> QED BY <1>2, <1>3

\* A step that binds nothing moves no call.
LEMMA SilentLocated ==
    ASSUME HistoryInv, NEW P \in Positions, Located(P), NEW f \in Frame, Continues(f),
           f.bindings = fr.bindings, Executed' = Executed
    PROVE  Located(P)'
  <1>0. EvalInv /\ CallId' = CallId /\ Len(Executed) \in Nat
    BY ExecutedGrows, ContinuesStack DEF HistoryInv, WalkInv, LogTyped
  <1>1. PICK n \in Nat \ {0} : n = Len(stack)
    BY <1>0, ContinuesStack
  <1>2. /\ Len(stack') = n /\ fr = stack[n] /\ done' = done
        /\ \A k \in 1 .. n : stack'[k] = IF k = n THEN f ELSE stack[k]
        /\ stack' \in Seq(Frame)
    BY <1>0, <1>1, ContinuesStack
  <1>3. \A k \in 1 .. n : Alike(stack[k], stack'[k])
    BY <1>1, <1>2, AlikeSelf DEF Continues, Alike
  <1>4. Extends(Executed, Executed') /\ Keeps(P, P)
    BY <1>0 DEF Extends, Keeps
  <1>5. /\ \A k \in 1 .. n : Begun(stack'[k], done', CallId', Executed', P)
        /\ \A k \in 1 .. Len(done) :
               Begun(done[k], done', CallId', Executed', P) /\ Ended(done[k], CallId', Executed', P)
    BY <1>0, <1>1, <1>2, <1>3, <1>4, LocatedKept
  <1>6. \A k \in 1 .. n : stack'[k].id = stack[k].id /\ Steps(stack'[k]) = Steps(stack[k])
    BY <1>3 DEF Alike, Steps
  <1>7. \A k \in 1 .. n - 1 : P[stack'[k].id][Steps(stack'[k]) + 1] = P[stack'[k + 1].id][0]
    <2> TAKE k \in 1 .. n - 1
    <2>1. k \in 1 .. n /\ k + 1 \in 1 .. n
      OBVIOUS
    <2> QED BY <1>1, <1>6, <2>1 DEF Located
  <1>8. P[stack'[n].id][Steps(stack'[n]) + 1] = Len(Executed') /\ stack' # <<>>
    BY <1>0, <1>1, <1>2, <1>6 DEF Located, Continues
  <1>9. (\A k \in 1 .. Len(stack) : Begun(stack[k], done, CallId, Executed, P))'
    BY <1>2, <1>5
  <1>10. (\A k \in 1 .. Len(done) :
             Begun(done[k], done, CallId, Executed, P) /\ Ended(done[k], CallId, Executed, P))'
    BY <1>2, <1>5
  <1> QED BY <1>2, <1>7, <1>8, <1>9, <1>10 DEF Located

\* The position after the next step of a call is not one of the positions so far.
LEMMA SetKeeps ==
    ASSUME EvalInv, CallsNumbered, NEW k \in 1 .. Len(stack),
           NEW P \in Positions, NEW P2 \in Positions,
           \A i, m \in Nat : i # stack[k].id \/ m # Steps(stack[k]) + 2 => P2[i][m] = P[i][m]
    PROVE  Keeps(P, P2)
  <1>1. ASSUME NEW l \in 1 .. Len(stack), NEW m \in 0 .. Steps(stack[l]) + 1
        PROVE  P2[stack[l].id][m] = P[stack[l].id][m]
    <2>1. /\ Steps(stack[l]) \in Nat /\ stack[l].id \in Nat /\ m \in Nat
      BY AreCalls, StepsType DEF IsCall
    <2>2. CASE l = k
      <3>1. m # Steps(stack[k]) + 2
        BY <2>1, <2>2
      <3> QED BY <2>1, <3>1
    <2>3. CASE l # k
      <3>1. Len(stack) \in Nat
        BY AreCalls
      <3>2. stack[l].id # stack[k].id
        <4>1. l < k \/ k < l
          BY <2>3, <3>1
        <4>2. stack[k].id \in Nat
          BY AreCalls DEF IsCall
        <4>3. CASE l < k
          <5>1. l \in 1 .. k - 1
            BY <3>1, <4>3
          <5>2. stack[l].id < stack[k].id
            BY <5>1 DEF CallsNumbered
          <5> QED BY <2>1, <4>2, <5>2
        <4>4. CASE k < l
          <5>1. k \in 1 .. l - 1
            BY <3>1, <4>4
          <5>2. stack[k].id < stack[l].id
            BY <5>1 DEF CallsNumbered
          <5> QED BY <2>1, <4>2, <5>2
        <4> QED BY <4>1, <4>3, <4>4
      <3> QED BY <2>1, <3>2
    <2> QED BY <2>2, <2>3
  <1>2. ASSUME NEW l \in 1 .. Len(done), NEW m \in 0 .. Steps(done[l]) + 2
        PROVE  P2[done[l].id][m] = P[done[l].id][m]
    <2>1. /\ Steps(done[l]) \in Nat /\ done[l].id \in Nat /\ m \in Nat
      BY AreCalls, StepsType DEF IsCall
    <2>2. stack[k].id # done[l].id
      BY DEF CallsNumbered
    <2> QED BY <2>1, <2>2
  <1> QED BY <1>1, <1>2 DEF Keeps

\* A binding is the next event shown.
LEMMA BindsLocated ==
    ASSUME HistoryInv, NEW P \in Positions, Located(P), NEW f \in Frame, NEW b \in Binding, Binds(f, b)
    PROVE  \E P2 \in Positions : Located(P2)' /\ Keeps(P, P2)
  <1>0. EvalInv /\ CallsNumbered /\ LogTyped /\ Continues(f) /\ f.bindings = Append(fr.bindings, b)
    BY DEF HistoryInv, WalkInv, Binds
  <1>1. PICK n \in Nat \ {0} : n = Len(stack)
    BY <1>0, ContinuesStack
  <1>2. /\ Len(stack') = n /\ fr = stack[n] /\ done' = done /\ prog' = prog
        /\ \A k \in 1 .. n : stack'[k] = IF k = n THEN f ELSE stack[k]
        /\ stack' \in Seq(Frame) /\ stack # <<>> /\ stack' # <<>>
    BY <1>0, <1>1, ContinuesStack
  <1>3. PICK e : e = [ev |-> "bind", id |-> fr.id, name |-> b.name, line |-> b.line, value |-> b.value]
    OBVIOUS
  <1>4. LogGrows(e)
    BY <1>0, <1>3, EffectEvents
  <1>5. e \in Shown /\ LogView(e) = <<"bind", fr.id, b.line>>
    <2>1. fr.id \in Nat /\ b.name \in Name /\ b.line \in Line /\ b.value \in Value
      BY <1>0, <1>1, <1>2, AreCalls DEF IsCall, Binding
    <2> QED BY <1>3, <2>1 DEF Shown, LogView
  <1>6. CallId' = CallId /\ Len(Executed) \in Nat /\ Longer(Executed, Executed', <<"bind", fr.id, b.line>>)
    BY <1>0, <1>2, <1>4, <1>5, ExecutedGrows DEF LogTyped
  <1>7. PICK c : c = fr
    OBVIOUS
  <1>8. IsCall(c) /\ Steps(c) \in Nat /\ c.id \in Nat /\ n \in 1 .. n
    BY <1>0, <1>1, <1>2, <1>7, AreCalls, StepsType DEF IsCall
  <1>9. PICK v \in Nat : v = Len(Executed)
    BY <1>6
  <1>10. v + 1 \in Nat /\ Steps(c) + 2 \in Nat
    BY <1>8
  <1>11. PICK P2 \in Positions : Sets(P, P2, c.id, Steps(c) + 2, v + 1)
    BY <1>8, <1>10, SetPosition
  <1>12. Keeps(P, P2)
    BY <1>0, <1>1, <1>2, <1>7, <1>8, <1>11, SetKeeps DEF Sets
  <1>13. Extends(Executed, Executed')
    BY <1>6, Longer1
  <1>14. /\ \A k \in 1 .. n : \A d : Alike(stack[k], d) => Begun(d, done', CallId', Executed', P2)
         /\ \A k \in 1 .. Len(done) :
                Begun(done[k], done', CallId', Executed', P2) /\ Ended(done[k], CallId', Executed', P2)
    BY <1>0, <1>1, <1>2, <1>6, <1>12, <1>13, LocatedKept
  <1>15. Begun(c, done', CallId', Executed', P2)
    BY <1>2, <1>7, <1>8, <1>14, AlikeSelf
  <1>16. P2[c.id][Steps(c) + 1] = v /\ P2[c.id][Steps(c) + 2] = Len(Executed') /\ Len(Executed') = v + 1
    <2>1. Steps(c) + 1 \in 0 .. Steps(c) + 1
      BY <1>8
    <2>2. P[c.id][Steps(c) + 1] = v
      BY <1>1, <1>2, <1>7, <1>9 DEF Located
    <2>3. P2[c.id][Steps(c) + 1] = P[c.id][Steps(c) + 1]
      BY <1>1, <1>2, <1>7, <1>8, <1>12, <2>1 DEF Keeps
    <2> QED BY <1>6, <1>9, <1>11, <2>2, <2>3 DEF Longer, Sets
  <1>17. NextIs(Executed', P2[c.id][Steps(c) + 1], P2[c.id][Steps(c) + 2], <<"bind", c.id, b.line>>)
    <2>1. Executed'[v + 1] = <<"bind", c.id, b.line>> /\ v + 1 \in 1 .. v + 1
      BY <1>6, <1>7, <1>9 DEF Longer
    <2> QED BY <1>16, <2>1 DEF NextIs
  <1>18. f.id = c.id /\ f.fn = c.fn /\ f.subs = c.subs /\ f.bindings = Append(c.bindings, b)
    BY <1>0, <1>7 DEF Continues
  <1>19. Begun(f, done', CallId', Executed', P2)
    BY <1>8, <1>15, <1>17, <1>18, BegunBinds
  <1>20. Steps(f) + 1 = Steps(c) + 2
    <2>1. PICK s \in Seq(Binding) : s = c.bindings
      BY <1>8 DEF IsCall
    <2>2. Len(f.bindings) = Len(s) + 1 /\ Len(s) \in Nat /\ Len(c.subs) \in Nat
      BY <1>8, <1>18, <2>1, AppendElement DEF IsCall
    <2>3. PICK l \in Nat, r \in Nat : l = Len(s) /\ r = Len(c.subs)
      BY <2>2
    <2>4. Steps(f) = l + 1 + r /\ Steps(c) = l + r
      BY <1>18, <2>1, <2>2, <2>3 DEF Steps
    <2> QED BY <2>4
  <1>21. (\A k \in 1 .. Len(stack) : Begun(stack[k], done, CallId, Executed, P2))'
    BY <1>1, <1>2, <1>14, <1>19, AlikeSelf
  <1>22. \A k \in 1 .. n - 1 : P2[stack'[k].id][Steps(stack'[k]) + 1] = P2[stack'[k + 1].id][0]
    <2> TAKE k \in 1 .. n - 1
    <2>1. k \in 1 .. n /\ k + 1 \in 1 .. n /\ k # n
      OBVIOUS
    <2>2. stack'[k] = stack[k] /\ stack'[k + 1].id = stack[k + 1].id
      BY <1>2, <1>7, <1>18, <2>1
    <2>3. P[stack[k].id][Steps(stack[k]) + 1] = P[stack[k + 1].id][0]
      BY <1>1 DEF Located
    <2>4. Steps(stack[k]) \in Nat /\ Steps(stack[k + 1]) \in Nat
      BY <1>0, <1>1, <2>1, AreCalls, StepsType
    <2>5. Steps(stack[k]) + 1 \in 0 .. Steps(stack[k]) + 1 /\ 0 \in 0 .. Steps(stack[k + 1]) + 1
      BY <2>4
    <2> QED BY <1>1, <1>12, <2>1, <2>2, <2>3, <2>5 DEF Keeps
  <1>23. P2[stack'[n].id][Steps(stack'[n]) + 1] = Len(Executed')
    BY <1>2, <1>8, <1>16, <1>18, <1>20
  <1>24. (\A k \in 1 .. Len(done) :
             Begun(done[k], done, CallId, Executed, P2) /\ Ended(done[k], CallId, Executed, P2))'
    BY <1>2, <1>14
  <1>25. Located(P2)'
    BY <1>2, <1>21, <1>22, <1>23, <1>24 DEF Located
  <1> QED BY <1>12, <1>25

LEMMA NewCallBegun ==
    ASSUME NEW id \in Nat, NEW g, NEW args, NEW c, c = NewFrame(id, g, args),
           NEW D, NEW K, NEW E, NEW P, IsThere(K, E, id, P[id][0], P[id][1], <<"call", id, g>>)
    PROVE  Begun(c, D, K, E, P) /\ Steps(c) = 0 /\ c.id = id
  <1>1. c.id = id /\ c.fn = g /\ c.bindings = <<>> /\ c.subs = <<>>
    BY DEF NewFrame
  <1>2. Len(c.bindings) = 0 /\ Len(c.subs) = 0
    BY <1>1
  <1> QED BY <1>1, <1>2 DEF Begun, SubsFit, BindingsFit, Steps

\* The positions of a call that starts now.
LEMMA NewPositions ==
    ASSUME HistoryInv, NEW P \in Positions, NEW g \in FnName, prog' = prog,
           LogGrows([ev |-> "enter", id |-> calls + 1, fn |-> g])
    PROVE  \E P2 \in Positions :
              /\ Keeps(P, P2)
              /\ P2[calls + 1][0] = Len(Executed) /\ P2[calls + 1][1] = Len(Executed')
              /\ IsThere(CallId', Executed', calls + 1, P2[calls + 1][0], P2[calls + 1][1],
                         <<"call", calls + 1, g>>)
              /\ Extends(Executed, Executed') /\ CallId' = CallId
  <1>0. EvalInv /\ CallsNumbered /\ log \in Seq(Event) /\ calls \in Nat /\ calls + 1 \in Nat
    BY DEF HistoryInv, WalkInv, LogTyped, EvalInv, EvalTypeOK
  <1>1. PICK id \in Nat : id = calls + 1
    BY <1>0
  <1>2. PICK e : e = [ev |-> "enter", id |-> id, fn |-> g]
    OBVIOUS
  <1>3. /\ Len(Executed) \in Nat /\ CallId' = CallId
        /\ e \in Shown => Longer(Executed, Executed', LogView(e))
        /\ e \notin Shown => Executed' = Executed
    BY <1>0, <1>1, <1>2, ExecutedGrows
  <1>4. (e \in Shown <=> id \in CallId) /\ LogView(e) = <<"call", id, g>>
    BY <1>2 DEF Shown, LogView
  <1>5. PICK v \in Nat : v = Len(Executed)
    BY <1>3
  <1>6. PICK w \in Nat : w = Len(Executed')
    BY <1>3, <1>5 DEF Longer
  <1>7. Extends(Executed, Executed')
    BY <1>3, Longer1 DEF Extends
  <1>8. PICK P1 \in Positions : Sets(P, P1, id, 0, v)
    BY SetPosition
  <1>9. PICK P2 \in Positions : Sets(P1, P2, id, 1, w)
    BY SetPosition
  <1>10. P2[id][0] = v /\ P2[id][1] = w
    BY <1>8, <1>9 DEF Sets
  <1>11. \A i, m \in Nat : i # id => P2[i][m] = P[i][m]
    BY <1>8, <1>9 DEF Sets
  <1>12. Keeps(P, P2)
    <2>1. ASSUME NEW k \in 1 .. Len(stack), NEW m \in 0 .. Steps(stack[k]) + 1
          PROVE  P2[stack[k].id][m] = P[stack[k].id][m]
      <3>1. stack[k].id \in 1 .. calls
        BY DEF HistoryInv, CallsNumbered
      <3>2. stack[k].id \in Nat /\ stack[k].id # id
        BY <1>0, <1>1, <3>1
      <3>3. m \in Nat
        BY <1>0, AreCalls, StepsType
      <3> QED BY <1>11, <3>2, <3>3
    <2>2. ASSUME NEW k \in 1 .. Len(done), NEW m \in 0 .. Steps(done[k]) + 2
          PROVE  P2[done[k].id][m] = P[done[k].id][m]
      <3>1. done[k].id \in 1 .. calls
        BY DEF HistoryInv, CallsNumbered
      <3>2. done[k].id \in Nat /\ done[k].id # id
        BY <1>0, <1>1, <3>1
      <3>3. m \in Nat
        BY <1>0, AreCalls, StepsType
      <3> QED BY <1>11, <3>2, <3>3
    <2> QED BY <2>1, <2>2 DEF Keeps
  <1>13. IsThere(CallId', Executed', id, v, w, <<"call", id, g>>)
    <2>1. CASE id \in CallId
      <3>1. Longer(Executed, Executed', <<"call", id, g>>)
        BY <1>3, <1>4, <2>1
      <3>2. w = v + 1 /\ Executed'[v + 1] = <<"call", id, g>> /\ v + 1 \in 1 .. v + 1
        BY <1>5, <1>6, <3>1 DEF Longer
      <3> QED BY <1>3, <1>6, <2>1, <3>2 DEF IsThere, NextIs
    <2>2. CASE id \notin CallId
      BY <1>3, <1>4, <1>5, <1>6, <2>2 DEF IsThere
    <2> QED BY <2>1, <2>2
  <1> QED BY <1>1, <1>3, <1>5, <1>6, <1>7, <1>10, <1>12, <1>13

\* A call starts where its caller has arrived.
LEMMA EntersLocated ==
    ASSUME HistoryInv, NEW P \in Positions, Located(P),
           NEW c \in Frame, NEW g \in FnName, NEW args \in Seq(Value), Enters(c, g, args)
    PROVE  \E P2 \in Positions : Located(P2)' /\ Keeps(P, P2)
  <1>0. EvalInv /\ CallsNumbered /\ LogTyped
    BY DEF HistoryInv, WalkInv
  <1>1. PICK n \in Nat \ {0} : n = Len(stack)
    BY <1>0, EntersStack
  <1>2. PICK new \in Frame : new = NewFrame(calls + 1, g, args)
    BY <1>0, EntersStack
  <1>3. /\ Len(stack') = n + 1 /\ stack'[n + 1] = new
        /\ \A k \in 1 .. n : stack'[k] = IF k = n THEN c ELSE stack[k]
        /\ fr = stack[n] /\ calls \in Nat /\ done' = done /\ prog' = prog
        /\ stack' \in Seq(Frame)
    BY <1>0, <1>1, <1>2, EntersStack
  <1>4. PICK id \in Nat : id = calls + 1
    BY <1>3
  <1>5. LogGrows([ev |-> "enter", id |-> id, fn |-> g])
    BY <1>0, <1>4, EffectEvents
  <1>6. PICK P2 \in Positions :
            /\ Keeps(P, P2)
            /\ P2[id][0] = Len(Executed) /\ P2[id][1] = Len(Executed')
            /\ IsThere(CallId', Executed', id, P2[id][0], P2[id][1], <<"call", id, g>>)
            /\ Extends(Executed, Executed') /\ CallId' = CallId
    BY <1>3, <1>4, <1>5, NewPositions
  <1>7. /\ \A k \in 1 .. n : \A d : Alike(stack[k], d) => Begun(d, done', CallId', Executed', P2)
        /\ \A k \in 1 .. Len(done) :
               Begun(done[k], done', CallId', Executed', P2) /\ Ended(done[k], CallId', Executed', P2)
    BY <1>0, <1>1, <1>3, <1>6, LocatedKept
  <1>8. Begun(new, done', CallId', Executed', P2) /\ Steps(new) = 0 /\ new.id = id
    BY <1>2, <1>4, <1>6, NewCallBegun
  <1>9. \A k \in 1 .. n : Alike(stack[k], stack'[k])
    BY <1>1, <1>3, AlikeSelf DEF Enters, Alike
  <1>10. (\A k \in 1 .. Len(stack) : Begun(stack[k], done, CallId, Executed, P2))'
    <2>1. \A k \in 1 .. n + 1 : k \in 1 .. n \/ k = n + 1
      OBVIOUS
    <2> QED BY <1>3, <1>7, <1>8, <1>9, <2>1
  <1>11. \A k \in 1 .. n : stack'[k].id = stack[k].id /\ Steps(stack'[k]) = Steps(stack[k])
    BY <1>9 DEF Alike, Steps
  <1>12. \A k \in 1 .. n : P2[stack'[k].id][Steps(stack'[k]) + 1] = P2[stack'[k + 1].id][0]
    <2> TAKE k \in 1 .. n
    <2>1. Steps(stack[k]) \in Nat
      BY <1>0, <1>1, AreCalls, StepsType
    <2>2. Steps(stack[k]) + 1 \in 0 .. Steps(stack[k]) + 1
      BY <2>1
    <2>3. P2[stack'[k].id][Steps(stack'[k]) + 1] = P[stack[k].id][Steps(stack[k]) + 1]
      BY <1>1, <1>6, <1>11, <2>2 DEF Keeps
    <2>4. CASE k = n
      <3>1. P[stack[n].id][Steps(stack[n]) + 1] = Len(Executed)
        BY <1>1 DEF Located, Enters
      <3> QED BY <1>3, <1>6, <1>8, <2>3, <2>4, <3>1
    <2>5. CASE k # n
      <3>1. k \in 1 .. n - 1 /\ k + 1 \in 1 .. n
        BY <2>5
      <3>2. P[stack[k].id][Steps(stack[k]) + 1] = P[stack[k + 1].id][0]
        BY <1>1, <3>1 DEF Located
      <3>3. Steps(stack[k + 1]) \in Nat
        BY <1>0, <1>1, <3>1, AreCalls, StepsType
      <3>4. 0 \in 0 .. Steps(stack[k + 1]) + 1
        BY <3>3
      <3>5. P2[stack[k + 1].id][0] = P[stack[k + 1].id][0]
        BY <1>1, <1>6, <3>1, <3>4 DEF Keeps
      <3> QED BY <1>11, <2>3, <3>1, <3>2, <3>5
    <2> QED BY <2>4, <2>5
  <1>13. P2[stack'[n + 1].id][Steps(stack'[n + 1]) + 1] = Len(Executed')
    BY <1>3, <1>6, <1>8
  <1>14. (\A k \in 1 .. Len(done) :
             Begun(done[k], done, CallId, Executed, P2) /\ Ended(done[k], CallId, Executed, P2))'
    BY <1>3, <1>7
  <1>15. stack' # <<>> /\ \A k \in 1 .. n + 1 - 1 : k \in 1 .. n
    BY <1>3
  <1>16. Located(P2)'
    BY <1>3, <1>10, <1>12, <1>13, <1>14, <1>15 DEF Located
  <1> QED BY <1>6, <1>16

\* The entry point starts where the history has arrived.
LEMMA DispatchLocated ==
    ASSUME HistoryInv, NEW P \in Positions, Located(P), DispatchEntry
    PROVE  \E P2 \in Positions :
              Located(P2)' /\ Keeps(P, P2) /\ P2[stack'[1].id][0] = Len(Executed) /\ stack' # <<>>
  <1>1. PICK g \in FnName : g = entryFn
    BY DispatchStarts
  <1>2. PICK id \in Nat : id = calls + 1
    <2>1. calls + 1 \in Nat
      BY DispatchStarts
    <2> QED BY <2>1
  <1>3. PICK args : args = EntryArgs(entryFn)
    OBVIOUS
  <1>4. PICK new : new = NewFrame(id, g, args)
    OBVIOUS
  <1>5. /\ LogGrows([ev |-> "enter", id |-> id, fn |-> g])
        /\ prog' = prog /\ done' = done /\ stack = <<>> /\ stack' = <<new>>
    BY <1>1, <1>2, <1>3, <1>4, DispatchStarts
  <1>6. EvalInv
    BY DEF HistoryInv, WalkInv
  <1>7. PICK P2 \in Positions :
            /\ Keeps(P, P2)
            /\ P2[id][0] = Len(Executed) /\ P2[id][1] = Len(Executed')
            /\ IsThere(CallId', Executed', id, P2[id][0], P2[id][1], <<"call", id, g>>)
            /\ Extends(Executed, Executed') /\ CallId' = CallId
    BY <1>2, <1>5, NewPositions
  <1>8. \A k \in 1 .. Len(done) :
            Begun(done[k], done', CallId', Executed', P2) /\ Ended(done[k], CallId', Executed', P2)
    BY <1>5, <1>6, <1>7, LocatedKept
  <1>9. Begun(new, done', CallId', Executed', P2) /\ Steps(new) = 0 /\ new.id = id
    BY <1>4, <1>7, NewCallBegun
  <1>10. Len(stack') = 1 /\ stack'[1] = new /\ stack' # <<>>
    BY <1>5
  <1>11. (\A k \in 1 .. Len(stack) : Begun(stack[k], done, CallId, Executed, P2))'
    BY <1>9, <1>10
  <1>12. (\A k \in 1 .. Len(done) :
             Begun(done[k], done, CallId, Executed, P2) /\ Ended(done[k], CallId, Executed, P2))'
    BY <1>5, <1>8
  <1>13. P2[stack'[1].id][Steps(stack'[1]) + 1] = Len(Executed')
    BY <1>7, <1>9, <1>10
  <1>14. Located(P2)'
    BY <1>10, <1>11, <1>12, <1>13 DEF Located
  <1> QED BY <1>7, <1>9, <1>10, <1>14

LEMMA KeepsBoth ==
    ASSUME NEW P, NEW P1, NEW P2, Keeps(P, P1), Keeps(P1, P2) PROVE Keeps(P, P2)
  BY DEF Keeps

\* The positions when the running call has ended: its own, and its caller's.
LEMMA FinishPositions ==
    ASSUME HistoryInv, NEW P \in Positions, FinishCall, NEW w \in Nat
    PROVE  \E P2 \in Positions :
              /\ Keeps(P, P2)
              /\ P2[fr.id][Steps(fr) + 2] = w
              /\ Len(stack) # 1 =>
                    P2[stack[Len(stack) - 1].id][Steps(stack[Len(stack) - 1]) + 2] = w
  <1>0. EvalInv /\ CallsNumbered
    BY DEF HistoryInv, WalkInv
  <1>1. PICK n \in Nat \ {0} : n = Len(stack) /\ fr = stack[n] /\ n \in 1 .. n
    BY <1>0, FinishStack
  <1>2. fr.id \in Nat /\ Steps(fr) \in Nat
    BY <1>0, <1>1, AreCalls, StepsType DEF IsCall
  <1>3. PICK i \in Nat, m \in Nat : i = fr.id /\ m = Steps(fr) + 2
    <2>1. Steps(fr) + 2 \in Nat
      BY <1>2
    <2> QED BY <1>2, <2>1
  <1>4. PICK P1 \in Positions : Sets(P, P1, i, m, w)
    BY SetPosition
  <1>5. Keeps(P, P1)
    BY <1>0, <1>1, <1>3, <1>4, SetKeeps DEF Sets
  <1>6. P1[fr.id][Steps(fr) + 2] = w
    BY <1>3, <1>4 DEF Sets
  <1>7. CASE n = 1
    BY <1>1, <1>5, <1>6, <1>7
  <1>8. CASE n # 1
    <2>1. PICK p \in 1 .. n - 1 : p = n - 1
      BY <1>8
    <2>2. p \in 1 .. n /\ p \in 1 .. Len(stack)
      BY <1>1, <2>1
    <2>3. stack[p].id \in Nat /\ Steps(stack[p]) \in Nat
      BY <1>0, <1>1, <2>2, AreCalls, StepsType DEF IsCall
    <2>4. PICK l \in Nat, r \in Nat : l = stack[p].id /\ r = Steps(stack[p]) + 2
      <3>1. Steps(stack[p]) + 2 \in Nat
        BY <2>3
      <3> QED BY <2>3, <3>1
    <2>5. PICK P2 \in Positions : Sets(P1, P2, l, r, w)
      BY SetPosition
    <2>6. Keeps(P1, P2)
      <3>1. \A i2, m2 \in Nat : i2 # stack[p].id \/ m2 # Steps(stack[p]) + 2 => P2[i2][m2] = P1[i2][m2]
        BY <2>4, <2>5 DEF Sets
      <3> QED BY <1>0, <2>2, <3>1, SetKeeps
    <2>7. Keeps(P, P2)
      BY <1>5, <2>6, KeepsBoth
    <2>8. stack[p].id < stack[n].id
      BY <1>0, <1>1, <2>1 DEF CallsNumbered
    <2>9. l # i
      BY <1>1, <1>3, <2>3, <2>4, <2>8
    <2>10. P2[i][m] = w
      BY <1>3, <1>6, <2>5, <2>9 DEF Sets
    <2>11. P2[l][r] = w
      BY <2>5 DEF Sets
    <2> QED BY <1>1, <1>3, <2>1, <2>4, <2>7, <2>10, <2>11
  <1> QED BY <1>7, <1>8

\* The CallTrace of a frame is the same call.
LEMMA TraceAlike ==
    ASSUME NEW f \in Frame
    PROVE  Alike(f, TraceOf(f)) /\ Steps(TraceOf(f)) = Steps(f) /\ TraceOf(f).id = f.id
  <1>1. PICK t : t = TraceOf(f)
    OBVIOUS
  <1>2. t.id = f.id /\ t.fn = f.fn /\ t.subs = f.subs /\ t.bindings = Synced(f)
    BY <1>1, TraceParts
  <1>3. f.bindings \in Seq(Binding) /\ Len(f.bindings) \in Nat
    BY DEF Frame
  <1>4. Synced(f) = [k \in 1 .. Len(f.bindings) |->
                        [f.bindings[k] EXCEPT !.value = f.env[f.bindings[k].name]]]
    BY DEF Synced
  <1>5. Len(t.bindings) = Len(f.bindings)
    BY <1>2, <1>3, <1>4
  <1>6. \A k \in 1 .. Len(f.bindings) : t.bindings[k].line = f.bindings[k].line
    <2> TAKE k \in 1 .. Len(f.bindings)
    <2>1. f.bindings[k] \in Binding
      BY <1>3
    <2>2. t.bindings[k] = [f.bindings[k] EXCEPT !.value = f.env[f.bindings[k].name]]
      BY <1>2, <1>4
    <2> QED BY <2>1, <2>2 DEF Binding
  <1> QED BY <1>1, <1>2, <1>5, <1>6 DEF Alike, Steps

\* A call ends here, and so does its caller's step.
LEMMA FinishLocated ==
    ASSUME HistoryInv, NEW P \in Positions, Located(P), FinishCall
    PROVE  \E P2 \in Positions : Located(P2)' /\ Keeps(P, P2)
  <1>0. EvalInv /\ CallsNumbered /\ LogTyped /\ stack # <<>>
    BY DEF HistoryInv, WalkInv, FinishCall
  <1>1. PICK n \in Nat \ {0} : n = Len(stack)
    BY <1>0, FinishStack
  <1>2. PICK m \in Nat : m = Len(done)
    BY <1>0, FinishStack
  <1>3. PICK t \in CallTrace : t = TraceOf(fr)
    BY <1>0, FinishStack
  <1>4. /\ fr = stack[n] /\ fr \in Frame /\ Len(done') = m + 1 /\ done'[m + 1] = t
        /\ \A k \in 1 .. m : done'[k] = done[k]
        /\ prog' = prog /\ done \in Seq(CallTrace) /\ done' \in Seq(CallTrace)
    BY <1>0, <1>1, <1>2, <1>3, FinishStack
  <1>5. Alike(fr, t) /\ Steps(t) = Steps(fr) /\ t.id = fr.id
    BY <1>3, <1>4, TraceAlike
  <1>6. PICK e : e = [ev |-> "exit", id |-> fr.id, rv |-> t.rv]
    OBVIOUS
  <1>7. LogGrows(e)
    BY <1>0, <1>3, <1>6, EffectEvents
  <1>8. /\ Len(Executed) \in Nat /\ CallId' = CallId
        /\ e \in Shown => Longer(Executed, Executed', LogView(e))
        /\ e \notin Shown => Executed' = Executed
    BY <1>0, <1>4, <1>7, ExecutedGrows DEF LogTyped
  <1>9. (e \in Shown <=> t.id \in CallId) /\ LogView(e) = <<"return", t.id, t.rv>>
    <2>1. t.rv \in Value
      BY DEF CallTrace
    <2> QED BY <1>5, <1>6, <2>1 DEF Shown, LogView
  <1>10. PICK v \in Nat : v = Len(Executed)
    BY <1>8
  <1>11. PICK w \in Nat : w = Len(Executed')
    BY <1>8, <1>10 DEF Longer
  <1>12. Extends(Executed, Executed')
    BY <1>8, Longer1 DEF Extends
  <1>13. PICK P2 \in Positions :
              /\ Keeps(P, P2) /\ P2[fr.id][Steps(fr) + 2] = w
              /\ n # 1 => P2[stack[n - 1].id][Steps(stack[n - 1]) + 2] = w
    BY <1>1, FinishPositions
  <1>14. /\ \A k \in 1 .. n : \A d : Alike(stack[k], d) => Begun(d, done', CallId', Executed', P2)
         /\ \A k \in 1 .. m :
                Begun(done[k], done', CallId', Executed', P2) /\ Ended(done[k], CallId', Executed', P2)
    BY <1>0, <1>1, <1>2, <1>4, <1>8, <1>12, <1>13, LocatedKept
  <1>15. n \in 1 .. n /\ Steps(fr) \in Nat /\ fr.id \in Nat
    BY <1>0, <1>1, <1>4, AreCalls, StepsType DEF IsCall
  <1>16. Begun(t, done', CallId', Executed', P2)
    BY <1>4, <1>5, <1>14, <1>15
  <1>17. P2[fr.id][Steps(fr) + 1] = v /\ P2[fr.id][0] = P[fr.id][0]
    <2>1. P[fr.id][Steps(fr) + 1] = v
      BY <1>0, <1>1, <1>4, <1>10 DEF Located
    <2>2. 0 \in 0 .. Steps(fr) + 1 /\ Steps(fr) + 1 \in 0 .. Steps(fr) + 1
      BY <1>15
    <2> QED BY <1>1, <1>4, <1>13, <1>15, <2>1, <2>2 DEF Keeps
  <1>18. Ended(t, CallId', Executed', P2)
    <2>1. IsThere(CallId', Executed', t.id, v, w, <<"return", t.id, t.rv>>)
      <3>1. CASE t.id \in CallId
        <4>1. Longer(Executed, Executed', <<"return", t.id, t.rv>>)
          BY <1>8, <1>9, <3>1
        <4>2. w = v + 1 /\ Executed'[v + 1] = <<"return", t.id, t.rv>> /\ v + 1 \in 1 .. v + 1
          BY <1>10, <1>11, <4>1 DEF Longer
        <4> QED BY <1>8, <1>11, <3>1, <4>2 DEF IsThere, NextIs
      <3>2. CASE t.id \notin CallId
        BY <1>8, <1>9, <1>10, <1>11, <3>2 DEF IsThere
      <3> QED BY <3>1, <3>2
    <2> QED BY <1>5, <1>13, <1>17, <2>1 DEF Ended
  <1>19. (\A k \in 1 .. Len(done) :
             Begun(done[k], done, CallId, Executed, P2) /\ Ended(done[k], CallId, Executed, P2))'
    <2>1. \A k \in 1 .. m + 1 : k \in 1 .. m \/ k = m + 1
      OBVIOUS
    <2> QED BY <1>4, <1>14, <1>16, <1>18, <2>1
  <1>20. CASE n = 1
    <2>1. stack' = <<>>
      BY <1>0, <1>1, <1>20, FinishStack
    <2>2. Len(stack') = 0
      BY <2>1
    <2>3. P2[done'[m + 1].id][Steps(done'[m + 1]) + 2] = Len(Executed')
      BY <1>4, <1>5, <1>11, <1>13
    <2>4. Located(P2)'
      BY <1>4, <1>19, <2>1, <2>2, <2>3 DEF Located
    <2> QED BY <1>13, <2>4
  <1>21. CASE n # 1
    <2>1. PICK p \in 1 .. n - 1 : p = n - 1
      BY <1>21
    <2>2. PICK c \in Frame : c = stack[p]
      BY <1>0, <1>1, <1>21, <2>1, FinishStack
    <2>3. PICK d \in Frame : d = Resumed(fr, c)
      BY <1>0, <1>1, <1>21, <2>1, <2>2, FinishStack
    <2>4. /\ FrameOK(c) /\ c.ep > 0 /\ Len(stack') = p
          /\ \A k \in 1 .. p : stack'[k] = IF k = p THEN d ELSE stack[k]
          /\ stack' \in Seq(Frame)
      BY <1>0, <1>1, <1>21, <2>1, <2>2, <2>3, FinishStack
    <2>5. /\ d.id = c.id /\ d.fn = c.fn /\ d.bindings = c.bindings
          /\ Len(c.subs) \in Nat /\ Len(d.subs) = Len(c.subs) + 1
          /\ \A j \in 1 .. Len(c.subs) : d.subs[j] = c.subs[j]
          /\ d.subs[Len(c.subs) + 1].after = Len(c.bindings)
          /\ d.subs[Len(c.subs) + 1].trace = m + 1
      BY <1>2, <1>4, <2>3, <2>4, ResumedParts
    <2>6. p \in 1 .. n /\ p \in 1 .. p /\ IsCall(c) /\ Steps(c) \in Nat
      <3>1. p \in 1 .. n /\ p \in 1 .. p
        BY <2>1
      <3>2. IsCall(c)
        BY <1>0, <1>1, <2>2, <3>1, AreCalls
      <3> QED BY <3>1, <3>2, StepsType
    <2>7. Begun(c, done', CallId', Executed', P2)
      BY <1>14, <2>2, <2>6, AlikeSelf
    <2>8. P2[c.id][Steps(c) + 1] = P2[t.id][0]
      <3>1. P[c.id][Steps(c) + 1] = P[fr.id][0]
        BY <1>1, <1>4, <2>1, <2>2 DEF Located
      <3>2. Steps(c) + 1 \in 0 .. Steps(c) + 1
        BY <2>6
      <3>3. P2[c.id][Steps(c) + 1] = P[c.id][Steps(c) + 1]
        BY <1>1, <1>13, <2>2, <2>6, <3>2 DEF Keeps
      <3> QED BY <1>5, <1>17, <3>1, <3>3
    <2>9. P2[c.id][Steps(c) + 2] = w /\ P2[t.id][Steps(t) + 2] = w
      BY <1>5, <1>13, <1>21, <2>1, <2>2
    <2>10. t = done'[d.subs[Len(c.subs) + 1].trace]
      BY <1>4, <2>5
    <2>11. Begun(d, done', CallId', Executed', P2)
      BY <2>5, <2>6, <2>7, <2>8, <2>9, <2>10, BegunResumes
    <2>12. Steps(d) + 1 = Steps(c) + 2
      <3>1. PICK l \in Nat, r \in Nat : l = Len(c.bindings) /\ r = Len(c.subs)
        BY <2>6, StepsType
      <3>2. Steps(d) = l + (r + 1) /\ Steps(c) = l + r
        BY <2>5, <3>1 DEF Steps
      <3> QED BY <3>2
    <2>13. (\A k \in 1 .. Len(stack) : Begun(stack[k], done, CallId, Executed, P2))'
      <3> SUFFICES ASSUME NEW k \in 1 .. p PROVE Begun(stack'[k], done', CallId', Executed', P2)
        BY <2>4
      <3>1. CASE k = p
        BY <2>4, <2>6, <2>11, <3>1
      <3>2. CASE k # p
        <4>1. k \in 1 .. n /\ stack'[k] = stack[k]
          BY <2>1, <2>4, <3>2
        <4> QED BY <1>14, <4>1, AlikeSelf
      <3> QED BY <3>1, <3>2
    <2>14. \A k \in 1 .. p - 1 : P2[stack'[k].id][Steps(stack'[k]) + 1] = P2[stack'[k + 1].id][0]
      <3> TAKE k \in 1 .. p - 1
      <3>1. k \in 1 .. p /\ k + 1 \in 1 .. p /\ k # p /\ k \in 1 .. n - 1 /\ k \in 1 .. n /\ k + 1 \in 1 .. n
        BY <2>1
      <3>2. stack'[k] = stack[k] /\ stack'[k + 1].id = stack[k + 1].id
        BY <2>2, <2>4, <2>5, <3>1
      <3>3. P[stack[k].id][Steps(stack[k]) + 1] = P[stack[k + 1].id][0]
        BY <1>1, <3>1 DEF Located
      <3>4. Steps(stack[k]) \in Nat /\ Steps(stack[k + 1]) \in Nat
        BY <1>0, <1>1, <3>1, AreCalls, StepsType
      <3>5. Steps(stack[k]) + 1 \in 0 .. Steps(stack[k]) + 1 /\ 0 \in 0 .. Steps(stack[k + 1]) + 1
        BY <3>4
      <3> QED BY <1>1, <1>13, <3>1, <3>2, <3>3, <3>5 DEF Keeps
    <2>15. P2[stack'[p].id][Steps(stack'[p]) + 1] = Len(Executed') /\ stack' # <<>>
      BY <1>11, <2>4, <2>5, <2>6, <2>9, <2>12
    <2>16. Located(P2)'
      BY <1>19, <2>4, <2>13, <2>14, <2>15 DEF Located
    <2> QED BY <1>13, <2>16
  <1> QED BY <1>20, <1>21

\* Whatever step the evaluator takes.
LEMMA EvalStepLocated ==
    ASSUME HistoryInv, NEW P \in Positions, Located(P), EvalStep
    PROVE  \E P2 \in Positions : Located(P2)' /\ Keeps(P, P2)
  <1>0. EvalInv /\ CallsNumbered /\ LogTyped /\ log \in Seq(Event)
    BY DEF HistoryInv, WalkInv, LogTyped
  <1>1. Effect
    BY <1>0, StepEffect
  <1>2. Keeps(P, P)
    BY DEF Keeps
  <1>3. ASSUME NEW f \in Frame, Continues(f), f.bindings = fr.bindings,
               \/ log' = log
               \/ \E e : LogGrows(e) /\ e.ev \notin {"bind", "enter", "exit"}
        PROVE  \E P2 \in Positions : Located(P2)' /\ Keeps(P, P2)
    <2>1. prog' = prog
      BY <1>0, <1>3, ContinuesStack
    <2>2. \A e : e.ev \notin {"bind", "enter", "exit"} => e \notin Shown
      BY DEF Shown
    <2>3. Executed' = Executed
      BY <1>0, <1>3, <2>1, <2>2, ExecutedGrows
    <2> QED BY <1>2, <1>3, <2>3, SilentLocated
  <1>4. CASE \E f \in Frame : Silent(f)
    BY <1>3, <1>4 DEF Silent
  <1>5. CASE \E f \in Frame, tag \in IoTag : Reports(f, tag)
    <2>1. PICK f \in Frame, tag \in IoTag : Reports(f, tag)
      BY <1>5
    <2>2. LogGrows(Io(tag)) /\ Io(tag).ev = "io"
      BY <1>0, <2>1, EffectEvents DEF Io
    <2> QED BY <1>3, <2>1, <2>2 DEF Reports
  <1>6. CASE \E f \in Frame, b \in Binding : Binds(f, b)
    BY <1>6, BindsLocated
  <1>7. CASE \E f \in Frame, x \in Name, v \in Value : Writes(f, x, v)
    <2>1. PICK f \in Frame, x \in Name, v \in Value : Writes(f, x, v)
      BY <1>7
    <2>2. LogGrows([ev |-> "write", id |-> fr.id, name |-> x, value |-> v])
      BY <1>0, <2>1, EffectEvents
    <2> QED BY <1>3, <2>1, <2>2 DEF Writes
  <1>8. CASE \E f \in Frame : Asserts(f)
    <2>1. PICK f \in Frame : Asserts(f)
      BY <1>8
    <2>2. LogGrows([ev |-> "assert", id |-> fr.id])
      BY <1>0, <2>1, EffectEvents
    <2> QED BY <1>3, <2>1, <2>2 DEF Asserts
  <1>9. CASE \E c \in Frame, g \in FnName, args \in Seq(Value) : Enters(c, g, args)
    BY <1>9, EntersLocated
  <1>10. CASE FinishCall
    BY <1>10, FinishLocated
  <1> QED BY <1>1, <1>4, <1>5, <1>6, <1>7, <1>8, <1>9, <1>10 DEF Effect

----------------------------------------------------------------------------
(* The records follow the history *)

\* How many steps of its call an activation has written, counting the entry.
Place(a) == IF a.at = "open" THEN 0 ELSE a.bi + a.si + 1

RootId == IF stack # <<>> THEN stack[1].id ELSE done[Len(done)].id

\* The records show the history up to where the walk is in it.
Followed(P) ==
    /\ Extends(Recorded, Executed)
    /\ mode = "running" => Len(Recorded) = P[RootId][0]
    /\ mode # "running" /\ walk = <<>> => Len(Recorded) = Len(Executed)
    /\ walk # <<>> =>
           Len(Recorded) = P[done[walk[Len(walk)].trace].id][Place(walk[Len(walk)])]

LEMMA RecordsNext ==
    ASSUME NEW R, NEW R2, NEW E, NEW m, NEW v, Extends(R, E), Longer(R, R2, v), NextIs(E, Len(R), m, v)
    PROVE  Extends(R2, E) /\ Len(R2) = m
  <1>1. PICK n \in Nat : n = Len(R)
    BY DEF Extends
  <1>2. /\ Len(R2) = n + 1 /\ R2[n + 1] = v /\ m = n + 1 /\ E[n + 1] = v
        /\ \A k \in 1 .. n : R2[k] = R[k] /\ E[k] = R[k]
        /\ Len(E) \in Nat /\ n + 1 <= Len(E) /\ n + 1 \in Nat
    BY <1>1 DEF Extends, Longer, NextIs
  <1>3. \A k \in 1 .. n + 1 : k \in 1 .. n \/ k = n + 1
    OBVIOUS
  <1> QED BY <1>2, <1>3 DEF Extends

LEMMA ExtendsBoth ==
    ASSUME NEW R, NEW E, NEW F, Extends(R, E), Extends(E, F) PROVE Extends(R, F)
  BY DEF Extends

\* The records of an opening, a binding and a closing that are compared.
LEMMA OneCompared ==
    ASSUME NEW r \in StreamRecord
    PROVE  /\ <<r>> \in Seq(StreamRecord)
           /\ r \in Compared => Select(<<r>>, Compared) = <<r>>
           /\ r \notin Compared => Select(<<r>>, Compared) = <<>>
  <1>1. <<r>> \in Seq(StreamRecord) /\ Len(<<r>>) = 1 /\ <<r>>[1] = r
    OBVIOUS
  <1>2. PICK C : C = Compared
    OBVIOUS
  <1>3. r \in C => \A k \in 1 .. Len(<<r>>) : <<r>>[k] \in C
    BY <1>1
  <1>4. r \notin C => \A k \in 1 .. Len(<<r>>) : <<r>>[k] \notin C
    BY <1>1
  <1>5. r \in C => Select(<<r>>, C) = <<r>>
    BY <1>1, <1>3, SelectWhole
  <1>6. r \notin C => Select(<<r>>, C) = <<>>
    BY <1>1, <1>4, SelectNothing
  <1> QED BY <1>1, <1>2, <1>5, <1>6

LEMMA OpeningCompared ==
    ASSUME NEW c \in StreamRecord, NEW s \in StreamRecord, c \in Compared, s \notin Compared
    PROVE  <<c, s>> \in Seq(StreamRecord) /\ Select(<<c, s>>, Compared) = <<c>>
  <1>1. <<c>> \in Seq(StreamRecord) /\ <<c, s>> \in Seq(StreamRecord)
    OBVIOUS
  <1>2. <<c, s>> = Append(<<c>>, s)
    OBVIOUS
  <1>3. Select(<<c>>, Compared) = <<c>>
    BY OneCompared
  <1>4. PICK o \in Seq(StreamRecord) : o = <<c>>
    BY <1>1
  <1>5. Select(Append(o, s), Compared) = Select(o, Compared)
    BY SelectAppend
  <1> QED BY <1>1, <1>2, <1>3, <1>4, <1>5

LEMMA ClosingCompared ==
    ASSUME NEW t \in CallTrace, NEW entry \in BOOLEAN, NEW R, R = CloseRecords(t, entry)
    PROVE  /\ R \in Seq(StreamRecord)
           /\ Select(R, Compared) = IF entry THEN <<>> ELSE <<ReturnRecord(t)>>
  <1>1. PICK n \in Nat, m \in Nat : n = t.asserts /\ m = t.asserts + Len(t.ios)
    <2>1. t.asserts \in Nat /\ Len(t.ios) \in Nat
      BY ClosingRecords
    <2>2. t.asserts + Len(t.ios) \in Nat
      BY <2>1
    <2> QED BY <2>1, <2>2
  <1>2. /\ R \in Seq(StreamRecord)
        /\ Len(R) = m + (IF entry THEN 1 ELSE 2)
        /\ \A k \in 1 .. n : R[k] = AssertRecord(t)
        /\ \A k \in 1 .. Len(t.ios) : R[n + k] = IoRecord(t, t.ios[k])
        /\ R[m + 1] = StepRecord(t)
        /\ ~entry => R[m + 2] = ReturnRecord(t)
        /\ Len(t.ios) \in Nat
    BY <1>1, ClosingRecords
  <1>3. ASSUME NEW k \in 1 .. m + 1 PROVE R[k] \notin Compared
    <2>1. CASE k \in 1 .. n
      BY <1>2, <2>1 DEF AssertRecord, Compared
    <2>2. CASE k \in n + 1 .. m
      <3>1. PICK j \in 1 .. Len(t.ios) : k = n + j
        <4>1. k - n \in 1 .. Len(t.ios) /\ k = n + (k - n)
          BY <1>1, <1>2, <2>2
        <4> QED BY <4>1
      <3>2. R[k] = IoRecord(t, t.ios[j])
        BY <1>2, <3>1
      <3>3. R[k].rec = "event"
        BY <3>2 DEF IoRecord
      <3> QED BY <3>3 DEF Compared
    <2>3. CASE k = m + 1
      BY <1>2, <2>3 DEF StepRecord, Compared
    <2> QED BY <2>1, <2>2, <2>3
  <1>4. CASE entry
    <2>1. Len(R) = m + 1
      BY <1>2, <1>4
    <2>2. Select(R, Compared) = <<>>
      BY <1>2, <1>3, <2>1, SelectNothing
    <2> QED BY <1>2, <1>4, <2>2
  <1>5. CASE ~entry
    <2>1. Len(R) = m + 2 /\ R # <<>>
      BY <1>2, <1>5
    <2>2. PICK w \in Seq(StreamRecord), x \in StreamRecord : R = Append(w, x) /\ Len(R) = Len(w) + 1
      BY <1>2, <2>1, LastElement
    <2>3. Len(w) = m + 1 /\ (\A k \in 1 .. Len(w) : R[k] = w[k]) /\ R[Len(w) + 1] = x
      BY <2>1, <2>2, AppendElement
    <2>4. x = ReturnRecord(t)
      BY <1>2, <1>5, <2>1, <2>2, <2>3
    <2>5. x \in Compared
      BY <2>4 DEF Compared, ReturnRecord
    <2>6. Select(w, Compared) = <<>>
      BY <1>3, <2>3, SelectNothing
    <2>7. Select(R, Compared) = Append(<<>>, x)
      BY <2>2, <2>5, <2>6, SelectAppend
    <2> QED BY <1>2, <1>5, <2>4, <2>7
  <1> QED BY <1>4, <1>5

\* The outermost activation is main's, when main is recorded without a call.
LEMMA EntryHidden ==
    ASSUME HistoryInv, walk # <<>>
    PROVE  act.entry <=> emitted.id \notin CallId
  <1>1. PICK n \in Nat \ {0} : n = Len(walk)
    BY ActType DEF HistoryInv
  <1>2. act = walk[n] /\ act \in Activation /\ act.trace \in 1 .. Len(done) /\ emitted = done[act.trace]
    BY <1>1, ActType DEF HistoryInv, ActOK, act, emitted
  <1>3. act.entry <=> MainOnly /\ n = 1
    BY <1>1, <1>2 DEF HistoryInv, WalkNests
  <1>4. emitted.id \in Nat
    BY <1>2, ActType DEF HistoryInv, CallTrace
  <1>5. MainOnly => done[walk[1].trace].id = 1
    BY DEF HistoryInv, MainFirst
  <1>6. n # 1 => done[walk[1].trace].id < done[walk[n].trace].id
    <2> SUFFICES ASSUME n # 1 PROVE done[walk[1].trace].id < done[walk[n].trace].id
      OBVIOUS
    <2>1. 1 \in 1 .. n - 1 /\ n \in 1 .. n
      OBVIOUS
    <2> QED BY <1>1, <2>1 DEF HistoryInv, WalkNests
  <1>7. MainOnly => (emitted.id = 1 <=> n = 1)
    BY <1>2, <1>4, <1>5, <1>6
  <1> QED BY <1>3, <1>4, <1>7 DEF CallId

\* The emission moves no call.
LEMMA EmissionLocated ==
    ASSUME HistoryInv, NEW P, UNCHANGED evalVars
    PROVE  Executed' = Executed /\ CallId' = CallId /\ (Located(P) => Located(P)')
           /\ done' = done /\ stack' = stack
  <1>1. prog' = prog /\ stack' = stack /\ done' = done /\ log' = log
    BY DEF evalVars
  <1>2. CallId' = CallId /\ Executed' = Executed
    BY <1>1, ExecutedGrows DEF HistoryInv, LogTyped
  <1> QED BY <1>1, <1>2 DEF Located

\* Where the innermost activation and its call are.
LEMMA EmittedLies ==
    ASSUME HistoryInv, WalkSits, walk # <<>>, NEW P, Located(P), Followed(P)
    PROVE  /\ IsCall(emitted) /\ emitted \in CallTrace /\ act.trace \in 1 .. Len(done)
           /\ emitted = done[act.trace] /\ act \in Activation /\ ActOK(act) /\ Sits(act)
           /\ Begun(emitted, done, CallId, Executed, P) /\ Ended(emitted, CallId, Executed, P)
           /\ Len(Recorded) = P[emitted.id][Place(act)]
  <1>1. PICK n \in Nat \ {0} : n = Len(walk)
    BY ActType DEF HistoryInv
  <1>2. /\ act = walk[n] /\ act \in Activation /\ act.trace \in 1 .. Len(done)
        /\ emitted = done[act.trace] /\ emitted \in CallTrace /\ ActOK(act)
    BY <1>1, ActType DEF HistoryInv, ActOK, act, emitted
  <1>3. IsCall(emitted)
    BY <1>2, AreCalls DEF HistoryInv, WalkInv
  <1>4. Sits(act)
    BY <1>1, <1>2 DEF WalkSits
  <1>5. Begun(emitted, done, CallId, Executed, P) /\ Ended(emitted, CallId, Executed, P)
    BY <1>2 DEF Located
  <1>6. Len(Recorded) = P[emitted.id][Place(act)]
    BY <1>1, <1>2 DEF Followed
  <1> QED BY <1>2, <1>3, <1>4, <1>5, <1>6

\* When the activation goes on, it is enough to look at it.
LEMMA StaysFollows ==
    ASSUME HistoryInv, NEW P, NEW a \in Activation, Stays(a),
           Extends(Recorded', Executed'), Len(Recorded') = P[emitted.id][Place(a)]
    PROVE  Followed(P)'
  <1>1. /\ walk' \in Seq(Activation) /\ Len(walk') \in Nat \ {0} /\ walk'[Len(walk')] = a
    BY StaysWalk DEF HistoryInv
  <1>2. mode' = "emitting" /\ done' = done /\ a.trace = act.trace
    BY DEF Stays, evalVars
  <1>3. walk' # <<>> /\ done'[walk'[Len(walk')].trace].id = emitted.id
    BY <1>1, <1>2 DEF emitted
  <1> QED BY <1>1, <1>2, <1>3 DEF Followed

LEMMA OpenFollows ==
    ASSUME HistoryInv, WalkSits, OutTyped, OutTyped', NEW P, Located(P), Followed(P), OpenCall
    PROVE  Followed(P)'
  <1>1. walk # <<>> /\ act.at = "open"
    BY DEF OpenCall, At
  <1>2. PICK a \in Activation : Stays(a) /\ a.at = "bindings" /\ a.bi = act.bi /\ a.si = act.si
    BY EmissionMoves DEF HistoryInv
  <1>3. /\ emitted \in CallTrace /\ act \in Activation /\ Sits(act)
        /\ Begun(emitted, done, CallId, Executed, P)
        /\ Len(Recorded) = P[emitted.id][Place(act)]
    BY <1>1, EmittedLies
  <1>4. Place(act) = 0 /\ Place(a) = 1
    <2>1. act.bi = 0 /\ act.si = 0
      BY <1>1, <1>3 DEF Sits
    <2> QED BY <1>1, <1>2, <2>1 DEF Place
  <1>5. Executed' = Executed /\ Extends(Recorded, Executed)
    BY EmissionLocated DEF OpenCall, Followed
  <1>6. IsThere(CallId, Executed, emitted.id, Len(Recorded), P[emitted.id][1],
                <<"call", emitted.id, emitted.fn>>)
    BY <1>3, <1>4 DEF Begun
  <1>7. Extends(Recorded', Executed') /\ Len(Recorded') = P[emitted.id][1]
    <2>1. CASE act.entry
      <3>1. out' = out
        <4>1. out' = out \o <<>>
          BY <2>1 DEF OpenCall, Write
        <4> QED BY <4>1, ConcatOne DEF OutTyped
      <3>2. Recorded' = Recorded
        BY <3>1, RecordedGrows
      <3>3. emitted.id \notin CallId
        BY <1>1, <2>1, EntryHidden
      <3> QED BY <1>5, <1>6, <3>2, <3>3 DEF IsThere
    <2>2. CASE ~act.entry
      <3>1. PICK c : c = [rec |-> "call", id |-> emitted.id, fn |-> emitted.fn, args |-> act.args]
        OBVIOUS
      <3>2. PICK s : s = [rec |-> "entry_step", id |-> emitted.id]
        OBVIOUS
      <3>3. emitted.id \in Nat /\ emitted.fn \in FnName /\ act.args \in Seq(Value)
        BY <1>3 DEF CallTrace, Activation
      <3>4. c \in StreamRecord
        BY <3>1, <3>3 DEF StreamRecord
      <3>5. s \in StreamRecord
        BY <3>2, <3>3 DEF StreamRecord
      <3>6. c \in Compared /\ s \notin Compared
        BY <3>1, <3>2, <3>4 DEF Compared
      <3>7. PICK R \in Seq(StreamRecord) : R = <<c, s>>
        <4>1. <<c, s>> \in Seq(StreamRecord)
          BY <3>4, <3>5, <3>6, OpeningCompared
        <4> QED BY <4>1
      <3>8. Select(R, Compared) = <<c>>
        BY <3>4, <3>5, <3>6, <3>7, OpeningCompared
      <3>9. out' = out \o R
        BY <2>2, <3>1, <3>2, <3>7 DEF OpenCall, Write
      <3>10. Longer(Recorded, Recorded', OutView(c))
        BY <3>4, <3>8, <3>9, RecordedGrows
      <3>11. OutView(c) = <<"call", emitted.id, emitted.fn>>
        BY <3>1 DEF OutView
      <3>12. emitted.id \in CallId
        BY <1>1, <2>2, EntryHidden
      <3>13. NextIs(Executed, Len(Recorded), P[emitted.id][1], <<"call", emitted.id, emitted.fn>>)
        BY <1>6, <3>12 DEF IsThere
      <3> QED BY <1>5, <3>10, <3>11, <3>13, RecordsNext
    <2> QED BY <2>1, <2>2
  <1> QED BY <1>2, <1>4, <1>7, StaysFollows

LEMMA BindingFollows ==
    ASSUME HistoryInv, HistoryInv', WalkSits, OutTyped, OutTyped', NEW P, Located(P), Followed(P),
           EmitBinding
    PROVE  Followed(P)'
  <1>1. walk # <<>> /\ act.at = "bindings" /\ act.bi < Len(emitted.bindings)
    BY DEF EmitBinding, At
  <1>2. PICK a \in Activation : Stays(a) /\ a.at = "bindings" /\ a.bi = act.bi + 1 /\ a.si = act.si
    BY EmissionMoves DEF HistoryInv
  <1>3. /\ emitted \in CallTrace /\ act \in Activation /\ Sits(act) /\ ActOK(act) /\ IsCall(emitted)
        /\ Begun(emitted, done, CallId, Executed, P)
        /\ Len(Recorded) = P[emitted.id][Place(act)] /\ emitted = done[act.trace]
    BY <1>1, EmittedLies
  <1>4. PICK bi \in Nat, si \in Nat : bi = act.bi /\ si = act.si
    BY <1>3 DEF Activation
  <1>5. Place(act) = (bi + 1) + si /\ Place(a) = (bi + 1) + si + 1
    BY <1>1, <1>2, <1>4 DEF Place
  <1>6. Executed' = Executed /\ Extends(Recorded, Executed) /\ done' = done
    BY EmissionLocated DEF EmitBinding, Followed
  <1>7. bi + 1 \in 1 .. Len(emitted.bindings) /\ si \in 0 .. Len(emitted.subs)
    <2>1. Len(emitted.bindings) \in Nat /\ Len(emitted.subs) \in Nat
      BY <1>3, StepsType
    <2>2. si <= Len(emitted.subs)
      BY <1>3, <1>4 DEF ActOK
    <2> QED BY <1>1, <1>4, <2>1, <2>2
  <1>8. Before(emitted, bi + 1, si)
    <2>1. \A j \in 1 .. si : emitted.subs[j].after < bi + 1
      <3> TAKE j \in 1 .. si
      <3>1. emitted.subs[j].after <= bi
        BY <1>3, <1>4 DEF Sits
      <3>2. j \in 1 .. Len(emitted.subs)
        BY <1>7
      <3>3. emitted.subs[j].after \in Nat
        BY <1>3, <3>2, StepsType
      <3> QED BY <3>1, <3>3
    <2>2. \A j \in si + 1 .. Len(emitted.subs) : emitted.subs[j].after >= bi + 1
      <3>1. walk' \in Seq(Activation) /\ Len(walk') \in Nat \ {0} /\ walk'[Len(walk')] = a
        BY <1>2, StaysWalk DEF HistoryInv
      <3>2. ActOK(a)'
        BY <3>1 DEF HistoryInv, WalkInv
      <3>3. \A j \in (a.si + 1) .. Len(done'[a.trace].subs) : done'[a.trace].subs[j].after >= a.bi
        BY <3>2 DEF ActOK
      <3>4. done'[a.trace] = emitted
        BY <1>2, <1>3, <1>6 DEF Stays
      <3> QED BY <1>2, <1>4, <3>3, <3>4
    <2> QED BY <2>1, <2>2 DEF Before
  <1>9. PICK b \in Binding : b = emitted.bindings[bi + 1]
    BY <1>3, <1>7 DEF IsCall
  <1>10. NextIs(Executed, P[emitted.id][(bi + 1) + si], P[emitted.id][(bi + 1) + si + 1],
                <<"bind", emitted.id, b.line>>)
    BY <1>3, <1>7, <1>8, <1>9 DEF Begun, BindingsFit
  <1>11. PICK r : r = [rec |-> "bind", id |-> emitted.id, name |-> b.name, line |-> b.line,
                       mutable |-> b.mutable, value |-> b.value]
    OBVIOUS
  <1>12. r \in StreamRecord
    <2>1. emitted.id \in Nat
      BY <1>3 DEF CallTrace
    <2>2. b.name \in Name /\ b.line \in Line /\ b.mutable \in BOOLEAN /\ b.value \in Value
      BY DEF Binding
    <2> QED BY <1>11, <2>1, <2>2 DEF StreamRecord
  <1>13. r \in Compared /\ OutView(r) = <<"bind", emitted.id, b.line>>
    BY <1>11, <1>12 DEF Compared, OutView
  <1>14. out' = out \o <<r>>
    BY <1>4, <1>9, <1>11 DEF EmitBinding, Write
  <1>15. <<r>> \in Seq(StreamRecord) /\ Select(<<r>>, Compared) = <<r>>
    BY <1>12, <1>13, OneCompared
  <1>16. Longer(Recorded, Recorded', OutView(r))
    BY <1>12, <1>14, <1>15, RecordedGrows
  <1>17. Extends(Recorded', Executed') /\ Len(Recorded') = P[emitted.id][Place(a)]
    <2>1. PICK m : m = P[emitted.id][Place(a)]
      OBVIOUS
    <2>2. NextIs(Executed, Len(Recorded), m, OutView(r))
      BY <1>3, <1>5, <1>10, <1>13, <2>1
    <2> QED BY <1>6, <1>16, <2>1, <2>2, RecordsNext
  <1> QED BY <1>2, <1>17, StaysFollows

\* The end of the binding loop writes nothing.
LEMMA EndFollows ==
    ASSUME HistoryInv, WalkSits, OutTyped, OutTyped', NEW P, Located(P), Followed(P), EndBindings
    PROVE  Followed(P)'
  <1>1. walk # <<>>
    BY DEF EndBindings, At
  <1>2. PICK a \in Activation :
            Stays(a) /\ act.at = "bindings" /\ a.at = "trailing" /\ a.bi = act.bi /\ a.si = act.si
            /\ UNCHANGED out
    BY EmissionMoves DEF HistoryInv
  <1>3. Place(a) = Place(act)
    BY <1>2 DEF Place
  <1>4. Executed' = Executed /\ Extends(Recorded, Executed) /\ Recorded' = Recorded
    BY <1>2, EmissionLocated, RecordedGrows DEF EndBindings, Followed
  <1>5. Len(Recorded) = P[emitted.id][Place(act)]
    BY <1>1, EmittedLies
  <1> QED BY <1>2, <1>3, <1>4, <1>5, StaysFollows

\* The next sub-call begins where the walk is.
LEMMA DescendsFollows ==
    ASSUME HistoryInv, WalkSits, OutTyped, OutTyped', NEW P, Located(P), Followed(P),
           EmitSubCall \/ EmitTrailingSubCall
    PROVE  Followed(P)'
  <1>1. Descends /\ nextSub.after = act.bi /\ walk # <<>> /\ act.si < Len(emitted.subs)
    BY EmissionMoves, DescendsHere DEF HistoryInv, Descends
  <1>2. /\ emitted \in CallTrace /\ act \in Activation
        /\ Begun(emitted, done, CallId, Executed, P)
        /\ Len(Recorded) = P[emitted.id][Place(act)]
    BY <1>1, EmittedLies
  <1>3. PICK bi \in Nat, si \in Nat : bi = act.bi /\ si = act.si
    BY <1>2 DEF Activation
  <1>4. Place(act) = bi + (si + 1)
    <2>1. Place(act) = act.bi + act.si + 1
      BY <1>1 DEF Place, Descends
    <2> QED BY <1>3, <2>1
  <1>5. si + 1 \in 1 .. Len(emitted.subs) /\ nextSub = emitted.subs[si + 1]
    BY <1>1, <1>3, NextSubParts DEF nextSub, HistoryInv
  <1>6. P[emitted.id][bi + (si + 1)] = P[done[nextSub.trace].id][0]
    <2>1. P[emitted.id][nextSub.after + (si + 1)] = P[done[nextSub.trace].id][0]
      BY <1>2, <1>5 DEF Begun, SubsFit
    <2> QED BY <1>1, <1>3, <2>1
  <1>7. /\ Len(walk') = Len(walk) + 1 /\ walk'[Len(walk) + 1] = Pushed /\ Len(walk) \in Nat
        /\ Pushed.at = "open" /\ Pushed.trace = nextSub.trace
    BY <1>1, DescendsWalk, NextSubParts DEF HistoryInv
  <1>8. Place(Pushed) = 0 /\ walk' # <<>>
    <2>1. Len(walk') # 0
      BY <1>7
    <2> QED BY <1>7, <2>1 DEF Place
  <1>9. UNCHANGED evalVars /\ out' = out /\ mode' = mode /\ mode = "emitting"
    BY <1>1 DEF Descends
  <1>10. Executed' = Executed /\ done' = done /\ Recorded' = Recorded /\ Extends(Recorded, Executed)
    BY <1>9, EmissionLocated, RecordedGrows DEF Followed
  <1>11. Len(Recorded') = P[done'[walk'[Len(walk')].trace].id][Place(walk'[Len(walk')])]
    BY <1>2, <1>4, <1>6, <1>7, <1>8, <1>10
  <1> QED BY <1>8, <1>9, <1>10, <1>11 DEF Followed

\* The return is written where the call is left, and there its caller goes on.
LEMMA CloseFollows ==
    ASSUME HistoryInv, WalkSits, OutTyped, OutTyped', NEW P, Located(P), Followed(P), CloseCall
    PROVE  Followed(P)'
  <1>1. /\ walk # <<>> /\ act.at = "trailing" /\ act.si = Len(emitted.subs) /\ mode = "emitting"
        /\ Write(CloseRecords(emitted, act.entry)) /\ UNCHANGED <<evalVars, entries, mode>>
    BY ClosesWalk DEF HistoryInv
  <1>2. /\ emitted \in CallTrace /\ act \in Activation /\ Sits(act) /\ emitted = done[act.trace]
        /\ Ended(emitted, CallId, Executed, P) /\ IsCall(emitted)
        /\ Len(Recorded) = P[emitted.id][Place(act)]
    BY <1>1, EmittedLies
  <1>3. PICK n \in Nat : n = Steps(emitted)
    BY <1>2, StepsType
  <1>4. Place(act) = n + 1
    <2>1. act.bi = Len(emitted.bindings)
      BY <1>1, <1>2 DEF Sits
    <2> QED BY <1>1, <1>3, <2>1 DEF Place, Steps
  <1>5. UNCHANGED evalVars /\ mode' = mode
    BY <1>1
  <1>6. Executed' = Executed /\ done' = done /\ stack' = stack /\ Extends(Recorded, Executed)
    BY <1>5, EmissionLocated DEF Followed
  <1>7. PICK w : w = P[emitted.id][n + 2]
    OBVIOUS
  <1>8. IsThere(CallId, Executed, emitted.id, Len(Recorded), w, <<"return", emitted.id, emitted.rv>>)
    BY <1>2, <1>3, <1>4, <1>7 DEF Ended
  <1>9. PICK R : R = CloseRecords(emitted, act.entry)
    OBVIOUS
  <1>10. /\ R \in Seq(StreamRecord) /\ act.entry \in BOOLEAN
         /\ Select(R, Compared) = IF act.entry THEN <<>> ELSE <<ReturnRecord(emitted)>>
    <2>1. act.entry \in BOOLEAN
      BY <1>2 DEF Activation
    <2> QED BY <1>2, <1>9, <2>1, ClosingCompared
  <1>11. out' = out \o R
    BY <1>1, <1>9 DEF Write
  <1>12. Extends(Recorded', Executed') /\ Len(Recorded') = w
    <2>1. CASE act.entry
      <3>1. Recorded' = Recorded
        BY <1>10, <1>11, <2>1, RecordedGrows
      <3>2. emitted.id \notin CallId
        BY <1>1, <2>1, EntryHidden
      <3> QED BY <1>6, <1>8, <3>1, <3>2 DEF IsThere
    <2>2. CASE ~act.entry
      <3>1. ReturnRecord(emitted) \in StreamRecord
        <4>1. emitted.id \in Nat /\ emitted.rv \in Value
          BY <1>2 DEF CallTrace
        <4> QED BY <4>1 DEF ReturnRecord, StreamRecord
      <3>2. PICK r \in StreamRecord : r = ReturnRecord(emitted)
        BY <3>1
      <3>3. Longer(Recorded, Recorded', OutView(r))
        BY <1>10, <1>11, <2>2, <3>2, RecordedGrows
      <3>4. OutView(r) = <<"return", emitted.id, emitted.rv>>
        BY <3>2 DEF OutView, ReturnRecord
      <3>5. emitted.id \in CallId
        BY <1>1, <2>2, EntryHidden
      <3>6. NextIs(Executed, Len(Recorded), w, <<"return", emitted.id, emitted.rv>>)
        BY <1>8, <3>5 DEF IsThere
      <3> QED BY <1>6, <3>3, <3>4, <3>6, RecordsNext
    <2> QED BY <2>1, <2>2
  <1>13. PICK l \in Nat : l = Len(walk) - 1
    <2>1. Len(walk) - 1 \in Nat
      BY ClosesWalk DEF HistoryInv
    <2> QED BY <2>1
  <1>14. /\ Len(walk) = l + 1 /\ Len(walk') = l /\ act = walk[l + 1] /\ walk' \in Seq(Activation)
         /\ \A k \in 1 .. l : walk'[k] = walk[k]
    BY <1>13, ClosesWalk DEF HistoryInv
  <1>15. CASE l = 0
    <2>1. walk' = <<>> /\ stack' = <<>> /\ done # <<>>
      <3>1. walk' = <<>>
        BY <1>14, <1>15
      <3>2. stack = <<>>
        BY <1>1 DEF HistoryInv, WalkNests
      <3>3. act.trace \in 1 .. Len(done)
        BY <1>1, EmittedLies
      <3>4. done # <<>>
        <4>1. CASE done = <<>>
          <5>1. Len(done) = 0
            BY <4>1
          <5> QED BY <3>3, <5>1
        <4> QED BY <4>1
      <3> QED BY <1>6, <3>1, <3>2, <3>4
    <2>2. emitted = done[Len(done)]
      BY <1>1, <1>2, <1>14, <1>15 DEF HistoryInv, WalkNests
    <2>3. w = Len(Executed)
      BY <1>3, <1>6, <1>7, <2>1, <2>2 DEF Located
    <2> QED BY <1>1, <1>5, <1>6, <1>12, <2>1, <2>3 DEF Followed
  <1>16. CASE l # 0
    <2>1. PICK a : a = walk[l]
      OBVIOUS
    <2>2. l \in 1 .. l /\ l \in 1 .. Len(walk) - 1 /\ l \in 1 .. Len(walk) /\ l \in Nat \ {0}
      BY <1>14, <1>16
    <2>3. a.at # "open" /\ ActOK(a) /\ WaitsFor(a, act) /\ a \in Activation
      <3>1. a \in Activation
        BY <2>1, <2>2 DEF HistoryInv, WalkInv
      <3>2. a.at # "open" /\ ActOK(a)
        BY <2>1, <2>2 DEF HistoryInv, WalkInv, WalkNests
      <3>3. WaitsFor(a, act)
        BY <1>14, <2>1, <2>2 DEF WalkSits
      <3> QED BY <3>1, <3>2, <3>3
    <2>4. PICK c : c = done[a.trace]
      OBVIOUS
    <2>5. PICK bi \in Nat, si \in Nat : bi = a.bi /\ si = a.si
      BY <2>3 DEF Activation
    <2>6. Begun(c, done, CallId, Executed, P) /\ IsCall(c)
      BY <2>3, <2>4, AreCalls DEF Located, ActOK, HistoryInv, WalkInv
    <2>7. si \in 1 .. Len(c.subs) /\ c.subs[si].after = bi /\ c.subs[si].trace = act.trace
      <3>1. Len(c.subs) \in Nat
        BY <2>6, StepsType
      <3>2. si <= Len(c.subs) /\ si > 0
        BY <2>3, <2>4, <2>5 DEF ActOK, WaitsFor
      <3> QED BY <2>3, <2>4, <2>5, <3>1, <3>2 DEF WaitsFor
    <2>8. P[c.id][bi + si + 1] = w
      <3>1. P[c.id][c.subs[si].after + si + 1]
            = P[done[c.subs[si].trace].id][Steps(done[c.subs[si].trace]) + 2]
        BY <2>6, <2>7 DEF Begun, SubsFit
      <3> QED BY <1>2, <1>3, <1>7, <2>7, <3>1
    <2>9. Place(a) = bi + si + 1
      BY <2>3, <2>5 DEF Place
    <2>10. walk' # <<>> /\ walk'[Len(walk')] = a
      <3>1. Len(walk') # 0
        BY <1>14, <1>16
      <3> QED BY <1>14, <2>1, <2>2, <3>1
    <2>11. Len(Recorded') = P[done'[walk'[Len(walk')].trace].id][Place(walk'[Len(walk')])]
      BY <1>6, <1>12, <2>4, <2>8, <2>9, <2>10
    <2> QED BY <1>1, <1>5, <1>12, <2>10, <2>11 DEF Followed
  <1> QED BY <1>15, <1>16

\* The history only grows.
LEMMA HistoryExtends ==
    ASSUME HistoryInv, EvalStep PROVE Extends(Executed, Executed')
  <1>0. EvalInv /\ CallsNumbered /\ LogTyped /\ log \in Seq(Event)
    BY DEF HistoryInv, WalkInv, LogTyped
  <1>1. Effect /\ prog' = prog
    BY <1>0, StepEffect, StepNumbered
  <1>2. log' = log \/ \E e : LogGrows(e)
    BY <1>0, <1>1, EffectEvents DEF Effect
  <1>3. Len(Executed) \in Nat /\ Extends(Executed, Executed)
    BY <1>0, <1>1, ExecutedGrows DEF Extends
  <1>4. CASE log' = log
    BY <1>0, <1>1, <1>3, <1>4, ExecutedGrows
  <1>5. CASE \E e : LogGrows(e)
    <2>1. PICK e : LogGrows(e)
      BY <1>5
    <2>2. Longer(Executed, Executed', LogView(e)) \/ Executed' = Executed
      BY <1>0, <1>1, <2>1, ExecutedGrows
    <2> QED BY <1>3, <2>2, Longer1
  <1> QED BY <1>2, <1>4, <1>5

\* A run starts with the records at its end of the history.
LEMMA DispatchFollows ==
    ASSUME HistoryInv, OutTyped, OutTyped', NEW P \in Positions, Located(P), Followed(P), DispatchEntry
    PROVE  \E P2 \in Positions : Located(P2)' /\ Followed(P2)'
  <1>1. PICK P2 \in Positions :
            Located(P2)' /\ Keeps(P, P2) /\ P2[stack'[1].id][0] = Len(Executed) /\ stack' # <<>>
    BY DispatchLocated
  <1>2. /\ out' = out /\ walk' = walk /\ mode = "idle" /\ mode' = "running" /\ prog' = prog
        /\ calls \in Nat /\ entryFn \in FnName
        /\ LogGrows([ev |-> "enter", id |-> calls + 1, fn |-> entryFn])
    BY DispatchStarts
  <1>3. walk = <<>>
    BY <1>2 DEF HistoryInv, WalkInv
  <1>4. Recorded' = Recorded /\ Extends(Recorded, Executed) /\ Len(Recorded) = Len(Executed)
    BY <1>2, <1>3, RecordedGrows DEF Followed
  <1>5. Extends(Executed, Executed')
    BY <1>2, NewPositions
  <1>6. Extends(Recorded', Executed')
    BY <1>4, <1>5, ExtendsBoth
  <1>7. RootId' = stack'[1].id
    BY <1>1 DEF RootId
  <1>8. Followed(P2)'
    BY <1>1, <1>2, <1>3, <1>4, <1>6, <1>7 DEF Followed
  <1> QED BY <1>1, <1>8

\* While it runs, the records stay where it began.
LEMMA EvaluateFollows ==
    ASSUME HistoryInv, OutTyped, OutTyped', NEW P \in Positions, Located(P), Followed(P), Evaluate
    PROVE  \E P2 \in Positions : Located(P2)' /\ Followed(P2)'
  <1>1. /\ mode = "running" /\ EvalStep /\ mode' = mode /\ walk' = walk /\ out' = out /\ walk = <<>>
        /\ EvalInv /\ log \in Seq(Event)
    BY DEF Evaluate, emitVars, HistoryInv, WalkInv, LogTyped
  <1>2. PICK P2 \in Positions : Located(P2)' /\ Keeps(P, P2)
    BY <1>1, EvalStepLocated
  <1>3. Recorded' = Recorded /\ Extends(Recorded, Executed) /\ Len(Recorded) = P[RootId][0]
    BY <1>1, RecordedGrows DEF Followed
  <1>4. Extends(Recorded', Executed')
    BY <1>1, <1>3, HistoryExtends, ExtendsBoth
  <1>5. stack # <<>> /\ RootId = stack[1].id /\ RootId' = stack[1].id
    BY <1>1, RootKept DEF RootId
  <1>6. P2[stack[1].id][0] = P[stack[1].id][0]
    <2>1. Len(stack) \in Nat \ {0} /\ 1 \in 1 .. Len(stack)
      BY <1>1, <1>5, AreCalls
    <2>2. Steps(stack[1]) \in Nat
      BY <1>1, <2>1, AreCalls, StepsType
    <2>3. 0 \in 0 .. Steps(stack[1]) + 1
      BY <2>2
    <2> QED BY <1>2, <2>1, <2>3 DEF Keeps
  <1>7. Followed(P2)'
    BY <1>1, <1>3, <1>4, <1>5, <1>6 DEF Followed
  <1> QED BY <1>2, <1>7

\* The walk begins where the run did.
LEMMA BeginFollows ==
    ASSUME HistoryInv, OutTyped, OutTyped', NEW P, Located(P), Followed(P), BeginEmission
    PROVE  Followed(P)'
  <1>1. PICK a : a = Opening(Len(done), EntryArgs(entryFn), MainOnly)
    OBVIOUS
  <1>2. /\ walk' = <<a>> /\ a.at = "open" /\ a.trace = Len(done) /\ mode = "running" /\ mode' = "emitting"
        /\ stack = <<>> /\ UNCHANGED evalVars /\ out' = out
    BY <1>1 DEF BeginEmission, Opening
  <1>3. Executed' = Executed /\ done' = done /\ Recorded' = Recorded /\ Extends(Recorded, Executed)
    BY <1>2, EmissionLocated, RecordedGrows DEF Followed
  <1>4. Len(Recorded) = P[done[Len(done)].id][0]
    BY <1>2 DEF Followed, RootId
  <1>5. Len(walk') = 1 /\ walk'[1] = a /\ walk' # <<>> /\ Place(a) = 0
    BY <1>2 DEF Place
  <1>6. Len(Recorded') = P[done'[walk'[Len(walk')].trace].id][Place(walk'[Len(walk')])]
    BY <1>2, <1>3, <1>4, <1>5
  <1> QED BY <1>2, <1>3, <1>5, <1>6 DEF Followed

LEMMA RestFollows ==
    ASSUME HistoryInv, OutTyped, OutTyped', NEW P, Located(P), Followed(P),
           EndEmission \/ UNCHANGED vars
    PROVE  Followed(P)'
  <1>1. UNCHANGED evalVars /\ out' = out /\ walk' = walk
    BY DEF EndEmission, vars
  <1>2. /\ Executed' = Executed /\ done' = done /\ stack' = stack /\ Recorded' = Recorded
        /\ Extends(Recorded, Executed)
    BY <1>1, EmissionLocated, RecordedGrows DEF Followed
  <1>3. (mode' = mode) \/ (mode = "emitting" /\ mode' = "idle" /\ walk = <<>>)
    BY DEF EndEmission, vars
  <1>4. RootId' = RootId
    BY <1>2 DEF RootId
  <1> QED BY <1>1, <1>2, <1>3, <1>4 DEF Followed, Place

Follows == \E P \in Positions : Located(P) /\ Followed(P)

LEMMA NextFollows ==
    HistoryInv /\ WalkSits /\ OutTyped /\ Follows /\ [Next]_vars => Follows'
  <1> SUFFICES ASSUME HistoryInv, WalkSits, OutTyped, Follows, [Next]_vars PROVE Follows'
    OBVIOUS
  <1>1. PICK P \in Positions : Located(P) /\ Followed(P)
    BY DEF Follows
  <1>2. HistoryInv' /\ OutTyped'
    BY NextHistory, StreamStep
  <1>3. CASE DispatchEntry
    BY <1>1, <1>2, <1>3, DispatchFollows DEF Follows
  <1>4. CASE Evaluate
    BY <1>1, <1>2, <1>4, EvaluateFollows DEF Follows
  <1>5. ASSUME UNCHANGED evalVars, Followed(P)' PROVE Follows'
    BY <1>1, <1>5, EmissionLocated DEF Follows
  <1>6. CASE BeginEmission
    <2>1. UNCHANGED evalVars
      BY <1>6 DEF BeginEmission
    <2> QED BY <1>1, <1>2, <1>5, <1>6, <2>1, BeginFollows
  <1>7. CASE EndEmission \/ UNCHANGED vars
    <2>1. UNCHANGED evalVars
      BY <1>7 DEF EndEmission, vars
    <2> QED BY <1>1, <1>2, <1>5, <1>7, <2>1, RestFollows
  <1>8. CASE EmitCallTrace
    <2>1. UNCHANGED evalVars
      BY <1>8 DEF EmitCallTrace, OpenCall, EmitSubCall, EmitBinding, EndBindings, EmitTrailingSubCall,
                  Descend, CloseCall
    <2>2. Followed(P)'
      BY <1>1, <1>2, <1>8, OpenFollows, BindingFollows, EndFollows, DescendsFollows, CloseFollows
      DEF EmitCallTrace
    <2> QED BY <1>5, <2>1, <2>2
  <1> QED BY <1>3, <1>4, <1>6, <1>7, <1>8 DEF Next, Stutter

\* Nothing is executed and nothing recorded.
LEMMA InitFollows == ASSUME Init PROVE Follows
  <1>1. stack = <<>> /\ done = <<>> /\ log = <<>> /\ mode = "idle" /\ walk = <<>> /\ out = <<>>
    BY DEF Init, EvalInit
  <1>2. PICK P : P = [i \in Nat |-> [m \in Nat |-> 0]]
    OBVIOUS
  <1>3. P \in Positions
    BY <1>2 DEF Positions
  <1>4. Len(stack) = 0 /\ Len(done) = 0
    BY <1>1
  <1>5. Located(P)
    BY <1>1, <1>4 DEF Located
  <1>6. Len(Executed) = 0
    <2>1. Select(log, Shown) = <<>>
      BY <1>1, SelectEmpty
    <2> QED BY <2>1 DEF Executed
  <1>7. Len(Recorded) = 0
    <2>1. Select(out, ComparedIn(out)) = <<>>
      BY <1>1, SelectEmpty
    <2> QED BY <2>1, RecordedIs DEF OutViews
  <1>8. Followed(P)
    BY <1>1, <1>6, <1>7 DEF Followed, Extends
  <1> QED BY <1>3, <1>5, <1>8 DEF Follows

LEMMA FollowsExecution == HistoryInv /\ OutTyped /\ Follows => EmissionFollowsExecution
  <1> SUFFICES ASSUME HistoryInv, OutTyped, Follows PROVE EmissionFollowsExecution
    OBVIOUS
  <1>1. PICK P \in Positions : Followed(P)
    BY DEF Follows
  <1>2. PICK r \in Nat, e \in Nat : r = Len(Recorded) /\ e = Len(Executed)
    BY <1>1 DEF Followed, Extends
  <1>3. r <= e /\ \A k \in 1 .. r : Executed[k] = Recorded[k]
    BY <1>1, <1>2 DEF Followed, Extends
  <1>4. Recorded = [k \in 1 .. r |-> Recorded[k]] /\ Executed = [k \in 1 .. e |-> Executed[k]]
    <2>1. PICK S : S = Select(log, Shown)
      OBVIOUS
    <2>2. Executed = [k \in 1 .. Len(S) |-> LogView(S[k])]
      BY <2>1 DEF Executed, LogView
    <2>3. S \in Seq(Event) /\ Len(S) \in Nat
      BY <2>1, SelectType DEF HistoryInv, LogTyped
    <2>4. e = Len(S)
      BY <1>2, <2>2, <2>3
    <2>5. PICK T : T = Select(out, ComparedIn(out))
      OBVIOUS
    <2>6. Recorded = [k \in 1 .. Len(T) |-> OutView(T[k])]
      BY <2>5, RecordedIs DEF OutViews
    <2>7. Len(T) \in Nat
      BY <2>5, ComparedOf DEF OutTyped
    <2>8. r = Len(T)
      BY <1>2, <2>6, <2>7
    <2> QED BY <2>2, <2>4, <2>6, <2>8
  <1>5. PICK R, E : R = Recorded /\ E = Executed
    OBVIOUS
  <1>6. IsPrefix(R, E)
    <2>1. PICK S : S = {E[k] : k \in 1 .. e}
      OBVIOUS
    <2>2. \A k \in 1 .. r : R[k] = E[k] /\ k \in 1 .. e
      BY <1>2, <1>3, <1>5
    <2>3. E \in Seq(S) /\ R \in Seq(S) /\ Len(R) = r /\ Len(E) = e
      <3>1. Len(R) = r /\ Len(E) = e
        BY <1>2, <1>5
      <3>2. \A k \in 1 .. e : E[k] \in S
        BY <2>1
      <3>3. \A k \in 1 .. r : R[k] \in S
        BY <2>2, <3>2
      <3>4. R = [k \in 1 .. r |-> R[k]] /\ E = [k \in 1 .. e |-> E[k]]
        BY <1>4, <1>5
      <3>5. R \in [1 .. r -> S]
        BY <3>3, <3>4
      <3>6. E \in [1 .. e -> S]
        BY <3>2, <3>4
      <3> QED BY <1>2, <3>1, <3>5, <3>6, SeqDef
    <2>4. PICK p, q : p = SubSeq(R, 1, r) /\ q = SubSeq(E, 1, r)
      OBVIOUS
    <2>5. Len(p) = r /\ p \in Seq(S) /\ \A k \in 1 .. r : p[k] = R[k]
      BY <1>2, <2>3, <2>4
    <2>6. Len(q) = r /\ q \in Seq(S) /\ \A k \in 1 .. r : q[k] = E[k]
      BY <1>2, <1>3, <2>2, <2>3, <2>4
    <2>7. p = q
      BY <2>2, <2>5, <2>6
    <2> QED BY <1>3, <2>3, <2>4, <2>7 DEF IsPrefix
  <1>7. Finished => r = e
    <2>1. Finished => mode = "idle" /\ walk = <<>>
      BY DEF Finished, HistoryInv, WalkInv
    <2> QED BY <1>1, <1>2, <2>1 DEF Followed
  <1>8. r = e => R = E
    BY <1>3, <1>4, <1>5
  <1> QED BY <1>5, <1>6, <1>7, <1>8 DEF EmissionFollowsExecution

\* Calls, bindings and returns are recorded in the order in which they were
\* executed, each exactly once: what emit_call_trace has written is always a
\* prefix of the history, and all of it when the recording is done.
THEOREM EmissionFollows == Spec => []EmissionFollowsExecution
  <1>1. Init => HistoryInv /\ OutTyped /\ WalkSits /\ Follows
    <2>1. Init => WalkSits
      <3> SUFFICES ASSUME Init PROVE WalkSits
        OBVIOUS
      <3>1. Len(walk) = 0
        BY DEF Init
      <3> QED BY <3>1 DEF WalkSits
    <2> QED BY <2>1, InitHistory, StreamInit, InitFollows
  <1>2. HistoryInv /\ OutTyped /\ WalkSits /\ Follows /\ [Next]_vars
        => HistoryInv' /\ OutTyped' /\ WalkSits' /\ Follows'
    BY NextHistory, StreamStep, NextSits, NextFollows
  <1>3. HistoryInv /\ OutTyped /\ Follows => EmissionFollowsExecution
    BY FollowsExecution
  <1> QED BY <1>1, <1>2, <1>3, PTL DEF Spec

----------------------------------------------------------------------------
(* No call ends twice *)

IsReturn(v, id) == v[1] = "return" /\ v[2] = id

Ends(id) == \E d \in 1 .. Len(done) : done[d].id = id

\* A call leaves one CallTrace, and returns once, in the history.
EndsOnce ==
    /\ \A i, j \in 1 .. Len(done) : done[i].id = done[j].id => i = j
    /\ \A i \in 1 .. Len(Executed) : \A id : IsReturn(Executed[i], id) => Ends(id)
    /\ \A i, j \in 1 .. Len(Executed) : \A id :
           IsReturn(Executed[i], id) /\ IsReturn(Executed[j], id) => i = j

\* A call ends by its last event.
LEMMA EndsStay ==
    ASSUME HistoryInv, [Next]_vars, NEW id, Ends(id) PROVE Ends(id)'
  <1>1. /\ Len(done) \in Nat /\ Len(done') \in Nat /\ Len(done) <= Len(done')
        /\ \A k \in 1 .. Len(done) : done'[k] = done[k]
    BY DoneGrows
  <1>2. \A k \in 1 .. Len(done) : k \in 1 .. Len(done')
    BY <1>1
  <1> QED BY <1>1, <1>2 DEF Ends

LEMMA OtherEnds ==
    ASSUME EndsOnce, UNCHANGED done, Len(Executed) \in Nat,
           \/ Executed' = Executed
           \/ \E v : Longer(Executed, Executed', v) /\ v[1] # "return"
    PROVE  EndsOnce'
  <1>1. CASE Executed' = Executed
    BY <1>1 DEF EndsOnce, Ends
  <1>2. CASE \E v : Longer(Executed, Executed', v) /\ v[1] # "return"
    <2>1. PICK n \in Nat : n = Len(Executed)
      OBVIOUS
    <2>2. PICK v : Longer(Executed, Executed', v) /\ v[1] # "return"
      BY <1>2
    <2>3. /\ Len(Executed') = n + 1 /\ Executed'[n + 1] = v
          /\ \A k \in 1 .. n : Executed'[k] = Executed[k]
          /\ \A k \in 1 .. n + 1 : k \in 1 .. n \/ k = n + 1
      BY <2>1, <2>2 DEF Longer
    <2>4. \A k \in 1 .. n + 1 : \A id :
              IsReturn(Executed'[k], id) => k \in 1 .. n /\ IsReturn(Executed[k], id)
      BY <2>2, <2>3 DEF IsReturn
    <2>5. \A i \in 1 .. n + 1 : \A id : IsReturn(Executed'[i], id) => Ends(id)'
      BY <2>1, <2>4 DEF EndsOnce, Ends
    <2>6. \A i, j \in 1 .. n + 1 : \A id :
              IsReturn(Executed'[i], id) /\ IsReturn(Executed'[j], id) => i = j
      BY <2>1, <2>4 DEF EndsOnce
    <2> QED BY <2>3, <2>5, <2>6 DEF EndsOnce
  <1> QED BY <1>1, <1>2

LEMMA FinishEnds ==
    ASSUME HistoryInv, EndsOnce, FinishCall PROVE EndsOnce'
  <1>0. EvalInv /\ CallsNumbered /\ LogTyped /\ stack # <<>> /\ log \in Seq(Event)
    BY DEF HistoryInv, WalkInv, FinishCall, LogTyped
  <1>1. PICK m \in Nat : m = Len(done)
    BY <1>0, FinishStack
  <1>2. PICK t \in CallTrace : t = TraceOf(fr)
    BY <1>0, FinishStack
  <1>3. /\ Len(done') = m + 1 /\ done'[m + 1] = t /\ prog' = prog /\ fr \in Frame
        /\ \A k \in 1 .. m : done'[k] = done[k]
        /\ fr = stack[Len(stack)] /\ Len(stack) \in Nat \ {0}
    BY <1>0, <1>1, <1>2, FinishStack
  <1>4. PICK id : id = fr.id
    OBVIOUS
  <1>5. t.id = id
    BY <1>2, <1>3, <1>4, TraceParts
  <1>6. \A k \in 1 .. m : done[k].id # id
    BY <1>0, <1>1, <1>3, <1>4 DEF CallsNumbered
  <1>7. \A k \in 1 .. m + 1 : k \in 1 .. m \/ k = m + 1
    OBVIOUS
  <1>8. \A k \in 1 .. m : k \in 1 .. m + 1
    OBVIOUS
  <1>9. \A i, j \in 1 .. m + 1 : done'[i].id = done'[j].id => i = j
    BY <1>1, <1>3, <1>5, <1>6, <1>7 DEF EndsOnce
  <1>10. /\ Ends(id)' /\ ~Ends(id)
         /\ \A i : Ends(i) => Ends(i)'
    BY <1>1, <1>3, <1>5, <1>6, <1>8 DEF Ends
  <1>11. PICK e : e = [ev |-> "exit", id |-> fr.id, rv |-> t.rv]
    OBVIOUS
  <1>12. LogGrows(e)
    BY <1>0, <1>2, <1>11, EffectEvents
  <1>13. LogView(e)[1] = "return" /\ LogView(e)[2] = id
    BY <1>4, <1>11 DEF LogView
  <1>14. PICK n \in Nat : n = Len(Executed)
    BY <1>0, <1>3, ExecutedGrows
  <1>15. CASE Executed' = Executed
    BY <1>3, <1>9, <1>10, <1>15 DEF EndsOnce
  <1>16. CASE Longer(Executed, Executed', LogView(e))
    <2>1. /\ Len(Executed') = n + 1 /\ Executed'[n + 1] = LogView(e)
          /\ \A k \in 1 .. n : Executed'[k] = Executed[k]
          /\ \A k \in 1 .. n + 1 : k \in 1 .. n \/ k = n + 1
      BY <1>14, <1>16 DEF Longer
    <2>2. \A k \in 1 .. n : \A i : IsReturn(Executed'[k], i) => Ends(i) /\ i # id
      BY <1>10, <1>14, <2>1 DEF EndsOnce
    <2>3. \A i : IsReturn(Executed'[n + 1], i) => i = id
      BY <1>13, <2>1 DEF IsReturn
    <2>4. \A k \in 1 .. n + 1 : \A i : IsReturn(Executed'[k], i) => Ends(i)'
      BY <1>10, <2>1, <2>2, <2>3
    <2>5. ASSUME NEW k \in 1 .. n + 1, NEW j \in 1 .. n + 1, NEW i,
                 IsReturn(Executed'[k], i), IsReturn(Executed'[j], i)
          PROVE  k = j
      <3>1. CASE i = id
        BY <2>1, <2>2, <2>5, <3>1
      <3>2. CASE i # id
        <4>1. k \in 1 .. n /\ j \in 1 .. n
          BY <2>1, <2>3, <2>5, <3>2
        <4> QED BY <1>14, <2>1, <2>5, <4>1 DEF EndsOnce
      <3> QED BY <3>1, <3>2
    <2> QED BY <1>3, <1>9, <2>1, <2>4, <2>5 DEF EndsOnce
  <1>17. Executed' = Executed \/ Longer(Executed, Executed', LogView(e))
    BY <1>0, <1>3, <1>12, ExecutedGrows
  <1> QED BY <1>15, <1>16, <1>17

LEMMA NextEnds == HistoryInv /\ EndsOnce /\ [Next]_vars => EndsOnce'
  <1> SUFFICES ASSUME HistoryInv, EndsOnce, [Next]_vars PROVE EndsOnce'
    OBVIOUS
  <1>0. EvalInv /\ CallsNumbered /\ LogTyped /\ log \in Seq(Event)
    BY DEF HistoryInv, WalkInv, LogTyped
  <1>1. ASSUME UNCHANGED done, prog' = prog,
               log' = log \/ \E e : LogGrows(e) /\ e.ev # "exit"
        PROVE  EndsOnce'
    <2>1. Len(Executed) \in Nat /\ (log' = log => Executed' = Executed)
      BY <1>0, <1>1, ExecutedGrows
    <2>2. ASSUME NEW e, LogGrows(e), e.ev # "exit"
          PROVE  \/ Executed' = Executed
                 \/ \E v : Longer(Executed, Executed', v) /\ v[1] # "return"
      <3>1. CASE e \in Shown
        <4>1. e.ev = "bind" \/ e.ev = "enter"
          BY <2>2, <3>1 DEF Shown
        <4>2. LogView(e)[1] # "return"
          BY <4>1 DEF LogView
        <4> QED BY <1>0, <1>1, <2>2, <3>1, <4>2, ExecutedGrows
      <3>2. CASE e \notin Shown
        BY <1>0, <1>1, <2>2, <3>2, ExecutedGrows
      <3> QED BY <3>1, <3>2
    <2> QED BY <1>1, <2>1, <2>2, OtherEnds
  <1>2. CASE UNCHANGED evalVars
    <2>1. done' = done /\ prog' = prog /\ log' = log
      BY <1>2 DEF evalVars
    <2> QED BY <1>1, <2>1
  <1>3. CASE DispatchEntry
    <2>1. PICK e : e = [ev |-> "enter", id |-> calls + 1, fn |-> entryFn]
      OBVIOUS
    <2>2. LogGrows(e) /\ e.ev # "exit" /\ done' = done /\ prog' = prog
      BY <1>3, <2>1, DispatchStarts
    <2> QED BY <1>1, <2>2
  <1>4. CASE Evaluate
    <2>1. Effect /\ prog' = prog
      BY <1>0, <1>4, StepEffect, StepNumbered DEF Evaluate
    <2>2. CASE FinishCall
      BY <2>2, FinishEnds
    <2>3. CASE ~FinishCall
      <3>1. done' = done
        BY <2>1, <2>3 DEF Effect, Silent, Reports, Binds, Writes, Asserts, Continues, Quiet, Enters
      <3>2. log' = log \/ \E e : LogGrows(e) /\ e.ev # "exit"
        <4>1. CASE \E f \in Frame : Silent(f)
          BY <1>0, <4>1, EffectEvents
        <4>2. CASE \E f \in Frame, tag \in IoTag : Reports(f, tag)
          <5>1. PICK f \in Frame, tag \in IoTag : Reports(f, tag)
            BY <4>2
          <5>2. LogGrows(Io(tag)) /\ Io(tag).ev = "io"
            BY <1>0, <5>1, EffectEvents DEF Io
          <5> QED BY <5>2
        <4>3. CASE \E f \in Frame, b \in Binding : Binds(f, b)
          <5>1. PICK f \in Frame, b \in Binding : Binds(f, b)
            BY <4>3
          <5>2. PICK e : e = [ev |-> "bind", id |-> fr.id, name |-> b.name, line |-> b.line,
                              value |-> b.value]
            OBVIOUS
          <5>3. LogGrows(e)
            BY <1>0, <5>1, <5>2, EffectEvents
          <5>4. e.ev # "exit"
            BY <5>2
          <5> QED BY <5>3, <5>4
        <4>4. CASE \E f \in Frame, x \in Name, v \in Value : Writes(f, x, v)
          <5>1. PICK f \in Frame, x \in Name, v \in Value : Writes(f, x, v)
            BY <4>4
          <5>2. PICK e : e = [ev |-> "write", id |-> fr.id, name |-> x, value |-> v]
            OBVIOUS
          <5>3. LogGrows(e)
            BY <1>0, <5>1, <5>2, EffectEvents
          <5>4. e.ev # "exit"
            BY <5>2
          <5> QED BY <5>3, <5>4
        <4>5. CASE \E f \in Frame : Asserts(f)
          <5>1. PICK e : e = [ev |-> "assert", id |-> fr.id]
            OBVIOUS
          <5>2. LogGrows(e)
            BY <1>0, <4>5, <5>1, EffectEvents
          <5>3. e.ev # "exit"
            BY <5>1
          <5> QED BY <5>2, <5>3
        <4>6. CASE \E c \in Frame, g \in FnName, args \in Seq(Value) : Enters(c, g, args)
          <5>1. PICK c \in Frame, g \in FnName, args \in Seq(Value) : Enters(c, g, args)
            BY <4>6
          <5>2. PICK e : e = [ev |-> "enter", id |-> calls + 1, fn |-> g]
            OBVIOUS
          <5>3. LogGrows(e)
            BY <1>0, <5>1, <5>2, EffectEvents
          <5>4. e.ev # "exit"
            BY <5>2
          <5> QED BY <5>3, <5>4
        <4> QED BY <2>1, <2>3, <4>1, <4>2, <4>3, <4>4, <4>5, <4>6 DEF Effect
      <3> QED BY <1>1, <2>1, <3>1, <3>2
    <2> QED BY <2>2, <2>3
  <1>5. \/ DispatchEntry \/ Evaluate \/ UNCHANGED evalVars
    BY DEF Next, EmitCallTrace, BeginEmission, OpenCall, EmitSubCall, EmitTrailingSubCall,
       EmitBinding, EndBindings, Descend, CloseCall, EndEmission, Stutter, vars
  <1> QED BY <1>2, <1>3, <1>4, <1>5

----------------------------------------------------------------------------
(* The special events of a call *)

\* The last step of the call is written.
Closed(id) == \E k \in 1 .. Len(out) : out[k].rec = "return_step" /\ out[k].id = id

EventIn(id) == {r \in StreamRecord : r.rec = "event" /\ r.id = id}

Tags(s) == [k \in 1 .. Len(s) |-> s[k].tag]

\* The tags of the events a CallTrace stands for.
SpecialTags(t) ==
    [k \in 1 .. t.asserts + Len(t.ios) |-> IF k <= t.asserts THEN "LeoAssert" ELSE t.ios[k - t.asserts]]

\* A call has its events recorded when it is closed, and none before; one that is
\* closed has returned, and main is closed after all.
EventsInv ==
    /\ \A k \in 1 .. Len(out) :
           out[k].rec \in {"event", "return_step"} => Closed(out[k].id) /\ Ends(out[k].id)
    /\ \A d \in 1 .. Len(done) :
           Tags(Select(out, EventIn(done[d].id)))
           = IF Closed(done[d].id) THEN SpecialTags(done[d]) ELSE <<>>
    /\ \A id \in CallId : Closed(id) => \E k \in 1 .. Len(Recorded) : IsReturn(Recorded[k], id)
    /\ MainOnly /\ (mode = "running" \/ walk # <<>>) => ~Closed(1)

LEMMA EventsOfTags ==
    ASSUME OutTyped, NEW id PROVE EventsOf(id) = Tags(Select(out, EventIn(id)))
  <1>1. out \in Seq(StreamRecord) /\ Len(out) \in Nat
    BY DEF OutTyped
  <1>2. PICK T : T = {r \in Range(out) : r.rec = "event" /\ r.id = id}
    OBVIOUS
  <1>3. \A j \in 1 .. Len(out) : out[j] \in T <=> out[j] \in EventIn(id)
    BY <1>1, <1>2 DEF EventIn, Range
  <1>4. Select(out, T) = Select(out, EventIn(id))
    BY <1>1, <1>3, SelectSame
  <1> QED BY <1>2, <1>4 DEF EventsOf, Tags

\* What the history has of the events is in the CallTrace.
LEMMA ExecutedTags ==
    ASSUME HistoryInv, CallHistory, NEW d \in 1 .. Len(done)
    PROVE  ExecutedEventsOf(done[d].id) = SpecialTags(done[d])
  <1>1. PICK id : id = done[d].id
    OBVIOUS
  <1>2. PICK a, b : a = Select(log, AssertEvent(id)) /\ b = Select(log, IoEvent(id))
    OBVIOUS
  <1>3. a \in Seq(Event) /\ b \in Seq(Event) /\ Len(a) \in Nat /\ Len(b) \in Nat
    BY <1>2, SelectType DEF HistoryInv, LogTyped
  <1>4. SpecialsOf(done[d])
    BY DEF CallHistory, DoneHistory
  <1>5. Len(a) = done[d].asserts /\ [k \in 1 .. Len(b) |-> b[k].tag] = done[d].ios
    BY <1>1, <1>2, <1>4 DEF SpecialsOf
  <1>6. PICK p, q : p = [k \in 1 .. Len(a) |-> "LeoAssert"] /\ q = [k \in 1 .. Len(b) |-> b[k].tag]
    OBVIOUS
  <1>7. ExecutedEventsOf(id) = p \o q
    BY <1>2, <1>6 DEF ExecutedEventsOf, AssertEvent, IoEvent
  <1>8. PICK S : S = {p[k] : k \in 1 .. Len(a)} \cup {q[k] : k \in 1 .. Len(b)}
    OBVIOUS
  <1>9. p \in Seq(S) /\ Len(p) = Len(a)
    BY <1>3, <1>6, <1>8
  <1>10. q \in Seq(S) /\ Len(q) = Len(b)
    BY <1>3, <1>6, <1>8
  <1>11. PICK n \in Nat, m \in Nat : n = Len(p) /\ m = Len(q)
    BY <1>9, <1>10
  <1>12. /\ p \o q \in Seq(S) /\ Len(p \o q) = n + m
         /\ \A k \in 1 .. n + m :
                \/ k \in 1 .. n /\ (p \o q)[k] = p[k]
                \/ k - n \in 1 .. m /\ (p \o q)[k] = q[k - n]
    <2>1. /\ p \o q \in Seq(S) /\ Len(p \o q) = Len(p) + Len(q)
          /\ \A k \in 1 .. Len(p \o q) :
                 \/ k \in 1 .. Len(p) /\ (p \o q)[k] = p[k]
                 \/ k - Len(p) \in 1 .. Len(q) /\ (p \o q)[k] = q[k - Len(p)]
      <3>1. p \in Seq(S)
        BY <1>9
      <3>2. q \in Seq(S)
        BY <1>10
      <3> QED BY <3>1, <3>2, ConcatElement
    <2> QED BY <1>11, <2>1
  <1>13. \A k \in 1 .. n + m : (p \o q)[k] = IF k <= n THEN "LeoAssert" ELSE q[k - n]
    <2> TAKE k \in 1 .. n + m
    <2>1. CASE k \in 1 .. n
      <3>1. (p \o q)[k] = p[k] /\ k <= n
        BY <1>12, <2>1
      <3>2. p[k] = "LeoAssert"
        BY <1>6, <1>9, <1>11, <2>1
      <3> QED BY <3>1, <3>2
    <2>2. CASE k \notin 1 .. n
      BY <1>12, <2>2
    <2> QED BY <2>1, <2>2
  <1>14. p \o q = [k \in 1 .. n + m |-> IF k <= n THEN "LeoAssert" ELSE q[k - n]]
    <2>0. PICK w \in Seq(S) : w = p \o q
      BY <1>12
    <2>1. w = [k \in 1 .. Len(w) |-> w[k]]
      OBVIOUS
    <2>2. Len(w) = n + m
      BY <1>12, <2>0
    <2> QED BY <1>13, <2>0, <2>1, <2>2
  <1>15. n = done[d].asserts /\ q = done[d].ios /\ m = Len(done[d].ios)
    BY <1>5, <1>6, <1>9, <1>11
  <1> QED BY <1>1, <1>7, <1>14, <1>15 DEF SpecialTags

\* The closing records have these events, and no other.
LEMMA ClosingEvents ==
    ASSUME NEW t \in CallTrace, NEW entry \in BOOLEAN, NEW R, R = CloseRecords(t, entry)
    PROVE  /\ R \in Seq(StreamRecord)
           /\ Tags(Select(R, EventIn(t.id))) = SpecialTags(t)
           /\ \A id : id # t.id => Select(R, EventIn(id)) = <<>>
           /\ \A k \in 1 .. Len(R) : R[k].id = t.id
           /\ \E k \in 1 .. Len(R) : R[k].rec = "return_step"
  <1>1. PICK n \in Nat, l \in Nat, m \in Nat : n = t.asserts /\ l = Len(t.ios) /\ m = n + l
    <2>1. t.asserts \in Nat /\ Len(t.ios) \in Nat
      BY ClosingRecords
    <2>2. t.asserts + Len(t.ios) \in Nat
      BY <2>1
    <2> QED BY <2>1, <2>2
  <1>2. /\ R \in Seq(StreamRecord)
        /\ Len(R) = m + (IF entry THEN 1 ELSE 2)
        /\ \A k \in 1 .. n : R[k] = AssertRecord(t)
        /\ \A k \in 1 .. l : R[n + k] = IoRecord(t, t.ios[k])
        /\ R[m + 1] = StepRecord(t)
        /\ ~entry => R[m + 2] = ReturnRecord(t)
    BY <1>1, ClosingRecords
  <1>3. \A k \in n + 1 .. m : R[k] = IoRecord(t, t.ios[k - n])
    <2> TAKE k \in n + 1 .. m
    <2>1. k - n \in 1 .. l /\ n + (k - n) = k
      BY <1>1
    <2> QED BY <1>2, <2>1
  <1>4. \A k \in 1 .. m : R[k].rec = "event" /\ R[k].id = t.id
                          /\ R[k].tag = IF k <= n THEN "LeoAssert" ELSE t.ios[k - n]
    <2> TAKE k \in 1 .. m
    <2>1. CASE k <= n
      <3>1. R[k] = AssertRecord(t)
        BY <1>1, <1>2, <2>1
      <3> QED BY <2>1, <3>1 DEF AssertRecord
    <2>2. CASE ~(k <= n)
      <3>1. R[k] = IoRecord(t, t.ios[k - n])
        BY <1>1, <1>3, <2>2
      <3> QED BY <2>2, <3>1 DEF IoRecord
    <2> QED BY <2>1, <2>2
  <1>5. \A k \in m + 1 .. Len(R) : R[k].rec # "event" /\ R[k].id = t.id
    <2> TAKE k \in m + 1 .. Len(R)
    <2>1. CASE k = m + 1
      BY <1>2, <2>1 DEF StepRecord
    <2>2. CASE k # m + 1
      <3>1. k = m + 2 /\ ~entry
        BY <1>1, <1>2, <2>2
      <3>2. R[k] = ReturnRecord(t)
        BY <1>2, <3>1
      <3> QED BY <3>2 DEF ReturnRecord
    <2> QED BY <2>1, <2>2
  <1>6. \A k \in 1 .. Len(R) : k \in 1 .. m \/ k \in m + 1 .. Len(R)
    BY <1>1, <1>2
  <1>7. \A k \in 1 .. Len(R) : R[k].id = t.id
    BY <1>4, <1>5, <1>6
  <1>8. ASSUME NEW id, id # t.id PROVE Select(R, EventIn(id)) = <<>>
    <2>1. \A k \in 1 .. Len(R) : R[k] \notin EventIn(id)
      BY <1>7, <1>8 DEF EventIn
    <2> QED BY <1>2, <2>1, SelectNothing
  <1>9. \E k \in 1 .. Len(R) : R[k].rec = "return_step"
    <2>1. m + 1 \in 1 .. Len(R)
      BY <1>1, <1>2
    <2> QED BY <1>2, <2>1 DEF StepRecord
  <1>10. PICK u \in Seq(StreamRecord), v \in Seq(StreamRecord) :
             R = u \o v /\ Len(u) = m /\ Len(v) = Len(R) - m
             /\ (\A k \in 1 .. m : u[k] = R[k]) /\ \A k \in 1 .. Len(v) : v[k] = R[m + k]
    <2>1. m \in 0 .. Len(R) /\ Len(R) \in Nat
      BY <1>1, <1>2
    <2>2. PICK u : u = [k \in 1 .. m |-> R[k]]
      OBVIOUS
    <2>3. PICK j \in Nat : j = Len(R) - m
      <3>1. Len(R) - m \in Nat
        BY <2>1
      <3> QED BY <3>1
    <2>4. PICK v : v = [k \in 1 .. j |-> R[m + k]]
      OBVIOUS
    <2>5. u \in Seq(StreamRecord) /\ Len(u) = m /\ \A k \in 1 .. m : u[k] = R[k]
      <3>1. \A k \in 1 .. m : R[k] \in StreamRecord
        BY <1>2, <2>1
      <3> QED BY <2>2, <3>1
    <2>6. v \in Seq(StreamRecord) /\ Len(v) = j /\ \A k \in 1 .. j : v[k] = R[m + k]
      <3>1. \A k \in 1 .. j : m + k \in 1 .. Len(R)
        BY <2>1, <2>3
      <3>2. \A k \in 1 .. j : R[m + k] \in StreamRecord
        BY <1>2, <3>1
      <3> QED BY <2>4, <3>2
    <2>7. /\ u \o v \in Seq(StreamRecord) /\ Len(u \o v) = m + j
          /\ \A k \in 1 .. m + j :
                \/ k \in 1 .. m /\ (u \o v)[k] = u[k]
                \/ k - m \in 1 .. j /\ (u \o v)[k] = v[k - m]
      <3>1. /\ u \o v \in Seq(StreamRecord) /\ Len(u \o v) = Len(u) + Len(v)
            /\ \A k \in 1 .. Len(u \o v) :
                   \/ k \in 1 .. Len(u) /\ (u \o v)[k] = u[k]
                   \/ k - Len(u) \in 1 .. Len(v) /\ (u \o v)[k] = v[k - Len(u)]
        <4>1. u \in Seq(StreamRecord)
          BY <2>5
        <4>2. v \in Seq(StreamRecord)
          BY <2>6
        <4> QED BY <4>1, <4>2, ConcatElement
      <3> QED BY <2>5, <2>6, <3>1
    <2>8. m + j = Len(R)
      BY <2>1, <2>3
    <2>9. \A k \in 1 .. Len(R) : (u \o v)[k] = R[k]
      <3> TAKE k \in 1 .. Len(R)
      <3>1. CASE k \in 1 .. m /\ (u \o v)[k] = u[k]
        BY <2>5, <3>1
      <3>2. CASE k - m \in 1 .. j /\ (u \o v)[k] = v[k - m]
        <4>1. m + (k - m) = k
          OBVIOUS
        <4> QED BY <2>6, <3>2, <4>1
      <3> QED BY <2>7, <2>8, <3>1, <3>2
    <2>10. R = u \o v
      BY <1>2, <2>7, <2>8, <2>9, SameElements
    <2> QED BY <2>3, <2>5, <2>6, <2>10
  <1>11. Select(u, EventIn(t.id)) = u
    <2>1. \A k \in 1 .. Len(u) : u[k] \in EventIn(t.id)
      <3> TAKE k \in 1 .. Len(u)
      <3>1. u[k] \in StreamRecord /\ u[k] = R[k] /\ k \in 1 .. m
        BY <1>10
      <3> QED BY <1>4, <3>1 DEF EventIn
    <2> QED BY <2>1, SelectWhole
  <1>12. Select(v, EventIn(t.id)) = <<>>
    <2>1. \A k \in 1 .. Len(v) : v[k] \notin EventIn(t.id)
      <3> TAKE k \in 1 .. Len(v)
      <3>1. m + k \in m + 1 .. Len(R)
        BY <1>1, <1>2, <1>10
      <3> QED BY <1>5, <1>10, <3>1 DEF EventIn
    <2> QED BY <2>1, SelectNothing
  <1>13. Select(R, EventIn(t.id)) = u
    <2>1. Select(u \o v, EventIn(t.id)) = Select(u, EventIn(t.id)) \o Select(v, EventIn(t.id))
      BY SelectConcat
    <2> QED BY <1>10, <1>11, <1>12, <2>1, ConcatOne
  <1>14. Tags(u) = SpecialTags(t)
    <2>1. Tags(u) = [k \in 1 .. m |-> u[k].tag]
      BY <1>10 DEF Tags
    <2>2. \A k \in 1 .. m : u[k].tag = IF k <= n THEN "LeoAssert" ELSE t.ios[k - n]
      BY <1>4, <1>10
    <2>3. SpecialTags(t) = [k \in 1 .. m |-> IF k <= n THEN "LeoAssert" ELSE t.ios[k - n]]
      BY <1>1 DEF SpecialTags
    <2> QED BY <2>1, <2>2, <2>3
  <1> QED BY <1>2, <1>7, <1>8, <1>9, <1>13, <1>14

\* The records only grow, and so do the views of them.
LEMMA RecordedExtends ==
    ASSUME OutTyped, OutTyped', NEW R \in Seq(StreamRecord), out' = out \o R
    PROVE  /\ Extends(Recorded, Recorded')
           /\ \A id : Select(out', EventIn(id)) = Select(out, EventIn(id)) \o Select(R, EventIn(id))
           /\ \A id : Closed(id)' <=> Closed(id) \/ \E k \in 1 .. Len(R) :
                                                       R[k].rec = "return_step" /\ R[k].id = id
  <1>1. out \in Seq(StreamRecord) /\ out' \in Seq(StreamRecord)
    BY DEF OutTyped
  <1>2. PICK s, t : s = Select(out, Compared) /\ t = Select(out', Compared)
    OBVIOUS
  <1>3. /\ Recorded = OutViews(s) /\ Recorded' = OutViews(t)
        /\ s \in Seq(StreamRecord) /\ t \in Seq(StreamRecord) /\ Len(s) \in Nat /\ Len(t) \in Nat
    <2>1. Recorded = OutViews(Select(out, ComparedIn(out)))
      BY RecordedIs
    <2>2. Recorded' = OutViews(Select(out', ComparedIn(out')))
      BY DEF Recorded, OutViews, OutView, ComparedIn
    <2> QED BY <1>1, <1>2, <2>1, <2>2, ComparedOf
  <1>4. t = s \o Select(R, Compared)
    <2>1. Select(out \o R, Compared) = Select(out, Compared) \o Select(R, Compared)
      BY <1>1, SelectConcat
    <2> QED BY <1>2, <2>1
  <1>5. PICK r \in Seq(StreamRecord) : r = Select(R, Compared)
    BY SelectType
  <1>6. Len(t) = Len(s) + Len(r) /\ Len(r) \in Nat /\ \A k \in 1 .. Len(s) : t[k] = s[k]
    <2>1. s \in Seq(StreamRecord)
      BY <1>3
    <2>2. /\ Len(s \o r) = Len(s) + Len(r) /\ Len(r) \in Nat
          /\ \A k \in 1 .. Len(s) : (s \o r)[k] = s[k]
      BY <2>1, ConcatElement
    <2> QED BY <1>4, <1>5, <2>2
  <1>7. Extends(Recorded, Recorded')
    <2>1. Len(Recorded) = Len(s) /\ Len(Recorded') = Len(t)
      BY <1>3 DEF OutViews
    <2>2. \A k \in 1 .. Len(s) : k \in 1 .. Len(t)
      BY <1>3, <1>6
    <2>3. \A k \in 1 .. Len(s) : Recorded'[k] = Recorded[k]
      BY <1>3, <1>6, <2>2 DEF OutViews
    <2> QED BY <1>3, <1>6, <2>1, <2>3 DEF Extends
  <1>8. ASSUME NEW id
        PROVE  Select(out', EventIn(id)) = Select(out, EventIn(id)) \o Select(R, EventIn(id))
    <2>1. Select(out \o R, EventIn(id)) = Select(out, EventIn(id)) \o Select(R, EventIn(id))
      BY <1>1, SelectConcat
    <2> QED BY <2>1
  <1>9. ASSUME NEW id
        PROVE  Closed(id)' <=> Closed(id) \/ \E k \in 1 .. Len(R) :
                                                R[k].rec = "return_step" /\ R[k].id = id
    <2>1. out \in Seq(StreamRecord)
      BY <1>1
    <2>2. /\ \A k \in 1 .. Len(out \o R) :
                \/ k \in 1 .. Len(out) /\ (out \o R)[k] = out[k]
                \/ k - Len(out) \in 1 .. Len(R) /\ (out \o R)[k] = R[k - Len(out)]
          /\ \A k \in 1 .. Len(out) : (out \o R)[k] = out[k]
          /\ \A k \in 1 .. Len(R) : (out \o R)[Len(out) + k] = R[k]
          /\ Len(out \o R) = Len(out) + Len(R) /\ Len(out) \in Nat /\ Len(R) \in Nat
      BY <2>1, ConcatElement
    <2>3. \A k \in 1 .. Len(out) : k \in 1 .. Len(out')
      BY <2>2
    <2>4. \A k \in 1 .. Len(R) : Len(out) + k \in 1 .. Len(out')
      BY <2>2
    <2>5. Closed(id) => Closed(id)'
      BY <2>2, <2>3 DEF Closed
    <2>6. (\E k \in 1 .. Len(R) : R[k].rec = "return_step" /\ R[k].id = id) => Closed(id)'
      BY <2>2, <2>4 DEF Closed
    <2>7. Closed(id)' => Closed(id) \/ \E k \in 1 .. Len(R) : R[k].rec = "return_step" /\ R[k].id = id
      BY <2>2 DEF Closed
    <2> QED BY <2>5, <2>6, <2>7
  <1> QED BY <1>7, <1>8, <1>9

\* A step that writes none of them closes no call.
LEMMA QuietEvents ==
    ASSUME HistoryInv, HistoryInv', OutTyped, OutTyped', EndsOnce', EventsInv, [Next]_vars, ~CloseCall,
           NEW R \in Seq(StreamRecord), out' = out \o R,
           \A k \in 1 .. Len(R) : R[k].rec \notin {"event", "return_step"}
    PROVE  EventsInv'
  <1>1. /\ Extends(Recorded, Recorded')
        /\ \A id : Select(out', EventIn(id)) = Select(out, EventIn(id)) \o Select(R, EventIn(id))
        /\ \A id : Closed(id)' <=> Closed(id) \/ \E k \in 1 .. Len(R) :
                                                    R[k].rec = "return_step" /\ R[k].id = id
    BY RecordedExtends
  <1>2. \A id : Closed(id)' <=> Closed(id)
    BY <1>1
  <1>3. out \in Seq(StreamRecord)
    BY DEF OutTyped
  <1>4. ASSUME NEW id PROVE Select(out', EventIn(id)) = Select(out, EventIn(id))
    <2>1. \A k \in 1 .. Len(R) : R[k] \notin EventIn(id)
      BY DEF EventIn
    <2>2. Select(R, EventIn(id)) = <<>>
      BY <2>1, SelectNothing
    <2>3. Select(out, EventIn(id)) \in Seq(StreamRecord)
      BY <1>3, SelectType
    <2> QED BY <1>1, <2>2, <2>3, ConcatOne
  <1>5. /\ Len(done) \in Nat /\ Len(done') \in Nat /\ Len(done) <= Len(done')
        /\ \A k \in 1 .. Len(done) : done'[k] = done[k]
    BY DoneGrows
  <1>6. \A id : Ends(id) => Ends(id)'
    BY EndsStay
  <1>7. prog' = prog /\ CallId' = CallId
    <2>1. prog' = prog
      BY StepLeavesSomething
      DEF Next, EmitCallTrace, DispatchEntry, StartEntry, Evaluate, BeginEmission, OpenCall,
          EmitSubCall, EmitTrailingSubCall, EmitBinding, EndBindings, Descend, CloseCall,
          EndEmission, Stutter, vars, evalVars, HistoryInv, WalkInv
    <2> QED BY <2>1 DEF CallId, MainOnly
  <1>8. (\A k \in 1 .. Len(out) :
            out[k].rec \in {"event", "return_step"} => Closed(out[k].id) /\ Ends(out[k].id))'
    <2> SUFFICES ASSUME NEW k \in 1 .. Len(out'), out'[k].rec \in {"event", "return_step"}
                 PROVE  Closed(out[k].id)' /\ Ends(out[k].id)'
      OBVIOUS
    <2>1. \/ k \in 1 .. Len(out) /\ out'[k] = out[k]
          \/ k - Len(out) \in 1 .. Len(R) /\ out'[k] = R[k - Len(out)]
      BY <1>3, ConcatElement
    <2>2. k \in 1 .. Len(out) /\ out'[k] = out[k]
      BY <2>1
    <2>3. PICK id : id = out[k].id
      OBVIOUS
    <2>4. Closed(id) /\ Ends(id)
      BY <2>2, <2>3 DEF EventsInv
    <2> QED BY <1>2, <1>6, <2>2, <2>3, <2>4
  <1>9. (\A d \in 1 .. Len(done) :
            Tags(Select(out, EventIn(done[d].id)))
            = IF Closed(done[d].id) THEN SpecialTags(done[d]) ELSE <<>>)'
    <2> SUFFICES ASSUME NEW d \in 1 .. Len(done'), NEW t, t = done'[d]
                 PROVE  Tags(Select(out', EventIn(t.id))) = IF Closed(t.id)' THEN SpecialTags(t) ELSE <<>>
      BY DEF Closed
    <2>1. CASE d \in 1 .. Len(done)
      <3>1. done[d] = t
        BY <1>5, <2>1
      <3>2. Tags(Select(out, EventIn(t.id))) = IF Closed(t.id) THEN SpecialTags(t) ELSE <<>>
        BY <2>1, <3>1 DEF EventsInv
      <3> QED BY <1>2, <1>4, <3>2
    <2>2. CASE d \notin 1 .. Len(done)
      <3>1. \A k \in 1 .. Len(done) : done[k].id # t.id
        <4> SUFFICES ASSUME NEW k \in 1 .. Len(done), done[k].id = t.id PROVE FALSE
          OBVIOUS
        <4>1. k \in 1 .. Len(done') /\ done'[k].id = done'[d].id
          BY <1>5
        <4>2. k = d
          BY <4>1 DEF EndsOnce
        <4> QED BY <2>2, <4>2
      <3>2. ~Ends(t.id)
        BY <3>1 DEF Ends
      <3>3. \A k \in 1 .. Len(out) : out[k].rec \in {"event", "return_step"} => out[k].id # t.id
        BY <3>2 DEF EventsInv
      <3>4. ~Closed(t.id)
        BY <3>3 DEF Closed
      <3>5. \A k \in 1 .. Len(out) : out[k] \notin EventIn(t.id)
        BY <3>3 DEF EventIn
      <3>6. Select(out, EventIn(t.id)) = <<>>
        BY <1>3, <3>5, SelectNothing
      <3>7. Tags(<<>>) = <<>>
        BY DEF Tags
      <3> QED BY <1>2, <1>4, <3>4, <3>6, <3>7
    <2> QED BY <2>1, <2>2
  <1>10. ASSUME NEW id \in CallId, Closed(id)
         PROVE  \E k \in 1 .. Len(Recorded') : IsReturn(Recorded'[k], id)
    <2>1. PICK k \in 1 .. Len(Recorded) : IsReturn(Recorded[k], id)
      BY <1>10 DEF EventsInv
    <2>2. k \in 1 .. Len(Recorded') /\ Recorded'[k] = Recorded[k]
      BY <1>1 DEF Extends
    <2> QED BY <2>1, <2>2
  <1>11. (\A id \in CallId : Closed(id) => \E k \in 1 .. Len(Recorded) : IsReturn(Recorded[k], id))'
    BY <1>2, <1>7, <1>10
  <1>12. (MainOnly /\ (mode = "running" \/ walk # <<>>) => ~Closed(1))'
    <2> SUFFICES ASSUME MainOnly, mode' = "running" \/ walk' # <<>> PROVE ~Closed(1)
      BY <1>2, <1>7 DEF MainOnly
    <2>1. CASE mode = "running" \/ walk # <<>>
      BY <2>1 DEF EventsInv
    <2>2. CASE DispatchEntry
      <3>1. calls = 0
        BY <2>2 DEF DispatchEntry, HistoryInv, MainFirst
      <3>2. \A d \in 1 .. Len(done) : done[d].id \in 1 .. 0
        BY <3>1 DEF HistoryInv, CallsNumbered
      <3>3. ~Ends(1)
        BY <3>2 DEF Ends
      <3> QED BY <3>3 DEF Closed, EventsInv
    <2>3. mode = "running" \/ walk # <<>> \/ DispatchEntry
      BY DEF Next, EmitCallTrace, Evaluate, BeginEmission, OpenCall, EmitSubCall, EmitTrailingSubCall,
         EmitBinding, EndBindings, CloseCall, At, EndEmission, Stutter, vars, emitVars
    <2> QED BY <2>1, <2>2, <2>3
  <1> QED BY <1>8, <1>9, <1>11, <1>12 DEF EventsInv

\* The call that is being closed has not been before.
LEMMA ClosesOnce ==
    ASSUME HistoryInv, OutTyped, OutTyped', EndsOnce, EventsInv, CloseCall, Extends(Recorded', Executed'),
           act.entry \/ Longer(Recorded, Recorded', <<"return", emitted.id, emitted.rv>>)
    PROVE  ~Closed(emitted.id)
  <1>1. walk # <<>> /\ UNCHANGED evalVars
    BY DEF CloseCall, At
  <1>2. emitted.id \in Nat
    BY <1>1, ActType DEF HistoryInv, CallTrace
  <1>3. Executed' = Executed
    BY <1>1, EmissionLocated
  <1>4. CASE act.entry
    <2>1. emitted.id \notin CallId
      BY <1>1, <1>4, EntryHidden
    <2>2. MainOnly /\ emitted.id = 1
      BY <1>2, <2>1 DEF CallId
    <2> QED BY <1>1, <2>2 DEF EventsInv
  <1>5. CASE ~act.entry
    <2> SUFFICES ASSUME Closed(emitted.id) PROVE FALSE
      OBVIOUS
    <2>1. emitted.id \in CallId
      BY <1>1, <1>5, EntryHidden
    <2>2. PICK id : id = emitted.id
      OBVIOUS
    <2>3. PICK k \in 1 .. Len(Recorded) : IsReturn(Recorded[k], id)
      BY <2>1, <2>2 DEF EventsInv
    <2>4. PICK n \in Nat : n = Len(Recorded)
      BY RecordedGrows
    <2>5. /\ Len(Recorded') = n + 1 /\ IsReturn(Recorded'[n + 1], id) /\ Recorded'[k] = Recorded[k]
          /\ k # n + 1 /\ k \in 1 .. n + 1 /\ n + 1 \in 1 .. n + 1
      BY <1>5, <2>2, <2>4 DEF Longer, IsReturn
    <2>6. /\ Executed[k] = Recorded'[k] /\ Executed[n + 1] = Recorded'[n + 1]
          /\ k \in 1 .. Len(Executed) /\ n + 1 \in 1 .. Len(Executed)
      BY <1>3, <2>5 DEF Extends
    <2> QED BY <2>3, <2>5, <2>6 DEF EndsOnce
  <1> QED BY <1>4, <1>5

LEMMA CloseEvents ==
    ASSUME HistoryInv, OutTyped, OutTyped', EndsOnce, EventsInv, CloseCall, Extends(Recorded', Executed')
    PROVE  EventsInv'
  <1>1. /\ walk # <<>> /\ UNCHANGED evalVars /\ mode = "emitting" /\ mode' = mode
        /\ Write(CloseRecords(emitted, act.entry))
    BY DEF CloseCall, At
  <1>2. /\ act \in Activation /\ emitted \in CallTrace /\ act.trace \in 1 .. Len(done)
        /\ emitted = done[act.trace]
    BY <1>1, ActType DEF HistoryInv, ActOK, emitted
  <1>3. PICK R : R = CloseRecords(emitted, act.entry)
    OBVIOUS
  <1>4. PICK id0 : id0 = emitted.id
    OBVIOUS
  <1>5. /\ R \in Seq(StreamRecord) /\ act.entry \in BOOLEAN
        /\ Tags(Select(R, EventIn(id0))) = SpecialTags(emitted)
        /\ \A id : id # id0 => Select(R, EventIn(id)) = <<>>
        /\ \A k \in 1 .. Len(R) : R[k].id = id0
        /\ \E k \in 1 .. Len(R) : R[k].rec = "return_step"
        /\ Select(R, Compared) = IF act.entry THEN <<>> ELSE <<ReturnRecord(emitted)>>
    <2>1. act.entry \in BOOLEAN
      BY <1>2 DEF Activation
    <2> QED BY <1>2, <1>3, <1>4, <2>1, ClosingEvents, ClosingCompared
  <1>6. out' = out \o R
    BY <1>1, <1>3 DEF Write
  <1>7. out \in Seq(StreamRecord) /\ done' = done /\ CallId' = CallId /\ prog' = prog
    BY <1>1, EmissionLocated DEF OutTyped, evalVars
  <1>8. /\ Extends(Recorded, Recorded')
        /\ \A id : Select(out', EventIn(id)) = Select(out, EventIn(id)) \o Select(R, EventIn(id))
        /\ \A id : Closed(id)' <=> Closed(id) \/ id = id0
    BY <1>5, <1>6, RecordedExtends
  <1>9. act.entry \/ Longer(Recorded, Recorded', <<"return", emitted.id, emitted.rv>>)
    <2> SUFFICES ASSUME ~act.entry PROVE Longer(Recorded, Recorded', <<"return", emitted.id, emitted.rv>>)
      OBVIOUS
    <2>1. ReturnRecord(emitted) \in StreamRecord
      BY <1>2, ClosingTypes
    <2>2. PICK r \in StreamRecord : r = ReturnRecord(emitted)
      BY <2>1
    <2>3. OutView(r) = <<"return", emitted.id, emitted.rv>>
      BY <2>2 DEF OutView, ReturnRecord
    <2>4. Longer(Recorded, Recorded', OutView(r))
      BY <1>5, <1>6, <2>2, RecordedGrows
    <2> QED BY <2>3, <2>4
  <1>10. ~Closed(id0)
    BY <1>4, <1>9, ClosesOnce
  <1>11. (\A k \in 1 .. Len(out) :
            out[k].rec \in {"event", "return_step"} => Closed(out[k].id) /\ Ends(out[k].id))'
    <2> SUFFICES ASSUME NEW k \in 1 .. Len(out'), out'[k].rec \in {"event", "return_step"}
                 PROVE  Closed(out[k].id)' /\ Ends(out[k].id)'
      OBVIOUS
    <2>0. \A id : Ends(id)' <=> Ends(id)
      BY <1>7 DEF Ends
    <2>1. \/ k \in 1 .. Len(out) /\ out'[k] = out[k]
          \/ k - Len(out) \in 1 .. Len(R) /\ out'[k] = R[k - Len(out)]
      BY <1>5, <1>6, <1>7, ConcatElement
    <2>2. PICK id : id = out'[k].id
      OBVIOUS
    <2>3. CASE k \in 1 .. Len(out) /\ out'[k] = out[k]
      <3>1. Closed(id) /\ Ends(id)
        BY <2>2, <2>3 DEF EventsInv
      <3> QED BY <1>8, <2>0, <2>2, <3>1
    <2>4. CASE k - Len(out) \in 1 .. Len(R) /\ out'[k] = R[k - Len(out)]
      <3>1. id = id0
        BY <1>5, <2>2, <2>4
      <3>2. Ends(id0)
        BY <1>2, <1>4 DEF Ends
      <3> QED BY <1>8, <2>0, <2>2, <3>1, <3>2
    <2> QED BY <2>1, <2>3, <2>4
  <1>12. (\A d \in 1 .. Len(done) :
            Tags(Select(out, EventIn(done[d].id)))
            = IF Closed(done[d].id) THEN SpecialTags(done[d]) ELSE <<>>)'
    <2> SUFFICES ASSUME NEW d \in 1 .. Len(done), NEW t, t = done[d]
                 PROVE  Tags(Select(out', EventIn(t.id))) = IF Closed(t.id)' THEN SpecialTags(t) ELSE <<>>
      BY <1>7 DEF Closed
    <2>1. Tags(Select(out, EventIn(t.id))) = IF Closed(t.id) THEN SpecialTags(t) ELSE <<>>
      BY DEF EventsInv
    <2>2. PICK s : s = Select(out, EventIn(t.id))
      OBVIOUS
    <2>3. s \in Seq(StreamRecord) /\ Len(s) \in Nat
      BY <1>7, <2>2, SelectType
    <2>4. CASE t.id = id0
      <3>1. t = emitted
        BY <1>2, <1>4, <2>4 DEF EndsOnce
      <3>2. Len(s) = 0
        <4>1. Tags(s) = <<>>
          BY <1>10, <2>1, <2>2, <2>4
        <4>2. Len(Tags(s)) = Len(s)
          BY <2>3 DEF Tags
        <4>3. Len(Tags(s)) = 0
          BY <4>1
        <4> QED BY <4>2, <4>3
      <3>3. s = <<>>
        BY <2>3, <3>2
      <3>4. PICK r : r = Select(R, EventIn(id0))
        OBVIOUS
      <3>5. r \in Seq(StreamRecord)
        BY <1>5, <3>4, SelectType
      <3>6. <<>> \o r = r
        BY <3>5
      <3> QED BY <1>5, <1>8, <2>2, <2>4, <3>1, <3>3, <3>4, <3>6
    <2>5. CASE t.id # id0
      <3>1. Select(out', EventIn(t.id)) = s
        BY <1>5, <1>8, <2>2, <2>3, <2>5, ConcatOne
      <3> QED BY <1>8, <2>1, <2>2, <2>5, <3>1
    <2> QED BY <2>4, <2>5
  <1>13. ASSUME NEW id \in CallId, Closed(id)'
         PROVE  \E k \in 1 .. Len(Recorded') : IsReturn(Recorded'[k], id)
    <2>1. CASE Closed(id)
      <3>1. PICK k \in 1 .. Len(Recorded) : IsReturn(Recorded[k], id)
        BY <2>1 DEF EventsInv
      <3>2. k \in 1 .. Len(Recorded') /\ Recorded'[k] = Recorded[k]
        BY <1>8 DEF Extends
      <3> QED BY <3>1, <3>2
    <2>2. CASE id = id0
      <3>1. ~act.entry
        BY <1>1, <1>4, <2>2, EntryHidden
      <3>2. PICK n \in Nat : n = Len(Recorded)
        BY RecordedGrows
      <3>3. n + 1 \in 1 .. Len(Recorded') /\ IsReturn(Recorded'[n + 1], id)
        BY <1>4, <1>9, <2>2, <3>1, <3>2 DEF Longer, IsReturn
      <3> QED BY <3>3
    <2> QED BY <1>8, <1>13, <2>1, <2>2
  <1>14. (\A id \in CallId : Closed(id) => \E k \in 1 .. Len(Recorded) : IsReturn(Recorded[k], id))'
    BY <1>7, <1>13
  <1>15. (MainOnly /\ (mode = "running" \/ walk # <<>>) => ~Closed(1))'
    <2> SUFFICES ASSUME MainOnly, walk' # <<>> PROVE id0 # 1 /\ ~Closed(1)
      BY <1>1, <1>7, <1>8 DEF MainOnly
    <2>1. PICK n \in Nat \ {0} : n = Len(walk)
      BY <1>1, ActType DEF HistoryInv
    <2>2. n # 1
      <3>1. Len(walk') = n - 1 /\ walk' \in Seq(Activation)
        BY <2>1, ClosesWalk DEF HistoryInv
      <3> QED BY <3>1
    <2>3. 1 \in 1 .. n - 1 /\ n \in 1 .. n
      BY <2>2
    <2>4. done[walk[1].trace].id < done[walk[n].trace].id
      BY <2>1, <2>3 DEF HistoryInv, WalkNests
    <2>5. done[walk[1].trace].id = 1 /\ act = walk[n]
      BY <1>1, <2>1 DEF HistoryInv, MainFirst, act
    <2>6. id0 # 1
      BY <1>2, <1>4, <2>4, <2>5
    <2> QED BY <1>1, <2>6 DEF EventsInv
  <1> QED BY <1>11, <1>12, <1>14, <1>15 DEF EventsInv

LEMMA NextEvents ==
    HistoryInv /\ OutTyped /\ WalkSits /\ Follows /\ EndsOnce /\ EventsInv /\ [Next]_vars => EventsInv'
  <1> SUFFICES ASSUME HistoryInv, OutTyped, WalkSits, Follows, EndsOnce, EventsInv, [Next]_vars
               PROVE  EventsInv'
    OBVIOUS
  <1>1. HistoryInv' /\ OutTyped' /\ EndsOnce' /\ Follows'
    BY NextHistory, StreamStep, NextEnds, NextFollows
  <1>2. Extends(Recorded', Executed')
    BY <1>1 DEF Follows, Followed
  <1>3. CASE CloseCall
    BY <1>1, <1>2, <1>3, CloseEvents
  <1>4. CASE ~CloseCall
    <2>1. PICK R \in Seq(StreamRecord) :
              /\ out' = out \o R
              /\ \A k \in 1 .. Len(R) : R[k].rec \in {"event", "return_step"} => CloseCall
      BY StepWrites
    <2> QED BY <1>1, <1>4, <2>1, QuietEvents
  <1> QED BY <1>3, <1>4

\* When the last step of a call is written, its special events have been, one for
\* each assert and io event that it executed and no other, asserts first.  A call
\* is closed once, since its return would otherwise be recorded twice.
THEOREM EventsOnce == Spec => []EventsExactlyOnce
  <1>1. Init => HistoryInv /\ OutTyped /\ WalkSits /\ Follows /\ EndsOnce /\ EventsInv
    <2> SUFFICES ASSUME Init PROVE HistoryInv /\ OutTyped /\ WalkSits /\ Follows /\ EndsOnce /\ EventsInv
      OBVIOUS
    <2>1. Len(walk) = 0 /\ Len(done) = 0 /\ Len(out) = 0 /\ mode = "idle" /\ walk = <<>> /\ log = <<>>
      BY DEF Init, EvalInit
    <2>2. WalkSits
      BY <2>1 DEF WalkSits
    <2>3. Len(Executed) = 0
      <3>1. Select(log, Shown) = <<>>
        BY <2>1, SelectEmpty
      <3> QED BY <3>1 DEF Executed
    <2>4. EndsOnce
      BY <2>1, <2>3 DEF EndsOnce
    <2>5. \A id : ~Closed(id)
      BY <2>1 DEF Closed
    <2>6. EventsInv
      BY <2>1, <2>5 DEF EventsInv
    <2> QED BY <2>2, <2>4, <2>6, InitHistory, StreamInit, InitFollows
  <1>2. HistoryInv /\ OutTyped /\ WalkSits /\ Follows /\ EndsOnce /\ EventsInv /\ [Next]_vars
        => HistoryInv' /\ OutTyped' /\ WalkSits' /\ Follows' /\ EndsOnce' /\ EventsInv'
    BY NextHistory, StreamStep, NextSits, NextFollows, NextEnds, NextEvents
  <1>3. HistoryInv /\ OutTyped /\ EventsInv /\ CallHistory => EventsExactlyOnce
    <2> SUFFICES ASSUME HistoryInv, OutTyped, EventsInv, CallHistory, NEW k \in 1 .. Len(out),
                        out[k].rec = "return_step"
                 PROVE  EventsOf(out[k].id) = ExecutedEventsOf(out[k].id)
      BY DEF EventsExactlyOnce
    <2>1. Closed(out[k].id) /\ Ends(out[k].id)
      BY DEF EventsInv
    <2>2. PICK d \in 1 .. Len(done) : done[d].id = out[k].id
      BY <2>1 DEF Ends
    <2>3. Tags(Select(out, EventIn(done[d].id))) = SpecialTags(done[d])
      BY <2>1, <2>2 DEF EventsInv
    <2>4. ExecutedEventsOf(done[d].id) = SpecialTags(done[d])
      BY ExecutedTags
    <2>5. EventsOf(done[d].id) = Tags(Select(out, EventIn(done[d].id)))
      BY EventsOfTags
    <2> QED BY <2>2, <2>3, <2>4, <2>5
  <1> QED BY <1>1, <1>2, <1>3, CallHistoryInvariant, PTL DEF Spec

----------------------------------------------------------------------------
(* The outermost calls of the recording are the entry points *)

\* How many calls the walk has open.
DepthNow == IF walk = <<>> THEN 0 ELSE IF act.at = "open" THEN Len(walk) - 1 ELSE Len(walk)

\* The entry point that is recorded has its call record.
RootShown == mode = "emitting" /\ (walk = <<>> \/ walk[1].at # "open")

\* The transitions among the first n declarations.
Surfacing(n) == Select(SubSeq(prog.decls, 1, n), Transitions)

\* The entry points among the first n declarations are done with.
Surfaced(n) ==
    /\ entries = {k \in 1 .. Len(prog.decls) : n < k /\ prog.decls[k] \in Transitions}
    /\ Outline(out) = [depth |-> DepthNow,
                       fns |-> IF RootShown THEN Append(Surfacing(n), entryFn) ELSE Surfacing(n)]

\* The function that runs is the one at the position that is next.
EntryRuns ==
    /\ mode # "idle" => entries # {}
    /\ mode = "running" /\ stack # <<>> => stack[1].fn = entryFn
    /\ (mode = "running" /\ stack = <<>>) \/ mode = "emitting" => done[Len(done)].fn = entryFn

MainHidden == \A k \in 1 .. Len(out) : out[k].rec \in {"call", "return"} => out[k].id # 1

Surfaces ==
    /\ EntryRuns
    /\ IF MainOnly THEN MainHidden ELSE \E n \in 0 .. Len(prog.decls) : Surfaced(n)

Blank == [depth |-> 0, fns |-> <<>>]

\* u holds the outlines of the first 0 .. n records.
OutlinesUpTo(u, s, n) == u = [k \in 0 .. n |-> IF k = 0 THEN Blank ELSE Counted(u[k - 1], s[k])]

LEMMA OutlinesExist ==
    ASSUME NEW s, NEW n \in Nat PROVE \E u : OutlinesUpTo(u, s, n)
  <1> DEFINE S == {k \in Nat : \E u : OutlinesUpTo(u, s, k)}
  <1>1. 0 \in S
    <2> DEFINE u == [k \in 0 .. 0 |-> Blank]
    <2>1. OutlinesUpTo(u, s, 0)
      BY DEF OutlinesUpTo
    <2> QED BY <2>1
  <1>2. ASSUME NEW k \in Nat, k \in S PROVE k + 1 \in S
    <2>1. PICK u : OutlinesUpTo(u, s, k)
      BY <1>2
    <2>2. \A j \in 0 .. k : u[j] = IF j = 0 THEN Blank ELSE Counted(u[j - 1], s[j])
      BY <2>1 DEF OutlinesUpTo
    <2>3. PICK c : c = Counted(u[k], s[k + 1])
      OBVIOUS
    <2>4. PICK v : v = [j \in 0 .. k + 1 |-> IF j = k + 1 THEN c ELSE u[j]]
      OBVIOUS
    <2>5. \A j \in 0 .. k + 1 : v[j] = IF j = 0 THEN Blank ELSE Counted(v[j - 1], s[j])
      <3> TAKE j \in 0 .. k + 1
      <3>1. CASE j = k + 1
        <4>1. j # 0 /\ j - 1 = k /\ k \in 0 .. k + 1 /\ k # k + 1
          BY <3>1
        <4>2. v[j - 1] = u[k] /\ v[j] = c
          BY <2>4, <3>1, <4>1
        <4> QED BY <2>3, <3>1, <4>1, <4>2
      <3>2. CASE j # k + 1
        <4>1. j \in 0 .. k /\ v[j] = u[j]
          BY <2>4, <3>2
        <4>2. CASE j = 0
          BY <2>2, <4>1, <4>2
        <4>3. CASE j # 0
          <5>1. j - 1 \in 0 .. k + 1 /\ j - 1 # k + 1
            BY <4>1, <4>3
          <5>2. v[j - 1] = u[j - 1]
            BY <2>4, <5>1
          <5> QED BY <2>2, <4>1, <4>3, <5>2
        <4> QED BY <4>2, <4>3
      <3> QED BY <3>1, <3>2
    <2>6. OutlinesUpTo(v, s, k + 1)
      <3>1. v = [j \in 0 .. k + 1 |-> v[j]]
        BY <2>4
      <3> QED BY <2>5, <3>1 DEF OutlinesUpTo
    <2> QED BY <2>6
  <1> HIDE DEF S
  <1>3. n \in S
    BY <1>1, <1>2, NatSetInduction
  <1> QED BY <1>3 DEF S

LEMMA OutlinesUnique ==
    ASSUME NEW s, NEW n \in Nat, NEW u, NEW v, OutlinesUpTo(u, s, n), OutlinesUpTo(v, s, n)
    PROVE  u[n] = v[n]
  <1> DEFINE S == {k \in Nat : k <= n => u[k] = v[k]}
  <1>1. /\ \A j \in 0 .. n : u[j] = IF j = 0 THEN Blank ELSE Counted(u[j - 1], s[j])
        /\ \A j \in 0 .. n : v[j] = IF j = 0 THEN Blank ELSE Counted(v[j - 1], s[j])
    BY DEF OutlinesUpTo
  <1>2. 0 \in S
    BY <1>1
  <1>3. ASSUME NEW k \in Nat, k \in S PROVE k + 1 \in S
    <2> SUFFICES ASSUME k + 1 <= n PROVE u[k + 1] = v[k + 1]
      OBVIOUS
    <2>1. k + 1 \in 0 .. n /\ k + 1 # 0 /\ k <= n /\ (k + 1) - 1 = k
      OBVIOUS
    <2>2. u[k] = v[k]
      BY <1>3, <2>1
    <2>3. u[k + 1] = Counted(u[k], s[k + 1]) /\ v[k + 1] = Counted(v[k], s[k + 1])
      BY <1>1, <2>1
    <2> QED BY <2>2, <2>3
  <1> HIDE DEF S
  <1>4. n \in S
    BY <1>2, <1>3, NatSetInduction
  <1> QED BY <1>4 DEF S

\* The outline is the last of the outlines.
LEMMA OutlineDef ==
    ASSUME NEW s, Len(s) \in Nat
    PROVE  \E u : OutlinesUpTo(u, s, Len(s)) /\ Outline(s) = u[Len(s)]
  <1> DEFINE P(u) == u = [n \in 0 .. Len(s) |->
                            IF n = 0 THEN [depth |-> 0, fns |-> <<>>] ELSE Counted(u[n - 1], s[n])]
  <1>1. \A u : P(u) <=> OutlinesUpTo(u, s, Len(s))
    BY DEF OutlinesUpTo, Blank
  <1>2. \E u : P(u)
    BY <1>1, OutlinesExist
  <1>3. Outline(s) = (CHOOSE u : P(u))[Len(s)]
    BY DEF Outline
  <1>4. P(CHOOSE u : P(u))
    <2> HIDE DEF P
    <2> QED BY <1>2
  <1> HIDE DEF P
  <1> QED BY <1>1, <1>3, <1>4

\* The outline goes on along records that are written.
LEMMA OutlineAlong ==
    ASSUME NEW S, NEW s \in Seq(S), NEW R \in Seq(S), NEW g, g[0] = Outline(s),
           \A k \in 1 .. Len(R) : g[k] = Counted(g[k - 1], R[k])
    PROVE  Outline(s \o R) = g[Len(R)]
  <1>1. PICK n \in Nat, m \in Nat : n = Len(s) /\ m = Len(R)
    OBVIOUS
  <1>2. PICK t \in Seq(S) : t = s \o R
    BY ConcatElement
  <1>3. /\ Len(t) = n + m /\ \A k \in 1 .. n : t[k] = s[k]
        /\ \A k \in 1 .. m : t[n + k] = R[k]
    <2>1. /\ Len(s \o R) = Len(s) + Len(R)
          /\ \A k \in 1 .. Len(s) : (s \o R)[k] = s[k]
          /\ \A k \in 1 .. Len(R) : (s \o R)[Len(s) + k] = R[k]
      BY ConcatElement
    <2> QED BY <1>1, <1>2, <2>1
  <1>4. PICK u : OutlinesUpTo(u, s, n) /\ Outline(s) = u[n]
    BY <1>1, OutlineDef
  <1>5. \A j \in 0 .. n : u[j] = IF j = 0 THEN Blank ELSE Counted(u[j - 1], s[j])
    BY <1>4 DEF OutlinesUpTo
  <1>6. PICK w : w = [j \in 0 .. n + m |-> IF j <= n THEN u[j] ELSE g[j - n]]
    OBVIOUS
  <1>7. \A j \in 0 .. n + m : w[j] = IF j = 0 THEN Blank ELSE Counted(w[j - 1], t[j])
    <2> TAKE j \in 0 .. n + m
    <2>1. CASE j = 0
      BY <1>5, <1>6, <2>1
    <2>2. CASE j \in 1 .. n
      <3>1. j \in 0 .. n /\ j - 1 \in 0 .. n /\ j - 1 \in 0 .. n + m /\ j # 0 /\ j - 1 <= n /\ j <= n
        BY <2>2
      <3>2. w[j] = u[j] /\ w[j - 1] = u[j - 1]
        BY <1>6, <3>1
      <3>3. t[j] = s[j]
        BY <1>3, <2>2
      <3> QED BY <1>5, <3>1, <3>2, <3>3
    <2>3. CASE j > n
      <3>1. PICK k \in 1 .. m : j = n + k
        <4>1. j - n \in 1 .. m /\ j = n + (j - n)
          BY <2>3
        <4> QED BY <4>1
      <3>2. w[j] = g[k] /\ t[j] = R[k] /\ g[k] = Counted(g[k - 1], R[k]) /\ j # 0
        <4>1. ~(j <= n) /\ j - n = k
          BY <3>1
        <4> QED BY <1>1, <1>3, <1>6, <3>1, <4>1
      <3>3. w[j - 1] = g[k - 1]
        <4>1. CASE k = 1
          <5>1. j - 1 = n /\ n <= n /\ n \in 0 .. n + m /\ k - 1 = 0
            BY <3>1, <4>1
          <5>2. w[n] = u[n]
            BY <1>6, <5>1
          <5> QED BY <1>4, <5>1, <5>2
        <4>2. CASE k # 1
          <5>1. j - 1 \in 0 .. n + m /\ ~(j - 1 <= n) /\ (j - 1) - n = k - 1
            BY <3>1, <4>2
          <5> QED BY <1>6, <5>1
        <4> QED BY <4>1, <4>2
      <3> QED BY <3>2, <3>3
    <2> QED BY <2>1, <2>2, <2>3
  <1>8. OutlinesUpTo(w, t, n + m)
    <2>1. w = [j \in 0 .. n + m |-> w[j]]
      BY <1>6
    <2> QED BY <1>7, <2>1 DEF OutlinesUpTo
  <1>9. PICK v : OutlinesUpTo(v, t, n + m) /\ Outline(t) = v[n + m]
    BY <1>3, OutlineDef
  <1>10. v[n + m] = w[n + m]
    <2>1. n + m \in Nat
      OBVIOUS
    <2> QED BY <1>8, <1>9, <2>1, OutlinesUnique
  <1>11. w[n + m] = g[m]
    <2>1. CASE m = 0
      BY <1>4, <1>6, <2>1
    <2>2. CASE m # 0
      <3>1. ~(n + m <= n) /\ (n + m) - n = m /\ n + m \in 0 .. n + m
        BY <2>2
      <3> QED BY <1>6, <3>1
    <2> QED BY <2>1, <2>2
  <1> QED BY <1>1, <1>2, <1>9, <1>10, <1>11

LEMMA OutlineEmpty == Outline(<<>>) = Blank
  <1>1. PICK u : OutlinesUpTo(u, <<>>, 0) /\ Outline(<<>>) = u[0]
    <2>1. Len(<<>>) = 0
      OBVIOUS
    <2> QED BY <2>1, OutlineDef
  <1> QED BY <1>1 DEF OutlinesUpTo

\* The records of an opening.
LEMMA OpeningKinds ==
    ASSUME HistoryInv, OpenCall
    PROVE  /\ act.entry => Write(<<>>)
           /\ ~act.entry => \E c \in StreamRecord : \E s \in StreamRecord :
                 /\ Write(<<c, s>>) /\ s.rec = "entry_step"
                 /\ c.rec = "call" /\ c.id = emitted.id /\ c.fn = emitted.fn
  <1>1. walk # <<>>
    BY DEF OpenCall, At
  <1>2. act \in Activation /\ emitted \in CallTrace
    BY <1>1, ActType DEF HistoryInv
  <1>3. PICK c, s : /\ c = [rec |-> "call", id |-> emitted.id, fn |-> emitted.fn, args |-> act.args]
                    /\ s = [rec |-> "entry_step", id |-> emitted.id]
    OBVIOUS
  <1>4. emitted.id \in Nat /\ emitted.fn \in FnName /\ act.args \in Seq(Value)
    BY <1>2 DEF CallTrace, Activation
  <1>5. c \in StreamRecord
    BY <1>3, <1>4 DEF StreamRecord
  <1>6. s \in StreamRecord
    BY <1>3, <1>4 DEF StreamRecord
  <1>7. ~act.entry => Write(<<c, s>>)
    BY <1>3 DEF OpenCall
  <1>8. act.entry => Write(<<>>)
    BY DEF OpenCall
  <1> QED BY <1>3, <1>5, <1>6, <1>7, <1>8

\* A binding is one record.
LEMMA BindingKind ==
    ASSUME HistoryInv, EmitBinding
    PROVE  \E r \in StreamRecord : Write(<<r>>) /\ r.rec = "bind"
  <1>1. walk # <<>> /\ act.bi < Len(emitted.bindings)
    BY DEF EmitBinding, At
  <1>2. PICK b \in Binding : b = emitted.bindings[act.bi + 1]
    <2>1. act.bi \in Nat /\ emitted.bindings \in Seq(Binding)
      BY <1>1, ActType, EmittedParts DEF HistoryInv
    <2>2. act.bi + 1 \in 1 .. Len(emitted.bindings)
      BY <1>1, <2>1
    <2> QED BY <2>1, <2>2
  <1>3. PICK r : r = [rec |-> "bind", id |-> emitted.id, name |-> b.name, line |-> b.line,
                      mutable |-> b.mutable, value |-> b.value]
    OBVIOUS
  <1>4. r \in StreamRecord
    <2>1. emitted.id \in Nat
      BY <1>1, ActType DEF HistoryInv, CallTrace
    <2>2. b.name \in Name /\ b.line \in Line /\ b.mutable \in BOOLEAN /\ b.value \in Value
      BY DEF Binding
    <2> QED BY <1>3, <2>1, <2>2 DEF StreamRecord
  <1>5. Write(<<r>>)
    BY <1>2, <1>3 DEF EmitBinding
  <1> QED BY <1>3, <1>4, <1>5

\* What is written counts as g says.
LEMMA OutlineWritten ==
    ASSUME OutTyped, NEW R \in Seq(StreamRecord), Write(R), NEW g, g[0] = Outline(out),
           \A k \in 1 .. Len(R) : g[k] = Counted(g[k - 1], R[k])
    PROVE  Outline(out)' = g[Len(R)]
  <1>1. Outline(out \o R) = g[Len(R)]
    BY OutlineAlong DEF OutTyped
  <1> QED BY <1>1 DEF Write

LEMMA HiddenWritten ==
    ASSUME OutTyped, MainHidden, NEW R \in Seq(StreamRecord), Write(R),
           \A k \in 1 .. Len(R) : R[k].rec \in {"call", "return"} => R[k].id # 1
    PROVE  MainHidden'
  <1>1. PICK o \in Seq(StreamRecord) : o = out \o R
    BY ConcatElement DEF OutTyped
  <1>2. \A k \in 1 .. Len(o) : \/ k \in 1 .. Len(out) /\ o[k] = out[k]
                               \/ k - Len(out) \in 1 .. Len(R) /\ o[k] = R[k - Len(out)]
    BY <1>1, ConcatElement DEF OutTyped
  <1>3. \A k \in 1 .. Len(o) : o[k].rec \in {"call", "return"} => o[k].id # 1
    BY <1>2 DEF MainHidden
  <1> QED BY <1>1, <1>3 DEF MainHidden, Write

\* Main's call is written by no step of the emission.
LEMMA EmissionHides ==
    ASSUME HistoryInv, OutTyped, MainOnly, MainHidden, EmitCallTrace
    PROVE  MainHidden'
  <1>1. walk # <<>>
    BY DEF EmitCallTrace, OpenCall, EmitSubCall, EmitBinding, EndBindings, EmitTrailingSubCall,
       CloseCall, At
  <1>2. PICK w \in Seq(Activation) : walk = Append(w, act)
    BY <1>1, BelowAct DEF HistoryInv
  <1>3. emitted.id = 1 => act.entry
    BY <1>1, <1>2, OpenInnermost
  <1>4. act.entry \in BOOLEAN /\ emitted \in CallTrace
    BY <1>1, ActType DEF HistoryInv, Activation
  <1>5. ASSUME UNCHANGED out PROVE MainHidden'
    BY <1>5 DEF MainHidden
  <1>6. CASE OpenCall
    <2>1. CASE act.entry
      <3>1. Write(<<>>)
        BY <1>6, <2>1, OpeningKinds
      <3>2. UNCHANGED out
        BY <3>1, ConcatOne DEF OutTyped, Write
      <3> QED BY <1>5, <3>2
    <2>2. CASE ~act.entry
      <3>1. PICK c \in StreamRecord, s \in StreamRecord :
                Write(<<c, s>>) /\ s.rec = "entry_step" /\ c.rec = "call" /\ c.id = emitted.id
        BY <1>6, <2>2, OpeningKinds
      <3>2. PICK R : R = <<c, s>> /\ R \in Seq(StreamRecord)
        <4>1. <<c, s>> \in Seq(StreamRecord)
          OBVIOUS
        <4> QED BY <4>1
      <3>3. \A k \in 1 .. Len(R) : R[k] = c \/ R[k] = s
        BY <3>2
      <3>4. \A k \in 1 .. Len(R) : R[k].rec \in {"call", "return"} => R[k].id # 1
        BY <1>3, <2>2, <3>1, <3>3
      <3> QED BY <3>1, <3>2, <3>4, HiddenWritten
    <2> QED BY <1>4, <2>1, <2>2
  <1>7. CASE EmitBinding
    <2>1. PICK r \in StreamRecord : Write(<<r>>) /\ r.rec = "bind"
      BY <1>7, BindingKind
    <2>2. PICK R : R = <<r>> /\ R \in Seq(StreamRecord)
      BY OneCompared
    <2>3. \A k \in 1 .. Len(R) : R[k] = r
      BY <2>2
    <2> QED BY <2>1, <2>2, <2>3, HiddenWritten
  <1>8. CASE CloseCall
    <2>1. PICK t \in CallTrace : t = emitted
      BY <1>4
    <2>2. ASSUME NEW R, NEW e \in BOOLEAN, R = CloseRecords(t, e), ~e => t.id # 1
          PROVE  /\ R \in Seq(StreamRecord)
                 /\ \A k \in 1 .. Len(R) : R[k].rec \in {"call", "return"} => R[k].id # 1
      <3>1. PICK n \in Nat \ {0} :
                /\ R \in Seq(StreamRecord)
                /\ e => Len(R) = n
                /\ ~e => Len(R) = n + 1 /\ R[n + 1] = ReturnRecord(t)
                /\ \A k \in 1 .. n : R[k].rec \notin {"call", "return"} /\ R[k].id = t.id
        <4>1. Closes(R, t, e)
          BY <2>2, ClosingKinds
        <4> QED BY <4>1 DEF Closes
      <3>2. \A k \in 1 .. Len(R) : k \in 1 .. n \/ (k = n + 1 /\ ~e)
        BY <3>1
      <3> QED BY <2>2, <3>1, <3>2 DEF ReturnRecord
    <2>3. PICK R : R = CloseRecords(t, act.entry)
      OBVIOUS
    <2>4. /\ R \in Seq(StreamRecord)
          /\ \A k \in 1 .. Len(R) : R[k].rec \in {"call", "return"} => R[k].id # 1
      BY <1>3, <1>4, <2>1, <2>2, <2>3
    <2>5. Write(R)
      BY <1>8, <2>1, <2>3 DEF CloseCall
    <2> QED BY <2>4, <2>5, HiddenWritten
  <1>9. CASE EndBindings \/ EmitSubCall \/ EmitTrailingSubCall
    <2>1. UNCHANGED out
      BY <1>9 DEF EndBindings, EmitSubCall, EmitTrailingSubCall, Descend
    <2> QED BY <1>5, <2>1
  <1> QED BY <1>6, <1>7, <1>8, <1>9 DEF EmitCallTrace

LEMMA NextRuns == ASSUME HistoryInv, EntryRuns, [Next]_vars PROVE EntryRuns'
  <1>0. ASSUME prog' = prog, entries' = entries PROVE entryFn' = entryFn
    BY <1>0 DEF entryFn, position
  <1>1. CASE DispatchEntry
    <2>1. /\ stack' = <<NewFrame(calls + 1, entryFn, EntryArgs(entryFn))>>
          /\ prog' = prog /\ entries' = entries /\ mode' = "running" /\ entries # {}
      BY <1>1, DispatchStarts DEF DispatchEntry
    <2>2. stack' # <<>> /\ stack'[1].fn = entryFn
      BY <2>1 DEF NewFrame
    <2> QED BY <1>0, <2>1, <2>2 DEF EntryRuns
  <1>2. CASE Evaluate
    <2>1. mode = "running" /\ EvalStep /\ entries' = entries /\ mode' = mode
      BY <1>2 DEF Evaluate, emitVars
    <2>2. prog' = prog
      BY <2>1, StepNumbered DEF HistoryInv, WalkInv
    <2>3. /\ stack # <<>>
          /\ stack' # <<>> => stack'[1].fn = stack[1].fn
          /\ stack' = <<>> => done'[Len(done')].fn = stack[1].fn
      BY <2>1, RootKept DEF HistoryInv, WalkInv, LogTyped
    <2> QED BY <1>0, <2>1, <2>2, <2>3 DEF EntryRuns
  <1>3. CASE BeginEmission
    <2>1. /\ mode = "running" /\ stack = <<>> /\ mode' = "emitting"
          /\ prog' = prog /\ entries' = entries /\ done' = done
      BY <1>3 DEF BeginEmission, evalVars
    <2> QED BY <1>0, <2>1 DEF EntryRuns
  <1>4. CASE EmitCallTrace
    <2>1. /\ mode = "emitting" /\ mode' = mode
          /\ prog' = prog /\ entries' = entries /\ done' = done
      BY <1>4 DEF EmitCallTrace, OpenCall, EmitSubCall, EmitBinding, EndBindings,
         EmitTrailingSubCall, CloseCall, Descend, At, evalVars
    <2> QED BY <1>0, <2>1 DEF EntryRuns
  <1>5. CASE EndEmission
    BY <1>5 DEF EndEmission, EntryRuns
  <1>6. CASE UNCHANGED vars
    <2>1. /\ mode' = mode /\ prog' = prog /\ entries' = entries /\ done' = done /\ stack' = stack
      BY <1>6 DEF vars, evalVars
    <2> QED BY <1>0, <2>1 DEF EntryRuns
  <1> QED BY <1>1, <1>2, <1>3, <1>4, <1>5, <1>6 DEF Next, Stutter

\* No entry point is main, so the walk opens a call wherever it goes.
LEMMA AllCalls ==
    ASSUME HistoryInv, ~MainOnly, walk # <<>>
    PROVE  /\ ~act.entry /\ Len(walk) \in Nat \ {0} /\ walk \in Seq(Activation)
           /\ act = walk[Len(walk)]
           /\ \A k \in 1 .. Len(walk) - 1 : walk[k].at # "open"
           /\ Len(walk) = 1 => emitted.fn = done[Len(done)].fn
  <1>1. /\ walk \in Seq(Activation) /\ Len(walk) \in Nat \ {0} /\ act = walk[Len(walk)]
    BY ActType DEF HistoryInv, act
  <1>2. Len(walk) \in 1 .. Len(walk) /\ act.entry \in BOOLEAN
    BY <1>1, ActType DEF HistoryInv, Activation
  <1>3. ~act.entry
    BY <1>1, <1>2 DEF HistoryInv, WalkNests
  <1>4. Len(walk) = 1 => emitted.fn = done[Len(done)].fn
    BY <1>1 DEF HistoryInv, WalkNests, emitted
  <1> QED BY <1>1, <1>3, <1>4 DEF HistoryInv, WalkNests

\* A step within an entry point.
LEMMA SurfacedKept ==
    ASSUME NEW n, Surfaced(n), prog' = prog, entries' = entries,
           Outline(out)' = [depth |-> DepthNow',
                            fns |-> IF RootShown' THEN Append(Surfacing(n), entryFn) ELSE Surfacing(n)]
    PROVE  Surfaced(n)'
  <1>1. Surfacing(n)' = Surfacing(n) /\ Transitions' = Transitions
    BY DEF Surfacing, Transitions
  <1>2. entryFn' = entryFn
    BY DEF entryFn, position
  <1> QED BY <1>1, <1>2 DEF Surfaced

LEMMA OpenSurfaces ==
    ASSUME HistoryInv, OutTyped, EntryRuns, ~MainOnly, OpenCall, NEW n, Surfaced(n)
    PROVE  Surfaced(n)'
  <1>1. PICK a \in Activation : Stays(a) /\ act.at = "open" /\ a.at = "bindings"
    BY EmissionMoves DEF HistoryInv
  <1>2. /\ mode = "emitting" /\ walk # <<>> /\ prog' = prog /\ entries' = entries /\ mode' = mode
        /\ a.at # "open"
    BY <1>1 DEF Stays, evalVars
  <1>3. PICK len \in Nat \ {0} : len = Len(walk)
    BY <1>2, AllCalls
  <1>4. /\ ~act.entry /\ walk \in Seq(Activation) /\ act = walk[len]
        /\ \A k \in 1 .. len - 1 : walk[k].at # "open"
        /\ len = 1 => emitted.fn = entryFn
    BY <1>2, <1>3, AllCalls DEF EntryRuns
  <1>5. /\ walk' \in Seq(Activation) /\ Len(walk') = len /\ act' = a
        /\ \A k \in 1 .. len : walk'[k] = IF k = len THEN a ELSE walk[k]
    BY <1>1, <1>3, StaysWalk DEF HistoryInv
  <1>6. walk' # <<>>
    BY <1>3, <1>5
  <1>7. DepthNow = len - 1 /\ DepthNow' = len
    BY <1>1, <1>2, <1>3, <1>5, <1>6 DEF DepthNow
  <1>8. (RootShown <=> len # 1) /\ RootShown'
    <2>1. 1 \in 1 .. len /\ (len # 1 => 1 \in 1 .. len - 1)
      BY <1>3
    <2>2. walk'[1].at # "open"
      BY <1>1, <1>2, <1>4, <1>5, <2>1
    <2>3. len = 1 => walk[1].at = "open"
      BY <1>1, <1>4
    <2> QED BY <1>2, <1>4, <2>1, <2>2, <2>3 DEF RootShown
  <1>9. PICK c \in StreamRecord, s \in StreamRecord :
            /\ Write(<<c, s>>) /\ s.rec = "entry_step"
            /\ c.rec = "call" /\ c.fn = emitted.fn
    BY <1>4, OpeningKinds
  <1>10. PICK R : R = <<c, s>> /\ R \in Seq(StreamRecord)
    <2>1. <<c, s>> \in Seq(StreamRecord)
      OBVIOUS
    <2> QED BY <2>1
  <1>11. Len(R) = 2 /\ R[1] = c /\ R[2] = s
    BY <1>10
  <1>12. PICK o : o = Outline(out)
    OBVIOUS
  <1>13. PICK q : q = Counted(o, c)
    OBVIOUS
  <1>14. Counted(q, s) = q
    BY <1>9 DEF Counted
  <1>15. PICK g : g = [k \in 0 .. 2 |-> IF k = 0 THEN o ELSE q]
    OBVIOUS
  <1>16. g[0] = o /\ g[1] = q /\ g[2] = q
    BY <1>15
  <1>17. \A k \in 1 .. Len(R) : g[k] = Counted(g[k - 1], R[k])
    <2>1. \A k \in 1 .. Len(R) : (k = 1 /\ k - 1 = 0) \/ (k = 2 /\ k - 1 = 1)
      BY <1>11
    <2> QED BY <1>11, <1>13, <1>14, <1>16, <2>1
  <1>18. Outline(out)' = q
    <2>1. Outline(out)' = g[Len(R)]
      BY <1>9, <1>10, <1>12, <1>16, <1>17, OutlineWritten
    <2> QED BY <1>11, <1>16, <2>1
  <1>19. PICK f : f = Surfacing(n)
    OBVIOUS
  <1>20. o = [depth |-> len - 1, fns |-> IF len = 1 THEN f ELSE Append(f, entryFn)]
    BY <1>7, <1>8, <1>12, <1>19 DEF Surfaced
  <1>21. q = [depth |-> len, fns |-> Append(f, entryFn)]
    <2>1. q = [depth |-> o.depth + 1, fns |-> IF o.depth = 0 THEN Append(o.fns, c.fn) ELSE o.fns]
      BY <1>9, <1>13 DEF Counted
    <2>2. o.depth = len - 1 /\ o.depth + 1 = len /\ (o.depth = 0 <=> len = 1)
      BY <1>3, <1>20
    <2>3. o.fns = IF len = 1 THEN f ELSE Append(f, entryFn)
      BY <1>20
    <2> QED BY <1>4, <1>9, <2>1, <2>2, <2>3
  <1> QED BY <1>2, <1>7, <1>8, <1>18, <1>19, <1>21, SurfacedKept

LEMMA CloseSurfaces ==
    ASSUME HistoryInv, OutTyped, ~MainOnly, CloseCall, NEW n, Surfaced(n)
    PROVE  Surfaced(n)'
  <1>1. /\ mode = "emitting" /\ walk # <<>> /\ act.at = "trailing"
        /\ prog' = prog /\ entries' = entries /\ mode' = mode
    BY ClosesWalk DEF HistoryInv, evalVars
  <1>2. PICK len \in Nat \ {0} : len = Len(walk)
    BY <1>1, AllCalls
  <1>3. /\ ~act.entry /\ walk \in Seq(Activation) /\ act = walk[len]
        /\ \A k \in 1 .. len - 1 : walk[k].at # "open"
    BY <1>1, <1>2, AllCalls
  <1>4. /\ walk' \in Seq(Activation) /\ Len(walk') = len - 1
        /\ \A k \in 1 .. len - 1 : walk'[k] = walk[k]
    BY <1>2, ClosesWalk DEF HistoryInv
  <1>5. DepthNow = len /\ DepthNow' = len - 1
    <2>1. DepthNow = len
      BY <1>1, <1>2 DEF DepthNow
    <2>2. CASE len = 1
      <3>1. walk' = <<>>
        BY <1>4, <2>2
      <3> QED BY <2>1, <2>2, <3>1 DEF DepthNow
    <2>3. CASE len # 1
      <3>1. len - 1 \in 1 .. len - 1
        BY <1>2, <2>3
      <3>2. walk' # <<>> /\ act' = walk[len - 1]
        BY <1>4, <3>1 DEF act
      <3>3. act'.at # "open"
        BY <1>3, <3>1, <3>2
      <3> QED BY <1>4, <2>1, <3>2, <3>3 DEF DepthNow
    <2> QED BY <2>2, <2>3
  <1>6. RootShown /\ RootShown'
    <2>1. CASE len = 1
      <3>1. walk' = <<>> /\ walk[1].at = "trailing"
        BY <1>1, <1>3, <1>4, <2>1
      <3> QED BY <1>1, <3>1 DEF RootShown
    <2>2. CASE len # 1
      <3>1. 1 \in 1 .. len - 1
        BY <1>2, <2>2
      <3> QED BY <1>1, <1>3, <1>4, <3>1 DEF RootShown
    <2> QED BY <2>1, <2>2
  <1>7. PICK t \in CallTrace : t = emitted
    BY <1>1, ActType DEF HistoryInv
  <1>8. PICK R : R = CloseRecords(t, FALSE)
    OBVIOUS
  <1>9. PICK m \in Nat \ {0} :
            /\ R \in Seq(StreamRecord) /\ Len(R) = m + 1 /\ R[m + 1] = ReturnRecord(t)
            /\ \A k \in 1 .. m : R[k].rec \notin {"call", "return"}
    <2>1. Closes(R, t, FALSE)
      BY <1>8, ClosingKinds
    <2> QED BY <2>1 DEF Closes
  <1>10. Write(R)
    <2>1. act.entry = FALSE
      <3>1. act.entry \in BOOLEAN
        BY <1>1, ActType DEF HistoryInv, Activation
      <3> QED BY <1>3, <3>1
    <2> QED BY <1>7, <1>8, <2>1 DEF CloseCall
  <1>11. PICK o, f : o = Outline(out) /\ f = Append(Surfacing(n), entryFn)
    OBVIOUS
  <1>12. o = [depth |-> len, fns |-> f]
    BY <1>5, <1>6, <1>11 DEF Surfaced
  <1>13. PICK q : q = [depth |-> len - 1, fns |-> f]
    OBVIOUS
  <1>14. Counted(o, R[m + 1]) = q
    <2>1. R[m + 1].rec = "return"
      BY <1>9 DEF ReturnRecord
    <2> QED BY <1>12, <1>13, <2>1 DEF Counted
  <1>15. \A k \in 1 .. m : Counted(o, R[k]) = o
    BY <1>9 DEF Counted
  <1>16. PICK g : g = [k \in 0 .. m + 1 |-> IF k = m + 1 THEN q ELSE o]
    OBVIOUS
  <1>17. \A k \in 0 .. m : g[k] = o
    BY <1>16
  <1>18. g[0] = o /\ g[m + 1] = q
    BY <1>9, <1>16
  <1>19. \A k \in 1 .. Len(R) : g[k] = Counted(g[k - 1], R[k])
    <2> TAKE k \in 1 .. Len(R)
    <2>1. CASE k \in 1 .. m
      <3>1. k \in 0 .. m /\ k - 1 \in 0 .. m
        BY <2>1
      <3> QED BY <1>15, <1>17, <2>1, <3>1
    <2>2. CASE k = m + 1
      <3>1. k - 1 = m /\ m \in 0 .. m
        BY <2>2
      <3> QED BY <1>14, <1>17, <1>18, <2>2, <3>1
    <2> QED BY <1>9, <2>1, <2>2
  <1>20. Outline(out)' = q
    <2>1. Outline(out)' = g[Len(R)]
      BY <1>9, <1>10, <1>11, <1>18, <1>19, OutlineWritten
    <2> QED BY <1>9, <1>18, <2>1
  <1> QED BY <1>1, <1>5, <1>6, <1>11, <1>13, <1>20, SurfacedKept

\* A step of the emission that opens and closes no call.
LEMMA BindSurfaces ==
    ASSUME HistoryInv, OutTyped, ~MainOnly, EmitBinding \/ EndBindings, NEW n, Surfaced(n)
    PROVE  Surfaced(n)'
  <1>1. PICK a \in Activation : Stays(a) /\ act.at = "bindings"
    BY EmissionMoves DEF HistoryInv
  <1>2. /\ mode = "emitting" /\ walk # <<>> /\ prog' = prog /\ entries' = entries /\ mode' = mode
        /\ a.at # "open"
    BY <1>1 DEF Stays, evalVars
  <1>3. PICK len \in Nat \ {0} : len = Len(walk)
    BY <1>2, AllCalls
  <1>4. /\ walk' \in Seq(Activation) /\ Len(walk') = len /\ act' = a /\ act = walk[len]
        /\ \A k \in 1 .. len : walk'[k] = IF k = len THEN a ELSE walk[k]
    BY <1>1, <1>3, StaysWalk DEF HistoryInv
  <1>5. walk' # <<>>
    BY <1>3, <1>4
  <1>6. DepthNow = len /\ DepthNow' = len
    BY <1>1, <1>2, <1>3, <1>4, <1>5 DEF DepthNow
  <1>7. RootShown' <=> RootShown
    <2>1. 1 \in 1 .. len /\ act.at # "open"
      BY <1>1, <1>3
    <2> QED BY <1>1, <1>2, <1>4, <1>5, <2>1 DEF RootShown
  <1>8. Outline(out)' = Outline(out)
    <2>1. CASE EmitBinding
      <3>1. PICK r \in StreamRecord : Write(<<r>>) /\ r.rec = "bind"
        BY <2>1, BindingKind
      <3>2. PICK R : R = <<r>> /\ R \in Seq(StreamRecord)
        BY OneCompared
      <3>3. PICK o : o = Outline(out)
        OBVIOUS
      <3>4. Counted(o, r) = o
        BY <3>1 DEF Counted
      <3>5. PICK g : g = [k \in 0 .. 1 |-> o]
        OBVIOUS
      <3>6. g[0] = o /\ g[1] = o /\ Len(R) = 1 /\ R[1] = r
        BY <3>2, <3>5
      <3>7. \A k \in 1 .. Len(R) : g[k] = Counted(g[k - 1], R[k])
        <4>1. \A k \in 1 .. Len(R) : k = 1 /\ k - 1 = 0
          BY <3>6
        <4> QED BY <3>4, <3>6, <4>1
      <3>8. Outline(out)' = g[Len(R)]
        BY <3>1, <3>2, <3>3, <3>6, <3>7, OutlineWritten
      <3> QED BY <3>3, <3>6, <3>8
    <2>2. CASE EndBindings
      BY <2>2 DEF EndBindings
    <2> QED BY <2>1, <2>2
  <1> QED BY <1>2, <1>6, <1>7, <1>8, SurfacedKept DEF Surfaced

LEMMA DescendSurfaces ==
    ASSUME HistoryInv, ~MainOnly, EmitSubCall \/ EmitTrailingSubCall, NEW n, Surfaced(n)
    PROVE  Surfaced(n)'
  <1>1. Descends
    BY EmissionMoves DEF HistoryInv
  <1>2. /\ mode = "emitting" /\ walk # <<>> /\ prog' = prog /\ entries' = entries /\ mode' = mode
        /\ out' = out /\ act.at # "open" /\ act.si < Len(emitted.subs)
    BY <1>1 DEF Descends, evalVars
  <1>3. PICK len \in Nat \ {0} : len = Len(walk)
    BY <1>2, AllCalls
  <1>4. /\ walk' \in Seq(Activation) /\ Len(walk') = len + 1 /\ act = walk[len] /\ act' = Pushed
        /\ \A k \in 1 .. len : walk'[k] = IF k = len THEN Passed ELSE walk[k]
    BY <1>1, <1>3, DescendsWalk DEF HistoryInv
  <1>5. Passed.at = act.at /\ Pushed.at = "open"
    BY <1>2, NextSubParts DEF HistoryInv
  <1>6. walk' # <<>>
    BY <1>3, <1>4
  <1>7. DepthNow = len /\ DepthNow' = len
    <2>1. DepthNow = len
      BY <1>2, <1>3 DEF DepthNow
    <2>2. act'.at = "open"
      BY <1>4, <1>5
    <2>3. DepthNow' = Len(walk') - 1
      BY <1>6, <2>2 DEF DepthNow
    <2> QED BY <1>3, <1>4, <2>1, <2>3
  <1>8. RootShown' <=> RootShown
    <2>1. 1 \in 1 .. len
      BY <1>3
    <2> QED BY <1>2, <1>4, <1>5, <1>6, <2>1 DEF RootShown
  <1> QED BY <1>2, <1>7, <1>8, SurfacedKept DEF Surfaced

\* Between the walks nothing is open.
LEMMA IdleSurfaces ==
    ASSUME HistoryInv, HistoryInv', DispatchEntry \/ Evaluate \/ BeginEmission \/ UNCHANGED vars,
           prog' = prog, NEW n, Surfaced(n)
    PROVE  Surfaced(n)'
  <1>1. UNCHANGED out /\ entries' = entries
    BY DEF DispatchEntry, Evaluate, BeginEmission, emitVars, vars
  <1>2. DepthNow' = DepthNow /\ (RootShown' <=> RootShown)
    <2>1. CASE DispatchEntry \/ Evaluate
      <3>1. /\ walk' = walk /\ mode # "emitting" /\ mode' # "emitting"
        BY <2>1 DEF DispatchEntry, Evaluate, emitVars
      <3>2. walk = <<>>
        BY <2>1 DEF DispatchEntry, Evaluate, HistoryInv, WalkInv
      <3> QED BY <3>1, <3>2 DEF DepthNow, RootShown
    <2>2. CASE BeginEmission
      <3>1. /\ mode = "running" /\ walk = <<>> /\ Len(walk') = 1 /\ walk' # <<>>
            /\ walk'[1].at = "open"
        BY <2>2 DEF BeginEmission, Opening, HistoryInv, WalkInv
      <3>2. act'.at = "open"
        BY <3>1 DEF act
      <3> QED BY <3>1, <3>2 DEF DepthNow, RootShown
    <2>3. CASE UNCHANGED vars
      BY <2>3 DEF DepthNow, RootShown, act, vars
    <2> QED BY <2>1, <2>2, <2>3
  <1> QED BY <1>1, <1>2, SurfacedKept DEF Surfaced

\* From a declaration to the next transition nothing surfaces.
LEMMA SurfacingNext ==
    ASSUME prog.decls \in Seq(FnName), NEW i \in Nat, i < Len(prog.decls)
    PROVE  Surfacing(i + 1) = IF prog.decls[i + 1] \in Transitions
                              THEN Append(Surfacing(i), prog.decls[i + 1]) ELSE Surfacing(i)
  <1>1. PICK s \in Seq(FnName) : s = prog.decls
    OBVIOUS
  <1>2. SubSeq(s, 1, i) \in Seq(FnName) /\ s[i + 1] \in FnName
    BY <1>1
  <1>3. SubSeq(s, 1, i + 1) = Append(SubSeq(s, 1, i), s[i + 1])
    BY <1>1
  <1>4. PICK u \in Seq(FnName), x \in FnName : u = SubSeq(s, 1, i) /\ x = s[i + 1]
    BY <1>2
  <1>5. PICK T : T = Transitions
    OBVIOUS
  <1>6. Select(Append(u, x), T) = IF x \in T THEN Append(Select(u, T), x) ELSE Select(u, T)
    BY SelectAppend
  <1> QED BY <1>1, <1>3, <1>4, <1>5, <1>6 DEF Surfacing

LEMMA SurfacingTo ==
    ASSUME prog.decls \in Seq(FnName), NEW n \in Nat, NEW p \in Nat, n <= p, p <= Len(prog.decls),
           \A k \in n + 1 .. p : prog.decls[k] \notin Transitions
    PROVE  Surfacing(p) = Surfacing(n)
  <1> DEFINE S == {k \in Nat : n + k <= p => Surfacing(n + k) = Surfacing(n)}
  <1>0. Len(prog.decls) \in Nat
    OBVIOUS
  <1>1. 0 \in S
    OBVIOUS
  <1>2. ASSUME NEW k \in Nat, k \in S PROVE k + 1 \in S
    <2> SUFFICES ASSUME n + (k + 1) <= p PROVE Surfacing(n + (k + 1)) = Surfacing(n)
      OBVIOUS
    <2>1. PICK i \in Nat : i = n + k
      OBVIOUS
    <2>2. n + (k + 1) = i + 1 /\ i < Len(prog.decls) /\ i + 1 \in n + 1 .. p /\ n + k <= p
      BY <1>0, <2>1
    <2>3. Surfacing(i) = Surfacing(n)
      BY <1>2, <2>1, <2>2
    <2>4. Surfacing(i + 1) = Surfacing(i)
      BY <2>2, SurfacingNext
    <2> QED BY <2>2, <2>3, <2>4
  <1> HIDE DEF S
  <1>3. p - n \in S
    <2>1. p - n \in Nat
      OBVIOUS
    <2> QED BY <1>1, <1>2, <2>1, NatSetInduction
  <1>4. n + (p - n) = p /\ n + (p - n) <= p
    OBVIOUS
  <1> QED BY <1>3, <1>4 DEF S

\* The entry point has been recorded, and the next one is the next transition.
LEMMA EndSurfaces ==
    ASSUME HistoryInv, EntryRuns, EndEmission, NEW n \in 0 .. Len(prog.decls), Surfaced(n)
    PROVE  \E p \in 0 .. Len(prog.decls) : Surfaced(p)'
  <1>1. /\ mode = "emitting" /\ walk = <<>> /\ mode' = "idle" /\ walk' = <<>> /\ out' = out
        /\ prog' = prog /\ entries' = entries \ {position} /\ entries # {}
    BY DEF EndEmission, evalVars, EntryRuns
  <1>2. prog.decls \in Seq(FnName) /\ Len(prog.decls) \in Nat /\ n \in Nat
    BY DEF HistoryInv, WalkInv, EvalInv, EvalTypeOK, Program
  <1>3. entries = {k \in 1 .. Len(prog.decls) : n < k /\ prog.decls[k] \in Transitions}
    BY DEF Surfaced
  <1>4. position \in entries /\ \A j \in entries : position <= j
    <2>1. entries \subseteq Nat
      BY <1>2, <1>3
    <2>2. \E k \in entries : \A j \in entries : k <= j
      BY <1>1, <2>1, LeastNat
    <2> QED BY <2>2 DEF position
  <1>5. PICK p \in Nat \ {0} : p = position
    BY <1>2, <1>3, <1>4
  <1>6. PICK i \in Nat : p = i + 1
    <2>1. p - 1 \in Nat /\ p = (p - 1) + 1
      OBVIOUS
    <2> QED BY <2>1
  <1>7. p <= Len(prog.decls) /\ n <= i /\ i < Len(prog.decls) /\ prog.decls[p] \in Transitions
    BY <1>2, <1>3, <1>4, <1>5, <1>6
  <1>8. \A k \in n + 1 .. i : prog.decls[k] \notin Transitions
    <2> SUFFICES ASSUME NEW k \in n + 1 .. i, prog.decls[k] \in Transitions PROVE FALSE
      OBVIOUS
    <2>1. k \in entries
      BY <1>2, <1>3, <1>7
    <2> QED BY <1>2, <1>4, <1>5, <1>6, <2>1
  <1>9. Surfacing(i) = Surfacing(n)
    BY <1>2, <1>7, <1>8, SurfacingTo
  <1>10. Surfacing(p) = Append(Surfacing(n), entryFn)
    <2>1. entryFn = prog.decls[p]
      BY <1>5 DEF entryFn
    <2> QED BY <1>2, <1>6, <1>7, <1>9, <2>1, SurfacingNext
  <1>11. Transitions' = Transitions /\ Surfacing(p)' = Surfacing(p)
    BY <1>1 DEF Transitions, Surfacing
  <1>12. entries' = {k \in 1 .. Len(prog.decls) : p < k /\ prog.decls[k] \in Transitions}
    BY <1>1, <1>2, <1>3, <1>4, <1>5, <1>7, <1>6
  <1>13. Outline(out)' = [depth |-> 0, fns |-> Surfacing(p)]
    <2>1. RootShown /\ DepthNow = 0
      BY <1>1 DEF RootShown, DepthNow
    <2> QED BY <1>1, <1>10, <2>1 DEF Surfaced
  <1>14. DepthNow' = 0 /\ ~RootShown'
    BY <1>1 DEF RootShown, DepthNow
  <1>15. Surfaced(p)'
    BY <1>1, <1>11, <1>12, <1>13, <1>14 DEF Surfaced
  <1>16. p \in 0 .. Len(prog.decls)
    BY <1>2, <1>7
  <1> QED BY <1>15, <1>16

LEMMA NextSurfaces ==
    HistoryInv /\ OutTyped /\ Surfaces /\ [Next]_vars => Surfaces'
  <1> SUFFICES ASSUME HistoryInv, OutTyped, Surfaces, [Next]_vars PROVE Surfaces'
    OBVIOUS
  <1>1. HistoryInv' /\ EntryRuns /\ EntryRuns'
    BY NextHistory, NextRuns DEF Surfaces
  <1>2. prog' = prog
    BY StepLeavesSomething
    DEF Next, EmitCallTrace, DispatchEntry, StartEntry, Evaluate, BeginEmission, OpenCall,
        EmitSubCall, EmitTrailingSubCall, EmitBinding, EndBindings, Descend, CloseCall, EndEmission,
        Stutter, vars, evalVars, HistoryInv, WalkInv
  <1>3. MainOnly' = MainOnly
    BY <1>2 DEF MainOnly
  <1>4. CASE MainOnly
    <2>1. MainHidden
      BY <1>4 DEF Surfaces
    <2>2. MainHidden'
      <3>1. CASE EmitCallTrace
        BY <1>4, <2>1, <3>1, EmissionHides
      <3>2. CASE \/ DispatchEntry \/ Evaluate \/ BeginEmission \/ EndEmission \/ UNCHANGED vars
        <4>1. UNCHANGED out
          BY <3>2 DEF DispatchEntry, Evaluate, BeginEmission, EndEmission, emitVars, vars
        <4> QED BY <2>1, <4>1 DEF MainHidden
      <3> QED BY <3>1, <3>2 DEF Next, Stutter
    <2> QED BY <1>1, <1>3, <1>4, <2>2 DEF Surfaces
  <1>5. CASE ~MainOnly
    <2>1. PICK n \in 0 .. Len(prog.decls) : Surfaced(n)
      BY <1>5 DEF Surfaces
    <2>2. \E p \in 0 .. Len(prog.decls) : Surfaced(p)'
      <3>1. CASE OpenCall
        BY <1>1, <1>5, <2>1, <3>1, OpenSurfaces
      <3>2. CASE EmitBinding \/ EndBindings
        BY <1>5, <2>1, <3>2, BindSurfaces
      <3>3. CASE EmitSubCall \/ EmitTrailingSubCall
        BY <1>5, <2>1, <3>3, DescendSurfaces
      <3>4. CASE CloseCall
        BY <1>5, <2>1, <3>4, CloseSurfaces
      <3>5. CASE DispatchEntry \/ Evaluate \/ BeginEmission \/ UNCHANGED vars
        BY <1>1, <1>2, <2>1, <3>5, IdleSurfaces
      <3>6. CASE EndEmission
        BY <1>1, <2>1, <3>6, EndSurfaces
      <3> QED BY <3>1, <3>2, <3>3, <3>4, <3>5, <3>6 DEF Next, EmitCallTrace, Stutter
    <2> QED BY <1>1, <1>2, <1>3, <1>5, <2>2 DEF Surfaces
  <1> QED BY <1>4, <1>5

LEMMA InitSurfaces == ASSUME Init PROVE Surfaces
  <1>1. /\ entries = Entries(prog) /\ mode = "idle" /\ walk = <<>> /\ out = <<>>
        /\ prog.decls \in Seq(FnName)
    BY InitHistory DEF Init, HistoryInv, WalkInv, EvalInv, EvalTypeOK, Program
  <1>2. EntryRuns /\ MainHidden
    BY <1>1 DEF EntryRuns, MainHidden
  <1>3. CASE ~MainOnly
    <2>1. Surfacing(0) = <<>>
      <3>1. SubSeq(prog.decls, 1, 0) = <<>>
        BY <1>1
      <3> QED BY <3>1, SelectEmpty DEF Surfacing
    <2>2. Outline(out) = [depth |-> 0, fns |-> <<>>]
      BY <1>1, OutlineEmpty DEF Blank
    <2>3. ~RootShown /\ DepthNow = 0
      BY <1>1 DEF RootShown, DepthNow
    <2>4. entries = {k \in 1 .. Len(prog.decls) : 0 < k /\ prog.decls[k] \in Transitions}
      <3>1. entries = {k \in 1 .. Len(prog.decls) : prog.fns[prog.decls[k]].transition}
        BY <1>1, <1>3 DEF Entries, MainOnly
      <3>2. Len(prog.decls) \in Nat /\ \A k \in 1 .. Len(prog.decls) : prog.decls[k] \in FnName
        BY <1>1
      <3> QED BY <3>1, <3>2 DEF Transitions
    <2>5. Surfaced(0)
      BY <2>1, <2>2, <2>3, <2>4 DEF Surfaced
    <2>6. 0 \in 0 .. Len(prog.decls)
      BY <1>1
    <2> QED BY <1>2, <1>3, <2>5, <2>6 DEF Surfaces
  <1> QED BY <1>2, <1>3 DEF Surfaces

LEMMA SurfacedWhenDone ==
    HistoryInv /\ Surfaces => EntryPointsRecorded
  <1> SUFFICES ASSUME HistoryInv, Surfaces, Finished, ~MainOnly
               PROVE  Outline(out) = [depth |-> 0, fns |-> Select(prog.decls, Transitions)]
    BY DEF EntryPointsRecorded, Surfaces, MainHidden
  <1>1. PICK n \in 0 .. Len(prog.decls) : Surfaced(n)
    BY DEF Surfaces
  <1>2. mode = "idle" /\ entries = {} /\ walk = <<>>
    BY DEF Finished, HistoryInv, WalkInv
  <1>3. PICK s \in Seq(FnName) : s = prog.decls
    BY DEF HistoryInv, WalkInv, EvalInv, EvalTypeOK, Program
  <1>4. PICK len \in Nat : len = Len(s)
    BY <1>3
  <1>5. Surfacing(len) = Surfacing(n)
    <2>1. \A k \in n + 1 .. len : prog.decls[k] \notin Transitions
      <3> SUFFICES ASSUME NEW k \in n + 1 .. len, prog.decls[k] \in Transitions PROVE FALSE
        OBVIOUS
      <3>1. k \in 1 .. len /\ n < k
        BY <1>1, <1>3, <1>4
      <3>2. k \in entries
        BY <1>1, <1>3, <1>4, <3>1 DEF Surfaced
      <3> QED BY <1>2, <3>2
    <2> QED BY <1>1, <1>3, <1>4, <2>1, SurfacingTo
  <1>6. Surfacing(len) = Select(prog.decls, Transitions)
    <2>1. SubSeq(s, 1, len) = s
      BY <1>3, <1>4
    <2> QED BY <1>3, <2>1 DEF Surfacing
  <1>7. ~RootShown /\ DepthNow = 0
    BY <1>2 DEF RootShown, DepthNow
  <1> QED BY <1>1, <1>5, <1>6, <1>7 DEF Surfaced

\* Whatever the programs: without a main the outermost calls of a finished
\* recording are the transitions, each once, in declaration order, and all of
\* them are closed; with a main, main itself is recorded as no call.
THEOREM EntryPoints == Spec => []EntryPointsRecorded
  <1>1. Init => HistoryInv /\ OutTyped /\ Surfaces
    BY InitHistory, StreamInit, InitSurfaces
  <1>2. HistoryInv /\ OutTyped /\ Surfaces /\ [Next]_vars => HistoryInv' /\ OutTyped' /\ Surfaces'
    BY NextHistory, StreamStep, NextSurfaces
  <1>3. HistoryInv /\ Surfaces => EntryPointsRecorded
    BY SurfacedWhenDone
  <1> QED BY <1>1, <1>2, <1>3, PTL DEF Spec

=============================================================================
