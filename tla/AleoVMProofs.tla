---------------------------- MODULE AleoVMProofs ----------------------------
(***************************************************************************)
(* The interpreter for every program, register width and store: its state  *)
(* is well typed, a mapping read sees the last write, a result is that of  *)
(* the last call that returned, and the flat events of a finalize trace    *)
(* nest and list the registers.                                            *)
(***************************************************************************)
EXTENDS AleoLines, SelectionProofs, SequenceTheorems, FiniteSetTheorems, TLAPS

----------------------------------------------------------------------------
(* Numbers *)

\* Wrapping leads back into i64.
LEMMA WrappingInt64 ==
    ASSUME NEW n \in Int
    PROVE  Wrapping(n) \in Int64
  <1>1. 2 * Half \in Nat \ {0} /\ n + Half \in Int
    BY HalfAssumption
  <1>2. (n + Half) % (2 * Half) \in 0 .. 2 * Half - 1
    BY <1>1
  <1> QED
    BY <1>2, HalfAssumption DEF Wrapping, Int64

\* A quotient of natural numbers is at most the dividend, and what remains is
\* below the divisor.
LEMMA NaturalQuotient ==
    ASSUME NEW a \in Nat, NEW b \in Nat \ {0}
    PROVE  /\ a \div b \in Nat /\ a \div b <= a
           /\ b * (a \div b) \in Nat
           /\ b * (a \div b) <= a /\ a < b * (a \div b) + b
           /\ b # 1 /\ a # 0 => a \div b < a
  OBVIOUS

\* The value of an instruction that neither fails nor panics is an i64.
LEMMA QuotientInt64 ==
    ASSUME NEW a \in Int64, NEW b \in Int64, b # 0, ~(a = -Half /\ b = -1)
    PROVE  /\ Quotient(a, b) \in Int64
           /\ a - b * Quotient(a, b) \in Int64
  <1> DEFINE x == IF a < 0 THEN -a ELSE a
             y == IF b < 0 THEN -b ELSE b
             q == x \div y
  <1>1. /\ x \in Nat /\ x <= Half /\ y \in Nat \ {0} /\ y <= Half
        /\ a \in Int /\ b \in Int /\ Half \in Nat \ {0}
    BY HalfAssumption DEF Int64
  <1>2. /\ q \in Nat /\ q <= x
        /\ y * q \in Nat /\ y * q <= x /\ x < y * q + y
        /\ y # 1 /\ x # 0 => q < x
    BY <1>1, NaturalQuotient
  <1>3. Quotient(a, b) = IF (a < 0) # (b < 0) THEN -q ELSE q
    BY DEF Quotient
  <1>4. b * Quotient(a, b) = IF a < 0 THEN -(y * q) ELSE y * q
    <2> HIDE DEF q
    <2>1. CASE a < 0 /\ b < 0
      BY <1>1, <1>2, <1>3, <2>1
    <2>2. CASE a < 0 /\ ~(b < 0)
      BY <1>1, <1>2, <1>3, <2>2
    <2>3. CASE ~(a < 0) /\ b < 0
      BY <1>1, <1>2, <1>3, <2>3
    <2>4. CASE ~(a < 0) /\ ~(b < 0)
      BY <1>1, <1>2, <1>3, <2>4
    <2> QED
      BY <2>1, <2>2, <2>3, <2>4
  <1>5. Quotient(a, b) \in Int64
    <2> HIDE DEF q
    <2>1. CASE (a < 0) # (b < 0)
      BY <1>1, <1>2, <1>3, <2>1 DEF Int64
    <2>2. CASE ~(a < 0) /\ ~(b < 0)
      BY <1>1, <1>2, <1>3, <2>2 DEF Int64
    <2>3. CASE a < 0 /\ b < 0
      <3>1. q < Half
        <4>1. CASE y # 1 /\ x # 0
          BY <1>1, <1>2, <4>1
        <4>2. CASE y = 1
          BY <1>1, <1>2, <2>3, <4>2
        <4> QED
          BY <1>1, <2>3, <4>1, <4>2
      <3> QED
        BY <1>1, <1>2, <1>3, <2>3, <3>1 DEF Int64
    <2> QED
      BY <2>1, <2>2, <2>3
  <1>6. a - b * Quotient(a, b) \in Int64
    <2> DEFINE p == y * q
    <2>1. p \in Nat /\ p <= x /\ x < p + y
      BY <1>2
    <2>2. b * Quotient(a, b) = IF a < 0 THEN -p ELSE p
      BY <1>4
    <2> HIDE DEF p
    <2> QED
      BY <1>1, <2>1, <2>2 DEF Int64
  <1> QED
    BY <1>5, <1>6

LEMMA BinaryInt64 ==
    ASSUME NEW op \in BinaryOp, NEW a \in Int64, NEW b \in Int64,
           op \in {"div", "mod"} => b # 0 /\ ~(a = -Half /\ b = -1)
    PROVE  Binary(op, a, b) \in Int64
  <1>1. a \in Int /\ b \in Int
    BY HalfAssumption DEF Int64
  <1>2. Flag(TRUE) \in Int64 /\ Flag(FALSE) \in Int64
    BY HalfAssumption DEF Flag, Int64
  <1>3. CASE op = "add"
    BY <1>1, <1>3, WrappingInt64 DEF Binary
  <1>4. CASE op = "sub"
    BY <1>1, <1>4, WrappingInt64 DEF Binary
  <1>5. CASE op = "mul"
    BY <1>1, <1>5, WrappingInt64 DEF Binary
  <1>6. CASE op \in {"div", "mod"}
    BY <1>6, QuotientInt64 DEF Binary
  <1>7. CASE op \in {"is.eq", "is.neq", "lt", "lte", "gt", "gte"}
    BY <1>7, HalfAssumption DEF Binary, Flag, Int64
  <1> QED
    BY <1>3, <1>4, <1>5, <1>6, <1>7 DEF BinaryOp

----------------------------------------------------------------------------
(* Registers *)

LEMMA ReadOK ==
    ASSUME NEW regs, RegistersOK(regs), NEW r
    PROVE  Read(regs, r) \in Int64
  <1>1. 0 \in Int64
    BY HalfAssumption DEF Int64
  <1> QED
    BY <1>1 DEF Read, RegistersOK

LEMMA ResolveOK ==
    ASSUME NEW regs, RegistersOK(regs), NEW o \in Operand
    PROVE  Resolve(regs, o) \in Int64
  <1>1. CASE o \in [reg : Reg]
    <2>1. "reg" \in DOMAIN o
      BY <1>1
    <2> QED
      BY <2>1, ReadOK DEF Resolve
  <1>2. CASE o \in [literal : Int64]
    <2>1. "reg" \notin DOMAIN o /\ o.literal \in Int64
      BY <1>2
    <2> QED
      BY <2>1 DEF Resolve
  <1> QED
    BY <1>1, <1>2 DEF Operand

LEMMA InsertOK ==
    ASSUME NEW regs, RegistersOK(regs), NEW r \in Reg, NEW v \in Int64
    PROVE  RegistersOK(Insert(regs, r, v))
  BY DEF RegistersOK, Insert

\* The last of the first n indices at which s has the value x.
LastAt(s, n, x) == CHOOSE k \in 1 .. n : s[k] = x /\ \A j \in k + 1 .. n : s[j] # x

LEMMA LastOccurrence ==
    ASSUME NEW n \in Nat, NEW s, NEW x, \E k \in 1 .. n : s[k] = x
    PROVE  LastAt(s, n, x) \in 1 .. n /\ s[LastAt(s, n, x)] = x
  <1> DEFINE P == {k \in 1 .. n : s[k] = x}
  <1>1. PICK l \in P : \A j \in P : j <= l
    BY GreatestIndex
  <1>2. l \in 1 .. n /\ s[l] = x /\ \A j \in l + 1 .. n : s[j] # x
    <2>1. ASSUME NEW j \in l + 1 .. n PROVE s[j] # x
      <3>1. j \in 1 .. n /\ ~(j <= l)
        OBVIOUS
      <3> QED
        BY <1>1, <3>1
    <2> QED
      BY <1>1, <2>1
  <1> QED
    BY <1>2 DEF LastAt

\* What a call stores are values of the callee, into registers.
LEMMA WithOutputsOK ==
    ASSUME NEW regs, RegistersOK(regs), NEW dests \in Seq(Reg),
           NEW vs, Len(vs) \in Nat, \A k \in 1 .. Len(vs) : vs[k] \in Int64
    PROVE  RegistersOK(WithOutputs(regs, dests, vs))
  <1> DEFINE n == IF Len(dests) < Len(vs) THEN Len(dests) ELSE Len(vs)
             last(r) == CHOOSE k \in 1 .. n : dests[k] = r /\ \A j \in k + 1 .. n : dests[j] # r
             set == {dests[k] : k \in 1 .. n}
  <1>1. n \in Nat /\ n <= Len(dests) /\ n <= Len(vs)
    OBVIOUS
  <1>2. set \subseteq Reg
    BY <1>1
  <1>3. ASSUME NEW r \in set PROVE vs[last(r)] \in Int64
    <2>1. \E k \in 1 .. n : dests[k] = r
      OBVIOUS
    <2>0. last(r) = LastAt(dests, n, r)
      BY Zenon DEF LastAt
    <2> HIDE DEF n, last
    <2>2. last(r) \in 1 .. n
      BY <1>1, <2>0, <2>1, LastOccurrence
    <2> QED
      BY <1>1, <2>2
  <1>4. WithOutputs(regs, dests, vs) = [r \in DOMAIN regs \cup set |-> IF r \in set THEN vs[last(r)] ELSE regs[r]]
    BY Zenon DEF WithOutputs
  <1> HIDE DEF set, last
  <1> QED
    BY <1>2, <1>3, <1>4 DEF RegistersOK

LEMMA InputRegistersOK ==
    ASSUME NEW f \in AleoFunction, NEW vs, Len(vs) \in Nat, \A k \in 1 .. Len(vs) : vs[k] \in Int64
    PROVE  RegistersOK(InputRegisters(f, vs))
  <1> DEFINE value(k) == IF k <= Len(vs) THEN vs[k] ELSE 0
             ins == f.inputs
             n == Len(ins)
             at(r) == CHOOSE k \in 1 .. n : ins[k] = r /\ \A j \in k + 1 .. n : ins[j] # r
  <1>1. ins \in Seq(Reg) /\ n \in Nat
    BY DEF AleoFunction
  <1>2. Range(ins) = {ins[k] : k \in 1 .. n}
    BY <1>1 DEF Range
  <1>3. ASSUME NEW r \in Range(ins) PROVE value(at(r)) \in Int64
    <2>1. \E k \in 1 .. n : ins[k] = r
      BY <1>2
    <2>0. at(r) = LastAt(ins, n, r)
      BY Zenon DEF LastAt
    <2> HIDE DEF n, ins, at
    <2>2. at(r) \in 1 .. n
      BY <1>1, <2>0, <2>1, LastOccurrence
    <2>3. 0 \in Int64
      BY HalfAssumption DEF Int64
    <2> QED
      BY <1>1, <2>2, <2>3
  <1>4. InputRegisters(f, vs) = [r \in Range(ins) |-> value(at(r))]
    BY Zenon DEF InputRegisters
  <1> HIDE DEF ins, at, value, n
  <1>5. Range(ins) \subseteq Reg
    BY <1>1, <1>2 DEF n
  <1> QED
    BY <1>3, <1>4, <1>5 DEF RegistersOK

----------------------------------------------------------------------------
(* Activations *)

CodeOf(a) == prog.fns[a.fn].code

ActivationFields == {"id", "fn", "regs", "pc"}

ActivationOK(a) ==
    /\ DOMAIN a = ActivationFields
    /\ a.fn \in 1 .. Len(prog.fns)
    /\ RegistersOK(a.regs)
    /\ a.pc \in 1 .. Len(CodeOf(a)) + 1

\* An activation that waits is at a call.
Waiting(a) == a.pc <= Len(CodeOf(a)) /\ CodeOf(a)[a.pc].op = "call"

StackOK(s) ==
    /\ \E S : s \in Seq(S)
    /\ \A k \in 1 .. Len(s) : ActivationOK(s[k])
    /\ \A k \in 1 .. Len(s) - 1 : Waiting(s[k])

ResultsOK == \A n \in DOMAIN results : n \in FnName /\ RegistersOK(results[n].registers)

VMInv ==
    /\ prog \in Program
    /\ StackOK(stack)
    /\ IsStore(store)
    /\ ResultsOK
    /\ status \in {"running", "failing", "ok", "err", "panic"}
    /\ status = "failing" => stack # <<>>

\* The types of a program and of its parts.
LEMMA ProgramParts ==
    ASSUME prog \in Program
    PROVE  /\ prog.fns \in Seq(AleoFunction) /\ Len(prog.fns) \in Nat
           /\ prog.inputs \in Seq(Int64) /\ prog.entry \in FnName
           /\ \A k \in 1 .. Len(prog.fns) :
                  /\ prog.fns[k] \in AleoFunction /\ prog.fns[k].name \in FnName
                  /\ prog.fns[k].code \in Seq(Instruction) /\ Len(prog.fns[k].code) \in Nat
                  /\ prog.fns[k].outputs \in Seq(Reg)
  <1>2. /\ prog.fns \in Seq(AleoFunction) /\ prog.inputs \in Seq(Int64) /\ prog.entry \in FnName
    BY DEF Program
  <1>3. ASSUME NEW k \in 1 .. Len(prog.fns)
        PROVE  /\ prog.fns[k] \in AleoFunction /\ prog.fns[k].name \in FnName
               /\ prog.fns[k].code \in Seq(Instruction)
               /\ prog.fns[k].outputs \in Seq(Reg)
    <2>1. prog.fns[k] \in AleoFunction
      BY <1>2
    <2> QED
      BY <2>1 DEF AleoFunction
  <1> QED
    BY <1>2, <1>3

\* The fields of an instruction by its operation.
LEMMA InstructionFields ==
    ASSUME NEW i \in Instruction
    PROVE  /\ i.op \in BinaryOp => i.src1 \in Operand /\ i.src2 \in Operand /\ i.dest \in Reg
           /\ i.op = "call" => i.callee \in FnName /\ i.args \in Seq(Operand) /\ i.dests \in Seq(Reg)
           /\ i.op \in {"get", "get.or_use", "contains"} => i.dest \in Reg
           /\ i.op \in {"get", "get.or_use", "contains", "set", "remove"} => i.mapping \in Mapping
  BY DEF Instruction, BinaryOp

LEMMA FuncMapOK ==
    ASSUME prog \in Program, NEW n \in Known
    PROVE  FuncMap(n) \in 1 .. Len(prog.fns) /\ prog.fns[FuncMap(n)].name = n
  <1> DEFINE N == Len(prog.fns)
             P == {k \in 1 .. N : prog.fns[k].name = n}
  <1>1. N \in Nat
    BY ProgramParts
  <1>2. P \subseteq 1 .. N /\ P # {}
    BY DEF Known
  <1>3. PICK l \in P : \A j \in P : j <= l
    BY <1>1, <1>2, GreatestIndex
  <1>4. l \in 1 .. N /\ prog.fns[l].name = n /\ \A j \in l + 1 .. N : prog.fns[j].name # n
    <2>1. ASSUME NEW j \in l + 1 .. N PROVE prog.fns[j].name # n
      <3>1. j \in 1 .. N /\ ~(j <= l)
        BY <1>1
      <3> QED
        BY <1>3, <3>1
    <2> QED
      BY <1>3, <2>1
  <1> QED
    BY <1>4 DEF FuncMap

LEMMA ActivateOK ==
    ASSUME prog \in Program, NEW n \in Known, NEW id,
           NEW vs, Len(vs) \in Nat, \A k \in 1 .. Len(vs) : vs[k] \in Int64
    PROVE  ActivationOK(Activate(id, FuncMap(n), vs))
  <1>1. FuncMap(n) \in 1 .. Len(prog.fns)
    BY FuncMapOK
  <1>2. /\ prog.fns[FuncMap(n)] \in AleoFunction
        /\ Len(prog.fns[FuncMap(n)].code) \in Nat
    BY <1>1, ProgramParts
  <1>3. RegistersOK(InputRegisters(prog.fns[FuncMap(n)], vs))
    BY <1>2, InputRegistersOK
  <1> QED
    BY <1>1, <1>2, <1>3 DEF Activate, ActivationOK, ActivationFields, CodeOf

----------------------------------------------------------------------------
(* The stack *)

LEMMA TopReplaced ==
    ASSUME NEW s, StackOK(s), s # <<>>, NEW a, ActivationOK(a)
    PROVE  StackOK([s EXCEPT ![Len(s)] = a])
  <1> DEFINE t == [s EXCEPT ![Len(s)] = a]
  <1>1. PICK S : s \in Seq(S)
    BY DEF StackOK
  <1>2. s \in Seq(S \cup {a}) /\ Len(s) \in 1 .. Len(s)
    BY <1>1
  <1>3. t \in Seq(S \cup {a}) /\ Len(t) = Len(s)
    BY <1>2
  <1>4. \A k \in 1 .. Len(s) : t[k] = IF k = Len(s) THEN a ELSE s[k]
    BY <1>2
  <1> HIDE DEF t
  <1>5. \A k \in 1 .. Len(t) : ActivationOK(t[k])
    BY <1>3, <1>4 DEF StackOK
  <1>6. \A k \in 1 .. Len(t) - 1 : Waiting(t[k])
    <2>1. ASSUME NEW k \in 1 .. Len(t) - 1 PROVE Waiting(t[k])
      <3>1. k \in 1 .. Len(s) - 1 /\ k \in 1 .. Len(s) /\ k # Len(s)
        BY <1>2, <1>3
      <3>2. t[k] = s[k]
        BY <1>4, <3>1
      <3> QED
        BY <3>1, <3>2 DEF StackOK
    <2> QED
      BY <2>1
  <1>7. StackOK(t)
    BY <1>3, <1>5, <1>6 DEF StackOK
  <1> QED
    BY <1>7 DEF t

LEMMA CalleePushed ==
    ASSUME NEW s, StackOK(s), s # <<>>, Waiting(s[Len(s)]), NEW a, ActivationOK(a)
    PROVE  StackOK(Append(s, a))
  <1> DEFINE t == Append(s, a)
  <1>1. PICK S : s \in Seq(S)
    BY DEF StackOK
  <1>2. s \in Seq(S \cup {a})
    BY <1>1
  <1>3. t \in Seq(S \cup {a}) /\ Len(t) = Len(s) + 1 /\ Len(s) \in Nat
    BY <1>2
  <1>4. \A k \in 1 .. Len(t) : t[k] = IF k = Len(s) + 1 THEN a ELSE s[k]
    BY <1>2
  <1> HIDE DEF t
  <1>5. \A k \in 1 .. Len(t) : ActivationOK(t[k])
    BY <1>3, <1>4 DEF StackOK
  <1>6. \A k \in 1 .. Len(t) - 1 : Waiting(t[k])
    BY <1>3, <1>4 DEF StackOK
  <1>7. StackOK(t)
    BY <1>3, <1>5, <1>6 DEF StackOK
  <1> QED
    BY <1>7 DEF t

LEMMA TopPopped ==
    ASSUME NEW s, StackOK(s), s # <<>>
    PROVE  /\ StackOK(Front(s)) /\ Len(Front(s)) = Len(s) - 1
           /\ \A k \in 1 .. Len(s) - 1 : Front(s)[k] = s[k]
  <1> DEFINE t == Front(s)
  <1>1. PICK S : s \in Seq(S)
    BY DEF StackOK
  <1>2. Len(s) \in Nat \ {0} /\ \A k \in 1 .. Len(s) - 1 : s[k] \in S
    BY <1>1
  <1>3. t = SubSeq(s, 1, Len(s) - 1)
    BY Zenon DEF Front
  <1>4. /\ t \in Seq(S) /\ Len(t) = Len(s) - 1
        /\ \A k \in 1 .. Len(s) - 1 : t[k] = s[k]
    <2> DEFINE n == Len(s) - 1
               m == 1
    <2>1. n \in Nat /\ m \in Int /\ m = 1 /\ \A k \in m .. n : s[k] \in S
      BY <1>2
    <2>2. t = SubSeq(s, m, n)
      BY <1>3
    <2> HIDE DEF n, m, t
    <2>3. /\ t \in Seq(S) /\ Len(t) = IF m <= n THEN n - m + 1 ELSE 0
          /\ \A k \in 1 .. n - m + 1 : t[k] = s[m + k - 1]
      BY <2>1, <2>2, SubSeqProperties
    <2>4. Len(t) = n /\ \A k \in 1 .. n : t[k] = s[k]
      BY <2>1, <2>3
    <2> QED
      BY <2>3, <2>4 DEF n
  <1> HIDE DEF t
  <1>5. StackOK(t)
    BY <1>2, <1>4 DEF StackOK
  <1> QED
    BY <1>4, <1>5 DEF t

----------------------------------------------------------------------------
(* Steps *)

LEMMA VMKept ==
    ASSUME VMInv, UNCHANGED prog, StackOK(stack'), IsStore(store'), ResultsOK',
           status' \in {"running", "failing", "ok", "err", "panic"},
           status' = "failing" => stack' # <<>>
    PROVE  VMInv'
  <1>1. StackOK(stack)'
    BY DEF StackOK, ActivationOK, CodeOf, Waiting
  <1> QED
    BY <1>1 DEF VMInv

\* The activation and the instruction that run.
LEMMA AtTop ==
    ASSUME VMInv, stack # <<>>
    PROVE  /\ Len(stack) \in Nat \ {0} /\ ActivationOK(top) /\ RegistersOK(top.regs)
           /\ top.fn \in 1 .. Len(prog.fns) /\ code \in Seq(Instruction) /\ Len(code) \in Nat
           /\ top.pc \in 1 .. Len(code) + 1
           /\ top.pc <= Len(code) => instr \in Instruction
  <1>1. PICK S : stack \in Seq(S)
    BY DEF VMInv, StackOK
  <1>2. Len(stack) \in Nat \ {0}
    BY <1>1
  <1>3. ActivationOK(top)
    BY <1>2 DEF VMInv, StackOK, top
  <1>4. top.fn \in 1 .. Len(prog.fns) /\ code \in Seq(Instruction) /\ Len(code) \in Nat
    BY <1>3, ProgramParts DEF VMInv, ActivationOK, code
  <1>5. top.pc \in 1 .. Len(code) + 1 /\ RegistersOK(top.regs)
    BY <1>3 DEF ActivationOK, CodeOf, code
  <1>6. top.pc <= Len(code) => instr \in Instruction
    BY <1>4, <1>5 DEF instr
  <1> QED
    BY <1>2, <1>3, <1>4, <1>5, <1>6

\* An instruction that is not a call.
LEMMA InstructionDone ==
    ASSUME VMInv, stack # <<>>, status = "running", top.pc <= Len(code),
           NEW regs, RegistersOK(regs), Complete(regs), IsStore(store')
    PROVE  VMInv'
  <1> DEFINE after == [top EXCEPT !.regs = regs, !.pc = @ + 1]
  <1>1. ActivationOK(after)
    BY AtTop DEF ActivationOK, ActivationFields, CodeOf, code
  <1>2. stack' = [stack EXCEPT ![Len(stack)] = after] /\ UNCHANGED <<prog, status, results>>
    BY DEF Complete
  <1>3. StackOK(stack')
    BY <1>1, <1>2, TopReplaced DEF VMInv
  <1> QED
    BY <1>2, <1>3, VMKept DEF VMInv, ResultsOK

LEMMA BinaryStep ==
    ASSUME VMInv, ExecBinary
    PROVE  VMInv'
  <1>1. /\ stack # <<>> /\ status = "running" /\ top.pc <= Len(code) /\ instr.op \in BinaryOp
        /\ ~DividesByZero /\ ~DivisionOverflows /\ UNCHANGED store
        /\ Complete(Insert(top.regs, instr.dest, Binary(instr.op, left, right)))
    BY DEF ExecBinary, AtInstruction, Running
  <1>2. instr.src1 \in Operand /\ instr.src2 \in Operand /\ instr.dest \in Reg
    BY <1>1, AtTop, InstructionFields
  <1>3. left \in Int64 /\ right \in Int64
    BY <1>1, <1>2, AtTop, ResolveOK DEF left, right
  <1>4. Binary(instr.op, left, right) \in Int64
    BY <1>1, <1>3, BinaryInt64 DEF DividesByZero, DivisionOverflows
  <1>5. RegistersOK(Insert(top.regs, instr.dest, Binary(instr.op, left, right)))
    BY <1>1, <1>2, <1>4, AtTop, InsertOK
  <1> QED
    BY <1>1, <1>5, InstructionDone DEF VMInv

LEMMA FlagInt64 == ASSUME NEW b PROVE Flag(b) \in Int64
  BY HalfAssumption DEF Flag, Int64

\* What a store holds are i64.
LEMMA LookupOK ==
    ASSUME VMInv, NEW m, NEW k, NEW d \in Int64
    PROVE  Lookup(m, k, d) \in Int64
  BY DEF VMInv, IsStore, Lookup, HasKey, Range

\* Reads of a mapping, calls of unknown functions, unknown instructions.
LEMMA ReadingSteps ==
    ASSUME VMInv, ExecGet \/ ExecGetOrUse \/ ExecContains \/ ExecUnknownCall \/ ExecUnknown
    PROVE  VMInv'
  <1>1. /\ stack # <<>> /\ status = "running" /\ top.pc <= Len(code) /\ UNCHANGED store
    BY DEF ExecGet, ExecGetOrUse, ExecContains, ExecUnknownCall, ExecUnknown, AtInstruction, Running
  <1>2. RegistersOK(top.regs) /\ instr \in Instruction
    BY <1>1, AtTop
  <1>3. 0 \in Int64
    BY HalfAssumption DEF Int64
  <1>4. PICK regs : Complete(regs) /\ RegistersOK(regs)
    <2>1. CASE ExecGet
      <3>1. instr.dest \in Reg
        BY <1>2, <2>1, InstructionFields DEF ExecGet, AtInstruction
      <3>2. Complete(Insert(top.regs, instr.dest, Lookup(instr.mapping, Key, 0)))
        BY <2>1 DEF ExecGet
      <3> QED
        BY <1>2, <1>3, <3>1, <3>2, LookupOK, InsertOK
    <2>2. CASE ExecGetOrUse
      <3> DEFINE d == Read(top.regs, instr.default)
      <3>1. instr.dest \in Reg
        BY <1>2, <2>2, InstructionFields DEF ExecGetOrUse, AtInstruction
      <3>2. Complete(Insert(top.regs, instr.dest, Lookup(instr.mapping, Key, d)))
        BY <2>2 DEF ExecGetOrUse
      <3>3. d \in Int64
        BY <1>2, ReadOK
      <3> HIDE DEF d
      <3>4. Lookup(instr.mapping, Key, d) \in Int64
        BY <3>3, LookupOK
      <3> QED
        BY <1>2, <3>1, <3>2, <3>4, InsertOK
    <2>3. CASE ExecContains
      <3>1. instr.dest \in Reg
        BY <1>2, <2>3, InstructionFields DEF ExecContains, AtInstruction
      <3>2. Complete(Insert(top.regs, instr.dest, Flag(HasKey(instr.mapping, Key))))
        BY <2>3 DEF ExecContains
      <3> QED
        BY <1>2, <3>1, <3>2, FlagInt64, InsertOK
    <2>4. CASE ExecUnknownCall \/ ExecUnknown
      BY <1>2, <2>4 DEF ExecUnknownCall, ExecUnknown
    <2> QED
      BY <2>1, <2>2, <2>3, <2>4
  <1> QED
    BY <1>1, <1>4, InstructionDone DEF VMInv

\* set and remove leave a store.
LEMMA StoreKept ==
    ASSUME IsStore(store), NEW m \in Mapping, NEW k \in Int64, NEW v \in Int64
    PROVE  IsStore(Stored(m, k, v)) /\ IsStore(Removed(m, k))
  <1>1. IsStore(Stored(m, k, v))
    <2> DEFINE old == IF m \in DOMAIN store THEN store[m] ELSE <<>>
               new == Insert(old, k, v)
    <2>1. DOMAIN old \subseteq Int64 /\ \A x \in DOMAIN old : old[x] \in Int64
      BY DEF IsStore, Range
    <2> HIDE DEF old
    <2>2. DOMAIN new \subseteq Int64 /\ \A x \in DOMAIN new : new[x] \in Int64
      BY <2>1 DEF Insert
    <2>3. Stored(m, k, v) = Insert(store, m, new)
      BY Zenon DEF Stored, old
    <2> HIDE DEF new
    <2> QED
      BY <2>2, <2>3 DEF IsStore, Insert, Range
  <1>2. IsStore(Removed(m, k))
    BY DEF IsStore, Removed, Range
  <1> QED
    BY <1>1, <1>2

LEMMA WritingSteps ==
    ASSUME VMInv, ExecSet \/ ExecRemove
    PROVE  VMInv'
  <1>1. /\ stack # <<>> /\ status = "running" /\ top.pc <= Len(code) /\ Complete(top.regs)
    BY DEF ExecSet, ExecRemove, AtInstruction, Running
  <1>2. RegistersOK(top.regs) /\ instr \in Instruction
    BY <1>1, AtTop
  <1>3. Key \in Int64 /\ instr.mapping \in Mapping
    BY <1>2, ReadOK, InstructionFields DEF Key, ExecSet, ExecRemove, AtInstruction
  <1>4. IsStore(store')
    <2>1. CASE ExecSet
      <3>1. PICK v \in Int64 : store' = Stored(instr.mapping, Key, v)
        BY <1>2, <2>1, ReadOK DEF ExecSet
      <3> QED
        BY <1>3, <3>1, StoreKept DEF VMInv
    <2>2. CASE ExecRemove
      <3>1. 0 \in Int64 /\ store' = Removed(instr.mapping, Key)
        BY <2>2, HalfAssumption DEF ExecRemove, Int64
      <3> QED
        BY <1>3, <3>1, StoreKept DEF VMInv
    <2> QED
      BY <2>1, <2>2
  <1> QED
    BY <1>1, <1>2, <1>4, InstructionDone

\* An error or a panic, and its way out.
LEMMA FailingSteps ==
    ASSUME VMInv, FailDivision \/ PanicDivision \/ Unwind
    PROVE  VMInv'
  <1>1. UNCHANGED <<prog, store, results>>
    BY DEF FailDivision, PanicDivision, Unwind
  <1>2. CASE FailDivision
    <2>1. stack # <<>> /\ status' = "failing" /\ UNCHANGED stack
      BY <1>2 DEF FailDivision, AtInstruction, Running
    <2> QED
      BY <1>1, <2>1, VMKept DEF VMInv, ResultsOK
  <1>3. CASE PanicDivision
    <2>1. stack' = <<>> /\ status' = "panic"
      BY <1>3 DEF PanicDivision
    <2>2. StackOK(<<>>)
      BY DEF StackOK
    <2> QED
      BY <1>1, <2>1, <2>2, VMKept DEF VMInv, ResultsOK
  <1>4. CASE Unwind
    <2>1. /\ status = "failing" /\ stack # <<>>
          /\ stack' = Front(stack) /\ status' = (IF Len(stack) = 1 THEN "err" ELSE "failing")
      BY <1>4 DEF Unwind, VMInv
    <2>2. StackOK(stack') /\ Len(stack') = Len(stack) - 1 /\ Len(stack) \in Nat
      BY <2>1, TopPopped, AtTop DEF VMInv
    <2>3. Len(stack) # 1 => stack' # <<>>
      BY <2>2
    <2> QED
      BY <1>1, <2>1, <2>2, <2>3, VMKept DEF VMInv, ResultsOK
  <1> QED
    BY <1>2, <1>3, <1>4

LEMMA CallStep ==
    ASSUME VMInv, ExecCall
    PROVE  VMInv'
  <1> DEFINE vs == [k \in 1 .. Len(instr.args) |-> Resolve(top.regs, instr.args[k])]
             callee == Activate(Len(hist) + 1, FuncMap(instr.callee), vs)
  <1>1. /\ stack # <<>> /\ status = "running" /\ top.pc <= Len(code) /\ instr.op = "call"
        /\ instr.callee \in Known /\ UNCHANGED <<prog, store, results, status>>
        /\ stack' = Append(stack, callee)
    BY Zenon DEF ExecCall, AtInstruction, Running
  <1>2. instr \in Instruction /\ RegistersOK(top.regs)
    BY <1>1, AtTop
  <1>3. instr.args \in Seq(Operand) /\ Len(instr.args) \in Nat
    BY <1>1, <1>2, InstructionFields
  <1>4. Len(vs) \in Nat /\ \A k \in 1 .. Len(vs) : vs[k] \in Int64
    BY <1>2, <1>3, ResolveOK
  <1> HIDE DEF vs
  <1>5. ActivationOK(callee)
    BY <1>1, <1>4, ActivateOK DEF VMInv
  <1>6. Waiting(stack[Len(stack)])
    BY <1>1 DEF Waiting, CodeOf, top, code, instr
  <1> HIDE DEF callee
  <1>7. StackOK(stack')
    BY <1>1, <1>5, <1>6, CalleePushed DEF VMInv
  <1> QED
    BY <1>1, <1>7, VMKept DEF VMInv, ResultsOK

\* The outputs of an activation.
LEMMA OutputsOK ==
    ASSUME prog \in Program, NEW a, ActivationOK(a)
    PROVE  Len(Outputs(a)) \in Nat /\ \A k \in 1 .. Len(Outputs(a)) : Outputs(a)[k] \in Int64
  <1>1. prog.fns[a.fn].outputs \in Seq(Reg) /\ RegistersOK(a.regs)
    BY ProgramParts DEF ActivationOK
  <1> QED
    BY <1>1, ReadOK DEF Outputs

LEMMA ReturnStep ==
    ASSUME VMInv, Return
    PROVE  VMInv'
  <1> DEFINE n == Len(stack)
             f == prog.fns[top.fn]
             result == [registers |-> top.regs, outputs |-> Outputs(top)]
             caller == stack[n - 1]
             call == prog.fns[caller.fn].code[caller.pc]
             resumed == [caller EXCEPT !.regs = WithOutputs(@, call.dests, result.outputs), !.pc = @ + 1]
  <1>1. /\ stack # <<>> /\ status = "running" /\ UNCHANGED <<prog, given, store>>
        /\ results' = IF prog.mode = "finalize" THEN results ELSE ResultInserted(f.name, result)
        /\ \/ n = 1 /\ stack' = <<>> /\ status' = "ok"
           \/ n # 1 /\ stack' = [Front(stack) EXCEPT ![n - 1] = resumed] /\ UNCHANGED status
    BY Zenon DEF Return, Running
  <1>2. ActivationOK(top) /\ n \in Nat \ {0} /\ RegistersOK(top.regs)
    BY <1>1, AtTop
  <1>3. ResultsOK'
    <2>1. f.name \in FnName
      BY <1>2, ProgramParts DEF ActivationOK, VMInv
    <2>2. result.registers = top.regs
      OBVIOUS
    <2> HIDE DEF result, f
    <2> QED
      BY <1>1, <1>2, <2>1, <2>2 DEF VMInv, ResultsOK, ResultInserted, Insert
  <1>4. StackOK(<<>>)
    BY DEF StackOK
  <1>5. ASSUME n # 1
        PROVE  StackOK([Front(stack) EXCEPT ![n - 1] = resumed])
    <2>1. n - 1 \in 1 .. n - 1 /\ n - 1 \in 1 .. n
      BY <1>2, <1>5
    <2>2. ActivationOK(caller) /\ Waiting(caller)
      BY <2>1 DEF VMInv, StackOK
    <2>3. /\ caller.fn \in 1 .. Len(prog.fns) /\ call \in Instruction /\ call.op = "call"
          /\ caller.pc \in 1 .. Len(CodeOf(caller)) /\ Len(CodeOf(caller)) \in Nat
      <3>1. caller.fn \in 1 .. Len(prog.fns) /\ caller.pc \in Nat \ {0} /\ caller.pc <= Len(CodeOf(caller))
        BY <2>2 DEF ActivationOK, Waiting
      <3>2. CodeOf(caller) \in Seq(Instruction)
        BY <3>1, ProgramParts DEF CodeOf, VMInv
      <3> QED
        BY <2>2, <3>1, <3>2 DEF CodeOf, Waiting
    <2>4. RegistersOK(WithOutputs(caller.regs, call.dests, Outputs(top)))
      <3>1. call.dests \in Seq(Reg)
        BY <2>3, InstructionFields
      <3>2. Len(Outputs(top)) \in Nat /\ \A k \in 1 .. Len(Outputs(top)) : Outputs(top)[k] \in Int64
        BY <1>2, OutputsOK DEF VMInv
      <3>3. RegistersOK(caller.regs)
        BY <2>2 DEF ActivationOK
      <3> HIDE DEF caller, call
      <3> QED
        BY <3>1, <3>2, <3>3, WithOutputsOK
    <2>5. ActivationOK(resumed)
      <3> DEFINE new == WithOutputs(caller.regs, call.dests, Outputs(top))
      <3>1. resumed = [caller EXCEPT !.regs = new, !.pc = caller.pc + 1]
        OBVIOUS
      <3> HIDE DEF new, resumed
      <3>2. /\ DOMAIN resumed = ActivationFields /\ resumed.fn = caller.fn
            /\ resumed.regs = new /\ resumed.pc = caller.pc + 1
        BY <2>2, <3>1 DEF ActivationOK, ActivationFields
      <3>3. RegistersOK(resumed.regs)
        BY <2>4, <3>2 DEF new
      <3>4. CodeOf(resumed) = CodeOf(caller)
        BY <3>2 DEF CodeOf
      <3> HIDE DEF caller
      <3>5. resumed.fn \in 1 .. Len(prog.fns) /\ resumed.pc \in 1 .. Len(CodeOf(resumed)) + 1
        BY <2>3, <3>2, <3>4
      <3> QED
        BY <3>2, <3>3, <3>5 DEF ActivationOK
    <2> HIDE DEF resumed
    <2>6. StackOK(Front(stack)) /\ Len(Front(stack)) = n - 1
      BY <1>1, TopPopped DEF VMInv
    <2>7. Front(stack) # <<>>
      BY <1>2, <1>5, <2>6
    <2> QED
      BY <2>5, <2>6, <2>7, TopReplaced
  <1> HIDE DEF n, resumed, result, f
  <1> QED
    BY <1>1, <1>3, <1>4, <1>5, VMKept DEF VMInv

LEMMA VMStep == VMInv /\ [Next]_vars => VMInv'
  <1> SUFFICES ASSUME VMInv, [Next]_vars PROVE VMInv'
    OBVIOUS
  <1>1. CASE UNCHANGED vars
    BY <1>1, VMKept DEF vars, VMInv, ResultsOK
  <1> QED
    BY <1>1, BinaryStep, ReadingSteps, WritingSteps, FailingSteps, CallStep, ReturnStep
       DEF Next, Execute, Stopped

\* The execution starts with the entry function's activation, or with none.
LEMMA VMStarts == Init => VMInv
  <1> SUFFICES ASSUME Init PROVE VMInv
    OBVIOUS
  <1>1. prog \in Program /\ results = <<>> /\ status \in {"running", "ok", "err"}
    BY ProgramsAssumption DEF Init
  <1>2. IsStore(store)
    <2>1. IsStore(<<>>)
      BY DEF IsStore
    <2> QED
      BY <2>1, PrePopulatedAssumption DEF Init
  <1>3. StackOK(stack)
    <2>1. CASE prog.entry \in Known
      <3> DEFINE a == Activate(0, FuncMap(prog.entry), prog.inputs)
      <3>1. stack = <<a>>
        BY <2>1 DEF Init
      <3>2. ActivationOK(a)
        <4>1. Len(prog.inputs) \in Nat /\ \A k \in 1 .. Len(prog.inputs) : prog.inputs[k] \in Int64
          BY <1>1, ProgramParts
        <4> QED
          BY <1>1, <2>1, <4>1, ActivateOK
      <3> HIDE DEF a
      <3>3. stack \in Seq({a}) /\ Len(stack) = 1 /\ stack[1] = a
        BY <3>1
      <3> QED
        BY <3>2, <3>3 DEF StackOK
    <2>2. CASE prog.entry \notin Known
      BY <2>2 DEF Init, StackOK
    <2> QED
      BY <2>1, <2>2
  <1> QED
    BY <1>1, <1>2, <1>3 DEF VMInv, ResultsOK

\* Every state of the interpreter is well typed: registers are i64 whatever is
\* computed, activations are in the code of known functions.
THEOREM VMTypeCorrect == Spec => []TypeOK
  <1>1. VMInv => TypeOK
    BY DEF VMInv, TypeOK, StackOK, ActivationOK, CodeOf, ResultsOK
  <1> QED
    BY <1>1, VMStarts, VMStep, PTL DEF Spec

----------------------------------------------------------------------------
(* Mapping reads: the store agrees with the last writes of the history *)

Writes(n, m, k) == {j \in 1 .. n : Touches(hist[j], m, k)}

NewestOf(P) == CHOOSE j \in P : \A l \in P : l <= j

\* Whether the first n events leave the key in the mapping, and its value.
Present(n, m, k) ==
    IF Writes(n, m, k) = {} THEN m \in DOMAIN given /\ k \in DOMAIN given[m]
    ELSE hist[NewestOf(Writes(n, m, k))].did = "set"

Value(n, m, k) ==
    IF Writes(n, m, k) = {} THEN given[m][k] ELSE hist[NewestOf(Writes(n, m, k))].value

\* The read at i returned what the events before it left.
Seen(i) ==
    LET m == hist[i].mapping
        k == hist[i].key
    IN  hist[i].value = IF hist[i].did = "contains" THEN Present(i - 1, m, k)
                        ELSE IF Present(i - 1, m, k) THEN Value(i - 1, m, k) ELSE hist[i].default

ReadsSeen == \A i \in 1 .. Len(hist) : hist[i].did \in {"get", "contains"} => Seen(i)

StoreAgrees ==
    \A m, k : /\ HasKey(m, k) <=> Present(Len(hist), m, k)
              /\ HasKey(m, k) => store[m][k] = Value(Len(hist), m, k)

HistInv ==
    /\ \E S : hist \in Seq(S)
    /\ StoreAgrees
    /\ ReadsSeen

\* hist' is hist with one more event.
Grown(e) ==
    /\ \E S : hist' \in Seq(S)
    /\ Len(hist) \in Nat /\ Len(hist') = Len(hist) + 1
    /\ \A j \in 1 .. Len(hist) : hist'[j] = hist[j]
    /\ hist'[Len(hist) + 1] = e

LEMMA HistGrows ==
    ASSUME HistInv, NEW e, hist' = Append(hist, e)
    PROVE  Grown(e)
  <1>1. PICK S : hist \in Seq(S)
    BY DEF HistInv
  <1>2. hist \in Seq(S \cup {e})
    BY <1>1
  <1>3. hist' \in Seq(S \cup {e}) /\ Len(hist') = Len(hist) + 1 /\ Len(hist) \in Nat
    BY <1>2
  <1> QED
    BY <1>2, <1>3 DEF Grown

LEMMA NewestIn ==
    ASSUME NEW n \in Nat, NEW P, P \subseteq 1 .. n, P # {}
    PROVE  NewestOf(P) \in P /\ \A l \in P : l <= NewestOf(P)
  <1>1. \E j \in P : \A l \in P : l <= j
    BY GreatestIndex
  <1> QED
    BY <1>1 DEF NewestOf

\* The past does not change.
LEMMA PastStays ==
    ASSUME NEW e, Grown(e), UNCHANGED given, NEW n \in Nat, n <= Len(hist), NEW m, NEW k
    PROVE  /\ Present(n, m, k)' = Present(n, m, k)
           /\ Value(n, m, k)' = Value(n, m, k)
  <1> DEFINE P == Writes(n, m, k)
  <1>1. \A j \in 1 .. n : j \in 1 .. Len(hist) /\ hist'[j] = hist[j]
    BY DEF Grown
  <1>2. Writes(n, m, k)' = P
    BY <1>1 DEF Writes, Touches
  <1>3. P # {} => hist'[NewestOf(P)] = hist[NewestOf(P)]
    <2>1. P \subseteq 1 .. n
      BY DEF Writes
    <2> QED
      BY <1>1, <2>1, NewestIn
  <1> QED
    BY <1>2, <1>3 DEF Present, Value, NewestOf

\* An event that does not write the key does not change it.
LEMMA OthersStay ==
    ASSUME NEW e, Grown(e), UNCHANGED given, NEW m, NEW k, ~Touches(e, m, k)
    PROVE  /\ Present(Len(hist), m, k)' = Present(Len(hist), m, k)
           /\ Value(Len(hist), m, k)' = Value(Len(hist), m, k)
  <1>1. PICK n \in Nat : n = Len(hist)
    BY DEF Grown
  <1>2. \A j \in 1 .. n + 1 : j \in 1 .. n \/ j = n + 1
    BY <1>1
  <1>3. Len(hist') = n + 1 /\ hist'[n + 1] = e
    BY <1>1 DEF Grown
  <1>4. Writes(Len(hist), m, k)' = Writes(n, m, k)'
    BY <1>1, <1>2, <1>3 DEF Writes, Touches
  <1>5. /\ Present(Len(hist), m, k)' = Present(n, m, k)'
        /\ Value(Len(hist), m, k)' = Value(n, m, k)'
    BY <1>4 DEF Present, Value
  <1>6. /\ Present(n, m, k)' = Present(n, m, k)
        /\ Value(n, m, k)' = Value(n, m, k)
    BY <1>1, PastStays
  <1> QED
    BY <1>1, <1>5, <1>6

\* A write of the key is its newest.
LEMMA WriteIsNewest ==
    ASSUME NEW e, Grown(e), NEW m, NEW k, Touches(e, m, k)
    PROVE  /\ Present(Len(hist), m, k)' <=> e.did = "set"
           /\ Value(Len(hist), m, k)' = e.value
  <1>1. PICK n \in Nat : n = Len(hist')
    BY DEF Grown
  <1>2. hist'[n] = e /\ n \in 1 .. n
    BY <1>1 DEF Grown
  <1>3. PICK P : P = Writes(Len(hist), m, k)'
    OBVIOUS
  <1>4. P \subseteq 1 .. n /\ n \in P
    BY <1>1, <1>2, <1>3 DEF Writes
  <1>5. NewestOf(P) \in P /\ n <= NewestOf(P)
    BY <1>4, NewestIn
  <1>6. NewestOf(P) = n
    <2>1. PICK l \in 1 .. n : l = NewestOf(P)
      BY <1>4, <1>5
    <2> QED
      BY <1>5, <2>1
  <1>7. /\ Present(Len(hist), m, k)' <=> hist'[NewestOf(P)].did = "set"
        /\ Value(Len(hist), m, k)' = hist'[NewestOf(P)].value
    BY <1>3, <1>4 DEF Present, Value
  <1> QED
    BY <1>2, <1>6, <1>7

\* What a read event says is what the past left.
SeenNow(e) ==
    e.value = IF e.did = "contains" THEN Present(Len(hist), e.mapping, e.key)
              ELSE IF Present(Len(hist), e.mapping, e.key) THEN Value(Len(hist), e.mapping, e.key)
              ELSE e.default

LEMMA ReadsStay ==
    ASSUME ReadsSeen, NEW e, Grown(e), UNCHANGED given, e.did \in {"get", "contains"} => SeenNow(e)
    PROVE  ReadsSeen'
  <1> SUFFICES ASSUME NEW i \in 1 .. Len(hist'), hist'[i].did \in {"get", "contains"}
               PROVE  Seen(i)'
    BY DEF ReadsSeen
  <1>1. CASE i \in 1 .. Len(hist)
    <2>1. hist'[i] = hist[i]
      BY <1>1 DEF Grown
    <2>2. Seen(i)
      BY <1>1, <2>1 DEF ReadsSeen
    <2>3. PICK n \in Nat : n = i - 1 /\ n <= Len(hist)
      BY <1>1 DEF Grown
    <2>4. PICK m, k : m = hist[i].mapping /\ k = hist[i].key
      OBVIOUS
    <2>5. /\ Present(n, m, k)' = Present(n, m, k)
          /\ Value(n, m, k)' = Value(n, m, k)
      BY <2>3, PastStays
    <2>6. hist[i].value = IF hist[i].did = "contains" THEN Present(n, m, k)
                          ELSE IF Present(n, m, k) THEN Value(n, m, k) ELSE hist[i].default
      BY <2>2, <2>3, <2>4, Zenon DEF Seen
    <2>7. hist'[i].value = IF hist'[i].did = "contains" THEN Present(n, m, k)'
                           ELSE IF Present(n, m, k)' THEN Value(n, m, k)' ELSE hist'[i].default
      BY <2>1, <2>5, <2>6
    <2>8. m = hist'[i].mapping /\ k = hist'[i].key
      BY <2>1, <2>4
    <2> QED
      BY <2>3, <2>7, <2>8, Zenon DEF Seen
  <1>2. CASE i \notin 1 .. Len(hist)
    <2>1. hist'[i] = e /\ i - 1 = Len(hist)
      BY <1>2 DEF Grown
    <2>2. SeenNow(e)
      BY <2>1
    <2>3. PICK n \in Nat : n = Len(hist) /\ n = i - 1
      BY <2>1 DEF Grown
    <2>4. PICK m, k : m = e.mapping /\ k = e.key
      OBVIOUS
    <2>5. /\ Present(n, m, k)' = Present(n, m, k)
          /\ Value(n, m, k)' = Value(n, m, k)
      BY <2>3, PastStays
    <2>6. e.value = IF e.did = "contains" THEN Present(n, m, k)
                    ELSE IF Present(n, m, k) THEN Value(n, m, k) ELSE e.default
      BY <2>2, <2>3, <2>4, Zenon DEF SeenNow
    <2>7. e.value = IF e.did = "contains" THEN Present(n, m, k)'
                    ELSE IF Present(n, m, k)' THEN Value(n, m, k)' ELSE e.default
      BY <2>5, <2>6
    <2> QED
      BY <2>1, <2>3, <2>4, <2>7, Zenon DEF Seen
  <1> QED
    BY <1>1, <1>2

LEMMA StoreStays ==
    ASSUME HistInv, NEW e, Grown(e), UNCHANGED <<given, store>>, e.did \notin {"set", "remove"}
    PROVE  StoreAgrees'
  <1> SUFFICES ASSUME NEW m, NEW k
               PROVE  /\ HasKey(m, k)' <=> Present(Len(hist), m, k)'
                      /\ HasKey(m, k)' => store'[m][k] = Value(Len(hist), m, k)'
    BY DEF StoreAgrees
  <1>1. ~Touches(e, m, k)
    BY DEF Touches
  <1>2. /\ Present(Len(hist), m, k)' = Present(Len(hist), m, k)
        /\ Value(Len(hist), m, k)' = Value(Len(hist), m, k)
    BY <1>1, OthersStay
  <1>3. /\ HasKey(m, k) <=> Present(Len(hist), m, k)
        /\ HasKey(m, k) => store[m][k] = Value(Len(hist), m, k)
    BY DEF HistInv, StoreAgrees
  <1>4. HasKey(m, k)' <=> HasKey(m, k)
    BY DEF HasKey
  <1> QED
    BY <1>2, <1>3, <1>4

\* A write changes its key and no other.
LEMMA WriteAgrees ==
    ASSUME HistInv, NEW e, Grown(e), UNCHANGED given,
           \/ e.did = "set" /\ store' = Stored(e.mapping, e.key, e.value)
           \/ e.did = "remove" /\ store' = Removed(e.mapping, e.key)
    PROVE  StoreAgrees'
  <1> SUFFICES ASSUME NEW m, NEW k
               PROVE  /\ HasKey(m, k)' <=> Present(Len(hist), m, k)'
                      /\ HasKey(m, k)' => store'[m][k] = Value(Len(hist), m, k)'
    BY DEF StoreAgrees
  <1>1. CASE Touches(e, m, k)
    <2>1. /\ Present(Len(hist), m, k)' <=> e.did = "set"
          /\ Value(Len(hist), m, k)' = e.value
      BY <1>1, WriteIsNewest
    <2>2. e.mapping = m /\ e.key = k
      BY <1>1 DEF Touches
    <2>3. CASE e.did = "set"
      <3>1. HasKey(m, k)' /\ store'[m][k] = e.value
        BY <2>2, <2>3 DEF HasKey, Stored, Insert
      <3> QED
        BY <2>1, <2>3, <3>1
    <2>4. CASE e.did = "remove"
      <3>1. ~HasKey(m, k)'
        BY <2>2, <2>4 DEF HasKey, Removed
      <3> QED
        BY <2>1, <2>4, <3>1
    <2> QED
      BY <2>3, <2>4
  <1>2. CASE ~Touches(e, m, k)
    <2>1. /\ Present(Len(hist), m, k)' = Present(Len(hist), m, k)
          /\ Value(Len(hist), m, k)' = Value(Len(hist), m, k)
      BY <1>2, OthersStay
    <2>2. /\ HasKey(m, k) <=> Present(Len(hist), m, k)
          /\ HasKey(m, k) => store[m][k] = Value(Len(hist), m, k)
      BY DEF HistInv, StoreAgrees
    <2>3. e.mapping # m \/ e.key # k
      BY <1>2 DEF Touches
    <2>4. /\ HasKey(m, k)' <=> HasKey(m, k)
          /\ HasKey(m, k) => store'[m][k] = store[m][k]
      <3>1. CASE e.did = "set"
        BY <2>3, <3>1 DEF HasKey, Stored, Insert
      <3>2. CASE e.did = "remove"
        BY <2>3, <3>2 DEF HasKey, Removed
      <3> QED
        BY <3>1, <3>2
    <2> QED
      BY <2>1, <2>2, <2>4
  <1> QED
    BY <1>1, <1>2

\* A read event says what the store says.
LEMMA ReadSeesStore ==
    ASSUME HistInv, NEW e,
           \/ e.did = "contains" /\ e.value = HasKey(e.mapping, e.key)
           \/ e.did = "get" /\ e.value = Lookup(e.mapping, e.key, e.default)
    PROVE  SeenNow(e)
  <1>1. /\ HasKey(e.mapping, e.key) <=> Present(Len(hist), e.mapping, e.key)
        /\ HasKey(e.mapping, e.key) => store[e.mapping][e.key] = Value(Len(hist), e.mapping, e.key)
    BY DEF HistInv, StoreAgrees
  <1>2. CASE e.did = "contains" /\ e.value = HasKey(e.mapping, e.key)
    <2>1. HasKey(e.mapping, e.key) = Present(Len(hist), e.mapping, e.key)
      BY <1>1 DEF HasKey, Present
    <2> QED
      BY <1>2, <2>1, Zenon DEF SeenNow
  <1>3. CASE e.did = "get" /\ e.value = Lookup(e.mapping, e.key, e.default)
    BY <1>1, <1>3 DEF SeenNow, Lookup
  <1> QED
    BY <1>2, <1>3

LEMMA HistStep == HistInv /\ [Next]_vars => HistInv'
  <1> SUFFICES ASSUME HistInv, [Next]_vars PROVE HistInv'
    OBVIOUS
  <1>1. CASE UNCHANGED <<given, store, hist>>
    <2>1. StoreAgrees'
      <3> SUFFICES ASSUME NEW m, NEW k
                   PROVE  /\ HasKey(m, k)' <=> Present(Len(hist), m, k)'
                          /\ HasKey(m, k)' => store'[m][k] = Value(Len(hist), m, k)'
        BY DEF StoreAgrees
      <3>1. Writes(Len(hist), m, k)' = Writes(Len(hist), m, k)
        BY <1>1 DEF Writes
      <3>2. /\ Present(Len(hist), m, k)' = Present(Len(hist), m, k)
            /\ Value(Len(hist), m, k)' = Value(Len(hist), m, k)
        BY <1>1, <3>1 DEF Present, Value
      <3>3. /\ HasKey(m, k) <=> Present(Len(hist), m, k)
            /\ HasKey(m, k) => store[m][k] = Value(Len(hist), m, k)
        BY DEF HistInv, StoreAgrees
      <3>4. HasKey(m, k)' <=> HasKey(m, k)
        BY <1>1 DEF HasKey
      <3> QED
        BY <1>1, <3>2, <3>3, <3>4
    <2>2. ReadsSeen'
      <3> SUFFICES ASSUME NEW i \in 1 .. Len(hist), hist[i].did \in {"get", "contains"}
                   PROVE  Seen(i)'
        BY <1>1 DEF ReadsSeen
      <3>1. Seen(i)
        BY DEF HistInv, ReadsSeen
      <3>2. PICK n, m, k : n = i - 1 /\ m = hist[i].mapping /\ k = hist[i].key
        OBVIOUS
      <3>3. Writes(n, m, k)' = Writes(n, m, k)
        BY <1>1 DEF Writes
      <3>4. Present(n, m, k)' = Present(n, m, k) /\ Value(n, m, k)' = Value(n, m, k)
        BY <1>1, <3>3 DEF Present, Value
      <3>5. hist[i].value = IF hist[i].did = "contains" THEN Present(n, m, k)
                            ELSE IF Present(n, m, k) THEN Value(n, m, k) ELSE hist[i].default
        BY <3>1, <3>2, Zenon DEF Seen
      <3>6. hist[i].value = IF hist[i].did = "contains" THEN Present(n, m, k)'
                            ELSE IF Present(n, m, k)' THEN Value(n, m, k)' ELSE hist[i].default
        BY <3>4, <3>5
      <3> QED
        BY <1>1, <3>2, <3>6, Zenon DEF Seen
    <2> QED
      BY <1>1, <2>1, <2>2 DEF HistInv
  <1>2. ASSUME NEW e, hist' = Append(hist, e), UNCHANGED <<given, store>>,
               e.did \in {"enter", "return"} \/ (e.did \in {"get", "contains"} /\ SeenNow(e))
        PROVE  HistInv'
    <2>1. Grown(e)
      BY <1>2, HistGrows
    <2>2. StoreAgrees'
      BY <1>2, <2>1, StoreStays
    <2>3. ReadsSeen'
      BY <1>2, <2>1, ReadsStay DEF HistInv
    <2> QED
      BY <2>1, <2>2, <2>3 DEF HistInv, Grown
  <1>3. ASSUME NEW e, hist' = Append(hist, e), UNCHANGED given,
               \/ e.did = "set" /\ store' = Stored(e.mapping, e.key, e.value)
               \/ e.did = "remove" /\ store' = Removed(e.mapping, e.key)
        PROVE  HistInv'
    <2>1. Grown(e)
      BY <1>3, HistGrows
    <2>2. StoreAgrees'
      BY <1>3, <2>1, WriteAgrees
    <2>3. ReadsSeen'
      BY <1>3, <2>1, ReadsStay DEF HistInv
    <2> QED
      BY <2>1, <2>2, <2>3 DEF HistInv, Grown
  <1>4. CASE \/ ExecBinary \/ FailDivision \/ PanicDivision \/ Unwind \/ ExecUnknownCall \/ ExecUnknown
             \/ Stopped \/ UNCHANGED vars
    <2>1. UNCHANGED <<given, store, hist>>
      BY <1>4 DEF ExecBinary, FailDivision, PanicDivision, Unwind, ExecUnknownCall, ExecUnknown,
                  Stopped, Complete, vars
    <2> QED
      BY <1>1, <2>1
  <1>5. CASE ExecCall \/ Return
    <2>1. PICK e : hist' = Append(hist, e) /\ e.did \in {"enter", "return"}
      BY <1>5 DEF ExecCall, Return, Remember
    <2>2. UNCHANGED <<given, store>>
      BY <1>5, Zenon DEF ExecCall, Return
    <2> QED
      BY <1>2, <2>1, <2>2
  <1>6. CASE ExecGet \/ ExecGetOrUse \/ ExecContains
    <2>1. UNCHANGED <<given, store>>
      BY <1>6, Zenon DEF ExecGet, ExecGetOrUse, ExecContains, Complete
    <2>2. PICK m, k, d : m = instr.mapping /\ k = Key
                         /\ d = IF ExecGetOrUse THEN Read(top.regs, instr.default) ELSE 0
      OBVIOUS
    <2>3. CASE ExecContains
      <3> DEFINE e == [did |-> "contains", mapping |-> m, key |-> k, value |-> HasKey(m, k)]
      <3>1. hist' = Append(hist, e)
        BY <2>2, <2>3, Zenon DEF ExecContains, Remember
      <3>2. e.did = "contains" /\ e.mapping = m /\ e.key = k /\ e.value = HasKey(m, k)
        BY Zenon
      <3> HIDE DEF e
      <3>3. SeenNow(e)
        BY <3>2, ReadSeesStore
      <3> QED
        BY <1>2, <2>1, <3>1, <3>2, <3>3
    <2>4. CASE ExecGet \/ ExecGetOrUse
      <3>1. PICK e : hist' = Append(hist, e) /\ e.did = "get" /\ e.value = Lookup(e.mapping, e.key, e.default)
        BY <2>4 DEF ExecGet, ExecGetOrUse, Remember
      <3>2. SeenNow(e)
        BY <3>1, ReadSeesStore
      <3> QED
        BY <1>2, <2>1, <3>1, <3>2
    <2> QED
      BY <1>6, <2>3, <2>4
  <1>7. CASE ExecSet \/ ExecRemove
    <2>1. UNCHANGED given
      BY <1>7, Zenon DEF ExecSet, ExecRemove, Complete
    <2>2. PICK e : /\ hist' = Append(hist, e)
                   /\ \/ e.did = "set" /\ store' = Stored(e.mapping, e.key, e.value)
                      \/ e.did = "remove" /\ store' = Removed(e.mapping, e.key)
      BY <1>7 DEF ExecSet, ExecRemove, Remember
    <2> QED
      BY <1>3, <2>1, <2>2
  <1> QED
    BY <1>4, <1>5, <1>6, <1>7 DEF Next, Execute

LEMMA HistStarts == Init => HistInv
  <1> SUFFICES ASSUME Init PROVE HistInv
    OBVIOUS
  <1>1. hist = <<>> /\ store = given
    BY DEF Init
  <1>2. \A m, k : Writes(Len(hist), m, k) = {}
    BY <1>1 DEF Writes
  <1> QED BY <1>1, <1>2 DEF HistInv, StoreAgrees, ReadsSeen, HasKey, Present, Value

\* A mapping read sees the last write of its key by whatever function (the
\* store is lent to the callees), or what was there at the start.
THEOREM MappingReads == Spec => []ReadsSeeLastWrite
  <1>1. HistInv => ReadsSeeLastWrite
    <2>1. ReadsSeen => ReadsSeeLastWrite
      BY Zenon DEF ReadsSeen, ReadsSeeLastWrite, Seen, Present, Value, NewestOf, Writes
    <2> QED
      BY <2>1 DEF HistInv
  <1> QED
    BY <1>1, HistStarts, HistStep, PTL DEF Spec

----------------------------------------------------------------------------
(* Results: the last return of every function *)

ReturnsOf(n) == {i \in 1 .. Len(hist) : hist[i].did = "return" /\ hist[i].fn = n}

ResultsLast ==
    /\ \A n \in DOMAIN results : ReturnsOf(n) # {} /\ results[n] = hist[NewestOf(ReturnsOf(n))].result
    /\ \A i \in 1 .. Len(hist) : hist[i].did = "return" => hist[i].fn \in DOMAIN results

ResultsInv == prog.mode # "finalize" => ResultsLast

\* An event that is not the return of n leaves the returns of n as they are.
LEMMA ReturnsStay ==
    ASSUME NEW e, Grown(e), NEW n, ~(e.did = "return" /\ e.fn = n)
    PROVE  /\ ReturnsOf(n)' = ReturnsOf(n)
           /\ ReturnsOf(n) # {} => hist'[NewestOf(ReturnsOf(n))] = hist[NewestOf(ReturnsOf(n))]
  <1>1. ReturnsOf(n)' = ReturnsOf(n)
    <2>1. PICK l \in Nat : l = Len(hist)
      BY DEF Grown
    <2>2. Len(hist') = l + 1 /\ hist'[l + 1] = e /\ \A j \in 1 .. l : hist'[j] = hist[j]
      BY <2>1 DEF Grown
    <2>3. \A j \in 1 .. l + 1 : j \in 1 .. l \/ j = l + 1
      BY <2>1
    <2>4. ReturnsOf(n) = {i \in 1 .. l : hist[i].did = "return" /\ hist[i].fn = n}
      BY <2>1, Zenon DEF ReturnsOf
    <2>5. ReturnsOf(n)' = {i \in 1 .. l + 1 : hist'[i].did = "return" /\ hist'[i].fn = n}
      BY <2>2 DEF ReturnsOf
    <2> QED
      BY <2>1, <2>2, <2>3, <2>4, <2>5
  <1>2. ReturnsOf(n) \subseteq 1 .. Len(hist) /\ Len(hist) \in Nat
    BY DEF ReturnsOf, Grown
  <1>3. ReturnsOf(n) # {} => NewestOf(ReturnsOf(n)) \in 1 .. Len(hist)
    BY <1>2, NewestIn
  <1> QED
    BY <1>1, <1>3 DEF Grown

LEMMA OthersKeepResults ==
    ASSUME ResultsLast, NEW e, Grown(e), UNCHANGED results, e.did # "return"
    PROVE  ResultsLast'
  <1>1. ASSUME NEW n \in DOMAIN results
        PROVE  ReturnsOf(n)' # {} /\ results[n] = hist'[NewestOf(ReturnsOf(n)')].result
    BY <1>1, ReturnsStay DEF ResultsLast
  <1>2. ASSUME NEW i \in 1 .. Len(hist'), hist'[i].did = "return"
        PROVE  hist'[i].fn \in DOMAIN results
    <2>1. i \in 1 .. Len(hist)
      BY <1>2 DEF Grown
    <2> QED
      BY <1>2, <2>1 DEF ResultsLast, Grown
  <1>3. \A n \in DOMAIN results' : ReturnsOf(n)' # {} /\ results'[n] = hist'[NewestOf(ReturnsOf(n)')].result
    BY <1>1
  <1> QED
    BY <1>2, <1>3 DEF ResultsLast

LEMMA ReturnKeepsResults ==
    ASSUME ResultsLast, NEW f, NEW r, NEW e, e.did = "return", e.fn = f, e.result = r,
           Grown(e), results' = ResultInserted(f, r)
    PROVE  ResultsLast'
  <1>1. /\ DOMAIN results' = DOMAIN results \cup {f} /\ results'[f] = r
        /\ \A n \in DOMAIN results \ {f} : results'[n] = results[n]
    BY DEF ResultInserted, Insert
  <1>2. ASSUME NEW n \in DOMAIN results', n # f
        PROVE  ReturnsOf(n)' # {} /\ results'[n] = hist'[NewestOf(ReturnsOf(n)')].result
    <2>1. n \in DOMAIN results /\ results'[n] = results[n]
      BY <1>1, <1>2
    <2> QED
      BY <1>2, <2>1, ReturnsStay DEF ResultsLast
  <1>3. ReturnsOf(f)' # {} /\ hist'[NewestOf(ReturnsOf(f)')].result = r
    <2>1. PICK l \in Nat : l = Len(hist')
      BY DEF Grown
    <2>2. hist'[l] = e /\ l \in 1 .. l
      BY <2>1 DEF Grown
    <2>3. PICK P : P = ReturnsOf(f)'
      OBVIOUS
    <2>4. P \subseteq 1 .. l /\ l \in P
      BY <2>1, <2>2, <2>3 DEF ReturnsOf
    <2>5. NewestOf(P) \in P /\ l <= NewestOf(P)
      BY <2>4, NewestIn
    <2>6. NewestOf(P) = l
      <3>1. PICK j \in 1 .. l : j = NewestOf(P)
        BY <2>4, <2>5
      <3> QED
        BY <2>5, <3>1
    <2> QED
      BY <2>2, <2>3, <2>4, <2>6
  <1>4. ASSUME NEW i \in 1 .. Len(hist'), hist'[i].did = "return"
        PROVE  hist'[i].fn \in DOMAIN results'
    <2>1. CASE i \in 1 .. Len(hist)
      BY <1>1, <1>4, <2>1 DEF ResultsLast, Grown
    <2>2. CASE i \notin 1 .. Len(hist)
      <3>1. hist'[i] = e
        BY <2>2 DEF Grown
      <3> QED
        BY <1>1, <3>1
    <2> QED
      BY <2>1, <2>2
  <1>5. \A n \in DOMAIN results' : ReturnsOf(n)' # {} /\ results'[n] = hist'[NewestOf(ReturnsOf(n)')].result
    BY <1>1, <1>2, <1>3
  <1> QED
    BY <1>4, <1>5 DEF ResultsLast

LEMMA ResultsStep == HistInv /\ ResultsInv /\ [Next]_vars => ResultsInv'
  <1> SUFFICES ASSUME HistInv, ResultsInv, [Next]_vars, prog'.mode # "finalize" PROVE ResultsLast'
    BY DEF ResultsInv
  <1>1. CASE Return
    <2> DEFINE f == prog.fns[top.fn]
               result == [registers |-> top.regs, outputs |-> Outputs(top)]
    <2>1. /\ UNCHANGED prog
          /\ results' = IF prog.mode = "finalize" THEN results ELSE ResultInserted(f.name, result)
          /\ hist' = Append(hist, [did |-> "return", fn |-> f.name, result |-> result])
      BY <1>1, Zenon DEF Return, Remember
    <2>2. PICK e : e = [did |-> "return", fn |-> f.name, result |-> result]
      OBVIOUS
    <2>3. e.did = "return" /\ e.fn = f.name /\ e.result = result
      BY <2>2
    <2> HIDE DEF f, result
    <2>4. Grown(e) /\ ResultsLast /\ results' = ResultInserted(f.name, result)
      BY <2>1, <2>2, HistGrows DEF ResultsInv
    <2> QED
      BY <2>3, <2>4, ReturnKeepsResults
  <1>2. CASE ~Return
    <2>1. UNCHANGED <<prog, results>>
      BY <1>2, Zenon DEF Next, Execute, ExecBinary, FailDivision, PanicDivision, Unwind, ExecCall, ExecUnknownCall,
                  ExecUnknown, ExecGet, ExecGetOrUse, ExecSet, ExecRemove, ExecContains, Stopped, Complete, vars
    <2>2. ResultsLast
      BY <2>1 DEF ResultsInv
    <2>3. CASE UNCHANGED hist
      <3>1. \A n : ReturnsOf(n)' = ReturnsOf(n)
        BY <2>3 DEF ReturnsOf
      <3> QED
        BY <2>1, <2>2, <2>3, <3>1 DEF ResultsLast
    <2>4. CASE \E e : hist' = Append(hist, e) /\ e.did # "return"
      <3>1. PICK e : hist' = Append(hist, e) /\ e.did # "return"
        BY <2>4
      <3>2. Grown(e)
        BY <3>1, HistGrows
      <3> QED
        BY <2>1, <2>2, <3>1, <3>2, OthersKeepResults
    <2>5. UNCHANGED hist \/ \E e : hist' = Append(hist, e) /\ e.did # "return"
      <3>1. CASE ExecCall \/ ExecGet \/ ExecGetOrUse \/ ExecSet \/ ExecRemove \/ ExecContains
        BY <3>1 DEF ExecCall, ExecGet, ExecGetOrUse, ExecSet, ExecRemove, ExecContains, Remember
      <3>2. CASE \/ ExecBinary \/ FailDivision \/ PanicDivision \/ Unwind \/ ExecUnknownCall \/ ExecUnknown
                 \/ Stopped \/ UNCHANGED vars
        BY <3>2 DEF ExecBinary, FailDivision, PanicDivision, Unwind, ExecUnknownCall, ExecUnknown, Stopped, vars
      <3> QED
        BY <1>2, <3>1, <3>2 DEF Next, Execute
    <2> QED
      BY <2>3, <2>4, <2>5
  <1> QED
    BY <1>1, <1>2

\* A function's result is that of its call which returned last, and a call cut
\* short by an error leaves none.
THEOREM ResultsOfLastCalls == Spec => []ResultsAreLastReturns
  <1>1. Init => HistInv /\ ResultsInv
    <2> SUFFICES ASSUME Init PROVE HistInv /\ ResultsInv
      OBVIOUS
    <2>1. hist = <<>> /\ store = given /\ results = <<>>
      BY DEF Init
    <2>2. \A m, k : Writes(Len(hist), m, k) = {}
      BY <2>1 DEF Writes
    <2> QED
      BY <2>1, <2>2 DEF HistInv, StoreAgrees, ReadsSeen, HasKey, Present, Value, ResultsInv, ResultsLast
  <1>2. ResultsInv => ResultsAreLastReturns
    BY Zenon DEF ResultsInv, ResultsLast, ResultsAreLastReturns, ReturnsOf, NewestOf
  <1> QED
    BY <1>1, <1>2, HistStep, ResultsStep, PTL DEF Spec

----------------------------------------------------------------------------
(* The Steps open after some events *)

\* u holds the Steps open after each of the first n events.
OpensUpTo(u, es, n) ==
    u = [k \in 0 .. n |-> IF k = 0 THEN <<>> ELSE Nested(u[k - 1], es[k])]

LEMMA OpensExist ==
    ASSUME NEW es, NEW n \in Nat
    PROVE  \E u : OpensUpTo(u, es, n)
  <1> DEFINE S == {k \in Nat : \E u : OpensUpTo(u, es, k)}
  <1>1. 0 \in S
    <2> DEFINE u == [k \in 0 .. 0 |-> <<>>]
    <2>1. OpensUpTo(u, es, 0)
      BY DEF OpensUpTo
    <2> QED BY <2>1
  <1>2. ASSUME NEW k \in Nat, k \in S PROVE k + 1 \in S
    <2>1. PICK u : OpensUpTo(u, es, k)
      BY <1>2
    <2> DEFINE v == [j \in 0 .. k + 1 |-> IF j = k + 1 THEN Nested(u[k], es[j]) ELSE u[j]]
    <2>2. \A j \in 0 .. k : u[j] = IF j = 0 THEN <<>> ELSE Nested(u[j - 1], es[j])
      BY <2>1 DEF OpensUpTo
    <2>3. \A j \in 0 .. k + 1 : v[j] = IF j = 0 THEN <<>> ELSE Nested(v[j - 1], es[j])
      <3> TAKE j \in 0 .. k + 1
      <3>1. CASE j = k + 1
        <4>1. j # 0 /\ j - 1 = k /\ k \in 0 .. k + 1 /\ k # k + 1
          BY <3>1
        <4>2. v[j - 1] = u[k]
          BY <4>1
        <4> QED BY <3>1, <4>1, <4>2
      <3>2. CASE j # k + 1
        <4>1. j \in 0 .. k
          BY <3>2
        <4>2. CASE j = 0
          BY <2>2, <4>1, <4>2
        <4>3. CASE j # 0
          <5>1. j - 1 \in 0 .. k + 1 /\ j - 1 # k + 1
            BY <4>1, <4>3
          <5>2. v[j - 1] = u[j - 1] /\ v[j] = u[j]
            BY <3>2, <5>1
          <5> QED BY <2>2, <4>1, <4>3, <5>2
        <4> QED BY <4>2, <4>3
      <3> QED BY <3>1, <3>2
    <2>4. OpensUpTo(v, es, k + 1)
      <3>1. v = [j \in 0 .. k + 1 |-> v[j]]
        OBVIOUS
      <3> HIDE DEF v
      <3> QED BY <2>3, <3>1 DEF OpensUpTo
    <2> QED BY <2>4
  <1> HIDE DEF S
  <1>3. n \in S
    BY <1>1, <1>2, NatSetInduction
  <1> QED BY <1>3 DEF S

\* The Steps open after the same events are the same.
LEMMA OpensUnique ==
    ASSUME NEW es, NEW fs, NEW n \in Nat, NEW m \in Nat, n <= m, NEW u, NEW v,
           OpensUpTo(u, es, n), OpensUpTo(v, fs, m), \A j \in 1 .. n : es[j] = fs[j]
    PROVE  u[n] = v[n]
  <1> DEFINE S == {k \in Nat : k <= n => u[k] = v[k]}
  <1>1. /\ \A j \in 0 .. n : u[j] = IF j = 0 THEN <<>> ELSE Nested(u[j - 1], es[j])
        /\ \A j \in 0 .. m : v[j] = IF j = 0 THEN <<>> ELSE Nested(v[j - 1], fs[j])
    BY DEF OpensUpTo
  <1>2. 0 \in S
    BY <1>1
  <1>3. ASSUME NEW k \in Nat, k \in S PROVE k + 1 \in S
    <2> SUFFICES ASSUME k + 1 <= n PROVE u[k + 1] = v[k + 1]
      OBVIOUS
    <2>1. /\ k + 1 \in 0 .. n /\ k + 1 \in 0 .. m /\ k + 1 # 0 /\ k <= n /\ (k + 1) - 1 = k
          /\ k + 1 \in 1 .. n
      OBVIOUS
    <2>2. u[k] = v[k]
      BY <1>3, <2>1
    <2>3. Nested(u[k], es[k + 1]) = Nested(v[k], fs[k + 1])
      BY <2>1, <2>2
    <2> QED BY <1>1, <2>1, <2>3
  <1> HIDE DEF S
  <1>4. n \in S
    BY <1>2, <1>3, NatSetInduction
  <1> QED BY <1>4 DEF S

LEMMA OpensDef ==
    ASSUME NEW es, Len(es) \in Nat
    PROVE  \E u : OpensUpTo(u, es, Len(es)) /\ OpenAfter(es) = u[Len(es)]
  <1> DEFINE P(u) == u = [n \in 0 .. Len(es) |-> IF n = 0 THEN <<>> ELSE Nested(u[n - 1], es[n])]
  <1>1. \A u : P(u) <=> OpensUpTo(u, es, Len(es))
    BY DEF OpensUpTo
  <1>2. \E u : P(u)
    BY <1>1, OpensExist
  <1>3. OpenAfter(es) = (CHOOSE u : P(u))[Len(es)]
    BY DEF OpenAfter
  <1>4. P(CHOOSE u : P(u))
    <2> HIDE DEF P
    <2> QED BY <1>2
  <1> HIDE DEF P
  <1> QED BY <1>1, <1>3, <1>4

LEMMA NothingOpen == OpenAfter(<<>>) = <<>>
  <1>1. Len(<<>>) = 0
    OBVIOUS
  <1>2. PICK u : OpensUpTo(u, <<>>, 0) /\ OpenAfter(<<>>) = u[0]
    BY <1>1, OpensDef
  <1> QED BY <1>2 DEF OpensUpTo

\* One more event.
LEMMA OneMoreEvent ==
    ASSUME NEW S, NEW es \in Seq(S), NEW e \in S
    PROVE  OpenAfter(Append(es, e)) = Nested(OpenAfter(es), e)
  <1> DEFINE n == Len(es)
             t == Append(es, e)
  <1>1. n \in Nat /\ Len(t) = n + 1 /\ t[n + 1] = e /\ \A j \in 1 .. n : t[j] = es[j]
    OBVIOUS
  <1>2. PICK u : OpensUpTo(u, es, n) /\ OpenAfter(es) = u[n]
    BY <1>1, OpensDef
  <1>3. PICK v : OpensUpTo(v, t, n + 1) /\ OpenAfter(t) = v[n + 1]
    <2>1. Len(t) \in Nat
      BY <1>1
    <2> QED BY <1>1, <2>1, OpensDef
  <1> HIDE DEF n, t
  <1>4. u[n] = v[n]
    <2>1. n + 1 \in Nat /\ n <= n + 1
      BY <1>1
    <2>2. \A j \in 1 .. n : es[j] = t[j]
      BY <1>1
    <2> QED BY <1>1, <1>2, <1>3, <2>1, <2>2, OpensUnique
  <1>5. v[n + 1] = Nested(v[n], t[n + 1])
    <2>1. n + 1 \in 0 .. n + 1 /\ n + 1 # 0 /\ (n + 1) - 1 = n
      BY <1>1
    <2> QED BY <1>3, <2>1 DEF OpensUpTo
  <1> QED BY <1>1, <1>2, <1>3, <1>4, <1>5 DEF t

\* Taking away what was appended.
LEMMA FrontAppended ==
    ASSUME NEW S, NEW s \in Seq(S), NEW e \in S
    PROVE  Front(Append(s, e)) = s
  <1> DEFINE t == Append(s, e)
  <1>1. t \in Seq(S) /\ Len(t) = Len(s) + 1 /\ Len(s) \in Nat /\ \A k \in 1 .. Len(s) : t[k] = s[k]
    OBVIOUS
  <1> HIDE DEF t
  <1>2. Front(t) = SubSeq(t, 1, Len(s))
    <2>1. Len(t) - 1 = Len(s)
      BY <1>1
    <2> QED BY <2>1, Zenon DEF Front
  <1>3. SubSeq(t, 1, Len(s)) \in Seq(S) /\ Len(SubSeq(t, 1, Len(s))) = Len(s)
        /\ \A k \in 1 .. Len(s) : SubSeq(t, 1, Len(s))[k] = t[k]
    <2> DEFINE n == Len(s)
               m == 1
    <2>1. n \in Nat /\ m \in Int /\ m = 1 /\ \A k \in m .. n : t[k] \in S
      BY <1>1
    <2> HIDE DEF n, m
    <2>3. /\ SubSeq(t, m, n) \in Seq(S) /\ Len(SubSeq(t, m, n)) = IF m <= n THEN n - m + 1 ELSE 0
          /\ \A k \in 1 .. n - m + 1 : SubSeq(t, m, n)[k] = t[m + k - 1]
      BY <2>1, SubSeqProperties
    <2>4. Len(SubSeq(t, m, n)) = n /\ \A k \in 1 .. n : SubSeq(t, m, n)[k] = t[k]
      BY <2>1, <2>3
    <2> QED BY <2>1, <2>3, <2>4 DEF n
  <1>4. PICK u : u = SubSeq(t, 1, Len(s))
    OBVIOUS
  <1>5. u = s
    <2>1. u \in Seq(S) /\ Len(u) = Len(s) /\ \A k \in 1 .. Len(s) : u[k] = s[k]
      BY <1>1, <1>3, <1>4
    <2> QED BY <2>1, SeqEqual
  <1> QED BY <1>2, <1>4, <1>5 DEF t

----------------------------------------------------------------------------
(* What a step of the FinalizeTracer does to its calls and its events *)

Later == Len(hist) \in Nat /\ Len(hist') \in Nat /\ Len(hist) <= Len(hist')

\* An instruction other than a call.
Worked(after) ==
    /\ status = "running" /\ status' = "running" /\ stack # <<>>
    /\ after.id = top.id
    /\ stack' = [stack EXCEPT ![Len(stack)] = after]
    /\ events' = Append(Append(events, StepEvent(top)), VarsEvent(after))

Called(callee) ==
    /\ status = "running" /\ status' = "running" /\ stack # <<>>
    /\ callee.id = Len(hist) + 1 /\ callee.pc = 1 /\ Len(hist') = Len(hist) + 1
    /\ stack' = Append(stack, callee)
    /\ events' = Append(events, StepEvent(top))

Resumed(caller) ==
    /\ status = "running" /\ status' = "running"
    /\ Len(stack) > 1
    /\ caller.id = stack[Len(stack) - 1].id
    /\ stack' = [Front(stack) EXCEPT ![Len(stack) - 1] = caller]
    /\ events' = Append(events, VarsEvent(caller))

\* A division by zero and one that overflows.
Failed ==
    /\ status = "running" /\ stack # <<>>
    /\ \/ status' = "failing" /\ stack' = stack
       \/ status' = "panic" /\ stack' = <<>>
    /\ events' = Append(events, StepEvent(top))

\* The entry function returns, or the error passes through a caller.
Concluded ==
    /\ events' = events
    /\ \/ status = "running" /\ status' = "ok" /\ Len(stack) = 1 /\ stack' = <<>>
       \/ /\ status = "failing" /\ stack # <<>> /\ stack' = Front(stack)
          /\ status' = IF Len(stack) = 1 THEN "err" ELSE "failing"

\* Two events are emitted one after the other.
LEMMA TwoEvents ==
    ASSUME NEW S, NEW es \in Seq(S), NEW a, NEW b
    PROVE  es \o <<a, b>> = Append(Append(es, a), b) /\ es \o <<a>> = Append(es, a)
  <1>1. PICK T : T = S \cup {a, b}
    OBVIOUS
  <1>2. es \in Seq(T) /\ a \in T /\ b \in T
    BY <1>1
  <1>3. <<a, b>> \in Seq(T) /\ <<a>> \in Seq(T)
    BY <1>2
  <1>4. PICK s : s = es \o <<a, b>>
    OBVIOUS
  <1>5. PICK t : t = Append(Append(es, a), b)
    OBVIOUS
  <1>6. /\ Append(es, a) \in Seq(T) /\ Len(Append(es, a)) = Len(es) + 1 /\ Len(es) \in Nat
        /\ \A k \in 1 .. Len(es) : Append(es, a)[k] = es[k]
        /\ Append(es, a)[Len(es) + 1] = a
    BY <1>2
  <1>7. PICK r : r = Append(es, a)
    OBVIOUS
  <1>8. /\ t \in Seq(T) /\ Len(t) = Len(es) + 2
        /\ \A k \in 1 .. Len(es) + 1 : t[k] = r[k]
        /\ t[Len(es) + 2] = b
    BY <1>2, <1>5, <1>6, <1>7
  <1>9. /\ s \in Seq(T) /\ Len(s) = Len(es) + 2
        /\ \A k \in 1 .. Len(es) : s[k] = es[k]
        /\ s[Len(es) + 1] = a /\ s[Len(es) + 2] = b
    BY <1>2, <1>3, <1>4
  <1>10. s = t
    <2>1. \A k \in 1 .. Len(es) + 2 : s[k] = t[k]
      <3> TAKE k \in 1 .. Len(es) + 2
      <3>1. k \in 1 .. Len(es) \/ k = Len(es) + 1 \/ k = Len(es) + 2
        BY <1>6
      <3> QED BY <1>6, <1>7, <1>8, <1>9, <3>1
    <2> QED BY <1>8, <1>9, <2>1, SeqEqual
  <1>11. es \o <<a>> = Append(es, a)
    BY <1>2, <1>3
  <1> QED BY <1>4, <1>5, <1>10, <1>11

EventsTyped == \E S : events \in Seq(S)

LEMMA InstructionWorks ==
    ASSUME VMInv, EventsTyped, prog.mode = "finalize", stack # <<>>, status = "running",
           NEW regs, Complete(regs)
    PROVE  \E after : Worked(after)
  <1>1. PICK after : after = [top EXCEPT !.regs = regs, !.pc = @ + 1]
    OBVIOUS
  <1>2. after.id = top.id
    BY <1>1, AtTop DEF ActivationOK, ActivationFields
  <1>3. /\ stack' = [stack EXCEPT ![Len(stack)] = after] /\ UNCHANGED status
        /\ events' = events \o <<StepEvent(top), VarsEvent(after)>>
    BY <1>1, Zenon DEF Complete, Emit
  <1>4. events' = Append(Append(events, StepEvent(top)), VarsEvent(after))
    BY <1>3, TwoEvents DEF EventsTyped
  <1> QED BY <1>2, <1>3, <1>4 DEF Worked

LEMMA StepsOfFinalize ==
    ASSUME VMInv, HistInv, EventsTyped, prog.mode = "finalize", Next
    PROVE  /\ Later
           /\ \/ \E a : Worked(a) \/ Called(a) \/ Resumed(a)
              \/ Failed
              \/ Concluded
              \/ UNCHANGED <<stack, events, status>>
  <1>1. Later
    <2>1. CASE UNCHANGED hist
      BY <2>1 DEF HistInv, Later
    <2>2. CASE \E e : hist' = Append(hist, e)
      BY <2>2, HistGrows DEF Grown, Later
    <2>3. UNCHANGED hist \/ \E e : hist' = Append(hist, e)
      <3>1. CASE ExecCall \/ ExecGet \/ ExecGetOrUse \/ ExecSet \/ ExecRemove \/ ExecContains \/ Return
        BY <3>1 DEF ExecCall, ExecGet, ExecGetOrUse, ExecSet, ExecRemove, ExecContains, Return, Remember
      <3>2. CASE \/ ExecBinary \/ FailDivision \/ PanicDivision \/ Unwind \/ ExecUnknownCall \/ ExecUnknown
                 \/ Stopped
        BY <3>2 DEF ExecBinary, FailDivision, PanicDivision, Unwind, ExecUnknownCall, ExecUnknown, Stopped, vars
      <3> QED BY <3>1, <3>2 DEF Next, Execute
    <2> QED BY <2>1, <2>2, <2>3
  <1>2. CASE \/ ExecBinary \/ ExecUnknownCall \/ ExecUnknown \/ ExecGet \/ ExecGetOrUse \/ ExecSet
             \/ ExecRemove \/ ExecContains
    <2>1. status = "running" /\ stack # <<>>
      BY <1>2 DEF ExecBinary, ExecUnknownCall, ExecUnknown, ExecGet, ExecGetOrUse, ExecSet, ExecRemove,
                  ExecContains, AtInstruction, Running
    <2>2. PICK regs : Complete(regs)
      BY <1>2, Zenon DEF ExecBinary, ExecUnknownCall, ExecUnknown, ExecGet, ExecGetOrUse, ExecSet, ExecRemove,
                  ExecContains
    <2> QED BY <1>1, <2>1, <2>2, InstructionWorks
  <1>3. CASE ExecCall
    <2>1. PICK callee : /\ stack' = Append(stack, callee)
                        /\ \E k, vs : callee = Activate(Len(hist) + 1, k, vs)
      BY <1>3, Zenon DEF ExecCall
    <2>2. callee.id = Len(hist) + 1 /\ callee.pc = 1
      BY <2>1 DEF Activate
    <2>3. /\ status = "running" /\ stack # <<>> /\ UNCHANGED status
          /\ hist' = Append(hist, [did |-> "enter", id |-> Len(hist) + 1])
          /\ events' = events \o <<StepEvent(top)>>
      BY <1>3, Zenon DEF ExecCall, AtInstruction, Running, Remember, Emit
    <2>4. Len(hist') = Len(hist) + 1
      BY <2>3, HistGrows DEF Grown
    <2>5. events' = Append(events, StepEvent(top))
      BY <2>3, TwoEvents DEF EventsTyped
    <2>6. Called(callee)
      BY <2>1, <2>2, <2>3, <2>4, <2>5 DEF Called
    <2> QED BY <1>1, <2>6
  <1>4. CASE FailDivision \/ PanicDivision
    <2>1. /\ status = "running" /\ stack # <<>>
          /\ \/ status' = "failing" /\ stack' = stack
             \/ status' = "panic" /\ stack' = <<>>
          /\ events' = events \o <<StepEvent(top)>>
      BY <1>4 DEF FailDivision, PanicDivision, AtInstruction, Running, Emit
    <2>2. events' = Append(events, StepEvent(top))
      BY <2>1, TwoEvents DEF EventsTyped
    <2>3. Failed
      BY <2>1, <2>2 DEF Failed
    <2> QED BY <1>1, <2>3
  <1>5. CASE Unwind
    <2>1. Concluded
      BY <1>5 DEF Unwind, Concluded, VMInv
    <2> QED BY <1>1, <2>1
  <1>6. CASE Return
    <2> DEFINE caller == stack[Len(stack) - 1]
               call == prog.fns[caller.fn].code[caller.pc]
               result == [registers |-> top.regs, outputs |-> Outputs(top)]
               resumed == [caller EXCEPT !.regs = WithOutputs(@, call.dests, result.outputs), !.pc = @ + 1]
    <2>1. /\ status = "running" /\ stack # <<>>
          /\ \/ Len(stack) = 1 /\ stack' = <<>> /\ status' = "ok" /\ events' = events
             \/ /\ Len(stack) # 1
                /\ stack' = [Front(stack) EXCEPT ![Len(stack) - 1] = resumed]
                /\ events' = events \o <<VarsEvent(resumed)>>
                /\ UNCHANGED status
      BY <1>6, Zenon DEF Return, Running, Emit, Listed
    <2>2. CASE Len(stack) = 1
      <3>1. Concluded
        BY <2>1, <2>2 DEF Concluded
      <3> QED BY <1>1, <3>1
    <2>3. CASE Len(stack) # 1
      <3>1. Len(stack) \in Nat \ {0}
        BY <2>1, AtTop
      <3>2. Len(stack) > 1 /\ Len(stack) - 1 \in 1 .. Len(stack)
        <4>1. \A n \in Nat \ {0} : n # 1 => n > 1 /\ n - 1 \in 1 .. n
          OBVIOUS
        <4> QED BY <2>3, <3>1, <4>1
      <3>3. ActivationOK(caller)
        BY <3>2 DEF VMInv, StackOK
      <3>4. resumed.id = caller.id
        <4> HIDE DEF caller, call, result
        <4> QED BY <3>3 DEF ActivationOK, ActivationFields
      <3>5. PICK r : r = resumed
        OBVIOUS
      <3>6. events' = Append(events, VarsEvent(r)) /\ r.id = stack[Len(stack) - 1].id
            /\ stack' = [Front(stack) EXCEPT ![Len(stack) - 1] = r] /\ UNCHANGED status
        <4>1. events' = events \o <<VarsEvent(r)>> /\ UNCHANGED status
              /\ stack' = [Front(stack) EXCEPT ![Len(stack) - 1] = r]
          BY <2>1, <2>3, <3>5, Zenon
        <4>2. r.id = stack[Len(stack) - 1].id
          BY <3>4, <3>5
        <4> QED BY <4>1, <4>2, TwoEvents DEF EventsTyped
      <3>7. Resumed(r)
        BY <2>1, <3>2, <3>6 DEF Resumed
      <3> QED BY <1>1, <3>7
    <2> QED BY <2>2, <2>3
  <1>7. CASE Stopped
    BY <1>1, <1>7 DEF Stopped, vars
  <1> QED BY <1>2, <1>3, <1>4, <1>5, <1>6, <1>7 DEF Next, Execute

----------------------------------------------------------------------------
(* The events nest as the calls do *)

\* The Steps open are those of the first n calls of s, and no other.
StepsAre(open, s, n) ==
    /\ \E S : open \in Seq(S)
    /\ Len(open) = n
    /\ \A k \in 1 .. n : open[k] = StepEvent(s[k])

\* While a call runs the Steps open are those of its callers; an error leaves
\* those of the calls that failed.
Nesting ==
    /\ status \in {"running", "failing"} => stack # <<>>
    /\ status \in {"ok", "err", "panic"} => stack = <<>>
    /\ status = "running" => StepsAre(OpenSteps, stack, Len(stack) - 1)
    /\ status = "failing" =>
           /\ \E S : OpenSteps \in Seq(S)
           /\ Len(stack) <= Len(OpenSteps)
           /\ \A k \in 1 .. Len(stack) : OpenSteps[k] = StepEvent(stack[k])
    /\ status = "ok" => OpenSteps = <<>>
    /\ status \in {"err", "panic"} /\ events # <<>> => OpenSteps # <<>>

LEMMA EventAppended ==
    ASSUME EventsTyped, NEW e
    PROVE  /\ \E S : Append(events, e) \in Seq(S)
           /\ OpenAfter(Append(events, e)) = Nested(OpenSteps, e)
  <1>1. PICK S : events \in Seq(S)
    BY DEF EventsTyped
  <1>2. PICK T : T = S \cup {e}
    OBVIOUS
  <1>3. events \in Seq(T) /\ e \in T
    BY <1>1, <1>2
  <1>4. Append(events, e) \in Seq(T)
    BY <1>3
  <1>5. OpenAfter(Append(events, e)) = Nested(OpenAfter(events), e)
    BY <1>3, OneMoreEvent
  <1> QED BY <1>4, <1>5 DEF OpenSteps

LEMMA StepOpens ==
    ASSUME NEW s, NEW n \in Nat \ {0}, NEW open, StepsAre(open, s, n - 1), NEW a,
           NEW new, new = Nested(open, StepEvent(a))
    PROVE  /\ \E S : new \in Seq(S)
           /\ Len(new) = n /\ new[n] = StepEvent(a)
           /\ \A k \in 1 .. n - 1 : new[k] = StepEvent(s[k])
           /\ new # <<>>
  <1>1. PICK e : e = StepEvent(a)
    OBVIOUS
  <1>2. e.ev = "step"
    BY <1>1 DEF StepEvent
  <1>3. n - 1 \in Nat /\ (n - 1) + 1 = n
    OBVIOUS
  <1>4. new = Append(open, e)
    BY <1>1, <1>2 DEF Nested
  <1>5. PICK S : open \in Seq(S)
    BY DEF StepsAre
  <1>6. PICK T : T = S \cup {e}
    OBVIOUS
  <1>7. open \in Seq(T) /\ e \in T
    BY <1>5, <1>6
  <1>8. new \in Seq(T) /\ Len(new) = n /\ new[n] = e /\ \A k \in 1 .. n - 1 : new[k] = open[k]
    BY <1>3, <1>4, <1>7 DEF StepsAre
  <1>9. new # <<>>
    BY <1>8
  <1> QED BY <1>1, <1>8, <1>9 DEF StepsAre

\* The registers are listed for the innermost open Step.
LEMMA VarsClose ==
    ASSUME NEW s, NEW n \in Nat \ {0}, NEW open, StepsAre(open, s, n), NEW a, a.id = s[n].id
    PROVE  StepsAre(Nested(open, VarsEvent(a)), s, n - 1)
  <1>1. PICK e : e = VarsEvent(a)
    OBVIOUS
  <1>2. e.ev = "vars" /\ e.id = a.id
    BY <1>1 DEF VarsEvent
  <1>3. PICK S : open \in Seq(S)
    BY DEF StepsAre
  <1>4. Len(open) = n /\ open[n] = StepEvent(s[n]) /\ open # <<>>
    <2>1. n \in 1 .. n
      OBVIOUS
    <2> QED BY <1>3, <2>1 DEF StepsAre
  <1>5. Last(open) = open[n]
    BY <1>4 DEF Last
  <1>6. Last(open).id = e.id
    BY <1>2, <1>4, <1>5 DEF StepEvent
  <1>7. Nested(open, e) = Front(open)
    BY <1>2, <1>4, <1>6 DEF Nested
  <1>8. Front(open) \in Seq(S) /\ Len(Front(open)) = n - 1 /\ \A k \in 1 .. n - 1 : Front(open)[k] = open[k]
    <2> DEFINE m == n - 1
               i == 1
               t == SubSeq(open, i, m)
    <2>1. Front(open) = t
      BY <1>4, Zenon DEF Front
    <2>2. m \in Nat /\ i \in Int /\ i = 1 /\ \A k \in i .. m : open[k] \in S
      BY <1>3, <1>4
    <2> HIDE DEF m, i
    <2>3. /\ t \in Seq(S) /\ Len(t) = IF i <= m THEN m - i + 1 ELSE 0
          /\ \A k \in 1 .. m - i + 1 : t[k] = open[i + k - 1]
      BY <2>2, SubSeqProperties
    <2> HIDE DEF t
    <2>4. Len(t) = m /\ \A k \in 1 .. m : t[k] = open[k]
      BY <2>2, <2>3
    <2> QED BY <2>1, <2>3, <2>4 DEF m
  <1>9. \A k \in 1 .. n - 1 : k \in 1 .. n
    OBVIOUS
  <1> QED BY <1>1, <1>7, <1>8, <1>9 DEF StepsAre

\* The stack before and after.
LEMMA TopReplacedAt ==
    ASSUME NEW S, NEW s \in Seq(S), s # <<>>, NEW a
    PROVE  LET t == [s EXCEPT ![Len(s)] = a]
           IN  /\ Len(s) \in Nat \ {0} /\ Len(t) = Len(s) /\ t # <<>> /\ t[Len(s)] = a
               /\ \A k \in 1 .. Len(s) - 1 : t[k] = s[k]
  <1>1. PICK T : T = S \cup {a}
    OBVIOUS
  <1>2. s \in Seq(T) /\ a \in T /\ Len(s) \in Nat \ {0} /\ Len(s) \in 1 .. Len(s)
    BY <1>1
  <1>3. PICK t : t = [s EXCEPT ![Len(s)] = a]
    OBVIOUS
  <1>4. t \in Seq(T) /\ Len(t) = Len(s) /\ t[Len(s)] = a /\ \A k \in 1 .. Len(s) - 1 : t[k] = s[k]
    BY <1>2, <1>3
  <1>5. t # <<>>
    BY <1>2, <1>4
  <1> QED BY <1>2, <1>3, <1>4, <1>5

LEMMA StackPopped ==
    ASSUME VMInv, stack # <<>>
    PROVE  /\ Len(stack) \in Nat \ {0} /\ \E S : Front(stack) \in Seq(S)
           /\ Len(Front(stack)) = Len(stack) - 1
           /\ \A k \in 1 .. Len(stack) - 1 : Front(stack)[k] = stack[k]
           /\ Len(stack) = 1 => Front(stack) = <<>>
           /\ Len(stack) # 1 => Front(stack) # <<>>
  <1>1. /\ Len(stack) \in Nat \ {0} /\ Len(Front(stack)) = Len(stack) - 1
        /\ \A k \in 1 .. Len(stack) - 1 : Front(stack)[k] = stack[k]
        /\ \E S : Front(stack) \in Seq(S)
    BY AtTop, TopPopped DEF VMInv, StackOK
  <1>2. PICK t, S : t = Front(stack) /\ t \in Seq(S)
    BY <1>1
  <1>3. Len(t) = 0 <=> t = <<>>
    BY <1>2
  <1>4. Len(stack) = 1 <=> Len(t) = 0
    BY <1>1, <1>2
  <1> QED BY <1>1, <1>2, <1>3, <1>4

LEMMA NestingStep ==
    ASSUME VMInv, HistInv, prog.mode = "finalize", EventsTyped, Nesting, Next
    PROVE  EventsTyped' /\ Nesting'
  <1>1. PICK S : stack \in Seq(S)
    BY DEF VMInv, StackOK
  <1>2. CASE \E a : Worked(a)
    <2>1. PICK a : Worked(a)
      BY <1>2
    <2>2. PICK n \in Nat \ {0} : n = Len(stack)
      BY <1>1, <2>1 DEF Worked
    <2>3. /\ Len(stack') = n /\ stack' # <<>> /\ \A k \in 1 .. n - 1 : stack'[k] = stack[k]
      BY <1>1, <2>1, <2>2, TopReplacedAt DEF Worked
    <2>4. PICK mid : mid = Append(events, StepEvent(top))
      OBVIOUS
    <2>5. EventsTyped /\ StepsAre(OpenSteps, stack, n - 1) /\ n - 1 \in Nat
      BY <2>1, <2>2 DEF Nesting, Worked
    <2>6. /\ \E T : mid \in Seq(T)
          /\ OpenAfter(mid) = Nested(OpenSteps, StepEvent(top))
      BY <2>4, <2>5, EventAppended
    <2>7. StepsAre(OpenAfter(mid), stack, n)
      <3>1. \A k \in 1 .. n : k \in 1 .. n - 1 \/ k = n
        OBVIOUS
      <3>2. PICK o : o = OpenAfter(mid)
        OBVIOUS
      <3>3. /\ \E T : o \in Seq(T)
            /\ Len(o) = n /\ o[n] = StepEvent(top)
            /\ \A k \in 1 .. n - 1 : o[k] = StepEvent(stack[k])
        <4>1. o = Nested(OpenSteps, StepEvent(top))
          BY <2>6, <3>2
        <4> QED BY <2>2, <2>5, <4>1, StepOpens
      <3>4. top = stack[n]
        BY <2>2 DEF top
      <3> QED BY <3>1, <3>2, <3>3, <3>4 DEF StepsAre
    <2>8. PICK T : mid \in Seq(T)
      BY <2>6
    <2>9. events' = Append(mid, VarsEvent(a)) /\ a.id = stack[n].id
      BY <2>1, <2>2, <2>4 DEF Worked, top
    <2>10. PICK e, U : e = VarsEvent(a) /\ U = T \cup {e}
      OBVIOUS
    <2>11. mid \in Seq(U) /\ e \in U
      BY <2>8, <2>10
    <2>12. events' \in Seq(U) /\ OpenAfter(events') = Nested(OpenAfter(mid), e)
      BY <2>9, <2>10, <2>11, OneMoreEvent
    <2>13. StepsAre(OpenAfter(events'), stack, n - 1)
      BY <2>7, <2>9, <2>10, <2>12, VarsClose
    <2>14. StepsAre(OpenAfter(events'), stack', n - 1)
      BY <2>3, <2>13 DEF StepsAre
    <2>15. StepsAre(OpenSteps, stack, Len(stack) - 1)'
      BY <2>3, <2>14 DEF OpenSteps, StepsAre
    <2>16. status' = "running"
      BY <2>1 DEF Worked
    <2> QED BY <2>3, <2>12, <2>15, <2>16 DEF Nesting, EventsTyped
  <1>3. CASE \E a : Called(a)
    <2>1. PICK a : Called(a)
      BY <1>3
    <2>2. PICK n \in Nat \ {0} : n = Len(stack)
      BY <1>1, <2>1 DEF Called
    <2>3. /\ Len(stack') = n + 1 /\ stack' # <<>> /\ \A k \in 1 .. n : stack'[k] = stack[k]
      <3>1. PICK T : T = S \cup {a}
        OBVIOUS
      <3>2. stack \in Seq(T) /\ a \in T
        BY <1>1, <3>1
      <3>3. PICK t : t = Append(stack, a)
        OBVIOUS
      <3>4. t \in Seq(T) /\ Len(t) = n + 1 /\ \A k \in 1 .. n : t[k] = stack[k]
        BY <2>2, <3>2, <3>3
      <3>5. t # <<>>
        BY <3>4
      <3> QED BY <2>1, <3>3, <3>4, <3>5 DEF Called
    <2>4. StepsAre(OpenSteps, stack, n - 1) /\ n - 1 \in Nat
      BY <2>1, <2>2 DEF Nesting, Called
    <2>5. events' = Append(events, StepEvent(top)) /\ top = stack[n] /\ status' = "running"
      BY <2>1, <2>2 DEF Called, top
    <2>6. /\ \E T : events' \in Seq(T)
          /\ OpenAfter(events') = Nested(OpenSteps, StepEvent(top))
      BY <2>5, EventAppended
    <2>7. StepsAre(OpenAfter(events'), stack', n)
      <3>1. \A k \in 1 .. n : k \in 1 .. n - 1 \/ k = n
        OBVIOUS
      <3>2. PICK o : o = OpenAfter(events')
        OBVIOUS
      <3>3. /\ \E T : o \in Seq(T)
            /\ Len(o) = n /\ o[n] = StepEvent(top)
            /\ \A k \in 1 .. n - 1 : o[k] = StepEvent(stack[k])
        <4>1. o = Nested(OpenSteps, StepEvent(top))
          BY <2>6, <3>2
        <4> QED BY <2>2, <2>4, <4>1, StepOpens
      <3> QED BY <2>3, <2>5, <3>1, <3>2, <3>3 DEF StepsAre
    <2>8. StepsAre(OpenSteps, stack, Len(stack) - 1)'
      <3>1. (n + 1) - 1 = n
        OBVIOUS
      <3> QED BY <2>3, <2>7, <3>1 DEF OpenSteps, StepsAre
    <2> QED BY <2>3, <2>5, <2>6, <2>8 DEF Nesting, EventsTyped
  <1>4. CASE \E a : Resumed(a)
    <2>1. PICK a : Resumed(a)
      BY <1>4
    <2>2. PICK n \in Nat \ {0, 1} : n = Len(stack)
      BY <1>1, <2>1 DEF Resumed
    <2>3. stack # <<>>
      BY <2>2
    <2>4. PICK f, T : f = Front(stack) /\ f \in Seq(T)
      BY <2>3, StackPopped
    <2>5. f # <<>> /\ Len(f) = n - 1 /\ \A k \in 1 .. n - 1 : f[k] = stack[k]
      BY <2>2, <2>3, <2>4, StackPopped
    <2>6. stack' = [f EXCEPT ![Len(f)] = a]
      BY <2>1, <2>2, <2>4, <2>5, Zenon DEF Resumed
    <2>7. PICK t : t = [f EXCEPT ![Len(f)] = a]
      OBVIOUS
    <2>8. Len(t) = n - 1 /\ t # <<>> /\ \A k \in 1 .. (n - 1) - 1 : t[k] = f[k]
      BY <2>4, <2>5, <2>7, TopReplacedAt
    <2>9. StepsAre(OpenSteps, stack, n - 1) /\ n - 1 \in Nat \ {0} /\ a.id = stack[n - 1].id
      BY <2>1, <2>2 DEF Nesting, Resumed
    <2>10. events' = Append(events, VarsEvent(a)) /\ status' = "running"
      BY <2>1 DEF Resumed
    <2>11. /\ \E U : events' \in Seq(U)
           /\ OpenAfter(events') = Nested(OpenSteps, VarsEvent(a))
      BY <2>10, EventAppended
    <2>12. StepsAre(OpenAfter(events'), stack, (n - 1) - 1)
      BY <2>9, <2>11, VarsClose
    <2>13. \A k \in 1 .. (n - 1) - 1 : stack'[k] = stack[k]
      <3>1. \A k \in 1 .. (n - 1) - 1 : k \in 1 .. n - 1
        OBVIOUS
      <3> QED BY <2>5, <2>6, <2>7, <2>8, <3>1
    <2>14. Len(stack') = n - 1 /\ stack' # <<>>
      BY <2>6, <2>7, <2>8
    <2>15. StepsAre(OpenSteps, stack, Len(stack) - 1)'
      BY <2>12, <2>13, <2>14 DEF OpenSteps, StepsAre
    <2> QED BY <2>10, <2>11, <2>14, <2>15 DEF Nesting, EventsTyped
  <1>5. CASE Failed
    <2>1. PICK n \in Nat \ {0} : n = Len(stack)
      BY <1>1, <1>5 DEF Failed
    <2>2. StepsAre(OpenSteps, stack, n - 1) /\ n - 1 \in Nat
      BY <1>5, <2>1 DEF Nesting, Failed
    <2>3. events' = Append(events, StepEvent(top)) /\ top = stack[n] /\ status' \in {"failing", "panic"}
      BY <1>5, <2>1 DEF Failed, top
    <2>4. /\ \E T : events' \in Seq(T)
          /\ OpenAfter(events') = Nested(OpenSteps, StepEvent(top))
      BY <2>3, EventAppended
    <2>5. PICK o : o = OpenAfter(events')
      OBVIOUS
    <2>6. /\ \E T : o \in Seq(T)
          /\ Len(o) = n /\ o[n] = StepEvent(top)
          /\ \A k \in 1 .. n - 1 : o[k] = StepEvent(stack[k])
          /\ o # <<>>
      <3>1. o = Nested(OpenSteps, StepEvent(top))
        BY <2>4, <2>5
      <3> QED BY <2>1, <2>2, <3>1, StepOpens
    <2>7. Len(o) = n /\ \A k \in 1 .. n : o[k] = StepEvent(stack[k])
      <3>1. \A k \in 1 .. n : k \in 1 .. n - 1 \/ k = n
        OBVIOUS
      <3> QED BY <2>3, <2>6, <3>1
    <2>8. OpenSteps' = o
      BY <2>5 DEF OpenSteps
    <2>9. CASE status' = "panic"
      BY <1>5, <2>4, <2>6, <2>8, <2>9 DEF Failed, Nesting, EventsTyped
    <2>10. CASE status' = "failing"
      <3>1. stack' = stack /\ stack # <<>>
        BY <1>5, <2>10 DEF Failed
      <3>2. Len(stack) <= Len(o)
        BY <2>1, <2>7
      <3> QED BY <2>1, <2>4, <2>6, <2>7, <2>8, <2>10, <3>1, <3>2 DEF Nesting, EventsTyped
    <2> QED BY <2>3, <2>9, <2>10
  <1>6. CASE Concluded
    <2>1. events' = events /\ OpenSteps' = OpenSteps
      BY <1>6 DEF Concluded, OpenSteps
    <2>2. CASE status = "running"
      <3>1. status' = "ok" /\ stack' = <<>> /\ Len(stack) = 1
        BY <1>6, <2>2 DEF Concluded
      <3>4. Len(stack) - 1 = 0
        BY <3>1
      <3>5. StepsAre(OpenSteps, stack, 0)
        BY <2>2, <3>4 DEF Nesting
      <3>2. PICK o, T : o = OpenSteps /\ o \in Seq(T) /\ Len(o) = 0
        BY <3>5 DEF StepsAre
      <3>3. OpenSteps = <<>>
        BY <3>2
      <3> QED BY <2>1, <3>1, <3>3 DEF Nesting, EventsTyped
    <2>3. CASE status # "running"
      <3>1. /\ status = "failing" /\ stack # <<>> /\ stack' = Front(stack)
            /\ status' = IF Len(stack) = 1 THEN "err" ELSE "failing"
        BY <1>6, <2>3 DEF Concluded
      <3>2. PICK n \in Nat \ {0} : n = Len(stack)
        BY <1>1, <3>1
      <3>3. PICK o, T : o = OpenSteps /\ o \in Seq(T) /\ n <= Len(o)
                        /\ \A k \in 1 .. n : o[k] = StepEvent(stack[k])
        BY <3>1, <3>2 DEF Nesting
      <3>4. o # <<>>
        BY <3>2, <3>3
      <3>5. CASE n = 1
        <4>1. stack' = <<>> /\ status' = "err"
          BY <3>1, <3>2, <3>5, StackPopped
        <4> QED BY <2>1, <3>3, <3>4, <4>1 DEF Nesting, EventsTyped
      <3>6. CASE n # 1
        <4>1. stack' # <<>> /\ status' = "failing"
          BY <3>1, <3>2, <3>6, StackPopped
        <4>2. Len(stack') = n - 1 /\ \A k \in 1 .. n - 1 : stack'[k] = stack[k]
          BY <3>1, <3>2, StackPopped
        <4>3. \A k \in 1 .. n - 1 : k \in 1 .. n
          OBVIOUS
        <4>4. n - 1 <= Len(o)
          BY <3>3
        <4> QED BY <2>1, <3>3, <4>1, <4>2, <4>3, <4>4 DEF Nesting, EventsTyped
      <3> QED BY <3>5, <3>6
    <2> QED BY <2>2, <2>3
  <1>7. CASE UNCHANGED <<stack, events, status>>
    BY <1>7 DEF Nesting, EventsTyped, OpenSteps, StepsAre
  <1> QED BY <1>2, <1>3, <1>4, <1>5, <1>6, <1>7, StepsOfFinalize


NestInv == prog.mode = "finalize" => EventsTyped /\ Nesting

LEMMA ProgramStays == [Next]_vars => UNCHANGED prog
  BY Zenon DEF Next, Execute, ExecBinary, FailDivision, PanicDivision, Unwind, ExecCall, ExecUnknownCall,
     ExecUnknown, ExecGet, ExecGetOrUse, ExecSet, ExecRemove, ExecContains, Return, Stopped, Complete, vars

LEMMA NestStep == VMInv /\ HistInv /\ NestInv /\ [Next]_vars => NestInv'
  <1> SUFFICES ASSUME VMInv, HistInv, NestInv, [Next]_vars, prog'.mode = "finalize"
               PROVE  EventsTyped' /\ Nesting'
    BY DEF NestInv
  <1>1. prog.mode = "finalize"
    BY ProgramStays
  <1>2. CASE Next
    BY <1>1, <1>2, NestingStep DEF NestInv
  <1>3. CASE UNCHANGED vars
    BY <1>1, <1>3 DEF NestInv, vars, EventsTyped, Nesting, OpenSteps, StepsAre
  <1> QED BY <1>2, <1>3

LEMMA NestStarts == Init => NestInv
  <1> SUFFICES ASSUME Init, prog.mode = "finalize" PROVE EventsTyped /\ Nesting
    BY DEF NestInv
  <1>1. events = <<>> /\ OpenSteps = <<>>
    BY NothingOpen DEF Init, OpenSteps
  <1>2. EventsTyped
    BY <1>1 DEF EventsTyped
  <1>3. CASE prog.entry \in Known
    <2>1. PICK a : stack = <<a>> /\ status = "running"
      BY <1>3, Zenon DEF Init
    <2>2. Len(stack) = 1 /\ stack # <<>>
      <3>1. stack \in Seq({a}) /\ Len(stack) = 1
        BY <2>1
      <3> QED BY <3>1
    <2>3. StepsAre(OpenSteps, stack, Len(stack) - 1)
      BY <1>1, <2>2 DEF StepsAre
    <2> QED BY <1>2, <2>1, <2>2, <2>3 DEF Nesting
  <1>4. CASE prog.entry \notin Known
    BY <1>1, <1>2, <1>4 DEF Init, Nesting
  <1> QED BY <1>3, <1>4

\* Read from left to right the FinalizeTracer's events nest as its calls do:
\* the registers listed belong to the innermost open Step, an error leaves the
\* Steps of the calls that failed open and a call that returns leaves none.
THEOREM EventsNest == Spec => []FinalizeEventsNest
  <1>1. VMInv /\ NestInv => FinalizeEventsNest
    <2> SUFFICES ASSUME VMInv, EventsTyped, Nesting,
                        NEW calls, calls = IF status = "failing" THEN Len(stack) ELSE Len(stack) - 1
                 PROVE  /\ \A k \in 1 .. calls : k <= Len(OpenSteps) /\ OpenSteps[k] = StepEvent(stack[k])
                        /\ status = "running" => Len(OpenSteps) = calls
                        /\ status = "ok" => OpenSteps = <<>>
                        /\ status \in {"failing", "err", "panic"} /\ events # <<>> => OpenSteps # <<>>
      BY Zenon DEF NestInv, FinalizeEventsNest
    <2>1. CASE status = "running"
      <3>1. StepsAre(OpenSteps, stack, calls)
        BY <2>1 DEF Nesting
      <3>2. Len(stack) \in Nat /\ calls \in Int
        BY <2>1 DEF VMInv, StackOK
      <3> QED BY <2>1, <3>1, <3>2 DEF StepsAre
    <2>2. CASE status = "failing"
      <3>1. PICK n \in Nat \ {0} : n = Len(stack)
        BY <2>2 DEF VMInv, StackOK, Nesting
      <3>2. PICK o, S : o = OpenSteps /\ o \in Seq(S) /\ n <= Len(o)
        BY <2>2, <3>1 DEF Nesting
      <3>3. o # <<>> /\ Len(o) \in Nat
        BY <3>1, <3>2
      <3>4. \A k \in 1 .. n : k <= Len(o)
        BY <3>2, <3>3
      <3> QED BY <2>2, <3>1, <3>2, <3>3, <3>4 DEF Nesting
    <2>3. CASE status \in {"ok", "err", "panic"}
      <3>1. stack = <<>>
        BY <2>3 DEF Nesting
      <3>2. 1 .. calls = {}
        <4>1. Len(stack) = 0 /\ calls = -1
          BY <2>3, <3>1
        <4> QED BY <4>1
      <3> QED BY <2>3, <3>2 DEF Nesting
    <2> QED BY <2>1, <2>2, <2>3 DEF VMInv
  <1> QED
    BY <1>1, VMStarts, VMStep, HistStarts, HistStep, NestStarts, NestStep, PTL DEF Spec


----------------------------------------------------------------------------
(* The registers last listed for a call *)

ListedIn(es, id) == {i \in 1 .. Len(es) : es[i].ev = "vars" /\ es[i].id = id}

\* Past its first instruction a call's registers are those last listed for it.
RegistersIn(es, a) ==
    a.pc > 1 => ListedIn(es, a.id) # {} /\ es[NewestOf(ListedIn(es, a.id))].regs = a.regs

\* A call has an identity that no other call has.
Identified ==
    /\ Len(hist) \in Nat
    /\ \A k \in 1 .. Len(stack) : stack[k].id \in Nat /\ stack[k].id <= Len(hist)
    /\ \A j, k \in 1 .. Len(stack) : j # k => stack[j].id # stack[k].id

AllListed == \A k \in 1 .. Len(stack) : RegistersIn(events, stack[k])

\* An event that lists the registers of another call changes nothing for a.
LEMMA StaysListed ==
    ASSUME NEW S, NEW es \in Seq(S), NEW e, NEW a, ~(e.ev = "vars" /\ e.id = a.id), RegistersIn(es, a)
    PROVE  RegistersIn(Append(es, e), a)
  <1>1. PICK n \in Nat : n = Len(es)
    OBVIOUS
  <1>2. PICK T, fs : T = S \cup {e} /\ fs = Append(es, e)
    OBVIOUS
  <1>3. es \in Seq(T) /\ e \in T
    BY <1>2
  <1>4. Len(fs) = n + 1 /\ fs[n + 1] = e /\ \A i \in 1 .. n : fs[i] = es[i]
    BY <1>1, <1>2, <1>3
  <1>5. \A i \in 1 .. n + 1 : i \in 1 .. n \/ i = n + 1
    OBVIOUS
  <1>6. ListedIn(fs, a.id) = ListedIn(es, a.id)
    BY <1>1, <1>4, <1>5 DEF ListedIn
  <1>7. ListedIn(es, a.id) # {} => NewestOf(ListedIn(es, a.id)) \in 1 .. n
    <2>1. ListedIn(es, a.id) \subseteq 1 .. n
      BY <1>1 DEF ListedIn
    <2> QED BY <2>1, NewestIn
  <1> QED BY <1>2, <1>4, <1>6, <1>7 DEF RegistersIn

LEMMA ListingIsNewest ==
    ASSUME NEW S, NEW es \in Seq(S), NEW a
    PROVE  RegistersIn(Append(es, VarsEvent(a)), a)
  <1>1. PICK n \in Nat \ {0} : n = Len(es) + 1
    OBVIOUS
  <1>2. PICK e, T, fs : e = VarsEvent(a) /\ T = S \cup {e} /\ fs = Append(es, e)
    OBVIOUS
  <1>3. es \in Seq(T) /\ e \in T
    BY <1>2
  <1>4. Len(fs) = n /\ fs[n] = e
    BY <1>1, <1>2, <1>3
  <1>5. e.ev = "vars" /\ e.id = a.id /\ e.regs = a.regs
    BY <1>2 DEF VarsEvent
  <1>6. PICK P : P = ListedIn(fs, a.id)
    OBVIOUS
  <1>7. P \subseteq 1 .. n /\ n \in P
    BY <1>4, <1>5, <1>6 DEF ListedIn
  <1>8. NewestOf(P) \in P /\ n <= NewestOf(P)
    BY <1>7, NewestIn
  <1>9. NewestOf(P) = n
    <2>1. PICK j \in 1 .. n : j = NewestOf(P)
      BY <1>7, <1>8
    <2> QED BY <1>8, <2>1
  <1> QED BY <1>2, <1>4, <1>5, <1>6, <1>7, <1>9 DEF RegistersIn

LEMMA ListingStep ==
    ASSUME VMInv, HistInv, prog.mode = "finalize", EventsTyped, Nesting, Identified, AllListed, Next
    PROVE  Identified' /\ AllListed'
  <1>1. PICK S : stack \in Seq(S)
    BY DEF VMInv, StackOK
  <1>2. PICK E : events \in Seq(E)
    BY DEF EventsTyped
  <1>3. /\ Later
        /\ \/ \E a : Worked(a) \/ Called(a) \/ Resumed(a)
           \/ Failed
           \/ Concluded
           \/ UNCHANGED <<stack, events, status>>
    BY StepsOfFinalize
  <1>4. PICK N \in Nat : N = Len(stack)
    BY <1>1
  \* The calls below the top and the event that a step begins with.
  <1>5. ASSUME NEW k \in 1 .. N
        PROVE  RegistersIn(Append(events, StepEvent(top)), stack[k])
    <2>1. PICK e, b : e = StepEvent(top) /\ b = stack[k]
      OBVIOUS
    <2>2. e.ev # "vars"
      BY <2>1 DEF StepEvent
    <2>3. RegistersIn(events, b)
      BY <1>4, <2>1 DEF AllListed
    <2> QED BY <1>2, <2>1, <2>2, <2>3, StaysListed
  <1>6. CASE \E a : Worked(a)
    <2>1. PICK a : Worked(a)
      BY <1>6
    <2>2. /\ N \in Nat \ {0} /\ Len(stack') = N /\ stack'[N] = a
          /\ \A k \in 1 .. N - 1 : stack'[k] = stack[k]
      BY <1>1, <1>4, <2>1, TopReplacedAt DEF Worked
    <2>3. \A k \in 1 .. N : k \in 1 .. N - 1 \/ k = N
      OBVIOUS
    <2>4. a.id = stack[N].id
      BY <1>4, <2>1 DEF Worked, top
    <2>5. \A k \in 1 .. N : stack'[k].id = stack[k].id
      BY <2>2, <2>3, <2>4
    <2>6. Identified'
      BY <1>3, <1>4, <2>2, <2>5 DEF Identified, Later
    <2>7. PICK mid, T : mid = Append(events, StepEvent(top)) /\ T = E \cup {StepEvent(top)}
      OBVIOUS
    <2>8. mid \in Seq(T)
      BY <1>2, <2>7
    <2>9. events' = Append(mid, VarsEvent(a))
      BY <2>1, <2>7 DEF Worked
    <2>10. RegistersIn(events', a)
      BY <2>8, <2>9, ListingIsNewest
    <2>11. ASSUME NEW k \in 1 .. N - 1 PROVE RegistersIn(events', stack[k])
      <3>1. PICK e, b : e = VarsEvent(a) /\ b = stack[k]
        OBVIOUS
      <3>2. k \in 1 .. N /\ k # N /\ N \in 1 .. N
        OBVIOUS
      <3>3. e.id # b.id
        <4>1. stack[k].id # stack[N].id
          BY <1>4, <3>2 DEF Identified
        <4> QED BY <2>4, <3>1, <4>1 DEF VarsEvent
      <3>4. RegistersIn(mid, b)
        BY <1>5, <2>7, <3>1, <3>2
      <3> QED BY <2>8, <2>9, <3>1, <3>3, <3>4, StaysListed
    <2>12. AllListed'
      BY <2>2, <2>3, <2>10, <2>11 DEF AllListed
    <2> QED BY <2>6, <2>12
  <1>7. CASE \E a : Called(a)
    <2>1. PICK a : Called(a)
      BY <1>7
    <2>2. PICK T : T = S \cup {a}
      OBVIOUS
    <2>3. stack \in Seq(T) /\ a \in T
      BY <1>1, <2>2
    <2>4. Len(stack') = N + 1 /\ stack'[N + 1] = a /\ \A k \in 1 .. N : stack'[k] = stack[k]
      BY <1>4, <2>1, <2>3 DEF Called
    <2>5. \A k \in 1 .. N + 1 : k \in 1 .. N \/ k = N + 1
      OBVIOUS
    <2>6. PICK h \in Nat : h = Len(hist)
      BY DEF Identified
    <2>7. Len(hist') = h + 1 /\ a.id = h + 1 /\ a.pc = 1
      BY <2>1, <2>6 DEF Called
    <2>8. \A k \in 1 .. N : stack[k].id \in Nat /\ stack[k].id <= h
      BY <1>4, <2>6 DEF Identified
    <2>9. \A j, k \in 1 .. N : j # k => stack[j].id # stack[k].id
      BY <1>4 DEF Identified
    <2>10. \A k \in 1 .. N + 1 : stack'[k].id \in Nat /\ stack'[k].id <= h + 1
      BY <2>4, <2>5, <2>7, <2>8
    <2>11. \A j, k \in 1 .. N + 1 : j # k => stack'[j].id # stack'[k].id
      <3> SUFFICES ASSUME NEW j \in 1 .. N + 1, NEW k \in 1 .. N + 1, j # k
                   PROVE  stack'[j].id # stack'[k].id
        OBVIOUS
      <3>1. \A i \in 1 .. N : stack[i].id # h + 1
        BY <2>8
      <3>2. CASE j \in 1 .. N /\ k \in 1 .. N
        BY <2>4, <2>9, <3>2
      <3>3. CASE j = N + 1 /\ k \in 1 .. N
        BY <2>4, <2>7, <3>1, <3>3
      <3>4. CASE j \in 1 .. N /\ k = N + 1
        BY <2>4, <2>7, <3>1, <3>4
      <3> QED BY <2>5, <3>2, <3>3, <3>4
    <2>12. Identified'
      BY <2>4, <2>7, <2>10, <2>11 DEF Identified
    <2>13. events' = Append(events, StepEvent(top))
      BY <2>1 DEF Called
    <2>14. RegistersIn(events', a)
      BY <2>7 DEF RegistersIn
    <2>15. AllListed'
      BY <1>5, <2>4, <2>5, <2>13, <2>14 DEF AllListed
    <2> QED BY <2>12, <2>15
  <1>8. CASE \E a : Resumed(a)
    <2>1. PICK a : Resumed(a)
      BY <1>8
    <2>2. stack # <<>> /\ N \in Nat \ {0, 1}
      BY <1>4, <2>1 DEF Resumed
    <2>3. PICK f, T : f = Front(stack) /\ f \in Seq(T)
      BY <2>2, StackPopped
    <2>4. f # <<>> /\ Len(f) = N - 1 /\ \A k \in 1 .. N - 1 : f[k] = stack[k]
      BY <1>4, <2>2, <2>3, StackPopped
    <2>5. stack' = [f EXCEPT ![Len(f)] = a]
      BY <1>4, <2>1, <2>3, <2>4, Zenon DEF Resumed
    <2>6. PICK t : t = [f EXCEPT ![Len(f)] = a]
      OBVIOUS
    <2>7. Len(t) = N - 1 /\ t[N - 1] = a /\ \A k \in 1 .. (N - 1) - 1 : t[k] = f[k]
      BY <2>3, <2>4, <2>6, TopReplacedAt
    <2>8. /\ Len(stack') = N - 1 /\ stack'[N - 1] = a
          /\ \A k \in 1 .. (N - 1) - 1 : stack'[k] = stack[k]
      <3>1. \A k \in 1 .. (N - 1) - 1 : k \in 1 .. N - 1
        OBVIOUS
      <3> QED BY <2>4, <2>5, <2>6, <2>7, <3>1
    <2>9. a.id = stack[N - 1].id /\ events' = Append(events, VarsEvent(a))
      BY <1>4, <2>1 DEF Resumed
    <2>10. \A k \in 1 .. N - 1 : k \in 1 .. (N - 1) - 1 \/ k = N - 1
      BY <2>2
    <2>11. \A k \in 1 .. N - 1 : stack'[k].id = stack[k].id /\ k \in 1 .. N
      BY <2>8, <2>9, <2>10
    <2>12. Identified'
      <3>1. \A k \in 1 .. N - 1 : stack'[k].id \in Nat /\ stack'[k].id <= Len(hist)
        BY <1>4, <2>11 DEF Identified
      <3>2. \A j, k \in 1 .. N - 1 : j # k => stack'[j].id # stack'[k].id
        BY <1>4, <2>11 DEF Identified
      <3>3. \A k \in 1 .. N - 1 : stack'[k].id <= Len(hist')
        BY <1>3, <3>1 DEF Later
      <3> QED BY <1>3, <2>8, <3>1, <3>2, <3>3 DEF Identified, Later
    <2>13. RegistersIn(events', a)
      BY <1>2, <2>9, ListingIsNewest
    <2>14. ASSUME NEW k \in 1 .. (N - 1) - 1 PROVE RegistersIn(events', stack[k])
      <3>1. PICK e, b : e = VarsEvent(a) /\ b = stack[k]
        OBVIOUS
      <3>2. k \in 1 .. N /\ k # N - 1 /\ N - 1 \in 1 .. N
        BY <2>2
      <3>3. e.id # b.id
        <4>1. stack[k].id # stack[N - 1].id
          BY <1>4, <3>2 DEF Identified
        <4> QED BY <2>9, <3>1, <4>1 DEF VarsEvent
      <3>4. RegistersIn(events, b)
        BY <1>4, <3>1, <3>2 DEF AllListed
      <3> QED BY <1>2, <2>9, <3>1, <3>3, <3>4, StaysListed
    <2>15. AllListed'
      BY <2>8, <2>10, <2>13, <2>14 DEF AllListed
    <2> QED BY <2>12, <2>15
  <1>9. CASE Failed \/ Concluded \/ UNCHANGED <<stack, events, status>>
    <2>1. /\ Len(stack') \in Nat /\ Len(stack') <= N
          /\ \A k \in 1 .. Len(stack') : stack'[k] = stack[k]
      <3>1. CASE stack' = stack
        BY <1>4, <3>1
      <3>2. CASE stack' = <<>>
        BY <1>4, <3>2
      <3>3. CASE stack # <<>> /\ stack' = Front(stack)
        <4>1. /\ Len(stack) \in Nat \ {0} /\ Len(stack') = Len(stack) - 1
              /\ \A k \in 1 .. Len(stack) - 1 : stack'[k] = stack[k]
          BY <3>3, StackPopped
        <4> QED BY <1>4, <4>1
      <3> QED BY <1>9, <3>1, <3>2, <3>3 DEF Failed, Concluded
    <2>2. \A k \in 1 .. Len(stack') : k \in 1 .. N
      BY <2>1
    <2>3. Identified'
      <3>1. \A k \in 1 .. Len(stack') : stack'[k].id \in Nat /\ stack'[k].id <= Len(hist)
        BY <1>4, <2>1, <2>2 DEF Identified
      <3>2. \A j, k \in 1 .. Len(stack') : j # k => stack'[j].id # stack'[k].id
        BY <1>4, <2>1, <2>2 DEF Identified
      <3>3. \A k \in 1 .. Len(stack') : stack'[k].id <= Len(hist')
        BY <1>3, <3>1 DEF Later
      <3> QED BY <1>3, <3>1, <3>2, <3>3 DEF Identified, Later
    <2>4. \A k \in 1 .. N : RegistersIn(events', stack[k])
      <3>1. CASE events' = events
        BY <1>4, <3>1 DEF AllListed
      <3>2. CASE events' = Append(events, StepEvent(top))
        BY <1>5, <3>2
      <3> QED BY <1>9, <3>1, <3>2 DEF Failed, Concluded
    <2>5. AllListed'
      BY <2>1, <2>2, <2>4 DEF AllListed
    <2> QED BY <2>3, <2>5
  <1> QED BY <1>3, <1>6, <1>7, <1>8, <1>9

ListInv == prog.mode = "finalize" => Identified /\ AllListed

LEMMA ListStep == VMInv /\ HistInv /\ NestInv /\ ListInv /\ [Next]_vars => ListInv'
  <1> SUFFICES ASSUME VMInv, HistInv, NestInv, ListInv, [Next]_vars, prog'.mode = "finalize"
               PROVE  Identified' /\ AllListed'
    BY DEF ListInv
  <1>1. prog.mode = "finalize"
    BY ProgramStays
  <1>2. EventsTyped /\ Nesting /\ Identified /\ AllListed
    BY <1>1 DEF NestInv, ListInv
  <1>3. CASE Next
    BY <1>1, <1>2, <1>3, ListingStep
  <1>4. CASE UNCHANGED vars
    BY <1>2, <1>4 DEF vars, Identified, AllListed
  <1> QED BY <1>3, <1>4

LEMMA ListStarts == Init => ListInv
  <1> SUFFICES ASSUME Init PROVE Identified /\ AllListed
    BY DEF ListInv
  <1>1. Len(hist) = 0
    BY DEF Init
  <1>2. CASE prog.entry \in Known
    <2>1. PICK a, k, vs : stack = <<a>> /\ a = Activate(0, k, vs)
      BY <1>2, Zenon DEF Init
    <2>2. a.id = 0 /\ a.pc = 1
      BY <2>1 DEF Activate
    <2>3. Len(stack) = 1 /\ stack[1] = a
      <3>1. stack \in Seq({a})
        BY <2>1
      <3> QED BY <2>1, <3>1
    <2>4. RegistersIn(events, a)
      BY <2>2 DEF RegistersIn
    <2> QED BY <1>1, <2>2, <2>3, <2>4 DEF Identified, AllListed
  <1>3. CASE prog.entry \notin Known
    <2>1. Len(stack) = 0
      BY <1>3 DEF Init
    <2> QED BY <1>1, <2>1 DEF Identified, AllListed
  <1> QED BY <1>2, <1>3

\* Between its instructions the registers last listed for a call are those it
\* has, also after what it called has returned.
THEOREM RegistersAreListed == Spec => []FinalizeListsRegisters
  <1>1. ListInv => FinalizeListsRegisters
    BY Zenon DEF ListInv, AllListed, RegistersIn, ListedIn, NewestOf, FinalizeListsRegisters
  <1> QED
    BY <1>1, VMStarts, VMStep, HistStarts, HistStep, NestStarts, NestStep, ListStarts, ListStep,
       PTL DEF Spec

----------------------------------------------------------------------------
(* The greatest of some numbers *)

LEMMA FiniteBounded ==
    ASSUME NEW S, S \subseteq Nat, IsFiniteSet(S)
    PROVE  \E m \in Nat : \A x \in S : x <= m
  <1>1. PICK n \in Nat : ExistsSurjection(1 .. n, S)
    BY FS_NatSurjection
  <1>2. PICK f : f \in Surjection(1 .. n, S)
    BY <1>1 DEF ExistsSurjection
  <1>3. f \in [1 .. n -> S] /\ \A x \in S : \E i \in 1 .. n : f[i] = x
    BY <1>2 DEF Surjection
  <1> DEFINE Good == {k \in Nat : \E m \in Nat : \A i \in 1 .. n : i <= k => f[i] <= m}
  <1>4. 0 \in Good
    OBVIOUS
  <1>5. ASSUME NEW k \in Nat, k \in Good PROVE k + 1 \in Good
    <2>1. PICK m \in Nat : \A i \in 1 .. n : i <= k => f[i] <= m
      BY <1>5
    <2>2. \A i \in 1 .. n : f[i] \in Nat
      BY <1>3
    <2>3. CASE k + 1 \in 1 .. n
      <3>1. PICK p \in Nat : p = m + f[k + 1]
        BY <2>2, <2>3
      <3>2. \A i \in 1 .. n : i <= k + 1 => f[i] <= p
        <4> SUFFICES ASSUME NEW i \in 1 .. n, i <= k + 1 PROVE f[i] <= p
          OBVIOUS
        <4>1. i <= k \/ i = k + 1
          OBVIOUS
        <4> QED BY <2>1, <2>2, <2>3, <3>1, <4>1
      <3> QED BY <3>2
    <2>4. CASE k + 1 \notin 1 .. n
      <3>1. \A i \in 1 .. n : i <= k + 1 => i <= k
        BY <2>4
      <3> QED BY <2>1, <3>1
    <2> QED BY <2>3, <2>4
  <1>6. n \in Good
    <2> HIDE DEF Good
    <2> QED BY <1>4, <1>5, NatSetInduction
  <1>7. PICK m \in Nat : \A i \in 1 .. n : f[i] <= m
    BY <1>6
  <1> QED BY <1>3, <1>7

LEMMA MaxIs ==
    ASSUME NEW S, S \subseteq Nat, S # {}, IsFiniteSet(S)
    PROVE  Max(S) \in S /\ \A y \in S : y <= Max(S)
  <1>1. PICK m \in Nat : \A x \in S : x <= m
    BY FiniteBounded
  <1>2. PICK D : D = {x + 1 : x \in S}
    OBVIOUS
  <1>3. \A x \in S : x + 1 \in 1 .. m + 1
    BY <1>1
  <1>4. D \subseteq 1 .. m + 1 /\ D # {} /\ m + 1 \in Nat
    <2>1. \A d \in D : d \in 1 .. m + 1
      <3> TAKE d \in D
      <3>1. PICK x \in S : d = x + 1
        BY <1>2
      <3>2. x + 1 \in 1 .. m + 1
        BY <1>3
      <3> QED BY <3>1, <3>2
    <2>2. PICK x : x \in S
      OBVIOUS
    <2>3. x + 1 \in D
      BY <1>2, <2>2
    <2> QED BY <2>1, <2>3
  <1>5. PICK d \in D : \A e \in D : e <= d
    BY <1>4, GreatestIndex
  <1>6. PICK x \in S : d = x + 1
    BY <1>2, <1>5
  <1>7. \A y \in S : x >= y
    <2> TAKE y \in S
    <2>1. y + 1 \in D
      BY <1>2
    <2>2. y + 1 <= x + 1
      BY <1>5, <1>6, <2>1
    <2> QED BY <2>2
  <1>8. PICK b : b = Max(S)
    OBVIOUS
  <1>9. b \in S /\ \A y \in S : b >= y
    BY <1>7, <1>8 DEF Max
  <1> QED BY <1>8, <1>9

----------------------------------------------------------------------------
(* What the parser makes of the lines of a program *)

\* A block is a run of the lines after the one that opens it.
LEMMA BlockIsRun ==
    ASSUME NEW S, NEW lines \in Seq(S), NEW i \in 1 .. Len(lines), NEW ends
    PROVE  /\ BlockLines(lines, i, ends) \in Seq(S)
           /\ Len(BlockLines(lines, i, ends)) \in Nat
           /\ i + Len(BlockLines(lines, i, ends)) <= Len(lines)
           /\ \A k \in 1 .. Len(BlockLines(lines, i, ends)) :
                  BlockLines(lines, i, ends)[k] = lines[i + k]
  <1> DEFINE n == Len(lines)
             Ends(j) == /\ \A k \in i + 1 .. j : lines[k].kind \notin ends
                        /\ j = n \/ lines[j + 1].kind \in ends
             P == {j \in i .. n : j = n \/ lines[j + 1].kind \in ends}
  <1>1. n \in Nat /\ i \in Nat /\ i <= n
    OBVIOUS
  <1>2. P \subseteq Nat /\ P # {}
    <2>1. n \in P
      BY <1>1
    <2> QED BY <1>1, <2>1
  <1>3. PICK l \in P : \A j \in P : l <= j
    BY <1>2, LeastNat
  <1>4. l \in i .. n /\ Ends(l)
    <2>1. l \in i .. n /\ l \in Nat
      BY <1>1
    <2>2. ASSUME NEW k \in i + 1 .. l PROVE lines[k].kind \notin ends
      <3> SUFFICES ASSUME lines[k].kind \in ends PROVE FALSE
        OBVIOUS
      <3>1. k - 1 \in i .. n /\ (k - 1) + 1 = k /\ ~(l <= k - 1)
        BY <1>1, <2>1
      <3>2. k - 1 \in P
        BY <3>1
      <3> QED BY <1>3, <3>1, <3>2
    <2> QED BY <1>3, <2>1, <2>2
  <1>5. PICK e : e = CHOOSE j \in i .. n : Ends(j)
    OBVIOUS
  <1>6. e \in i .. n
    <2> HIDE DEF Ends
    <2> QED BY <1>4, <1>5
  <1>7. BlockLines(lines, i, ends) = SubSeq(lines, i + 1, e)
    BY <1>5, Zenon DEF BlockLines
  <1>8. i + 1 \in 1 .. n + 1 /\ e \in (i + 1) - 1 .. n /\ e - (i + 1) + 1 = e - i /\ e - i \in Nat
    BY <1>1, <1>6
  <1>9. PICK b : b = SubSeq(lines, i + 1, e)
    OBVIOUS
  <1>10. /\ b \in Seq(S) /\ Len(b) = e - i
         /\ \A k \in 1 .. e - i : b[k] = lines[(i + 1) + k - 1]
    <2>1. i + 1 \in Int /\ e \in Int /\ \A k \in (i + 1) .. e : lines[k] \in S
      BY <1>1, <1>6
    <2>2. b \in Seq(S) /\ Len(b) = IF i + 1 <= e THEN e - (i + 1) + 1 ELSE 0
      BY <2>1, <1>9, SubSeqProperties
    <2>3. \A k \in 1 .. e - (i + 1) + 1 : b[k] = lines[(i + 1) + k - 1]
      BY <2>1, <1>9, SubSeqProperties
    <2> QED BY <1>8, <1>6, <1>1, <2>2, <2>3
  <1>11. \A k \in 1 .. e - i : (i + 1) + k - 1 = i + k
    BY <1>1, <1>6
  <1>12. i + Len(b) <= n
    BY <1>1, <1>6, <1>10
  <1> QED BY <1>7, <1>8, <1>9, <1>10, <1>11, <1>12

\* The lines of some kinds.
LEMMA OfKindType ==
    ASSUME NEW S, NEW s \in Seq(S), NEW kinds
    PROVE  /\ OfKind(s, kinds) \in Seq(S) /\ Len(OfKind(s, kinds)) \in Nat
           /\ \A k \in 1 .. Len(OfKind(s, kinds)) :
                  OfKind(s, kinds)[k] \in S /\ OfKind(s, kinds)[k].kind \in kinds
           /\ \A j \in 1 .. Len(s) : s[j].kind \in kinds =>
                  \E k \in 1 .. Len(OfKind(s, kinds)) : OfKind(s, kinds)[k] = s[j]
  <1>1. PICK T : T = {l \in Range(s) : l.kind \in kinds}
    OBVIOUS
  <1>2. PICK u : u = Select(s, T)
    OBVIOUS
  <1>3. OfKind(s, kinds) = u
    BY <1>1, <1>2, Zenon DEF OfKind
  <1>4. u \in Seq(S) /\ Len(u) \in Nat /\ \A k \in 1 .. Len(u) : u[k] \in T
    BY <1>2, SelectType
  <1>5. \A k \in 1 .. Len(u) : u[k] \in S
    BY <1>4
  <1>6. ASSUME NEW j \in 1 .. Len(s), s[j].kind \in kinds
        PROVE  \E k \in 1 .. Len(u) : u[k] = s[j]
    <2>1. s[j] \in Range(s)
      BY DEF Range
    <2>2. s[j] \in T
      BY <1>1, <1>6, <2>1
    <2> QED BY <1>2, <2>2, SelectHas
  <1> QED BY <1>1, <1>3, <1>4, <1>5, <1>6

\* Input and output lines name registers, code lines hold instructions.
LEMMA BlockParts ==
    ASSUME NEW S, \A l \in S : IsLine(l), NEW s \in Seq(S)
    PROVE  /\ Registers(s, "input") \in Seq(Reg)
           /\ Registers(s, "output") \in Seq(Reg)
           /\ Instructions(s) \in Seq(Instruction)
  <1>1. ASSUME NEW kind \in {"input", "output"} PROVE Registers(s, kind) \in Seq(Reg)
    <2>1. PICK ls : ls = OfKind(s, {kind})
      OBVIOUS
    <2>2. Len(ls) \in Nat /\ \A k \in 1 .. Len(ls) : ls[k] \in S /\ ls[k].kind = kind
      BY <2>1, OfKindType
    <2>3. \A k \in 1 .. Len(ls) : ls[k].reg \in Reg
      BY <2>2 DEF IsLine
    <2>4. Registers(s, kind) = [k \in 1 .. Len(ls) |-> ls[k].reg]
      BY <2>1, Zenon DEF Registers
    <2>5. [k \in 1 .. Len(ls) |-> ls[k].reg] \in Seq(Reg)
      BY <2>2, <2>3, SeqDef
    <2> QED BY <2>4, <2>5
  <1>2. Instructions(s) \in Seq(Instruction)
    <2>1. PICK kept : kept = OfKind(s, {"code", "cast", "comment"})
      OBVIOUS
    <2>2. Len(kept) \in Nat /\ \A k \in 1 .. Len(kept) : kept[k] \in S
      BY <2>1, OfKindType
    <2>3. [op |-> "unknown"] \in Instruction
      BY DEF Instruction
    <2>4. PICK is : is = [k \in 1 .. Len(kept) |->
                             IF kept[k].kind = "code" THEN kept[k].instr ELSE [op |-> "unknown"]]
      OBVIOUS
    <2>5. ASSUME NEW k \in 1 .. Len(kept) PROVE is[k] \in Instruction
      <3>1. kept[k].kind = "code" => kept[k].instr \in Instruction
        BY <2>2 DEF IsLine
      <3> QED BY <2>3, <2>4, <3>1
    <2>6. is \in Seq(Instruction)
      BY <2>2, <2>4, <2>5, SeqDef
    <2> QED BY <2>1, <2>4, <2>6, Zenon DEF Instructions
  <1> QED BY <1>1, <1>2

\* The lines that open a function.
LEMMA OpeningsAre ==
    ASSUME NEW S, NEW lines \in Seq(S), NEW kinds
    PROVE  /\ Len(Openings(lines, kinds)) \in Nat
           /\ \A n \in 1 .. Len(Openings(lines, kinds)) :
                  /\ Openings(lines, kinds)[n] \in 1 .. Len(lines)
                  /\ lines[Openings(lines, kinds)[n]].kind \in kinds
           /\ \A k \in 1 .. Len(lines) : lines[k].kind \in kinds =>
                  \E n \in 1 .. Len(Openings(lines, kinds)) : Openings(lines, kinds)[n] = k
  <1>1. PICK N : N = 1 .. Len(lines)
    OBVIOUS
  <1>2. PICK s : s = Numbers(lines)
    OBVIOUS
  <1>3. s \in Seq(N) /\ Len(s) = Len(lines) /\ \A k \in 1 .. Len(lines) : s[k] = k
    BY <1>1, <1>2 DEF Numbers
  <1>4. PICK T : T = {k \in 1 .. Len(lines) : lines[k].kind \in kinds}
    OBVIOUS
  <1>5. PICK at : at = Select(s, T)
    OBVIOUS
  <1>6. Openings(lines, kinds) = at
    BY <1>2, <1>4, <1>5, Zenon DEF Openings
  <1>7. Len(at) \in Nat /\ \A n \in 1 .. Len(at) : at[n] \in T
    BY <1>3, <1>5, SelectType
  <1>8. ASSUME NEW k \in 1 .. Len(lines), lines[k].kind \in kinds
        PROVE  \E n \in 1 .. Len(at) : at[n] = k
    <2>1. k \in 1 .. Len(s) /\ s[k] = k /\ s[k] \in T
      BY <1>3, <1>4, <1>8
    <2>2. \E n \in 1 .. Len(Select(s, T)) : Select(s, T)[n] = s[k]
      BY <1>3, <2>1, SelectHas
    <2> QED BY <1>5, <2>1, <2>2
  <1> QED BY <1>4, <1>6, <1>7, <1>8

FunctionAt(lines, i) ==
    LET block == BlockLines(lines, i, BlockEnds)
    IN  [name |-> lines[i].name, kind |-> lines[i].kind,
         inputs |-> Registers(block, "input"), code |-> Instructions(block),
         outputs |-> Registers(block, "output")]

LEMMA ParsedIs ==
    ASSUME NEW lines, NEW at, at = Openings(lines, FnKinds)
    PROVE  ParseAleoProgram(lines) = [n \in 1 .. Len(at) |-> FunctionAt(lines, at[n])]
  BY Zenon DEF ParseAleoProgram, FunctionAt

\* The n-th function of a program is the one that its n-th opening opens.
LEMMA ParsedFunction ==
    ASSUME NEW S, \A l \in S : IsLine(l), NEW lines \in Seq(S),
           NEW n \in 1 .. Len(Openings(lines, FnKinds)), NEW i, i = Openings(lines, FnKinds)[n],
           NEW block, block = BlockLines(lines, i, BlockEnds)
    PROVE  /\ ParseAleoProgram(lines)[n] =
                [name |-> lines[i].name, kind |-> lines[i].kind,
                 inputs |-> Registers(block, "input"), code |-> Instructions(block),
                 outputs |-> Registers(block, "output")]
           /\ ParseAleoProgram(lines)[n] \in AleoFunction
  <1>1. i \in 1 .. Len(lines) /\ lines[i].kind \in FnKinds /\ lines[i] \in S
    BY OpeningsAre
  <1>2. block \in Seq(S)
    BY <1>1, BlockIsRun
  <1>3. lines[i].name \in FnName
    BY <1>1 DEF IsLine
  <1>4. /\ Registers(block, "input") \in Seq(Reg) /\ Registers(block, "output") \in Seq(Reg)
        /\ Instructions(block) \in Seq(Instruction)
    BY <1>2, BlockParts
  <1>5. PICK f : f = [name |-> lines[i].name, kind |-> lines[i].kind,
                 inputs |-> Registers(block, "input"), code |-> Instructions(block),
                 outputs |-> Registers(block, "output")]
    OBVIOUS
  <1>6. ParseAleoProgram(lines)[n] = f
    BY <1>5, Zenon DEF ParseAleoProgram
  <1>7. f \in AleoFunction
    BY <1>1, <1>3, <1>4, <1>5 DEF AleoFunction, FnKinds
  <1> QED BY <1>5, <1>6, <1>7

LEMMA ParsedLength ==
    ASSUME NEW S, NEW lines \in Seq(S)
    PROVE  Len(ParseAleoProgram(lines)) = Len(Openings(lines, FnKinds))
  <1>1. PICK at : at = Openings(lines, FnKinds)
    OBVIOUS
  <1>2. Len(at) \in Nat
    BY <1>1, OpeningsAre
  <1>3. ParseAleoProgram(lines) = [n \in 1 .. Len(at) |-> FunctionAt(lines, at[n])]
    BY <1>1, ParsedIs
  <1> QED BY <1>1, <1>2, <1>3

\* Every text parses to functions that the interpreter takes.
LEMMA TextParses ==
    ASSUME NEW lines, IsAleoText(lines)
    PROVE  ParseAleoProgram(lines) \in Seq(AleoFunction)
  <1>1. PICK S : S = Range(lines)
    OBVIOUS
  <1>2. lines \in Seq(S) /\ \A l \in S : IsLine(l)
    <2>1. lines \in Seq(S) /\ \A k \in 1 .. Len(lines) : IsLine(lines[k])
      BY <1>1 DEF IsAleoText
    <2>2. S = {lines[k] : k \in 1 .. Len(lines)}
      BY <1>1, <2>1 DEF Range
    <2> QED BY <2>1, <2>2
  <1>4. PICK fns : fns = ParseAleoProgram(lines)
    OBVIOUS
  <1>5. PICK at : at = Openings(lines, FnKinds)
    OBVIOUS
  <1>6. Len(at) \in Nat
    BY <1>2, <1>5, OpeningsAre
  <1>7. \A n \in 1 .. Len(at) : fns[n] \in AleoFunction
    BY <1>2, <1>4, <1>5, ParsedFunction
  <1>8. fns = [n \in 1 .. Len(at) |-> FunctionAt(lines, at[n])]
    BY <1>4, <1>5, ParsedIs
  <1>9. fns \in Seq(AleoFunction)
    BY <1>6, <1>7, <1>8, SeqDef
  <1> QED BY <1>4, <1>9

=============================================================================
