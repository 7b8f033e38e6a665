------------------------- MODULE AleoValueProofs -------------------------
(***************************************************************************)
(* The values that TracePipeline records of Aleo code, for every source    *)
(* and every width.                                                        *)
(*                                                                         *)
(* First the bare dialect: what it shows on the lines of a function is     *)
(* what the instructions make of the values it showed last.  While a       *)
(* function is walked, its registers hold what was last shown of them      *)
(* (WalkRight).  Its entries then lie in the log with the arguments first, *)
(* whose values are those read at its end (EntriesLaid).  What is shown of *)
(* one function does not change when the logs of others surround it        *)
(* (ShowsMoves).                                                           *)
(*                                                                         *)
(* Then the fallback: what its registers are read back as are the values   *)
(* of the source's bindings.  A simple binding compiles to one instruction *)
(* that computes it (Computes), so that in every activation and result     *)
(* register k - 1 holds the value of binding k (Simulates); a name is read *)
(* back from its last binding's register (MapAgrees).                      *)
(***************************************************************************)
EXTENDS TracePipelineProofs

----------------------------------------------------------------------------
(* What a bare program's walk shows *)

InputRegs(w) == {w.inputs[p].reg : p \in 1 .. Len(w.inputs)}

\* Line `last` was the last of the first n values shown to set register r.
LastSetter(w, n, r, last) ==
    w.shown[last].reg = r /\ \A j \in last + 1 .. n : w.shown[j].reg # r

\* x is what operand o holds after the first n values shown.
Yields(w, n, o, x) ==
    \/ "literal" \in DOMAIN o /\ x = o.literal
    \/ /\ "literal" \notin DOMAIN o
       /\ \/ \E m \in 1 .. n : LastSetter(w, n, o.reg, m) /\ x = w.shown[m].val.value
          \/ /\ \A j \in 1 .. n : w.shown[j].reg # o.reg
             /\ x = IF o.reg \in InputRegs(w) THEN w.regs[o.reg].value ELSE 0

\* Register r gets value v, as line l makes it after n values shown.
MadeBy(w, n, l, r, v) ==
    /\ l.kind \in {"code", "cast"} /\ RegistersSet(l) = {r}
    /\ l.kind = "code" => \E a, b : /\ Yields(w, n, l.instr.src1, a) /\ Yields(w, n, l.instr.src2, b)
                                    /\ v.value = DialectBinary(l.instr.op, a, b, v.type)
    /\ l.kind = "cast" => \E a : Yields(w, n, l.src, a) /\ v.value = TruncateToType(a, l.type)

\* The lines of the function at i that have been walked.
LinesWalked(lines, i, w) == {k \in DialectBlock(lines, i) : k < w.next}

InputsRight(lines, i, w) ==
    /\ \A p \in 1 .. Len(w.inputs) : \E k \in LinesWalked(lines, i, w) :
           lines[k].kind = "input" /\ lines[k].reg = w.inputs[p].reg
    /\ \A p, q \in 1 .. Len(w.inputs) : w.inputs[p].reg = w.inputs[q].reg => p = q

ValuesRight(lines, i, w) ==
    \A m \in 1 .. Len(w.shown) :
        /\ w.shown[m].line \in LinesWalked(lines, i, w)
        /\ MadeBy(w, m - 1, lines[w.shown[m].line], w.shown[m].reg, w.shown[m].val)

RegistersRight(w) ==
    /\ \A r : r \in DOMAIN w.regs <=> r \in InputRegs(w) \/ \E m \in 1 .. Len(w.shown) : w.shown[m].reg = r
    /\ \A r : \A m \in 1 .. Len(w.shown) : LastSetter(w, Len(w.shown), r, m) => w.regs[r] = w.shown[m].val

OutputRight(lines, w) ==
    w.output # <<>> => lines[w.output.line].kind = "output" /\ lines[w.output.line].reg = w.output.reg

WalkRight(lines, i, w) ==
    InputsRight(lines, i, w) /\ ValuesRight(lines, i, w) /\ RegistersRight(w) /\ OutputRight(lines, w)

\* The registers hold what was last shown.
LEMMA HoldsNow ==
    ASSUME NEW w, Len(w.shown) \in Nat, RegistersRight(w), NEW o
    PROVE  Yields(w, Len(w.shown), o, OperandValue(w.regs, o))
  <1>1. PICK n \in Nat : n = Len(w.shown)
    OBVIOUS
  <1>2. CASE "literal" \in DOMAIN o
    BY <1>2 DEF Yields, OperandValue
  <1>3. CASE "literal" \notin DOMAIN o
    <2>1. PICK r : r = o.reg
      OBVIOUS
    <2>2. PICK x : x = OperandValue(w.regs, o)
      OBVIOUS
    <2>3. x = IF r \in DOMAIN w.regs THEN w.regs[r].value ELSE 0
      BY <1>3, <2>1, <2>2 DEF OperandValue
    <2>4. CASE \E m \in 1 .. n : w.shown[m].reg = r
      <3>1. PICK S : S = {m \in 1 .. n : w.shown[m].reg = r}
        OBVIOUS
      <3>2. S \subseteq 1 .. n /\ S # {}
        BY <2>4, <3>1
      <3>3. Max(S) \in S /\ \A y \in S : y <= Max(S)
        BY <3>2, GreatestLine
      <3>4. PICK m \in 1 .. n : m = Max(S)
        BY <3>2, <3>3
      <3>5. w.shown[m].reg = r /\ \A j \in m + 1 .. n : w.shown[j].reg # r
        <4>1. w.shown[m].reg = r
          BY <3>1, <3>3, <3>4
        <4>2. ASSUME NEW j \in m + 1 .. n, w.shown[j].reg = r PROVE FALSE
          <5>1. j \in 1 .. n /\ j > m
            OBVIOUS
          <5>2. j \in S
            BY <3>1, <4>2, <5>1
          <5> QED BY <3>3, <3>4, <5>1, <5>2
        <4> QED BY <4>1, <4>2
      <3>6. LastSetter(w, n, r, m)
        BY <3>5 DEF LastSetter
      <3>7. r \in DOMAIN w.regs /\ w.regs[r] = w.shown[m].val
        BY <1>1, <3>5, <3>6 DEF RegistersRight
      <3> QED BY <1>1, <1>3, <2>1, <2>2, <2>3, <3>6, <3>7 DEF Yields
    <2>5. CASE \A m \in 1 .. n : w.shown[m].reg # r
      <3>1. r \in DOMAIN w.regs <=> r \in InputRegs(w)
        BY <1>1, <2>5 DEF RegistersRight
      <3> QED BY <1>1, <1>3, <2>1, <2>2, <2>3, <2>5, <3>1 DEF Yields
    <2> QED BY <2>4, <2>5
  <1> QED BY <1>2, <1>3

\* One more value shown, of a register that is no input's.
ShowsMore(w, z, s) ==
    /\ z.inputs = w.inputs /\ z.output = w.output /\ z.next = w.next + 1
    /\ z.shown = Append(w.shown, s) /\ z.regs = Assigned(w.regs, s.reg, s.val)

LEMMA HoldsStill ==
    ASSUME NEW w, \E S : w.shown \in Seq(S), NEW s, NEW z, ShowsMore(w, z, s), s.reg \notin InputRegs(w),
           RegistersRight(w), NEW n \in 0 .. Len(w.shown), NEW o, NEW x, Yields(w, n, o, x)
    PROVE  Yields(z, n, o, x)
  <1>1. PICK S : w.shown \in Seq(S)
    OBVIOUS
  <1>2. PICK a : a = w.shown
    OBVIOUS
  <1>3. PICK b : b = z.shown
    OBVIOUS
  <1>4. b = Append(a, s)
    BY <1>2, <1>3 DEF ShowsMore
  <1>5. Len(a) \in Nat /\ \A j \in 1 .. Len(a) : b[j] = a[j]
    <2>1. PICK T : T = S \cup {s}
      OBVIOUS
    <2>2. a \in Seq(T) /\ s \in T
      BY <1>1, <1>2, <2>1
    <2> QED BY <1>4, <2>2
  <1>6. n \in Nat /\ n <= Len(a)
    BY <1>2, <1>5
  <1>7. \A j \in 1 .. n : z.shown[j] = w.shown[j]
    <2>1. \A j \in 1 .. n : j \in 1 .. Len(a)
      BY <1>5, <1>6
    <2> QED BY <1>2, <1>3, <1>5, <2>1
  <1>8. InputRegs(z) = InputRegs(w)
    BY DEF InputRegs, ShowsMore
  <1>9. \A r \in InputRegs(w) : z.regs[r] = w.regs[r]
    BY DEF RegistersRight, ShowsMore, Assigned
  <1>10. CASE "literal" \in DOMAIN o
    BY <1>10 DEF Yields
  <1>11. CASE "literal" \notin DOMAIN o
    <2>1. PICK r : r = o.reg
      OBVIOUS
    <2>2. CASE \E m \in 1 .. n : LastSetter(w, n, r, m) /\ x = w.shown[m].val.value
      <3>1. PICK m \in 1 .. n : LastSetter(w, n, r, m) /\ x = w.shown[m].val.value
        BY <2>2
      <3>2. \A j \in m + 1 .. n : j \in 1 .. n
        BY <1>6
      <3>3. LastSetter(z, n, r, m) /\ x = z.shown[m].val.value
        BY <1>7, <3>1, <3>2 DEF LastSetter
      <3> QED BY <1>11, <2>1, <3>3 DEF Yields
    <2>3. CASE /\ \A j \in 1 .. n : w.shown[j].reg # r
               /\ x = IF r \in InputRegs(w) THEN w.regs[r].value ELSE 0
      BY <1>7, <1>8, <1>9, <1>11, <2>1, <2>3 DEF Yields
    <2> QED BY <1>11, <2>1, <2>2, <2>3 DEF Yields
  <1> QED BY <1>10, <1>11
LEMMA MadeStill ==
    ASSUME NEW w, \E S : w.shown \in Seq(S), NEW s, NEW z, ShowsMore(w, z, s), s.reg \notin InputRegs(w),
           RegistersRight(w), NEW n \in 0 .. Len(w.shown), NEW l, NEW r, NEW v, MadeBy(w, n, l, r, v)
    PROVE  MadeBy(z, n, l, r, v)
  <1>1. \A o, x : Yields(w, n, o, x) => Yields(z, n, o, x)
    BY HoldsStill
  <1>2. ASSUME l.kind = "code"
        PROVE \E a, b : /\ Yields(z, n, l.instr.src1, a) /\ Yields(z, n, l.instr.src2, b)
                        /\ v.value = DialectBinary(l.instr.op, a, b, v.type)
    <2>1. PICK a, b : /\ Yields(w, n, l.instr.src1, a) /\ Yields(w, n, l.instr.src2, b)
                      /\ v.value = DialectBinary(l.instr.op, a, b, v.type)
      BY <1>2 DEF MadeBy
    <2> QED BY <1>1, <2>1
  <1>3. ASSUME l.kind = "cast"
        PROVE \E a : Yields(z, n, l.src, a) /\ v.value = TruncateToType(a, l.type)
    <2>1. PICK a : Yields(w, n, l.src, a) /\ v.value = TruncateToType(a, l.type)
      BY <1>3 DEF MadeBy
    <2> QED BY <1>1, <2>1
  <1> QED BY <1>2, <1>3 DEF MadeBy

\* A function's walk at line k of it.
WalkAt(lines, i, w, k) ==
    /\ Regular(lines, i) /\ WalkRight(lines, i, w)
    /\ \E S : w.inputs \in Seq(S)
    /\ \E S : w.shown \in Seq(S)
    /\ k \in Nat /\ i \in Nat /\ k \in DialectBlock(lines, i) /\ w.next = k

LEMMA LinesStayWalked ==
    ASSUME NEW lines, NEW i, NEW w, NEW k, WalkAt(lines, i, w, k), NEW z, z.next = w.next + 1
    PROVE  /\ LinesWalked(lines, i, w) \subseteq LinesWalked(lines, i, z)
           /\ k \in LinesWalked(lines, i, z) /\ k \notin LinesWalked(lines, i, w)
           /\ \A j \in LinesWalked(lines, i, w) : j \in DialectBlock(lines, i) /\ j < k
  <1>1. PICK B : B = DialectBlock(lines, i)
    OBVIOUS
  <1>2. /\ \A j \in B : j \in Int
        /\ k \in Nat /\ k \in B /\ w.next = k /\ z.next = k + 1
    BY <1>1 DEF WalkAt, DialectBlock
  <1>3. PICK W : W = LinesWalked(lines, i, w)
    OBVIOUS
  <1>4. PICK Z : Z = LinesWalked(lines, i, z)
    OBVIOUS
  <1>5. W = {j \in B : j < k} /\ Z = {j \in B : j < k + 1}
    BY <1>1, <1>2, <1>3, <1>4, Zenon DEF LinesWalked
  <1>6. (\A j : j \in W <=> j \in B /\ j < k) /\ (\A j : j \in Z <=> j \in B /\ j < k + 1)
    BY <1>5, Zenon
  <1>7. \A j \in B : j < k => j < k + 1
    BY <1>2
  <1>8. k < k + 1 /\ ~(k < k)
    BY <1>2
  <1>9. W \subseteq Z /\ k \in Z /\ k \notin W /\ \A j \in W : j \in B /\ j < k
    BY <1>2, <1>6, <1>7, <1>8, Zenon
  <1> QED BY <1>1, <1>3, <1>4, <1>9

LEMMA ShowsRight ==
    ASSUME NEW lines, NEW i, NEW w, NEW k, WalkAt(lines, i, w, k), NEW s, NEW z, ShowsMore(w, z, s),
           s.line = k, MadeBy(w, Len(w.shown), lines[k], s.reg, s.val)
    PROVE  WalkRight(lines, i, z)
  <1>1. PICK a : a = w.shown
    OBVIOUS
  <1>2. PICK b : b = z.shown
    OBVIOUS
  <1>3. PICK n \in Nat : n = Len(a)
    BY <1>1 DEF WalkAt
  <1>4. Len(b) = n + 1 /\ b[n + 1] = s /\ \A j \in 1 .. n : b[j] = a[j]
    <2>1. PICK S : a \in Seq(S)
      BY <1>1 DEF WalkAt
    <2>2. PICK T : T = S \cup {s}
      OBVIOUS
    <2>3. a \in Seq(T) /\ s \in T
      BY <2>1, <2>2
    <2>4. b = Append(a, s)
      BY <1>1, <1>2 DEF ShowsMore
    <2> QED BY <1>3, <2>3, <2>4
  <1>5. z.next = w.next + 1 /\ z.inputs = w.inputs /\ z.output = w.output
    BY DEF ShowsMore
  <1>6. /\ LinesWalked(lines, i, w) \subseteq LinesWalked(lines, i, z)
        /\ k \in LinesWalked(lines, i, z) /\ k \notin LinesWalked(lines, i, w)
        /\ \A j \in LinesWalked(lines, i, w) : j \in DialectBlock(lines, i) /\ j < k
    BY <1>5, LinesStayWalked
  <1>7. InputsRight(lines, i, w) /\ ValuesRight(lines, i, w) /\ RegistersRight(w) /\ OutputRight(lines, w)
    BY DEF WalkAt, WalkRight
  <1>8. s.reg \notin InputRegs(w)
    <2> SUFFICES ASSUME NEW p \in 1 .. Len(w.inputs), w.inputs[p].reg = s.reg PROVE FALSE
      BY DEF InputRegs
    <2>1. PICK j \in LinesWalked(lines, i, w) : lines[j].kind = "input" /\ lines[j].reg = s.reg
      BY <1>7 DEF InputsRight
    <2>2. j \in DialectBlock(lines, i) /\ k \in DialectBlock(lines, i) /\ j # k
      BY <1>6, <2>1 DEF WalkAt
    <2>3. lines[j].reg \notin RegistersSet(lines[k])
      BY <2>1, <2>2, Zenon DEF Regular, WalkAt
    <2>4. RegistersSet(lines[k]) = {s.reg}
      BY DEF MadeBy
    <2> QED BY <2>1, <2>3, <2>4
  <1>9. InputsRight(lines, i, z)
    BY <1>5, <1>6, <1>7 DEF InputsRight
  <1>10. ValuesRight(lines, i, z)
    <2> SUFFICES ASSUME NEW m \in 1 .. n + 1
                 PROVE  /\ b[m].line \in LinesWalked(lines, i, z)
                        /\ MadeBy(z, m - 1, lines[b[m].line], b[m].reg, b[m].val)
      BY <1>2, <1>4 DEF ValuesRight
    <2>1. m - 1 \in 0 .. n
      OBVIOUS
    <2>2. PICK c \in 0 .. n : c = m - 1
      BY <2>1
    <2>3. /\ b[m].line \in LinesWalked(lines, i, z)
          /\ MadeBy(w, c, lines[b[m].line], b[m].reg, b[m].val)
      <3>1. CASE m \in 1 .. n
        <4>1. /\ a[m].line \in LinesWalked(lines, i, w)
              /\ MadeBy(w, c, lines[a[m].line], a[m].reg, a[m].val)
          BY <1>1, <1>3, <1>7, <2>2, <3>1 DEF ValuesRight
        <4> QED BY <1>4, <1>6, <3>1, <4>1
      <3>2. CASE m = n + 1
        <4>1. c = n /\ b[m] = s
          BY <1>4, <2>2, <3>2
        <4> QED BY <1>1, <1>3, <1>6, <4>1
      <3> QED BY <3>1, <3>2
    <2>4. c \in 0 .. Len(w.shown)
      BY <1>1, <1>3
    <2>5. \E S : w.shown \in Seq(S)
      BY DEF WalkAt
    <2>6. MadeBy(z, c, lines[b[m].line], b[m].reg, b[m].val)
      BY <1>7, <1>8, <2>3, <2>4, <2>5, MadeStill
    <2> QED BY <2>2, <2>3, <2>6
  <1>11. RegistersRight(z)
    <2>1. z.regs = Assigned(w.regs, s.reg, s.val)
      BY DEF ShowsMore
    <2>2. PICK f : f = w.regs
      OBVIOUS
    <2>3. PICK g : g = z.regs
      OBVIOUS
    <2>4. DOMAIN g = DOMAIN f \cup {s.reg} /\ g[s.reg] = s.val /\ \A r \in DOMAIN f : r # s.reg => g[r] = f[r]
      BY <2>1, <2>2, <2>3 DEF Assigned
    <2>5. InputRegs(z) = InputRegs(w)
      BY <1>5 DEF InputRegs
    <2>6. \A r : r \in DOMAIN f <=> r \in InputRegs(w) \/ \E m \in 1 .. n : a[m].reg = r
      BY <1>1, <1>3, <1>7, <2>2 DEF RegistersRight
    <2>7. ASSUME NEW r PROVE r \in DOMAIN g <=> r \in InputRegs(z) \/ \E m \in 1 .. n + 1 : b[m].reg = r
      <3>1. (\E m \in 1 .. n + 1 : b[m].reg = r) <=> (\E m \in 1 .. n : a[m].reg = r) \/ s.reg = r
        <4>1. \A m \in 1 .. n : m \in 1 .. n + 1 /\ b[m] = a[m]
          BY <1>4
        <4>2. n + 1 \in 1 .. n + 1 /\ b[n + 1] = s
          BY <1>4
        <4>3. \A m \in 1 .. n + 1 : m \in 1 .. n \/ m = n + 1
          OBVIOUS
        <4> QED BY <4>1, <4>2, <4>3
      <3> QED BY <2>4, <2>5, <2>6, <3>1
    <2>8. ASSUME NEW r, NEW m \in 1 .. n + 1, LastSetter(z, n + 1, r, m) PROVE g[r] = b[m].val
      <3>1. b[m].reg = r /\ \A j \in m + 1 .. n + 1 : b[j].reg # r
        BY <1>2, <2>8 DEF LastSetter
      <3>2. CASE m = n + 1
        BY <1>4, <2>4, <3>1, <3>2
      <3>3. CASE m \in 1 .. n
        <4>1. n + 1 \in m + 1 .. n + 1
          BY <3>3
        <4>2. r # s.reg
          BY <1>4, <3>1, <4>1
        <4>3. a[m].reg = r /\ \A j \in m + 1 .. n : a[j].reg # r
          <5>1. \A j \in m + 1 .. n : j \in m + 1 .. n + 1 /\ j \in 1 .. n
            BY <3>3
          <5> QED BY <1>4, <3>1, <3>3, <5>1
        <4>4. LastSetter(w, n, r, m)
          BY <1>1, <4>3 DEF LastSetter
        <4>5. f[r] = a[m].val
          BY <1>1, <1>3, <1>7, <2>2, <3>3, <4>4 DEF RegistersRight
        <4>6. r \in DOMAIN f
          BY <2>6, <3>3, <4>3
        <4> QED BY <1>4, <2>4, <3>3, <4>2, <4>5, <4>6
      <3> QED BY <3>2, <3>3
    <2> QED BY <1>2, <1>4, <2>3, <2>7, <2>8 DEF RegistersRight
  <1>12. OutputRight(lines, z)
    BY <1>5, <1>7 DEF OutputRight
  <1> QED BY <1>9, <1>10, <1>11, <1>12 DEF WalkRight
\* One more input, whose register is set.
DeclaresMore(w, z, e, v) ==
    /\ z.shown = w.shown /\ z.output = w.output /\ z.next = w.next + 1
    /\ z.inputs = Append(w.inputs, e) /\ z.regs = Assigned(w.regs, e.reg, v)

LEMMA InputStaysRight ==
    ASSUME NEW lines, NEW i, NEW w, NEW k, WalkAt(lines, i, w, k), lines[k].kind = "input",
           NEW v, NEW e, e.reg = lines[k].reg, NEW z, DeclaresMore(w, z, e, v)
    PROVE  WalkRight(lines, i, z)
  <1>0. /\ z.shown = w.shown /\ z.output = w.output /\ z.next = w.next + 1
        /\ z.inputs = Append(w.inputs, e) /\ z.regs = Assigned(w.regs, e.reg, v)
    BY DEF DeclaresMore
  <1>1. PICK a : a = w.inputs
    OBVIOUS
  <1>2. PICK b : b = z.inputs
    OBVIOUS
  <1>3. PICK n \in Nat : n = Len(a)
    BY <1>1 DEF WalkAt
  <1>4. Len(b) = n + 1 /\ b[n + 1] = e /\ \A j \in 1 .. n : b[j] = a[j]
    <2>1. PICK S : a \in Seq(S)
      BY <1>1 DEF WalkAt
    <2>2. PICK T : T = S \cup {e}
      OBVIOUS
    <2>3. a \in Seq(T) /\ e \in T
      BY <2>1, <2>2
    <2>4. b = Append(a, e)
      BY <1>0, <1>1, <1>2
    <2> QED BY <1>3, <2>3, <2>4
  <1>5. /\ LinesWalked(lines, i, w) \subseteq LinesWalked(lines, i, z)
        /\ k \in LinesWalked(lines, i, z) /\ k \notin LinesWalked(lines, i, w)
        /\ \A j \in LinesWalked(lines, i, w) : j \in DialectBlock(lines, i) /\ j < k
    BY <1>0, LinesStayWalked
  <1>6. InputsRight(lines, i, w) /\ ValuesRight(lines, i, w) /\ RegistersRight(w) /\ OutputRight(lines, w)
    BY DEF WalkAt, WalkRight
  <1>7. k \in DialectBlock(lines, i) /\ k \in Nat
    BY DEF WalkAt
  \* Nothing is shown before the last input.
  <1>8. Len(w.shown) = 0
    <2> SUFFICES ASSUME Len(w.shown) # 0 PROVE FALSE
      OBVIOUS
    <2>1. 1 \in 1 .. Len(w.shown)
      BY DEF WalkAt
    <2>2. PICK j : j = w.shown[1].line
      OBVIOUS
    <2>3. j \in LinesWalked(lines, i, w) /\ lines[j].kind \in {"code", "cast"}
      BY <1>6, <2>1, <2>2 DEF ValuesRight, MadeBy
    <2>4. j \in DialectBlock(lines, i) /\ j < k
      BY <1>5, <2>3
    <2>5. j # k /\ j \in Int
      BY <2>4 DEF DialectBlock
    <2>6. k < j
      BY <1>7, <2>3, <2>4, <2>5, Zenon DEF Regular, WalkAt
    <2> QED BY <1>7, <2>4, <2>5, <2>6
  <1>9. ASSUME NEW p \in 1 .. n PROVE a[p].reg # e.reg
    <2>1. PICK j \in LinesWalked(lines, i, w) : lines[j].kind = "input" /\ lines[j].reg = a[p].reg
      BY <1>1, <1>3, <1>6 DEF InputsRight
    <2>2. j \in DialectBlock(lines, i) /\ j # k
      BY <1>5, <2>1
    <2>3. lines[j].reg \notin RegistersSet(lines[k])
      BY <1>7, <2>1, <2>2, Zenon DEF Regular, WalkAt
    <2>4. RegistersSet(lines[k]) = {lines[k].reg}
      BY DEF RegistersSet
    <2> QED BY <2>1, <2>3, <2>4
  <1>10. InputsRight(lines, i, z)
    <2>1. ASSUME NEW p \in 1 .. n + 1
          PROVE \E j \in LinesWalked(lines, i, z) : lines[j].kind = "input" /\ lines[j].reg = b[p].reg
      <3>1. CASE p \in 1 .. n
        BY <1>1, <1>3, <1>4, <1>5, <1>6, <3>1 DEF InputsRight
      <3>2. CASE p = n + 1
        BY <1>4, <1>5, <3>2
      <3> QED BY <3>1, <3>2
    <2>2. ASSUME NEW p \in 1 .. n + 1, NEW q \in 1 .. n + 1, b[p].reg = b[q].reg PROVE p = q
      <3>1. CASE p \in 1 .. n /\ q \in 1 .. n
        BY <1>1, <1>3, <1>4, <1>6, <2>2, <3>1 DEF InputsRight
      <3>2. CASE p \in 1 .. n /\ q = n + 1
        BY <1>4, <1>9, <2>2, <3>2
      <3>3. CASE p = n + 1 /\ q \in 1 .. n
        BY <1>4, <1>9, <2>2, <3>3
      <3>4. CASE p = n + 1 /\ q = n + 1
        BY <3>4
      <3> QED BY <3>1, <3>2, <3>3, <3>4
    <2> QED BY <1>2, <1>4, <2>1, <2>2 DEF InputsRight
  <1>11. ValuesRight(lines, i, z)
    BY <1>0, <1>8 DEF ValuesRight
  <1>12. RegistersRight(z)
    <2>1. PICK f : f = w.regs
      OBVIOUS
    <2>2. PICK g : g = z.regs
      OBVIOUS
    <2>3. DOMAIN g = DOMAIN f \cup {e.reg}
      BY <1>0, <2>1, <2>2 DEF Assigned
    <2>4. \A r : r \in DOMAIN f <=> r \in InputRegs(w)
      BY <1>6, <1>8, <2>1 DEF RegistersRight
    <2>5. InputRegs(z) = InputRegs(w) \cup {e.reg}
      <3>1. InputRegs(z) = {b[p].reg : p \in 1 .. n + 1}
        BY <1>2, <1>4 DEF InputRegs
      <3>2. InputRegs(w) = {a[p].reg : p \in 1 .. n}
        BY <1>1, <1>3 DEF InputRegs
      <3>3. \A p \in 1 .. n + 1 : p \in 1 .. n \/ p = n + 1
        OBVIOUS
      <3>4. n + 1 \in 1 .. n + 1 /\ \A p \in 1 .. n : p \in 1 .. n + 1
        OBVIOUS
      <3> QED BY <1>4, <3>1, <3>2, <3>3, <3>4
    <2>6. \A r : r \in DOMAIN g <=> r \in InputRegs(z)
      BY <2>3, <2>4, <2>5
    <2> QED BY <1>0, <1>8, <2>2, <2>6 DEF RegistersRight
  <1>13. OutputRight(lines, z)
    BY <1>0, <1>6 DEF OutputRight
  <1> QED BY <1>10, <1>11, <1>12, <1>13 DEF WalkRight

\* A line that shows nothing and declares no input.
LEMMA OthersStayRight ==
    ASSUME NEW lines, NEW i, NEW w, NEW k, WalkAt(lines, i, w, k), NEW z,
           z.inputs = w.inputs, z.regs = w.regs, z.shown = w.shown, z.next = w.next + 1,
           OutputRight(lines, z)
    PROVE  WalkRight(lines, i, z)
  <1>1. LinesWalked(lines, i, w) \subseteq LinesWalked(lines, i, z)
    BY LinesStayWalked
  <1>2. InputsRight(lines, i, w) /\ ValuesRight(lines, i, w) /\ RegistersRight(w)
    BY DEF WalkAt, WalkRight
  <1>3. InputsRight(lines, i, z)
    BY <1>1, <1>2 DEF InputsRight
  <1>4. InputRegs(z) = InputRegs(w)
    BY DEF InputRegs
  <1>5. \A n, o, x : Yields(w, n, o, x) <=> Yields(z, n, o, x)
    BY <1>4 DEF Yields, LastSetter
  <1>6. \A n, l, r, v : MadeBy(w, n, l, r, v) <=> MadeBy(z, n, l, r, v)
    BY <1>5 DEF MadeBy
  <1>7. ValuesRight(lines, i, z)
    BY <1>1, <1>2, <1>6 DEF ValuesRight
  <1>8. RegistersRight(z)
    BY <1>2, <1>4 DEF RegistersRight, LastSetter
  <1> QED BY <1>3, <1>7, <1>8 DEF WalkRight

\* The walk of a regular function stays right with every line.
LEMMA WalkedRight ==
    ASSUME NEW lines, NEW i, NEW w, NEW k, WalkAt(lines, i, w, k), DOMAIN w = WalkerFields,
           NEW z, z = [Walked(w, lines, k) EXCEPT !.next = @ + 1]
    PROVE  WalkRight(lines, i, z)
  <1>1. PICK l : l = lines[k]
    OBVIOUS
  <1>2. PICK y : y = Walked(w, lines, k)
    OBVIOUS
  <1>3. z = [y EXCEPT !.next = @ + 1]
    BY <1>2
  <1>4. OutputRight(lines, w)
    BY DEF WalkAt, WalkRight
  <1>5. CASE l.kind = "input"
    <2>1. y = InputLine(w, l)
      BY <1>1, <1>2, <1>5, Zenon DEF Walked
    <2>2. PICK v : v = [value |-> InputValue(w), type |-> l.type]
      OBVIOUS
    <2>3. PICK e : e = [reg |-> l.reg, type |-> l.type]
      OBVIOUS
    <2>4. y = [w EXCEPT !.regs = Assigned(@, l.reg, v), !.inputs = Append(@, e)]
      BY <2>1, <2>2, <2>3, Zenon DEF InputLine
    <2>5. e.reg = l.reg
      BY <2>3
    <2>6. DeclaresMore(w, z, e, v)
      BY <1>3, <2>4, <2>5 DEF DeclaresMore, WalkerFields
    <2>7. lines[k].kind = "input" /\ e.reg = lines[k].reg
      BY <1>1, <1>5, <2>5
    <2> QED BY <2>6, <2>7, InputStaysRight
  <1>6. CASE l.kind = "output"
    <2>1. y = OutputLine(w, k, l)
      BY <1>1, <1>2, <1>6, Zenon DEF Walked
    <2>2. PICK o : o = [line |-> k, reg |-> l.reg]
      OBVIOUS
    <2>3. y = [w EXCEPT !.output = o]
      BY <2>1, <2>2, Zenon DEF OutputLine
    <2>4. /\ z.inputs = w.inputs /\ z.regs = w.regs /\ z.shown = w.shown /\ z.next = w.next + 1
          /\ z.output = o
      BY <1>3, <2>3 DEF WalkerFields
    <2>5. OutputRight(lines, z)
      BY <1>1, <1>6, <2>2, <2>4 DEF OutputRight
    <2> QED BY <2>4, <2>5, OthersStayRight
  <1>7. CASE l.kind \in {"cast", "code"}
    <2>1. RegistersRight(w) /\ (l.kind = "code" => "src1" \in DOMAIN l.instr)
      BY <1>1, Zenon DEF WalkAt, WalkRight, Regular
    <2>2. PICK n \in Nat : n = Len(w.shown)
      BY DEF WalkAt
    <2>3. \A o : Yields(w, n, o, OperandValue(w.regs, o))
      BY <2>1, <2>2, HoldsNow
    <2>4. \E r, v, b : /\ y = [Shows(w, k, r, v) EXCEPT !.panics = @ \/ b] \/ y = Shows(w, k, r, v)
                       /\ MadeBy(w, n, l, r, v)
      <3>1. CASE l.kind = "cast"
        <4>1. y = CastLine(w, k, l)
          BY <1>1, <1>2, <3>1, Zenon DEF Walked
        <4>2. PICK a : a = OperandValue(w.regs, l.src)
          OBVIOUS
        <4>3. PICK t : t = TruncateToType(a, l.type)
          OBVIOUS
        <4>4. PICK v : v = [value |-> t, type |-> l.type]
          OBVIOUS
        <4>5. y = Shows(w, k, l.dest, v)
          BY <4>1, <4>2, <4>3, <4>4, Zenon DEF CastLine
        <4>6. v.value = TruncateToType(a, l.type) /\ Yields(w, n, l.src, a)
          BY <2>3, <4>2, <4>3, <4>4
        <4>7. MadeBy(w, n, l, l.dest, v)
          BY <3>1, <4>6 DEF MadeBy, RegistersSet
        <4> QED BY <4>5, <4>7
      <3>2. CASE l.kind = "code"
        <4>1. PICK c : c = l.instr
          OBVIOUS
        <4>2. y = BinaryLine(w, k, c)
          <5>1. y = CodeLine(w, k, c)
            BY <1>1, <1>2, <3>2, <4>1, Zenon DEF Walked
          <5> QED BY <2>1, <3>2, <4>1, <5>1, Zenon DEF CodeLine
        <4>3. PICK a : a = OperandValue(w.regs, c.src1)
          OBVIOUS
        <4>4. PICK b : b = OperandValue(w.regs, c.src2)
          OBVIOUS
        <4>5. PICK t : t = OperandType(w.regs, c.src1)
          OBVIOUS
        <4>6. PICK d : d = DialectBinary(c.op, a, b, t)
          OBVIOUS
        <4>7. PICK v : v = [value |-> d, type |-> t]
          OBVIOUS
        <4>8. PICK p : p = (c.op \in {"div", "mod"} /\ a = -Half64 /\ b = -1)
          OBVIOUS
        <4>9. y = [Shows(w, k, c.dest, v) EXCEPT !.panics = @ \/ p]
          BY <4>2, <4>3, <4>4, <4>5, <4>6, <4>7, <4>8, Zenon DEF BinaryLine
        <4>10. v.value = DialectBinary(c.op, a, b, v.type) /\ Yields(w, n, c.src1, a) /\ Yields(w, n, c.src2, b)
          BY <2>3, <4>3, <4>4, <4>6, <4>7
        <4>11. MadeBy(w, n, l, c.dest, v)
          BY <3>2, <4>1, <4>10 DEF MadeBy, RegistersSet
        <4> QED BY <4>9, <4>11
      <3> QED BY <1>7, <3>1, <3>2
    <2>5. PICK r, v, b : /\ y = [Shows(w, k, r, v) EXCEPT !.panics = @ \/ b] \/ y = Shows(w, k, r, v)
                         /\ MadeBy(w, n, l, r, v)
      BY <2>4
    <2>6. PICK s : s = [line |-> k, reg |-> r, val |-> v]
      OBVIOUS
    <2>7. s.line = k /\ s.reg = r /\ s.val = v
      BY <2>6
    <2>8. ShowsMore(w, z, s)
      <3>1. PICK x : x = Shows(w, k, r, v)
        OBVIOUS
      <3>2. x = [w EXCEPT !.regs = Assigned(@, r, v), !.shown = Append(@, s)]
        BY <2>6, <3>1, Zenon DEF Shows
      <3>3. /\ DOMAIN x = WalkerFields /\ x.inputs = w.inputs /\ x.output = w.output /\ x.next = w.next
            /\ x.shown = Append(w.shown, s) /\ x.regs = Assigned(w.regs, r, v)
        BY <3>2 DEF WalkerFields
      <3>4. PICK q : y = [x EXCEPT !.panics = q] \/ y = x
        BY <2>5, <3>1, Zenon
      <3>5. /\ z.inputs = x.inputs /\ z.output = x.output /\ z.next = x.next + 1 /\ z.shown = x.shown
            /\ z.regs = x.regs
        BY <1>3, <3>3, <3>4 DEF WalkerFields
      <3> QED BY <2>7, <3>3, <3>5 DEF ShowsMore
    <2>9. MadeBy(w, Len(w.shown), lines[k], s.reg, s.val)
      BY <1>1, <2>2, <2>5, <2>7
    <2> QED BY <2>7, <2>8, <2>9, ShowsRight
  <1>8. CASE l.kind \notin {"input", "output", "cast", "code"}
    <2>1. y = w
      BY <1>1, <1>2, <1>8, Zenon DEF Walked
    <2>2. /\ z.inputs = w.inputs /\ z.regs = w.regs /\ z.shown = w.shown /\ z.next = w.next + 1
          /\ z.output = w.output
      BY <1>3, <2>1 DEF WalkerFields
    <2>3. OutputRight(lines, z)
      BY <1>4, <2>2 DEF OutputRight
    <2> QED BY <2>2, <2>3, OthersStayRight
  <1> QED BY <1>5, <1>6, <1>7, <1>8
\* Sequences of two elements each.
PairsIn(f, seqs, n) == Len(f) = 2 * n /\ \A i \in 1 .. n : f[2 * i - 1] = seqs[i][1] /\ f[2 * i] = seqs[i][2]

LEMMA FlattenPairs ==
    ASSUME NEW n \in Nat, NEW seqs, NEW f, NEW off, Placed(f, off, seqs, n),
           \A i \in 1 .. n : Len(seqs[i]) = 2
    PROVE  PairsIn(f, seqs, n)
  <1>1. /\ off[0] = 0 /\ Len(f) = off[n]
        /\ \A i \in 1 .. n : off[i] = off[i - 1] + Len(seqs[i])
        /\ \A i \in 1 .. n : \A j \in 1 .. Len(seqs[i]) : f[off[i - 1] + j] = seqs[i][j]
    BY DEF Placed
  <1> DEFINE T == {m \in Nat : m <= n => off[m] = 2 * m}
  <1>2. 0 \in T
    BY <1>1
  <1>3. ASSUME NEW m \in Nat, m \in T PROVE m + 1 \in T
    <2> SUFFICES ASSUME m + 1 <= n PROVE off[m + 1] = 2 * (m + 1)
      OBVIOUS
    <2>1. m + 1 \in 1 .. n /\ (m + 1) - 1 = m /\ off[m] = 2 * m
      BY <1>3
    <2>2. off[m + 1] = off[m] + Len(seqs[m + 1])
      BY <1>1, <2>1
    <2>3. Len(seqs[m + 1]) = 2
      BY <2>1
    <2> QED BY <2>1, <2>2, <2>3
  <1>4. Nat \subseteq T
    <2> HIDE DEF T
    <2> QED BY <1>2, <1>3, NatSetInduction
  <1>5. \A m \in 0 .. n : off[m] = 2 * m
    BY <1>4
  <1>6. ASSUME NEW i \in 1 .. n PROVE f[2 * i - 1] = seqs[i][1] /\ f[2 * i] = seqs[i][2]
    <2>1. off[i - 1] = 2 * (i - 1) /\ 2 * (i - 1) + 1 = 2 * i - 1 /\ 2 * (i - 1) + 2 = 2 * i
      BY <1>5
    <2>2. 1 \in 1 .. Len(seqs[i]) /\ 2 \in 1 .. Len(seqs[i])
      OBVIOUS
    <2>3. f[off[i - 1] + 1] = seqs[i][1] /\ f[off[i - 1] + 2] = seqs[i][2]
      BY <1>1, <2>2
    <2> QED BY <2>1, <2>3
  <1>7. Len(f) = 2 * n
    BY <1>1, <1>5
  <1> QED BY <1>6, <1>7 DEF PairsIn

\* The elements of x and y, by turns.
ByTurns(f, S, x, y, n) ==
    /\ f \in Seq(S) /\ Len(f) = 2 * n
    /\ \A i \in 1 .. n : f[2 * i - 1] = x[i] /\ f[2 * i] = y[i]

BothIn(S, x, y, n) == \A i \in 1 .. n : x[i] \in S /\ y[i] \in S

LEMMA PairsPlaced ==
    ASSUME NEW S, NEW n \in Nat, NEW x, NEW y, BothIn(S, x, y, n),
           NEW seqs, seqs = [i \in 1 .. n |-> <<x[i], y[i]>>], NEW f, f = FlattenSeq(seqs)
    PROVE  ByTurns(f, S, x, y, n)
  <1>1. \A i \in 1 .. n : seqs[i] \in Seq(S) /\ Len(seqs[i]) = 2 /\ seqs[i][1] = x[i] /\ seqs[i][2] = y[i]
    BY DEF BothIn
  <1>2. PICK SS : SS = Seq(S)
    OBVIOUS
  <1>3. seqs \in [1 .. n -> SS]
    BY <1>1, <1>2
  <1>4. seqs \in Seq(SS) /\ Len(seqs) = n
    BY <1>3, SeqDef
  <1>6. PICK off : Placed(f, off, seqs, n)
    BY <1>2, <1>4, FlattenPlaces
  <1>9. \A i \in 1 .. n : Len(seqs[i]) = 2
    BY <1>1
  <1>10. PairsIn(f, seqs, n)
    BY <1>6, <1>9, FlattenPairs
  <1>7. Len(f) = 2 * n /\ \A i \in 1 .. n : f[2 * i - 1] = seqs[i][1] /\ f[2 * i] = seqs[i][2]
    BY <1>10 DEF PairsIn
  <1>8. f \in Seq(S)
    BY <1>2, <1>4, FlattenType
  <1> QED BY <1>1, <1>7, <1>8 DEF ByTurns

\* The value that register r has in the end.
FinalOf(w, r) == IF r \in DOMAIN w.regs THEN w.regs[r].value ELSE 0

ShowsReg(e, r, x) == e.ev = "var" /\ e.reg = r /\ e.val.value = x

StepsAt(e, k) == e.ev = "step" /\ e.line = k

\* The entries of a function: its call and step, its arguments, two for each
\* value shown, and its output.
EntriesLaid(es, i, w, a, s) ==
    /\ \E S : es \in Seq(S)
    /\ es[1].ev = "call" /\ es[1].line = i /\ StepsAt(es[2], i)
    /\ \A p \in 1 .. a : ShowsReg(es[2 + p], w.inputs[p].reg, FinalOf(w, w.inputs[p].reg))
    /\ \A m \in 1 .. s : /\ StepsAt(es[1 + a + 2 * m], w.shown[m].line)
                         /\ ShowsReg(es[2 + a + 2 * m], w.shown[m].reg, w.shown[m].val.value)
                         /\ es[2 + a + 2 * m].val = w.shown[m].val
    /\ w.output = <<>> => Len(es) = 3 + a + 2 * s /\ es[3 + a + 2 * s].ev = "return"
    /\ w.output # <<>> => /\ Len(es) = 5 + a + 2 * s
                          /\ StepsAt(es[3 + a + 2 * s], w.output.line)
                          /\ ShowsReg(es[4 + a + 2 * s], w.output.reg, FinalOf(w, w.output.reg))
                          /\ es[5 + a + 2 * s].ev = "return"

\* Two sequences in one.
Composed(u, S, s, t) ==
    /\ u \in Seq(S) /\ Len(u) = Len(s) + Len(t) /\ Len(s) \in Nat /\ Len(t) \in Nat
    /\ \A k \in 1 .. Len(s) : u[k] = s[k]
    /\ \A j \in 1 .. Len(t) : u[Len(s) + j] = t[j]

LEMMA ComposedIs ==
    ASSUME NEW S, NEW s \in Seq(S), NEW t \in Seq(S), NEW u, u = s \o t
    PROVE  Composed(u, S, s, t)
  BY ConcatPlaces DEF Composed

\* Four sequences in one.
FourIn(t, S, h, g, f, e) ==
    /\ t \in Seq(S) /\ Len(t) = 2 + Len(g) + Len(f) + Len(e)
    /\ t[1] = h[1] /\ t[2] = h[2]
    /\ \A j \in 1 .. Len(g) : t[2 + j] = g[j]
    /\ \A j \in 1 .. Len(f) : t[2 + Len(g) + j] = f[j]
    /\ \A j \in 1 .. Len(e) : t[2 + Len(g) + Len(f) + j] = e[j]

LEMMA FourPlaces ==
    ASSUME NEW S, NEW h \in Seq(S), NEW g \in Seq(S), NEW f \in Seq(S), NEW e \in Seq(S),
           NEW t, t = h \o g \o f \o e, Len(h) = 2
    PROVE  FourIn(t, S, h, g, f, e)
  <1>1. PICK u : u = h \o g
    OBVIOUS
  <1>2. PICK v : v = u \o f
    OBVIOUS
  <1>3. t = v \o e
    BY <1>1, <1>2
  <1>13. Composed(u, S, h, g)
    BY <1>1, ComposedIs
  <1>14. u \in Seq(S)
    BY <1>13 DEF Composed
  <1>15. Composed(v, S, u, f)
    BY <1>2, <1>14, ComposedIs
  <1>16. v \in Seq(S)
    BY <1>15 DEF Composed
  <1>17. Composed(t, S, v, e)
    BY <1>3, <1>16, ComposedIs
  <1>4. /\ u \in Seq(S) /\ Len(u) = Len(h) + Len(g) /\ Len(g) \in Nat
        /\ \A k \in 1 .. Len(h) : u[k] = h[k]
        /\ \A j \in 1 .. Len(g) : u[Len(h) + j] = g[j]
    BY <1>13 DEF Composed
  <1>5. /\ v \in Seq(S) /\ Len(v) = Len(u) + Len(f) /\ Len(f) \in Nat
        /\ \A k \in 1 .. Len(u) : v[k] = u[k]
        /\ \A j \in 1 .. Len(f) : v[Len(u) + j] = f[j]
    BY <1>15 DEF Composed
  <1>6. /\ t \in Seq(S) /\ Len(t) = Len(v) + Len(e) /\ Len(e) \in Nat
        /\ \A k \in 1 .. Len(v) : t[k] = v[k]
        /\ \A j \in 1 .. Len(e) : t[Len(v) + j] = e[j]
    BY <1>17 DEF Composed
  <1>7. PICK a \in Nat, b \in Nat, c \in Nat : a = Len(g) /\ b = Len(f) /\ c = Len(e)
    BY <1>4, <1>5, <1>6
  <1>8. Len(u) = 2 + a /\ Len(v) = 2 + a + b /\ Len(t) = 2 + a + b + c
    BY <1>4, <1>5, <1>6, <1>7
  <1>9. t[1] = h[1] /\ t[2] = h[2]
    <2>1. u[1] = h[1] /\ u[2] = h[2]
      BY <1>4
    <2>2. v[1] = u[1] /\ v[2] = u[2]
      BY <1>5, <1>8
    <2>3. t[1] = v[1] /\ t[2] = v[2]
      <3>1. 1 \in 1 .. Len(v) /\ 2 \in 1 .. Len(v)
        BY <1>7, <1>8
      <3> QED BY <1>6, <3>1
    <2> QED BY <2>1, <2>2, <2>3
  <1>10. ASSUME NEW j \in 1 .. a PROVE t[2 + j] = g[j]
    <2>1. 2 + j \in 1 .. 2 + a /\ 2 + j \in 1 .. 2 + a + b
      OBVIOUS
    <2>2. u[2 + j] = g[j]
      BY <1>4, <1>7
    <2>3. v[2 + j] = u[2 + j]
      BY <1>5, <1>8, <2>1
    <2>4. t[2 + j] = v[2 + j]
      BY <1>6, <1>8, <2>1
    <2> QED BY <2>2, <2>3, <2>4
  <1>11. ASSUME NEW j \in 1 .. b PROVE t[2 + a + j] = f[j]
    <2>1. 2 + a + j \in 1 .. 2 + a + b
      OBVIOUS
    <2>2. v[2 + a + j] = f[j]
      BY <1>5, <1>7, <1>8
    <2>3. t[2 + a + j] = v[2 + a + j]
      BY <1>6, <1>8, <2>1
    <2> QED BY <2>2, <2>3
  <1>12. \A j \in 1 .. c : t[2 + a + b + j] = e[j]
    BY <1>6, <1>7, <1>8
  <1> QED BY <1>6, <1>7, <1>8, <1>9, <1>10, <1>11, <1>12 DEF FourIn

\* So many inputs, and so many values shown.
WalkLengths(w, a, s) == a = Len(w.inputs) /\ s = Len(w.shown)

LEMMA DialectLaid ==
    ASSUME NEW lines, NEW i, NEW w, NEW a \in Nat, NEW s \in Nat, WalkLengths(w, a, s)
    PROVE  EntriesLaid(DialectEvents(lines, i, w), i, w, a, s)
  <1> DEFINE args == [k \in 1 .. Len(w.inputs) |->
                         [reg |-> w.inputs[k].reg, val |-> [value |-> FinalOf(w, w.inputs[k].reg),
                                                            type |-> w.inputs[k].type]]]
             steps == [k \in 1 .. Len(w.shown) |->
                         <<Step(w.shown[k].line), Shown(w.shown[k].reg, ShownOf(w, w.shown[k]))>>]
             out == [value |-> FinalOf(w, w.output.reg), type |-> lines[w.output.line].type]
             call == CallOf(lines[i].name, i, args)
             given1 == [k \in 1 .. Len(args) |-> Shown(args[k].reg, args[k].val)]
             end == IF w.output = <<>> THEN <<Returns("NONE_VALUE")>>
                    ELSE <<Step(w.output.line), Shown(w.output.reg, out), Returns(out)>>
  <1>1. DialectEvents(lines, i, w) = <<call, Step(i)>> \o given1 \o FlattenSeq(steps) \o end
    BY Zenon DEF DialectEvents, FinalOf
  <1>2. PICK h : h = <<call, Step(i)>>
    OBVIOUS
  <1>3. PICK g : g = given1
    OBVIOUS
  <1>4. PICK x : x = [k \in 1 .. s |-> Step(w.shown[k].line)]
    OBVIOUS
  <1>5. PICK y : y = [k \in 1 .. s |-> Shown(w.shown[k].reg, w.shown[k].val)]
    OBVIOUS
  <1>6. PICK seqs : seqs = [k \in 1 .. s |-> <<x[k], y[k]>>]
    OBVIOUS
  <1>7. steps = seqs
    BY <1>4, <1>5, <1>6 DEF ShownOf, WalkLengths
  <1>8. PICK e : e = end
    OBVIOUS
  <1>9. PICK f : f = FlattenSeq(seqs)
    OBVIOUS
  <1>10. PICK t : t = DialectEvents(lines, i, w)
    OBVIOUS
  <1>11. t = h \o g \o f \o e
    BY <1>1, <1>2, <1>3, <1>7, <1>8, <1>9, <1>10, Zenon
  <1>12. Len(h) = 2 /\ h[1].ev = "call" /\ h[1].line = i /\ StepsAt(h[2], i)
    BY <1>2 DEF CallOf, Step, StepsAt
  <1>13. DOMAIN g = 1 .. a /\ \A p \in 1 .. a : ShowsReg(g[p], w.inputs[p].reg, FinalOf(w, w.inputs[p].reg))
    <2>1. Len(args) = a
      BY DEF WalkLengths
    <2>2. ASSUME NEW p \in 1 .. a
          PROVE args[p].reg = w.inputs[p].reg /\ args[p].val.value = FinalOf(w, w.inputs[p].reg)
      BY DEF WalkLengths
    <2>3. PICK q : q = args
      OBVIOUS
    <2>4. g = [k \in 1 .. Len(q) |-> Shown(q[k].reg, q[k].val)]
      BY <1>3, <2>3
    <2>5. Len(q) = a /\ \A p \in 1 .. a : q[p].reg = w.inputs[p].reg /\ q[p].val.value = FinalOf(w, w.inputs[p].reg)
      BY <2>1, <2>2, <2>3
    <2> HIDE DEF args
    <2> QED BY <2>4, <2>5 DEF Shown, ShowsReg
  <1>14. \A m \in 1 .. s : StepsAt(x[m], w.shown[m].line) /\ y[m].val = w.shown[m].val
                           /\ ShowsReg(y[m], w.shown[m].reg, w.shown[m].val.value)
    BY <1>4, <1>5 DEF Step, Shown, StepsAt, ShowsReg
  <1>15. \A m \in 1 .. s : x[m] = Step(w.shown[m].line)
    BY <1>4
  <1>16. DOMAIN x = 1 .. s /\ DOMAIN y = 1 .. s
    BY <1>4, <1>5
  <1>17. Len(e) \in Nat /\ \E S : e \in Seq(S)
    <2>1. PICK u, v : u = Step(w.output.line) /\ v = Shown(w.output.reg, out)
      OBVIOUS
    <2>2. PICK r : r = Returns("NONE_VALUE")
      OBVIOUS
    <2>3. PICK q : q = Returns(out)
      OBVIOUS
    <2>4. e = <<r>> \/ e = <<u, v, q>>
      BY <1>8, <2>1, <2>2, <2>3, Zenon
    <2> HIDE DEF args, steps, out, call, given1, end
    <2>5. PICK E : E = {r, u, v, q}
      OBVIOUS
    <2>6. r \in E /\ u \in E /\ v \in E /\ q \in E
      BY <2>5
    <2>7. e \in Seq(E) /\ Len(e) \in Nat
      <3>1. CASE e = <<r>>
        BY <2>6, <3>1
      <3>2. CASE e = <<u, v, q>>
        BY <2>6, <3>2
      <3> QED BY <2>4, <3>1, <3>2
    <2> QED BY <2>7
  <1>18. PICK S : h \in Seq(S) /\ g \in Seq(S) /\ e \in Seq(S) /\ \A m \in 1 .. s : x[m] \in S /\ y[m] \in S
    <2>1. PICK E : e \in Seq(E)
      BY <1>17
    <2>2. PICK S : S = E \cup {h[1], h[2]} \cup {g[p] : p \in 1 .. a} \cup {x[m] : m \in 1 .. s}
                       \cup {y[m] : m \in 1 .. s}
      OBVIOUS
    <2>3. \A m \in 1 .. s : x[m] \in S /\ y[m] \in S
      BY <2>2
    <2>4. E \subseteq S /\ e \in Seq(S)
      BY <2>1, <2>2
    <2>5. h \in Seq(S)
      <3>1. PICK c, d : c = call /\ d = Step(i)
        OBVIOUS
      <3>2. h = <<c, d>> /\ c = h[1] /\ d = h[2]
        BY <1>2, <3>1
      <3>3. c \in S /\ d \in S
        BY <2>2, <3>2
      <3> HIDE DEF call
      <3> QED BY <3>2, <3>3
    <2>6. g \in Seq(S)
      <3>1. \A p \in 1 .. a : g[p] \in S
        BY <2>2
      <3>2. g \in [1 .. a -> S]
        <4>1. g = [p \in DOMAIN g |-> g[p]]
          BY <1>3
        <4> QED BY <1>13, <3>1, <4>1
      <3> QED BY <3>2, SeqDef
    <2> QED BY <2>3, <2>4, <2>5, <2>6
  <1> HIDE DEF args, steps, out, call, given1, end
  <1>19. f \in Seq(S) /\ Len(f) = 2 * s /\ \A m \in 1 .. s : f[2 * m - 1] = x[m] /\ f[2 * m] = y[m]
    <2>1. BothIn(S, x, y, s)
      BY <1>18 DEF BothIn
    <2>2. ByTurns(f, S, x, y, s)
      BY <1>6, <1>9, <2>1, PairsPlaced
    <2> QED BY <2>2 DEF ByTurns
  <1>20. Len(g) = a
    BY <1>13, <1>18
  <1>21. /\ t \in Seq(S) /\ Len(t) = 2 + Len(g) + Len(f) + Len(e)
         /\ t[1] = h[1] /\ t[2] = h[2]
         /\ \A j \in 1 .. Len(g) : t[2 + j] = g[j]
         /\ \A j \in 1 .. Len(f) : t[2 + Len(g) + j] = f[j]
         /\ \A j \in 1 .. Len(e) : t[2 + Len(g) + Len(f) + j] = e[j]
    <2>1. h \in Seq(S) /\ g \in Seq(S) /\ f \in Seq(S) /\ e \in Seq(S) /\ Len(h) = 2
      BY <1>12, <1>18, <1>19
    <2>2. FourIn(t, S, h, g, f, e)
      BY <1>11, <2>1, FourPlaces
    <2> QED BY <2>2 DEF FourIn
  <1>22. \A m \in 1 .. s : /\ StepsAt(t[1 + a + 2 * m], w.shown[m].line)
                            /\ ShowsReg(t[2 + a + 2 * m], w.shown[m].reg, w.shown[m].val.value)
                            /\ t[2 + a + 2 * m].val = w.shown[m].val
    <2> SUFFICES ASSUME NEW m \in 1 .. s PROVE t[1 + a + 2 * m] = x[m] /\ t[2 + a + 2 * m] = y[m]
      BY <1>14
    <2>1. 2 * m - 1 \in 1 .. Len(f) /\ 2 * m \in 1 .. Len(f)
      BY <1>19
    <2>2. t[2 + a + (2 * m - 1)] = f[2 * m - 1] /\ t[2 + a + 2 * m] = f[2 * m]
      BY <1>20, <1>21, <2>1
    <2>3. 2 + a + (2 * m - 1) = 1 + a + 2 * m
      OBVIOUS
    <2> QED BY <1>19, <2>2, <2>3
  <1>23. \A p \in 1 .. a : ShowsReg(t[2 + p], w.inputs[p].reg, FinalOf(w, w.inputs[p].reg))
    BY <1>13, <1>20, <1>21
  <1>24. ASSUME w.output = <<>> PROVE Len(t) = 3 + a + 2 * s /\ t[3 + a + 2 * s].ev = "return"
    <2>1. PICK r : r = Returns("NONE_VALUE")
      OBVIOUS
    <2>2. e = <<r>> /\ r.ev = "return"
      BY <1>8, <1>24, <2>1, EntriesAre, Zenon DEF end
    <2>3. Len(e) = 1 /\ e[1] = r /\ 1 \in 1 .. Len(e)
      BY <2>2
    <2>4. t[2 + a + 2 * s + 1] = r /\ Len(t) = 2 + a + 2 * s + 1
      BY <1>19, <1>20, <1>21, <2>3
    <2>5. 2 + a + 2 * s + 1 = 3 + a + 2 * s
      OBVIOUS
    <2> QED BY <2>2, <2>4, <2>5
  <1>25. ASSUME w.output # <<>>
         PROVE  /\ Len(t) = 5 + a + 2 * s
                /\ StepsAt(t[3 + a + 2 * s], w.output.line)
                /\ ShowsReg(t[4 + a + 2 * s], w.output.reg, FinalOf(w, w.output.reg))
                /\ t[5 + a + 2 * s].ev = "return"
    <2>1. PICK u : u = Step(w.output.line)
      OBVIOUS
    <2>2. PICK v : v = Shown(w.output.reg, out)
      OBVIOUS
    <2>3. PICK r : r = Returns(out)
      OBVIOUS
    <2>4. e = <<u, v, r>>
      BY <1>8, <1>25, <2>1, <2>2, <2>3, Zenon DEF end
    <2>5. /\ StepsAt(u, w.output.line) /\ r.ev = "return"
          /\ ShowsReg(v, w.output.reg, FinalOf(w, w.output.reg))
      BY <2>1, <2>2, <2>3 DEF Step, Shown, Returns, StepsAt, ShowsReg, out
    <2>6. Len(e) = 3 /\ e[1] = u /\ e[2] = v /\ e[3] = r
      BY <2>4
    <2>7. PICK o \in Nat : o = 2 + a + 2 * s
      OBVIOUS
    <2>8. Len(t) = o + 3 /\ t[o + 1] = u /\ t[o + 2] = v /\ t[o + 3] = r
      BY <1>19, <1>20, <1>21, <2>6, <2>7
    <2>9. o + 1 = 3 + a + 2 * s /\ o + 2 = 4 + a + 2 * s /\ o + 3 = 5 + a + 2 * s
      BY <2>7
    <2> QED BY <2>5, <2>8, <2>9
  <1> QED BY <1>10, <1>12, <1>21, <1>22, <1>23, <1>24, <1>25 DEF EntriesLaid
LEMMA OddOrEven ==
    ASSUME NEW s \in Nat, NEW d \in 1 .. 2 * s
    PROVE  \E m \in 1 .. s : d = 2 * m - 1 \/ d = 2 * m
  <1>1. PICK m : m = (d + 1) \div 2
    OBVIOUS
  <1>2. m \in 1 .. s /\ (d = 2 * m - 1 \/ d = 2 * m)
    BY <1>1
  <1> QED BY <1>2

\* Where the entries of a function are.
LEMMA EntryPlaces ==
    ASSUME NEW a \in Nat, NEW s \in Nat, NEW y \in 1 .. 5 + a + 2 * s
    PROVE  \/ y \in {1, 2, 3 + a + 2 * s, 4 + a + 2 * s, 5 + a + 2 * s}
           \/ \E p \in 1 .. a : y = 2 + p
           \/ \E m \in 1 .. s : y = 1 + a + 2 * m \/ y = 2 + a + 2 * m
  <1>1. CASE y <= 2 + a \/ y > 2 + a + 2 * s
    <2>1. y > 2 /\ y <= 2 + a => y - 2 \in 1 .. a /\ y = 2 + (y - 2)
      OBVIOUS
    <2> QED BY <1>1, <2>1
  <1>2. CASE y > 2 + a /\ y <= 2 + a + 2 * s
    <2>1. PICK d : d = y - 2 - a /\ d \in 1 .. 2 * s
      BY <1>2
    <2>2. PICK m \in 1 .. s : d = 2 * m - 1 \/ d = 2 * m
      BY <2>1, OddOrEven
    <2>3. y = 1 + a + 2 * m \/ y = 2 + a + 2 * m
      BY <2>1, <2>2
    <2> QED BY <2>3
  <1> QED BY <1>1, <1>2

EntryKinds(es, a, s) ==
    /\ Len(es) \in Nat /\ Len(es) <= 5 + a + 2 * s /\ Len(es) > 2
    /\ es[1].ev = "call" /\ \A y \in 2 .. Len(es) : es[y].ev # "call"
    /\ \A y \in 1 .. Len(es) : es[y].ev = "var" =>
           \/ \E p \in 1 .. a : y = 2 + p
           \/ \E m \in 1 .. s : y = 2 + a + 2 * m
           \/ y = 4 + a + 2 * s

LEMMA KindsOfEntries ==
    ASSUME NEW es, NEW i, NEW w, NEW a \in Nat, NEW s \in Nat, EntriesLaid(es, i, w, a, s)
    PROVE  EntryKinds(es, a, s)
  <1>1. Len(es) = 3 + a + 2 * s \/ Len(es) = 5 + a + 2 * s
    BY DEF EntriesLaid
  <1>2. Len(es) \in Nat /\ Len(es) <= 5 + a + 2 * s /\ Len(es) > 2
    BY <1>1
  <1>3. es[1].ev = "call" /\ es[2].ev = "step"
    BY DEF EntriesLaid, StepsAt
  <1>4. \A p \in 1 .. a : es[2 + p].ev = "var"
    BY DEF EntriesLaid, ShowsReg
  <1>5. \A m \in 1 .. s : es[1 + a + 2 * m].ev = "step" /\ es[2 + a + 2 * m].ev = "var"
    BY DEF EntriesLaid, ShowsReg, StepsAt
  <1>6. /\ Len(es) = 3 + a + 2 * s => es[3 + a + 2 * s].ev = "return"
        /\ Len(es) = 5 + a + 2 * s =>
               /\ es[3 + a + 2 * s].ev = "step" /\ es[4 + a + 2 * s].ev = "var"
               /\ es[5 + a + 2 * s].ev = "return"
    <2>1. 3 + a + 2 * s # 5 + a + 2 * s
      OBVIOUS
    <2> QED BY <2>1 DEF EntriesLaid, ShowsReg, StepsAt
  <1>7. ASSUME NEW y \in 1 .. Len(es)
        PROVE  /\ y # 1 => es[y].ev # "call"
               /\ es[y].ev = "var" => \/ \E p \in 1 .. a : y = 2 + p
                                      \/ \E m \in 1 .. s : y = 2 + a + 2 * m
                                      \/ y = 4 + a + 2 * s
    <2>1. y \in 1 .. 5 + a + 2 * s
      BY <1>2
    <2>2. \/ y \in {1, 2, 3 + a + 2 * s, 4 + a + 2 * s, 5 + a + 2 * s}
          \/ \E p \in 1 .. a : y = 2 + p
          \/ \E m \in 1 .. s : y = 1 + a + 2 * m \/ y = 2 + a + 2 * m
      BY <2>1, EntryPlaces
    <2>3. CASE y = 1 \/ y = 2
      BY <1>3, <2>3
    <2>4. CASE \E p \in 1 .. a : y = 2 + p
      BY <1>4, <2>4
    <2>5. CASE \E m \in 1 .. s : y = 1 + a + 2 * m
      BY <1>5, <2>5
    <2>6. CASE \E m \in 1 .. s : y = 2 + a + 2 * m
      BY <1>5, <2>6
    <2>7. CASE y \in {3 + a + 2 * s, 4 + a + 2 * s, 5 + a + 2 * s}
      <3>1. CASE Len(es) = 3 + a + 2 * s
        <4>1. y = 3 + a + 2 * s
          BY <2>7, <3>1
        <4> QED BY <1>6, <3>1, <4>1
      <3>2. CASE Len(es) = 5 + a + 2 * s
        BY <1>6, <2>7, <3>2
      <3> QED BY <1>1, <3>1, <3>2
    <2> QED BY <2>2, <2>3, <2>4, <2>5, <2>6, <2>7
  <1>8. \A y \in 2 .. Len(es) : y \in 1 .. Len(es) /\ y # 1
    BY <1>2
  <1> QED BY <1>2, <1>3, <1>7, <1>8 DEF EntryKinds

LEMMA LastCallIs ==
    ASSUME NEW es, NEW n \in Nat, NEW c \in 1 .. n, es[c].ev = "call", NEW q \in c .. n,
           \A y \in c + 1 .. n : es[y].ev # "call"
    PROVE  LastCall(es, q) = c
  <1>1. PICK S : S = {m \in 1 .. q : es[m].ev = "call"}
    OBVIOUS
  <1>2. S \subseteq 1 .. n /\ c \in S
    BY <1>1
  <1>3. Max(S) \in S /\ \A y \in S : y <= Max(S)
    BY <1>2, GreatestLine
  <1>4. PICK m \in 1 .. n : m = Max(S)
    BY <1>2, <1>3
  <1>5. c <= m /\ es[m].ev = "call"
    BY <1>1, <1>2, <1>3, <1>4
  <1>6. m \notin c + 1 .. n
    BY <1>5
  <1>7. m = c
    BY <1>4, <1>5, <1>6
  <1> QED BY <1>1, <1>4, <1>7 DEF LastCall

\* The last entry between c and q that shows register r.
LastEntry(es, c, q, r, t) ==
    /\ t \in c .. q - 1 /\ es[t].ev = "var" /\ es[t].reg = r
    /\ \A y \in t + 1 .. q - 1 : ~(es[y].ev = "var" /\ es[y].reg = r)

\* What the last of these entries says, 0 if there is none.
SaysLast(es, c, q, o, r) ==
    /\ \A t : LastEntry(es, c, q, r, t) => LastShown(es, q, o) = es[t].val.value
    /\ (\A t \in c .. q - 1 : ~(es[t].ev = "var" /\ es[t].reg = r)) => LastShown(es, q, o) = 0

LEMMA LastShownIs ==
    ASSUME NEW es, NEW n \in Nat, NEW c \in 1 .. n, NEW q \in c .. n, LastCall(es, q) = c,
           NEW o, "literal" \notin DOMAIN o, NEW r, r = o.reg
    PROVE  SaysLast(es, c, q, o, r)
  <1>1. r = o.reg
    OBVIOUS
  <1>2. PICK S : S = {m \in c .. q - 1 : es[m].ev = "var" /\ es[m].reg = r}
    OBVIOUS
  <1>3. LastShown(es, q, o) = IF S = {} THEN 0 ELSE es[Max(S)].val.value
    BY <1>1, <1>2 DEF LastShown
  <1>4. ASSUME NEW t, LastEntry(es, c, q, r, t) PROVE LastShown(es, q, o) = es[t].val.value
    <2>1. t \in c .. q - 1 /\ es[t].ev = "var" /\ es[t].reg = r
      BY <1>4 DEF LastEntry
    <2>2. S \subseteq 1 .. n /\ t \in S
      BY <1>2, <2>1
    <2>3. Max(S) \in S /\ \A y \in S : y <= Max(S)
      BY <2>2, GreatestLine
    <2>4. PICK m \in c .. q - 1 : m = Max(S) /\ es[m].ev = "var" /\ es[m].reg = r
      BY <1>2, <2>3
    <2>5. t <= m
      BY <2>2, <2>3, <2>4
    <2>6. m \notin t + 1 .. q - 1
      BY <1>4, <2>4 DEF LastEntry
    <2>7. m = t
      BY <2>1, <2>4, <2>5, <2>6
    <2> QED BY <1>3, <2>2, <2>4, <2>7
  <1>5. ASSUME \A t \in c .. q - 1 : ~(es[t].ev = "var" /\ es[t].reg = r) PROVE LastShown(es, q, o) = 0
    BY <1>2, <1>3, <1>5
  <1> QED BY <1>4, <1>5 DEF SaysLast

\* Before the value after the first n, the last value shown of an operand is
\* what it holds then.
LEMMA HoldsIsShown ==
    ASSUME NEW es, NEW i, NEW w, NEW a \in Nat, NEW s \in Nat, WalkLengths(w, a, s),
           EntriesLaid(es, i, w, a, s), RegistersRight(w),
           \A p, q \in 1 .. a : w.inputs[p].reg = w.inputs[q].reg => p = q,
           NEW n \in 0 .. s, 4 + a + 2 * n <= Len(es), NEW o, NEW x, Yields(w, n, o, x)
    PROVE  LastShown(es, 4 + a + 2 * n, o) = x
  <1>1. EntryKinds(es, a, s)
    BY KindsOfEntries
  <1>2. PICK l \in Nat : l = Len(es)
    BY <1>1 DEF EntryKinds
  <1>3. PICK q : q = 4 + a + 2 * n
    OBVIOUS
  <1>4. q \in 1 .. l /\ q - 1 \in Nat
    BY <1>2, <1>3
  <1>5. LastCall(es, q) = 1
    <2>1. 1 \in 1 .. l /\ es[1].ev = "call"
      BY <1>1, <1>4 DEF EntryKinds
    <2>2. \A y \in 1 + 1 .. l : es[y].ev # "call"
      BY <1>1, <1>2 DEF EntryKinds
    <2> QED BY <1>2, <1>4, <2>1, <2>2, LastCallIs
  <1>6. CASE "literal" \in DOMAIN o
    BY <1>3, <1>6 DEF Yields, LastShown
  <1>7. CASE "literal" \notin DOMAIN o
    <2>1. PICK r : r = o.reg
      OBVIOUS
    <2>2. /\ \A t : LastEntry(es, 1, q, r, t) => LastShown(es, q, o) = es[t].val.value
          /\ (\A t \in 1 .. q - 1 : ~(es[t].ev = "var" /\ es[t].reg = r)) => LastShown(es, q, o) = 0
      <3>1. 1 \in 1 .. l /\ q \in 1 .. l
        BY <1>4
      <3>2. SaysLast(es, 1, q, o, r)
        BY <1>2, <1>5, <1>7, <2>1, <3>1, LastShownIs
      <3> QED BY <3>2 DEF SaysLast
    \* What is before q and shows a value.
    <2>3. ASSUME NEW y \in 1 .. q - 1, es[y].ev = "var"
          PROVE  (\E p \in 1 .. a : y = 2 + p) \/ (\E m \in 1 .. n : y = 2 + a + 2 * m)
      <3>1. y \in 1 .. l /\ y < 4 + a + 2 * n
        BY <1>3, <1>4
      <3>2. \/ \E p \in 1 .. a : y = 2 + p
            \/ \E m \in 1 .. s : y = 2 + a + 2 * m
            \/ y = 4 + a + 2 * s
        BY <1>1, <1>2, <2>3, <3>1 DEF EntryKinds
      <3>3. y # 4 + a + 2 * s
        BY <3>1
      <3>4. ASSUME NEW m \in 1 .. s, y = 2 + a + 2 * m PROVE m \in 1 .. n
        BY <3>1, <3>4
      <3> QED BY <3>2, <3>3, <3>4
    <2>4. \A p \in 1 .. a : ShowsReg(es[2 + p], w.inputs[p].reg, FinalOf(w, w.inputs[p].reg))
      BY DEF EntriesLaid
    <2>5. \A m \in 1 .. n : ShowsReg(es[2 + a + 2 * m], w.shown[m].reg, w.shown[m].val.value)
      <3>1. \A m \in 1 .. n : m \in 1 .. s
        OBVIOUS
      <3> QED BY <3>1 DEF EntriesLaid
    <2>6. CASE \E m \in 1 .. n : LastSetter(w, n, r, m) /\ x = w.shown[m].val.value
      <3>1. PICK m \in 1 .. n : LastSetter(w, n, r, m) /\ x = w.shown[m].val.value
        BY <2>6
      <3>2. PICK t : t = 2 + a + 2 * m
        OBVIOUS
      <3>3. t \in 1 .. q - 1
        BY <1>3, <3>2
      <3>4. es[t].ev = "var" /\ es[t].reg = r /\ es[t].val.value = x
        BY <2>5, <3>1, <3>2 DEF ShowsReg, LastSetter
      <3>5. ASSUME NEW y \in t + 1 .. q - 1, es[y].ev = "var" /\ es[y].reg = r PROVE FALSE
        <4>1. y \in 1 .. q - 1 /\ y > 2 + a + 2 * m
          BY <3>2, <3>3
        <4>2. PICK j \in 1 .. n : y = 2 + a + 2 * j
          <5>1. \A p \in 1 .. a : y # 2 + p
            BY <4>1
          <5> QED BY <2>3, <3>5, <4>1, <5>1
        <4>3. j \in m + 1 .. n
          BY <4>1, <4>2
        <4>4. w.shown[j].reg = r
          BY <2>5, <3>5, <4>2 DEF ShowsReg
        <4> QED BY <3>1, <4>3, <4>4 DEF LastSetter
      <3>6. LastEntry(es, 1, q, r, t)
        BY <3>3, <3>4, <3>5 DEF LastEntry
      <3> QED BY <1>3, <2>2, <3>4, <3>6
    <2>7. CASE /\ \A j \in 1 .. n : w.shown[j].reg # r
               /\ x = IF r \in InputRegs(w) THEN w.regs[r].value ELSE 0
      <3>1. \A m \in 1 .. n : es[2 + a + 2 * m].reg # r
        BY <2>5, <2>7 DEF ShowsReg
      <3>2. CASE r \in InputRegs(w)
        <4>1. PICK p \in 1 .. a : w.inputs[p].reg = r
          BY <3>2 DEF InputRegs, WalkLengths
        <4>2. r \in DOMAIN w.regs
          BY <3>2 DEF RegistersRight
        <4>3. PICK t : t = 2 + p
          OBVIOUS
        <4>4. t \in 1 .. q - 1
          BY <1>3, <4>3
        <4>5. es[t].ev = "var" /\ es[t].reg = r /\ es[t].val.value = w.regs[r].value
          BY <2>4, <4>1, <4>2, <4>3 DEF ShowsReg, FinalOf
        <4>6. ASSUME NEW y \in t + 1 .. q - 1, es[y].ev = "var" /\ es[y].reg = r PROVE FALSE
          <5>1. y \in 1 .. q - 1 /\ y > 2 + p
            BY <4>3, <4>4
          <5>2. PICK j \in 1 .. a : y = 2 + j
            BY <2>3, <3>1, <4>6, <5>1
          <5>3. w.inputs[j].reg = r
            BY <2>4, <4>6, <5>2 DEF ShowsReg
          <5>4. j = p
            BY <4>1, <5>3
          <5> QED BY <5>1, <5>2, <5>4
        <4>7. LastEntry(es, 1, q, r, t)
          BY <4>4, <4>5, <4>6 DEF LastEntry
        <4> QED BY <1>3, <2>2, <2>7, <3>2, <4>5, <4>7
      <3>3. CASE r \notin InputRegs(w)
        <4>1. ASSUME NEW t \in 1 .. q - 1, es[t].ev = "var" /\ es[t].reg = r PROVE FALSE
          <5>1. PICK p \in 1 .. a : t = 2 + p
            BY <2>3, <3>1, <4>1
          <5>2. w.inputs[p].reg = r
            BY <2>4, <4>1, <5>1 DEF ShowsReg
          <5> QED BY <3>3, <5>2 DEF InputRegs, WalkLengths
        <4> QED BY <1>3, <2>2, <2>7, <3>3, <4>1
      <3> QED BY <3>2, <3>3
    <2> QED BY <1>7, <2>1, <2>6, <2>7 DEF Yields
  <1> QED BY <1>6, <1>7
\* What is shown of a regular function is right.
LEMMA FunctionShownRight ==
    ASSUME NEW lines, NEW i, lines[i].kind = "function", NEW w, NEW a \in Nat, NEW s \in Nat,
           WalkLengths(w, a, s), WalkRight(lines, i, w),
           NEW es, EntriesLaid(es, i, w, a, s),
           NEW q \in 2 .. Len(es), es[q].ev = "var", es[q - 1].ev = "step"
    PROVE  ShownRight(lines[es[q - 1].line], es, q)
  <1>1. EntryKinds(es, a, s)
    BY KindsOfEntries
  <1>2. PICK k : k = Len(es) /\ k \in Nat
    BY <1>1 DEF EntryKinds
  <1>3. InputsRight(lines, i, w) /\ ValuesRight(lines, i, w) /\ RegistersRight(w) /\ OutputRight(lines, w)
    BY DEF WalkRight
  <1>4. \A p, r \in 1 .. a : w.inputs[p].reg = w.inputs[r].reg => p = r
    BY <1>3 DEF InputsRight, WalkLengths
  <1>5. ASSUME NEW n \in 0 .. s, 4 + a + 2 * n <= k, NEW o, NEW x, Yields(w, n, o, x)
        PROVE LastShown(es, 4 + a + 2 * n, o) = x
    BY <1>2, <1>3, <1>4, <1>5, HoldsIsShown
  <1>6. q \in 1 .. k /\ q - 1 \in 1 .. k
    BY <1>2
  <1>7. \/ \E p \in 1 .. a : q = 2 + p
        \/ \E m \in 1 .. s : q = 2 + a + 2 * m
        \/ q = 4 + a + 2 * s
    BY <1>1, <1>2, <1>6 DEF EntryKinds
  <1>8. PICK l : l = lines[es[q - 1].line]
    OBVIOUS
  <1>9. CASE \E p \in 1 .. a : q = 2 + p
    <2>1. PICK p \in 1 .. a : q = 2 + p
      BY <1>9
    <2>2. CASE p = 1
      <3>1. q - 1 = 2
        BY <2>1, <2>2
      <3>2. l.kind = "function"
        BY <1>8, <3>1 DEF EntriesLaid, StepsAt
      <3> QED BY <1>8, <3>2 DEF ShownRight
    <2>3. CASE p # 1
      <3>1. p - 1 \in 1 .. a /\ q - 1 = 2 + (p - 1)
        BY <2>1, <2>3
      <3>2. \A j \in 1 .. a : es[2 + j].ev = "var"
        BY DEF EntriesLaid, ShowsReg
      <3>3. es[q - 1].ev = "var"
        BY <3>1, <3>2
      <3> QED BY <3>3
    <2> QED BY <2>2, <2>3
  <1>10. CASE \E m \in 1 .. s : q = 2 + a + 2 * m
    <2>1. PICK m \in 1 .. s : q = 2 + a + 2 * m
      BY <1>10
    <2>2. PICK n \in 0 .. s : n = m - 1
      OBVIOUS
    <2>3. q = 4 + a + 2 * n /\ q - 1 = 1 + a + 2 * m /\ 4 + a + 2 * n <= k
      BY <1>6, <2>1, <2>2
    <2>4. PICK r, v : r = w.shown[m].reg /\ v = w.shown[m].val
      OBVIOUS
    <2>5. es[q].reg = r /\ es[q].val = v /\ l = lines[w.shown[m].line]
      BY <1>8, <2>1, <2>3, <2>4 DEF EntriesLaid, StepsAt, ShowsReg
    <2>6. MadeBy(w, n, l, r, v)
      BY <1>3, <2>2, <2>4, <2>5 DEF ValuesRight, WalkLengths
    <2>7. \A o, x : Yields(w, n, o, x) => LastShown(es, q, o) = x
      BY <1>5, <2>3
    <2>8. ASSUME l.kind = "code"
          PROVE /\ es[q].reg = l.instr.dest
                /\ v.value = DialectBinary(l.instr.op, LastShown(es, q, l.instr.src1),
                                           LastShown(es, q, l.instr.src2), v.type)
      <3>1. RegistersSet(l) = {l.instr.dest}
        BY <2>8 DEF RegistersSet
      <3>2. PICK x, y : /\ Yields(w, n, l.instr.src1, x) /\ Yields(w, n, l.instr.src2, y)
                        /\ v.value = DialectBinary(l.instr.op, x, y, v.type)
        BY <2>6, <2>8 DEF MadeBy
      <3>3. LastShown(es, q, l.instr.src1) = x /\ LastShown(es, q, l.instr.src2) = y
        BY <2>7, <3>2
      <3>4. RegistersSet(l) = {r}
        BY <2>6 DEF MadeBy
      <3> QED BY <2>5, <3>1, <3>2, <3>3, <3>4
    <2>9. ASSUME l.kind = "cast"
          PROVE es[q].reg = l.dest /\ v.value = TruncateToType(LastShown(es, q, l.src), l.type)
      <3>1. RegistersSet(l) = {l.dest}
        BY <2>9 DEF RegistersSet
      <3>2. PICK x : Yields(w, n, l.src, x) /\ v.value = TruncateToType(x, l.type)
        BY <2>6, <2>9 DEF MadeBy
      <3>3. LastShown(es, q, l.src) = x
        BY <2>7, <3>2
      <3>4. RegistersSet(l) = {r}
        BY <2>6 DEF MadeBy
      <3> QED BY <2>5, <3>1, <3>2, <3>3, <3>4
    <2>10. l.kind # "output"
      BY <2>6 DEF MadeBy
    <2> QED BY <1>8, <2>5, <2>8, <2>9, <2>10 DEF ShownRight
  <1>11. CASE q = 4 + a + 2 * s
    <2>1. w.output # <<>>
      <3> SUFFICES ASSUME w.output = <<>> PROVE FALSE
        OBVIOUS
      <3>1. Len(es) = 3 + a + 2 * s
        BY DEF EntriesLaid
      <3> QED BY <1>2, <1>6, <1>11, <3>1
    <2>2. q - 1 = 3 + a + 2 * s /\ s \in 0 .. s /\ 4 + a + 2 * s <= k
      BY <1>6, <1>11
    <2>3. PICK r : r = w.output.reg
      OBVIOUS
    <2>4. l = lines[w.output.line] /\ es[q].reg = r /\ es[q].val.value = FinalOf(w, r)
      BY <1>8, <1>11, <2>1, <2>2, <2>3 DEF EntriesLaid, StepsAt, ShowsReg
    <2>5. l.kind = "output" /\ l.reg = r
      BY <1>3, <2>1, <2>3, <2>4 DEF OutputRight
    <2>6. PICK o : o = [reg |-> r]
      OBVIOUS
    <2>7. OperandValue(w.regs, o) = FinalOf(w, r)
      BY <2>6 DEF OperandValue, FinalOf
    <2>8. s = Len(w.shown) /\ Len(w.shown) \in Nat
      BY DEF WalkLengths
    <2>9. Yields(w, s, o, FinalOf(w, r))
      BY <1>3, <2>7, <2>8, HoldsNow
    <2>10. LastShown(es, q, o) = FinalOf(w, r)
      BY <1>5, <1>11, <2>2, <2>9
    <2> QED BY <1>8, <2>4, <2>5, <2>6, <2>10 DEF ShownRight
  <1> QED BY <1>7, <1>9, <1>10, <1>11
LEMMA MaxIsIt ==
    ASSUME NEW n \in Nat, NEW S, S \subseteq 1 .. n, NEW t \in S, \A y \in S : y <= t
    PROVE  Max(S) = t
  <1>1. Max(S) \in S /\ \A y \in S : y <= Max(S)
    BY GreatestLine
  <1>2. PICK m : m = Max(S)
    OBVIOUS
  <1>3. m \in S /\ m <= t /\ t <= m
    BY <1>1, <1>2
  <1>4. m \in 1 .. n /\ t \in 1 .. n
    BY <1>3
  <1> QED BY <1>2, <1>3, <1>4

\* A log of whole functions, in which every value is right.
DialectLog(lines, es) ==
    /\ \E S : es \in Seq(S)
    /\ Len(es) > 0 => es[1].ev = "call"
    /\ DialectShows(lines, es)

\* The call that an entry of such a log lies in.
LEMMA LastCallIn ==
    ASSUME NEW lines, NEW es, DialectLog(lines, es), NEW k \in 1 .. Len(es)
    PROVE  /\ LastCall(es, k) \in 1 .. k /\ es[LastCall(es, k)].ev = "call"
           /\ \A y \in LastCall(es, k) + 1 .. k : es[y].ev # "call"
  <1>1. PICK n \in Nat : n = Len(es)
    BY DEF DialectLog
  <1>2. PICK S : S = {m \in 1 .. k : es[m].ev = "call"}
    OBVIOUS
  <1>3. k \in 1 .. n /\ es[1].ev = "call"
    BY <1>1 DEF DialectLog
  <1>4. S \subseteq 1 .. n /\ 1 \in S
    BY <1>2, <1>3
  <1>5. Max(S) \in S /\ \A y \in S : y <= Max(S)
    BY <1>4, GreatestLine
  <1>6. PICK c \in 1 .. k : c = Max(S) /\ es[c].ev = "call"
    BY <1>2, <1>5
  <1>7. ASSUME NEW y \in c + 1 .. k, es[y].ev = "call" PROVE FALSE
    <2>1. y \in S
      BY <1>2, <1>6, <1>7
    <2>2. y <= c
      BY <1>5, <1>6, <2>1
    <2> QED BY <2>2
  <1>8. LastCall(es, k) = c
    BY <1>2, <1>6 DEF LastCall
  <1> QED BY <1>6, <1>7, <1>8

\* b lies in c from position d on.
LiesAt(c, d, b) == \A j \in 1 .. Len(b) : c[d + j] = b[j]

LEMMA CallMoves ==
    ASSUME NEW lines, NEW b, DialectLog(lines, b), NEW c, NEW d \in Nat, LiesAt(c, d, b),
           NEW q \in 1 .. Len(b)
    PROVE  LastCall(c, d + q) = d + LastCall(b, q)
  <1>1. PICK t : t = LastCall(b, q)
    OBVIOUS
  <1>2. t \in 1 .. q /\ b[t].ev = "call" /\ \A y \in t + 1 .. q : b[y].ev # "call"
    BY <1>1, LastCallIn
  <1>3. PICK n \in Nat : n = Len(b)
    BY DEF DialectLog
  <1>4. \A j \in 1 .. n : c[d + j] = b[j]
    BY <1>3 DEF LiesAt
  <1>5. t \in 1 .. n /\ q \in 1 .. n
    BY <1>2, <1>3
  <1>6. c[d + t].ev = "call"
    BY <1>2, <1>4, <1>5
  <1>7. ASSUME NEW y \in (d + t) + 1 .. d + q PROVE c[y].ev # "call"
    <2>1. PICK j : j = y - d /\ j \in t + 1 .. q
      BY <1>5
    <2>2. j \in 1 .. n /\ y = d + j
      BY <1>5, <2>1
    <2> QED BY <1>2, <1>4, <2>1, <2>2
  <1>8. PICK m \in Nat : m = d + q
    BY <1>5
  <1>9. PICK x : x = d + t
    OBVIOUS
  <1>10. x \in 1 .. m /\ m \in x .. m
    BY <1>2, <1>5, <1>8, <1>9
  <1>11. c[x].ev = "call" /\ \A y \in x + 1 .. m : c[y].ev # "call"
    BY <1>6, <1>7, <1>8, <1>9
  <1>12. LastCall(c, m) = x
    BY <1>10, <1>11, LastCallIs
  <1> QED BY <1>1, <1>8, <1>9, <1>12

LEMMA ShownMoves ==
    ASSUME NEW lines, NEW b, DialectLog(lines, b), NEW c, NEW d \in Nat, LiesAt(c, d, b),
           NEW q \in 1 .. Len(b), NEW o
    PROVE  LastShown(c, d + q, o) = LastShown(b, q, o)
  <1>1. CASE "literal" \in DOMAIN o
    BY <1>1 DEF LastShown
  <1>2. CASE "literal" \notin DOMAIN o
    <2>1. PICK t : t = LastCall(b, q)
      OBVIOUS
    <2>2. t \in 1 .. q
      BY <2>1, LastCallIn
    <2>3. LastCall(c, d + q) = d + t
      BY <2>1, CallMoves
    <2>4. PICK n \in Nat : n = Len(b)
      BY DEF DialectLog
    <2>5. \A j \in 1 .. n : c[d + j] = b[j]
      BY <2>4 DEF LiesAt
    <2>6. q \in 1 .. n
      BY <2>4
    <2>7. PICK r : r = o.reg
      OBVIOUS
    <2>8. PICK S : S = {m \in t .. q - 1 : b[m].ev = "var" /\ b[m].reg = r}
      OBVIOUS
    <2>9. PICK T : T = {m \in d + t .. (d + q) - 1 : c[m].ev = "var" /\ c[m].reg = r}
      OBVIOUS
    <2>10. LastShown(b, q, o) = IF S = {} THEN 0 ELSE b[Max(S)].val.value
      BY <1>2, <2>1, <2>7, <2>8 DEF LastShown
    <2>11. LastShown(c, d + q, o) = IF T = {} THEN 0 ELSE c[Max(T)].val.value
      BY <1>2, <2>3, <2>7, <2>9 DEF LastShown
    <2>12. \A m \in S : d + m \in T
      <3> SUFFICES ASSUME NEW m \in S PROVE d + m \in T
        OBVIOUS
      <3>1. m \in t .. q - 1 /\ b[m].ev = "var" /\ b[m].reg = r
        BY <2>8
      <3>2. m \in 1 .. n /\ d + m \in d + t .. (d + q) - 1
        BY <2>2, <2>6, <3>1
      <3>3. c[d + m] = b[m]
        BY <2>5, <3>2
      <3> QED BY <2>9, <3>1, <3>2, <3>3
    <2>13. \A y \in T : \E m \in S : y = d + m
      <3> SUFFICES ASSUME NEW y \in T PROVE \E m \in S : y = d + m
        OBVIOUS
      <3>1. y \in d + t .. (d + q) - 1 /\ c[y].ev = "var" /\ c[y].reg = r
        BY <2>9
      <3>2. PICK m : m = y - d /\ m \in t .. q - 1 /\ y = d + m
        BY <2>2, <2>6, <3>1
      <3>3. m \in 1 .. n
        BY <2>2, <2>6, <3>2
      <3>4. c[d + m] = b[m]
        BY <2>5, <3>3
      <3>5. m \in S
        BY <2>8, <3>1, <3>2, <3>4
      <3> QED BY <3>2, <3>5
    <2>14. CASE S = {}
      <3>1. T = {}
        BY <2>13, <2>14
      <3> QED BY <2>10, <2>11, <2>14, <3>1
    <2>15. CASE S # {}
      <3>1. S \subseteq 1 .. n
        BY <2>2, <2>6, <2>8
      <3>2. Max(S) \in S /\ \A y \in S : y <= Max(S)
        BY <2>15, <3>1, GreatestLine
      <3>3. PICK m \in S : m = Max(S)
        BY <3>2
      <3>4. m \in 1 .. n
        BY <3>1
      <3>5. PICK x : x = d + m
        OBVIOUS
      <3>6. x \in T
        BY <2>12, <3>5
      <3>7. PICK l \in Nat : l = d + n
        OBVIOUS
      <3>8. ASSUME NEW y \in T PROVE y \in 1 .. l /\ y <= x
        <4>1. PICK j \in S : y = d + j
          BY <2>13
        <4>2. j \in 1 .. n
          BY <3>1
        <4>3. j <= m
          BY <3>2, <3>3
        <4> QED BY <3>4, <3>5, <3>7, <4>1, <4>2, <4>3
      <3>9. T \subseteq 1 .. l
        BY <3>8
      <3>10. \A y \in T : y <= x
        BY <3>8
      <3>11. Max(T) = x
        BY <3>6, <3>9, <3>10, MaxIsIt
      <3>12. c[x] = b[m]
        BY <2>5, <3>4, <3>5
      <3>13. T # {}
        BY <3>6
      <3> QED BY <2>10, <2>11, <2>15, <3>3, <3>11, <3>12, <3>13
    <2> QED BY <2>14, <2>15
  <1> QED BY <1>1, <1>2

\* What is right in b is right where b lies in c.
LEMMA ShowsMoves ==
    ASSUME NEW lines, NEW b, DialectLog(lines, b), NEW c, NEW d \in Nat, LiesAt(c, d, b),
           NEW q \in 1 .. Len(b), Regular(lines, c[LastCall(c, d + q)].line), c[d + q].ev = "var",
           c[(d + q) - 1].ev = "step"
    PROVE  ShownRight(lines[c[(d + q) - 1].line], c, d + q)
  <1>1. PICK n \in Nat : n = Len(b)
    BY DEF DialectLog
  <1>2. \A j \in 1 .. n : c[d + j] = b[j]
    BY <1>1 DEF LiesAt
  <1>3. q \in 1 .. n
    BY <1>1
  <1>4. c[d + q] = b[q]
    BY <1>2, <1>3
  <1>5. q # 1
    BY <1>4 DEF DialectLog
  <1>6. q - 1 \in 1 .. n /\ (d + q) - 1 = d + (q - 1)
    BY <1>3, <1>5
  <1>7. c[(d + q) - 1] = b[q - 1]
    BY <1>2, <1>6
  <1>8. PICK t : t = LastCall(b, q)
    OBVIOUS
  <1>9. t \in 1 .. n
    <2>1. t \in 1 .. q
      BY <1>8, LastCallIn
    <2> QED BY <1>3, <2>1
  <1>10. c[LastCall(c, d + q)] = b[t]
    <2>1. LastCall(c, d + q) = d + t
      BY <1>8, CallMoves
    <2> QED BY <1>2, <1>9, <2>1
  <1>11. PICK l : l = lines[b[q - 1].line]
    OBVIOUS
  <1>12. ShownRight(l, b, q)
    BY <1>1, <1>3, <1>4, <1>7, <1>8, <1>10, <1>11 DEF DialectLog, DialectShows
  <1>13. PICK x : x = d + q
    OBVIOUS
  <1>14. \A o : LastShown(c, x, o) = LastShown(b, q, o)
    BY <1>13, ShownMoves
  <1>15. c[x] = b[q]
    BY <1>4, <1>13
  <1>16. ShownRight(l, c, x)
    BY <1>12, <1>14, <1>15, Zenon DEF ShownRight
  <1> QED BY <1>7, <1>11, <1>13, <1>16

LEMMA DialectLogsJoin ==
    ASSUME NEW lines, NEW a, NEW b, DialectLog(lines, a), DialectLog(lines, b)
    PROVE  DialectLog(lines, a \o b)
  <1>1. PICK A : a \in Seq(A)
    BY DEF DialectLog
  <1>2. PICK B : b \in Seq(B)
    BY DEF DialectLog
  <1>3. PICK S : S = A \cup B
    OBVIOUS
  <1>4. a \in Seq(S) /\ b \in Seq(S)
    BY <1>1, <1>2, <1>3
  <1>5. PICK c : c = a \o b
    OBVIOUS
  <1>6. Composed(c, S, a, b)
    BY <1>4, <1>5, ComposedIs
  <1>7. PICK m \in Nat, n \in Nat : m = Len(a) /\ n = Len(b) /\ Len(c) = m + n
    BY <1>6 DEF Composed
  <1>8. LiesAt(c, 0, a) /\ LiesAt(c, m, b)
    BY <1>6, <1>7 DEF LiesAt, Composed
  <1>9. Len(c) > 0 => c[1].ev = "call"
    <2>1. CASE m > 0
      <3>1. 1 \in 1 .. m /\ a[1].ev = "call"
        BY <1>7, <2>1 DEF DialectLog
      <3>2. c[1] = a[1]
        BY <1>6, <1>7, <3>1 DEF Composed
      <3> QED BY <3>1, <3>2
    <2>2. CASE m = 0 /\ n > 0
      <3>1. 1 \in 1 .. n /\ b[1].ev = "call"
        BY <1>7, <2>2 DEF DialectLog
      <3>2. c[m + 1] = b[1]
        BY <1>6, <1>7, <3>1 DEF Composed
      <3> QED BY <2>2, <3>1, <3>2
    <2>3. CASE m = 0 /\ n = 0
      BY <1>7, <2>3
    <2> QED BY <2>1, <2>2, <2>3
  <1>10. ASSUME NEW k \in 1 .. m + n, Regular(lines, c[LastCall(c, k)].line), c[k].ev = "var",
                c[k - 1].ev = "step"
         PROVE  ShownRight(lines[c[k - 1].line], c, k)
    <2>1. CASE k <= m
      <3>1. PICK q : q = k
        OBVIOUS
      <3>2. 0 + q = k /\ q \in 1 .. Len(a) /\ 0 \in Nat
        BY <1>7, <2>1, <3>1
      <3>3. Regular(lines, c[LastCall(c, 0 + q)].line) /\ c[0 + q].ev = "var" /\ c[(0 + q) - 1].ev = "step"
        BY <1>10, <3>2
      <3>4. ShownRight(lines[c[(0 + q) - 1].line], c, 0 + q)
        BY <1>8, <3>2, <3>3, ShowsMoves
      <3> QED BY <3>2, <3>4
    <2>2. CASE k > m
      <3>1. PICK q : q = k - m
        OBVIOUS
      <3>2. m + q = k /\ q \in 1 .. Len(b)
        BY <1>7, <2>2, <3>1
      <3>3. Regular(lines, c[LastCall(c, m + q)].line) /\ c[m + q].ev = "var" /\ c[(m + q) - 1].ev = "step"
        BY <1>10, <3>2
      <3>4. ShownRight(lines[c[(m + q) - 1].line], c, m + q)
        BY <1>8, <3>2, <3>3, ShowsMoves
      <3> QED BY <3>2, <3>4
    <2> QED BY <2>1, <2>2
  <1>11. c \in Seq(S)
    BY <1>6 DEF Composed
  <1> QED BY <1>5, <1>7, <1>9, <1>10, <1>11 DEF DialectLog, DialectShows
LEMMA FunctionLog ==
    ASSUME NEW lines, NEW i, lines[i].kind = "function", NEW n, NEW w, WalkerOn(w, n),
           Regular(lines, i) => WalkRight(lines, i, w), NEW es, es = DialectEvents(lines, i, w)
    PROVE  DialectLog(lines, es)
  <1>1. PICK a \in Nat, s \in Nat : WalkLengths(w, a, s)
    BY DEF WalkerOn, WalkLengths
  <1>2. EntriesLaid(es, i, w, a, s)
    BY <1>1, DialectLaid
  <1>3. EntryKinds(es, a, s)
    BY <1>2, KindsOfEntries
  <1>4. PICK l \in Nat : l = Len(es)
    BY <1>3 DEF EntryKinds
  <1>5. es[1].ev = "call" /\ es[1].line = i /\ \E S : es \in Seq(S)
    BY <1>2 DEF EntriesLaid
  <1>6. ASSUME NEW k \in 1 .. l, Regular(lines, es[LastCall(es, k)].line), es[k].ev = "var",
               es[k - 1].ev = "step"
        PROVE  ShownRight(lines[es[k - 1].line], es, k)
    <2>1. 1 \in 1 .. l /\ k \in 1 .. l
      OBVIOUS
    <2>2. \A y \in 1 + 1 .. l : es[y].ev # "call"
      BY <1>3, <1>4 DEF EntryKinds
    <2>3. LastCall(es, k) = 1
      BY <1>5, <2>1, <2>2, LastCallIs
    <2>4. WalkRight(lines, i, w)
      BY <1>5, <1>6, <2>3
    <2>5. k # 1
      BY <1>5, <1>6
    <2>6. k \in 2 .. Len(es)
      BY <1>4, <2>5
    <2> QED BY <1>1, <1>2, <1>6, <2>4, <2>6, FunctionShownRight
  <1> QED BY <1>4, <1>5, <1>6 DEF DialectLog, DialectShows

\* The functions still to be shown, and what was found of the first.
WalksRight(lines, w, z) ==
    /\ \A k \in 1 .. Len(w) : lines[w[k]].kind = "function"
    /\ w # <<>> /\ Regular(lines, Head(w)) => WalkRight(lines, Head(w), z)

LEMMA StartsRight ==
    ASSUME NEW lines, NEW w, \A k \in 1 .. Len(w) : lines[w[k]].kind = "function"
    PROVE  WalksRight(lines, w, StartAt(w))
  <1>1. PICK z : z = StartAt(w)
    OBVIOUS
  <1>2. z.inputs = <<>> /\ z.shown = <<>> /\ z.output = <<>> /\ z.regs = <<>>
    BY <1>1 DEF StartAt, NoRegisters
  <1>3. Len(z.inputs) = 0 /\ Len(z.shown) = 0 /\ DOMAIN z.regs = {}
    BY <1>2
  <1>4. \A i : WalkRight(lines, i, z)
    BY <1>2, <1>3 DEF WalkRight, InputsRight, ValuesRight, RegistersRight, OutputRight, InputRegs
  <1> QED BY <1>1, <1>4 DEF WalksRight

DialectInv ==
    /\ PipeInv
    /\ stage = "legacy" => ~IsBareAleoDialect(text)
    /\ stage = "dialect" => IsBareAleoDialect(text)
    /\ IsBareAleoDialect(text) => DialectLog(source.bare, log)
    /\ stage = "dialect" => WalksRight(source.bare, walk, walker)

LEMMA DialectChosen ==
    ASSUME DialectInv, ChooseDialect
    PROVE  WalksRight(source.bare, walk', walker')
  <1>1. PICK lines : lines = source.bare
    OBVIOUS
  <1>2. PICK w : w = DialectFunctions(lines)
    OBVIOUS
  <1>3. IsAleoText(lines)
    BY <1>1, BareLines DEF DialectInv, PipeInv
  <1>4. PICK T : T = {k \in 1 .. Len(lines) : lines[k].kind \in {"function"}}
    OBVIOUS
  <1>5. PICK s : s = Numbers(lines)
    OBVIOUS
  <1>6. w = Select(s, T)
    BY <1>2, <1>4, <1>5, Zenon DEF DialectFunctions, Openings
  <1>7. PICK N : N = 1 .. Len(lines)
    OBVIOUS
  <1>8. s \in Seq(N)
    <2>1. Len(lines) \in Nat
      BY <1>3 DEF IsAleoText
    <2> QED BY <1>5, <1>7, <2>1 DEF Numbers
  <1>9. \A k \in 1 .. Len(w) : \E j \in 1 .. Len(s) : s[j] = w[k] /\ s[j] \in T
    BY <1>6, <1>8, SelectType
  <1>10. \A k \in 1 .. Len(w) : lines[w[k]].kind = "function"
    BY <1>4, <1>9
  <1>11. WalksRight(lines, w, StartAt(w))
    BY <1>10, StartsRight
  <1>12. walk' = w /\ walker' = StartAt(w)
    BY <1>1, <1>2 DEF ChooseDialect
  <1> QED BY <1>1, <1>11, <1>12

LEMMA LineRight ==
    ASSUME DialectInv, WalkDialectLine
    PROVE  WalksRight(source.bare, walk', walker')
  <1>1. PICK lines : lines = source.bare
    OBVIOUS
  <1>2. PICK w : w = walk
    OBVIOUS
  <1>3. PICK z : z = walker
    OBVIOUS
  <1>4. /\ DialectOn(lines, w, z) /\ w # <<>> /\ z.next <= DialectLast(lines, Head(w))
        /\ WalksRight(lines, w, z)
    BY <1>1, <1>2, <1>3 DEF DialectInv, PipeInv, EmissionInv, WalkDialectLine
  <1>5. PICK i : i = Head(w)
    OBVIOUS
  <1>6. PICK k : k = z.next
    OBVIOUS
  <1>7. PICK n \in Nat : n = Len(lines)
    BY <1>4 DEF DialectOn, IsAleoText
  <1>8. WalkerOn(z, n) /\ w \in Seq(1 .. n) /\ k \in Nat /\ i < k
    BY <1>4, <1>5, <1>6, <1>7 DEF DialectOn
  <1>9. i \in 1 .. n
    BY <1>4, <1>5, <1>8
  <1>10. k \in DialectBlock(lines, i)
    <2>1. PICK m : m = Len(BlockLines(lines, i, {"function"}))
      OBVIOUS
    <2>2. PICK S : lines \in Seq(S)
      BY <1>4 DEF DialectOn, IsAleoText
    <2>3. i \in 1 .. Len(lines)
      BY <1>7, <1>9
    <2>4. m \in Nat
      BY <2>1, <2>2, <2>3, BlockIsRun
    <2>5. DialectLast(lines, i) = i + m
      BY <2>1 DEF DialectLast
    <2> QED BY <1>4, <1>5, <1>6, <1>8, <1>9, <2>4, <2>5 DEF DialectBlock
  <1>11. PICK x : x = [Walked(z, lines, k) EXCEPT !.next = @ + 1]
    OBVIOUS
  <1>12. walk' = w /\ walker' = x
    BY <1>1, <1>2, <1>3, <1>6, <1>11, Zenon DEF WalkDialectLine
  <1>13. ASSUME Regular(lines, i) PROVE WalkRight(lines, i, x)
    <2>1. WalkRight(lines, i, z)
      BY <1>4, <1>5, <1>13 DEF WalksRight
    <2>2. DOMAIN z = WalkerFields /\ (\E S : z.inputs \in Seq(S)) /\ (\E S : z.shown \in Seq(S))
      BY <1>8 DEF WalkerOn
    <2>3. WalkAt(lines, i, z, k)
      BY <1>6, <1>8, <1>9, <1>10, <1>13, <2>1, <2>2 DEF WalkAt
    <2> QED BY <1>11, <2>2, <2>3, WalkedRight
  <1>14. WalksRight(lines, w, x)
    BY <1>4, <1>5, <1>13 DEF WalksRight
  <1> QED BY <1>1, <1>12, <1>14

LEMMA FunctionRight ==
    ASSUME DialectInv, EmitDialectFunction
    PROVE  DialectLog(source.bare, log') /\ WalksRight(source.bare, walk', walker')
  <1>1. PICK lines : lines = source.bare
    OBVIOUS
  <1>2. PICK w : w = walk
    OBVIOUS
  <1>3. PICK z : z = walker
    OBVIOUS
  <1>4. DialectOn(lines, w, z) /\ w # <<>> /\ WalksRight(lines, w, z) /\ DialectLog(lines, log)
    BY <1>1, <1>2, <1>3 DEF DialectInv, PipeInv, EmissionInv, EmitDialectFunction
  <1>5. PICK i : i = Head(w)
    OBVIOUS
  <1>6. PICK es : es = DialectEvents(lines, i, z)
    OBVIOUS
  <1>7. PICK n : n = Len(lines)
    OBVIOUS
  <1>8. WalkerOn(z, n) /\ w \in Seq(1 .. n)
    BY <1>4, <1>7 DEF DialectOn
  <1>9. PICK l \in Nat : l = Len(w) /\ l > 0
    BY <1>4, <1>8
  <1>10. i = w[1] /\ 1 \in 1 .. l
    BY <1>4, <1>5, <1>8, <1>9
  <1>11. lines[i].kind = "function"
    BY <1>4, <1>9, <1>10 DEF WalksRight
  <1>12. Regular(lines, i) => WalkRight(lines, i, z)
    BY <1>4, <1>5 DEF WalksRight
  <1>13. DialectLog(lines, es)
    BY <1>6, <1>8, <1>11, <1>12, FunctionLog
  <1>14. DialectLog(lines, log \o es)
    BY <1>4, <1>13, DialectLogsJoin
  <1>15. PICK t : t = Tail(w)
    OBVIOUS
  <1>16. Len(t) = l - 1 /\ \A k \in 1 .. l - 1 : t[k] = w[k + 1]
    BY <1>4, <1>8, <1>9, <1>15
  <1>17. \A k \in 1 .. Len(t) : lines[t[k]].kind = "function"
    <2> SUFFICES ASSUME NEW k \in 1 .. l - 1 PROVE lines[t[k]].kind = "function"
      BY <1>16
    <2>1. k + 1 \in 1 .. l /\ t[k] = w[k + 1]
      BY <1>16
    <2> QED BY <1>4, <1>9, <2>1 DEF WalksRight
  <1>18. WalksRight(lines, t, StartAt(t))
    BY <1>17, StartsRight
  <1>19. log' = log \o es /\ walk' = t /\ walker' = StartAt(t)
    BY <1>1, <1>2, <1>3, <1>5, <1>6, <1>15 DEF EmitDialectFunction
  <1> QED BY <1>1, <1>14, <1>18, <1>19

LEMMA DialectStep == DialectInv /\ [PipelineNext]_allVars => DialectInv'
  <1> SUFFICES ASSUME DialectInv, [PipelineNext]_allVars PROVE DialectInv'
    OBVIOUS
  <1>1. PipeInv'
    BY PipeStep DEF DialectInv
  <1>2. source' = source /\ text' = text
    BY SourceStays DEF srcVars, text
  <1>3. PICK bare : bare <=> IsBareAleoDialect(text)
    OBVIOUS
  <1>4. IsBareAleoDialect(text)' <=> bare
    BY <1>2, <1>3
  <1>5. CASE ChooseDialect
    <2>1. stage' = "dialect" /\ log' = log /\ bare
      BY <1>3, <1>5 DEF ChooseDialect, Goto
    <2>2. WalksRight(source.bare, walk', walker')
      BY <1>5, DialectChosen
    <2> QED BY <1>1, <1>2, <1>3, <1>4, <2>1, <2>2 DEF DialectInv
  <1>6. CASE WalkDialectLine
    <2>1. stage = "dialect" /\ stage' # "legacy" /\ log' = log
      BY <1>6 DEF WalkDialectLine, Goto, End
    <2>2. WalksRight(source.bare, walk', walker')
      BY <1>6, LineRight
    <2> QED BY <1>1, <1>2, <1>3, <1>4, <2>1, <2>2 DEF DialectInv
  <1>7. CASE EmitDialectFunction
    <2>1. stage = "dialect" /\ stage' = "dialect"
      BY <1>7 DEF EmitDialectFunction
    <2>2. DialectLog(source.bare, log') /\ WalksRight(source.bare, walk', walker')
      BY <1>7, FunctionRight
    <2> QED BY <1>1, <1>2, <1>3, <1>4, <2>1, <2>2 DEF DialectInv
  <1>8. CASE ChooseLegacy \/ LegacyCall \/ LegacyReturn
    <2>1. ~bare
      BY <1>3, <1>8 DEF DialectInv, ChooseLegacy, LegacyCall, LegacyReturn
    <2>2. stage' # "dialect"
      BY <1>8 DEF ChooseLegacy, LegacyCall, LegacyReturn, Goto, End
    <2> QED BY <1>1, <1>4, <2>1, <2>2 DEF DialectInv
  <1>9. CASE ~(ChooseDialect \/ WalkDialectLine \/ EmitDialectFunction \/ ChooseLegacy \/ LegacyCall
               \/ LegacyReturn) /\ Pipeline
    <2>1. log' = log /\ stage' \notin {"dialect", "legacy"}
      BY <1>9 DEF Pipeline, CompileViaCli, CompileViaFallback, ParseAleo, BeginExecution,
                  Execution, Executed, MapVariables, ChooseStructured, DialectEmitted,
                  LegacyEmitted, Goto, End, pipeVars
    <2> QED BY <1>1, <1>2, <1>3, <1>4, <2>1 DEF DialectInv
  <1>10. CASE UNCHANGED allVars
    <2>1. log' = log /\ stage' = stage /\ walk' = walk /\ walker' = walker
      BY <1>10 DEF allVars, pipeVars
    <2> QED BY <1>1, <1>2, <1>3, <1>4, <2>1 DEF DialectInv
  <1> QED BY <1>5, <1>6, <1>7, <1>8, <1>9, <1>10 DEF PipelineNext, Ended

\* What is shown of a bare source follows from itself: in a function whose
\* inputs come first and are set once, the value on every instruction's line is
\* what the instruction makes of the values last shown of its operands, although
\* the arguments are read when the function has been walked
\* (emit_aleo_dialect_trace, tracer.rs).
THEOREM DialectIsConsistent == PipelineSpec => []DialectSelfConsistent
  <1>1. DialectInv => DialectSelfConsistent
    BY DEF DialectInv, DialectLog, DialectSelfConsistent
  <1>2. PipelineInit => DialectInv
    <2> SUFFICES ASSUME PipelineInit PROVE DialectInv
      OBVIOUS
    <2>1. PipeInv
      BY PipeStarts
    <2>2. stage = "compile" /\ log = <<>>
      BY DEF PipelineInit
    <2>3. <<>> \in Seq({}) /\ Len(<<>>) = 0
      OBVIOUS
    <2>4. DialectLog(source.bare, log)
      BY <2>2, <2>3 DEF DialectLog, DialectShows
    <2> QED BY <2>1, <2>2, <2>4 DEF DialectInv
  <1>3. DialectInv /\ [PipelineNext]_allVars => DialectInv'
    BY DialectStep
  <1> QED BY <1>1, <1>2, <1>3, PTL DEF PipelineSpec

----------------------------------------------------------------------------
(* The variables of a source, binding by binding *)

TermAt(src, f, k) == src[f.bindings[k].line].expr.term

NamesTo(f, k) == {f.bindings[j].name : j \in 1 .. k}

\* The value of binding k among the bindings before it.
BoundValue(src, f, k) == ExprValue(Environment(src, f, k - 1), TermAt(src, f, k))

LEMMA QuotientInt ==
    ASSUME NEW a \in Int, NEW b \in Int, b # 0
    PROVE  Quotient(a, b) \in Int
  <1> DEFINE x == IF a < 0 THEN -a ELSE a
             y == IF b < 0 THEN -b ELSE b
  <1>1. x \in Nat /\ y \in Nat \ {0}
    OBVIOUS
  <1>2. PICK q : q = x \div y
    OBVIOUS
  <1>3. q \in Nat
    BY <1>1, <1>2, NaturalQuotient
  <1>4. Quotient(a, b) = IF (a < 0) # (b < 0) THEN -q ELSE q
    BY <1>2 DEF Quotient
  <1> QED BY <1>3, <1>4

LEMMA PayloadIs == Payload = Int64 /\ Payload \subseteq Int
  BY PayloadAssumption, Half64Assumption, HalfAssumption DEF Payload, Int64

LEMMA LeafInt ==
    ASSUME NEW X, NEW env \in [X -> Int], NEW a \in [literal : Payload] \cup [name : X]
    PROVE  LeafValue(env, a) \in Int
  <1>1. CASE a \in [literal : Payload]
    <2>1. "literal" \in DOMAIN a /\ a.literal \in Payload
      BY <1>1
    <2> QED BY <2>1, PayloadIs DEF LeafValue
  <1>2. CASE a \in [name : X]
    <2>1. "literal" \notin DOMAIN a /\ a.name \in X
      BY <1>2
    <2> QED BY <2>1 DEF LeafValue
  <1> QED BY <1>1, <1>2

\* What a simple binding states is an integer.
LEMMA SimpleInt ==
    ASSUME NEW X, NEW env \in [X -> Int], NEW leaves, leaves = [literal : Payload] \cup [name : X],
           NEW e, IsLeaf(e, leaves) \/ IsOperation(e, leaves)
    PROVE  ExprValue(env, e.term) \in Int
  <1>1. PICK t : t = e.term
    OBVIOUS
  <1>2. CASE "op" \notin DOMAIN t
    <2>1. t \in leaves
      BY <1>1, <1>2 DEF IsLeaf, IsOperation
    <2>2. LeafValue(env, t) \in Int
      BY <2>1, LeafInt
    <2> QED BY <1>1, <1>2, <2>2 DEF ExprValue
  <1>3. CASE "op" \in DOMAIN t
    <2>1. t \notin leaves
      <3>1. \A a \in [literal : Payload] : "op" \notin DOMAIN a
        OBVIOUS
      <3>2. \A a \in [name : X] : "op" \notin DOMAIN a
        OBVIOUS
      <3> QED BY <1>3, <3>1, <3>2
    <2>2. t.op \in Operators /\ t.left \in leaves /\ t.right \in leaves
      BY <1>1, <2>1 DEF IsLeaf, IsOperation
    <2>3. PICK a, b : a = LeafValue(env, t.left) /\ b = LeafValue(env, t.right)
      OBVIOUS
    <2>4. a \in Int /\ b \in Int
      <3>1. PICK l, r : l = t.left /\ r = t.right
        OBVIOUS
      <3>2. l \in leaves /\ r \in leaves
        BY <2>2, <3>1
      <3> QED BY <2>3, <3>1, <3>2, LeafInt
    <2>5. CASE FailsAt(env, t)
      BY <1>1, <1>3, <2>5 DEF ExprValue
    <2>6. CASE ~FailsAt(env, t)
      <3>1. ExprValue(env, t) = Binary(t.op, a, b)
        BY <1>3, <2>3, <2>6 DEF ExprValue
      <3>2. t.op = "div" => b # 0
        BY <1>3, <2>3, <2>6 DEF FailsAt
      <3>3. PICK op : op = t.op
        OBVIOUS
      <3>4. Binary(op, a, b) \in Int
        <4>1. Int64 \subseteq Int
          BY PayloadIs
        <4>2. a + b \in Int /\ a - b \in Int /\ a * b \in Int
          BY <2>4
        <4>3. Wrapping(a + b) \in Int /\ Wrapping(a - b) \in Int /\ Wrapping(a * b) \in Int
          BY <4>1, <4>2, WrappingInt64
        <4>4. op = "div" => Quotient(a, b) \in Int
          BY <2>4, <3>2, <3>3, QuotientInt
        <4>5. op \in {"add", "sub", "mul", "div"}
          BY <2>2, <3>3 DEF Operators
        <4>6. CASE op = "add"
          BY <4>3, <4>6 DEF Binary
        <4>7. CASE op = "sub"
          BY <4>3, <4>7 DEF Binary
        <4>8. CASE op = "mul"
          BY <4>3, <4>8 DEF Binary
        <4>9. CASE op = "div"
          BY <4>4, <4>9 DEF Binary
        <4> QED BY <4>5, <4>6, <4>7, <4>8, <4>9
      <3> QED BY <1>1, <3>1, <3>3, <3>4
    <2> QED BY <2>5, <2>6
  <1> QED BY <1>2, <1>3

LEMMA InsertInt ==
    ASSUME NEW X, NEW env \in [X -> Int], NEW x, NEW v \in Int, NEW Y, Y = X \cup {x}
    PROVE  Insert(env, x, v) \in [Y -> Int]
  BY DEF Insert
\* What the bindings before binding k are called, one more for the next.
LEMMA NamesGrow ==
    ASSUME NEW f, NEW k \in Nat \ {0}
    PROVE  /\ NamesTo(f, k) = NamesTo(f, k - 1) \cup {f.bindings[k].name}
           /\ NamesTo(f, 0) = {}
           /\ LeavesAt(f, k) = [literal : Payload] \cup [name : NamesTo(f, k - 1)]
  <1>1. 1 .. k = (1 .. k - 1) \cup {k} /\ 1 .. 0 = {}
    OBVIOUS
  <1>2. NamesTo(f, k) = NamesTo(f, k - 1) \cup {f.bindings[k].name}
    BY <1>1 DEF NamesTo
  <1>3. NamesTo(f, 0) = {}
    BY DEF NamesTo
  <1> QED BY <1>2, <1>3 DEF LeavesAt, NamesTo

EnvTable(u, src, f, n) ==
    /\ u[0] = <<>>
    /\ \A k \in 1 .. n : u[k] = Insert(u[k - 1], f.bindings[k].name, ExprValue(u[k - 1], TermAt(src, f, k)))
    /\ \A k \in 0 .. n : u[k] \in [NamesTo(f, k) -> Int]

LEMMA EnvExists ==
    ASSUME NEW src, NEW f, NEW n \in Nat, n = Len(f.bindings), Simple(src, f)
    PROVE  \E u : EnvTable(u, src, f, n)
  <1>1. PICK S : S = UNION {[D -> Int] : D \in SUBSET NamesTo(f, n)}
    OBVIOUS
  <1> DEFINE next(k, x) == Insert(x, f.bindings[k].name, ExprValue(x, TermAt(src, f, k)))
  <1>2. PICK step : step = [p \in Nat \X S |->
                              IF p[1] \in 1 .. n /\ next(p[1], p[2]) \in S THEN next(p[1], p[2]) ELSE p[2]]
    OBVIOUS
  <1>3. ASSUME NEW k \in Nat, NEW x \in S PROVE step[<<k, x>>] \in S
    BY <1>2
  <1>4. <<>> \in S
    <2>1. <<>> \in [{} -> Int]
      OBVIOUS
    <2> QED BY <1>1, <2>1
  <1>5. PICK u : Recurs(u, S, <<>>, step, n)
    BY <1>3, <1>4, Recursion
  <1>6. u \in [0 .. n -> S] /\ u[0] = <<>> /\ \A k \in 1 .. n : u[k] = step[<<k, u[k - 1]>>]
    BY <1>5 DEF Recurs
  <1>7. ASSUME NEW k \in 1 .. n, u[k - 1] \in [NamesTo(f, k - 1) -> Int]
        PROVE  u[k] = next(k, u[k - 1]) /\ u[k] \in [NamesTo(f, k) -> Int]
    <2>1. PICK env, e : env = u[k - 1] /\ e = src[f.bindings[k].line].expr
      OBVIOUS
    <2>2. PICK leaves : leaves = LeavesAt(f, k)
      OBVIOUS
    <2>3. IsLeaf(e, leaves) \/ IsOperation(e, leaves)
      BY <2>1, <2>2 DEF Simple
    <2>4. PICK X : X = NamesTo(f, k - 1)
      OBVIOUS
    <2>5. k \in Nat \ {0}
      OBVIOUS
    <2>6. leaves = [literal : Payload] \cup [name : X] /\ NamesTo(f, k) = X \cup {f.bindings[k].name}
      BY <2>2, <2>4, <2>5, NamesGrow
    <2>7. env \in [X -> Int]
      BY <1>7, <2>1, <2>4
    <2>8. ExprValue(env, e.term) \in Int
      BY <2>3, <2>6, <2>7, SimpleInt
    <2>9. PICK v, x : v = ExprValue(env, e.term) /\ x = f.bindings[k].name
      OBVIOUS
    <2>10. Insert(env, x, v) \in [NamesTo(f, k) -> Int]
      <3>1. PICK Y : Y = X \cup {x}
        OBVIOUS
      <3>2. v \in Int /\ env \in [X -> Int]
        BY <2>7, <2>8, <2>9
      <3>3. Insert(env, x, v) \in [Y -> Int]
        BY <3>1, <3>2, InsertInt
      <3> QED BY <2>6, <2>9, <3>1, <3>3
    <2>11. next(k, env) = Insert(env, x, v)
      BY <2>1, <2>9 DEF TermAt
    <2>12. NamesTo(f, k) \subseteq NamesTo(f, n)
      BY DEF NamesTo
    <2>13. next(k, env) \in S
      BY <1>1, <2>10, <2>11, <2>12
    <2>14. env \in S /\ k \in Nat
      BY <1>6, <2>1
    <2>15. step[<<k, env>>] = next(k, env)
      <3> HIDE DEF next
      <3> QED BY <1>2, <2>13, <2>14
    <2> HIDE DEF next
    <2> QED BY <1>6, <2>1, <2>10, <2>11, <2>15
  <1> DEFINE T == {k \in Nat : k <= n => u[k] \in [NamesTo(f, k) -> Int]}
  <1>8. \A k \in Nat : k \in T
    <2>1. 0 \in T
      <3>1. NamesTo(f, 0) = {}
        BY DEF NamesTo
      <3>2. <<>> \in [{} -> Int]
        OBVIOUS
      <3> QED BY <1>6, <3>1, <3>2
    <2>2. ASSUME NEW k \in Nat, k \in T PROVE k + 1 \in T
      <3> SUFFICES ASSUME k + 1 <= n PROVE u[k + 1] \in [NamesTo(f, k + 1) -> Int]
        OBVIOUS
      <3>1. k + 1 \in 1 .. n /\ (k + 1) - 1 = k /\ u[k] \in [NamesTo(f, k) -> Int]
        BY <2>2
      <3> HIDE DEF T, next
      <3> QED BY <1>7, <3>1
    <2> HIDE DEF T
    <2> QED BY <2>1, <2>2, NatSetInduction
  <1>9. \A k \in 0 .. n : u[k] \in [NamesTo(f, k) -> Int]
    BY <1>8
  <1>10. \A k \in 1 .. n : u[k] = Insert(u[k - 1], f.bindings[k].name, ExprValue(u[k - 1], TermAt(src, f, k)))
    <2> TAKE k \in 1 .. n
    <2>1. k - 1 \in 0 .. n
      OBVIOUS
    <2>2. u[k] = next(k, u[k - 1])
      <3> HIDE DEF next
      <3> QED BY <1>7, <1>9, <2>1
    <2> QED BY <2>2
  <1>11. EnvTable(u, src, f, n)
    BY <1>6, <1>9, <1>10 DEF EnvTable
  <1> QED BY <1>11

\* The variables are those of the table.
LEMMA EnvIs ==
    ASSUME NEW src, NEW f, NEW n \in Nat, NEW u, EnvTable(u, src, f, n), NEW k \in 0 .. n
    PROVE  Environment(src, f, k) = u[k]
  <1> DEFINE P(w) == w = [m \in 0 .. k |->
                            IF m = 0 THEN <<>>
                            ELSE Insert(w[m - 1], f.bindings[m].name,
                                        ExprValue(w[m - 1], src[f.bindings[m].line].expr.term))]
  <1>1. Environment(src, f, k) = (CHOOSE w : P(w))[k]
    BY DEF Environment
  <1>2. PICK v : v = [m \in 0 .. k |-> u[m]]
    OBVIOUS
  <1>3. k \in Nat /\ \A m \in 0 .. k : v[m] = u[m]
    BY <1>2
  <1>4. ASSUME NEW m \in 0 .. k
        PROVE  v[m] = IF m = 0 THEN <<>>
                      ELSE Insert(v[m - 1], f.bindings[m].name,
                                  ExprValue(v[m - 1], src[f.bindings[m].line].expr.term))
    <2>1. CASE m = 0
      BY <1>3, <2>1 DEF EnvTable
    <2>2. CASE m # 0
      <3>1. m \in 1 .. n /\ m - 1 \in 0 .. k
        BY <2>2
      <3>2. u[m] = Insert(u[m - 1], f.bindings[m].name, ExprValue(u[m - 1], TermAt(src, f, m)))
        BY <3>1 DEF EnvTable
      <3>3. v[m] = u[m] /\ v[m - 1] = u[m - 1]
        BY <1>3, <3>1
      <3> QED BY <2>2, <3>2, <3>3 DEF TermAt
    <2> QED BY <2>1, <2>2
  <1>5. P(v)
    BY <1>2, <1>3, <1>4
  <1>6. PICK w : w = CHOOSE x : P(x)
    OBVIOUS
  <1>7. P(w)
    <2> HIDE DEF P
    <2> QED BY <1>5, <1>6
  <1> DEFINE T == {m \in Nat : m <= k => w[m] = v[m]}
  <1>8. \A m \in Nat : m \in T
    <2>1. 0 \in T
      BY <1>5, <1>7
    <2>2. ASSUME NEW m \in Nat, m \in T PROVE m + 1 \in T
      <3> SUFFICES ASSUME m + 1 <= k PROVE w[m + 1] = v[m + 1]
        OBVIOUS
      <3>1. m + 1 \in 0 .. k /\ m + 1 # 0 /\ (m + 1) - 1 = m /\ w[m] = v[m]
        BY <2>2
      <3>2. w[m + 1] = Insert(w[m], f.bindings[m + 1].name,
                              ExprValue(w[m], src[f.bindings[m + 1].line].expr.term))
        BY <1>7, <3>1
      <3> QED BY <1>4, <3>1, <3>2
    <2> HIDE DEF T
    <2> QED BY <2>1, <2>2, NatSetInduction
  <1>9. w[k] = v[k]
    BY <1>3, <1>8
  <1> HIDE DEF P
  <1> QED BY <1>1, <1>3, <1>6, <1>9

\* A variable is what its last binding states.
LEMMA LastBindingHolds ==
    ASSUME NEW src, NEW f, NEW n \in Nat, n = Len(f.bindings), Simple(src, f), NEW k \in 0 .. n
    PROVE  /\ Environment(src, f, k) \in [NamesTo(f, k) -> Int]
           /\ \A m \in 1 .. k : (\A j \in m + 1 .. k : f.bindings[j].name # f.bindings[m].name) =>
                  Environment(src, f, k)[f.bindings[m].name] = BoundValue(src, f, m)
  <1>1. PICK u : EnvTable(u, src, f, n)
    BY EnvExists
  <1>2. \A j \in 0 .. n : Environment(src, f, j) = u[j]
    BY <1>1, EnvIs
  <1>3. \A j \in 0 .. n : u[j] \in [NamesTo(f, j) -> Int]
    BY <1>1 DEF EnvTable
  <1>4. ASSUME NEW m \in 1 .. k, \A j \in m + 1 .. k : f.bindings[j].name # f.bindings[m].name
        PROVE  u[k][f.bindings[m].name] = BoundValue(src, f, m)
    <2>1. PICK x, v : x = f.bindings[m].name /\ v = BoundValue(src, f, m)
      OBVIOUS
    <2>2. \A j \in 1 .. n : u[j] = Insert(u[j - 1], f.bindings[j].name, ExprValue(u[j - 1], TermAt(src, f, j)))
      BY <1>1 DEF EnvTable
    <2> DEFINE T == {j \in Nat : j >= m /\ j <= k => x \in DOMAIN u[j] /\ u[j][x] = v}
    <2>3. ASSUME NEW j \in Nat, j >= m, j <= k, j - 1 >= m => x \in DOMAIN u[j - 1] /\ u[j - 1][x] = v
          PROVE  x \in DOMAIN u[j] /\ u[j][x] = v
      <3>1. j \in 1 .. n /\ j - 1 \in 0 .. n
        BY <2>3
      <3>2. PICK env, y, w : env = u[j - 1] /\ y = f.bindings[j].name /\ w = ExprValue(env, TermAt(src, f, j))
        OBVIOUS
      <3>3. u[j] = Insert(env, y, w)
        BY <2>2, <3>1, <3>2
      <3>4. CASE j = m
        <4>1. y = x /\ w = v
          <5>1. Environment(src, f, j - 1) = u[j - 1]
            BY <1>2, <3>1
          <5> QED BY <2>1, <3>2, <3>4, <5>1 DEF BoundValue
        <4> QED BY <3>3, <4>1 DEF Insert
      <3>5. CASE j # m
        <4>1. j \in m + 1 .. k /\ j - 1 >= m
          BY <2>3, <3>5
        <4>2. y # x /\ x \in DOMAIN env /\ env[x] = v
          BY <1>4, <2>1, <2>3, <3>2, <4>1
        <4> QED BY <3>3, <4>2 DEF Insert
      <3> QED BY <3>4, <3>5
    <2>4. \A j \in Nat : j \in T
      <3>1. 0 \in T
        OBVIOUS
      <3>2. ASSUME NEW j \in Nat, j \in T PROVE j + 1 \in T
        <4> SUFFICES ASSUME j + 1 >= m, j + 1 <= k PROVE x \in DOMAIN u[j + 1] /\ u[j + 1][x] = v
          OBVIOUS
        <4>1. j + 1 \in Nat /\ (j + 1) - 1 = j
          OBVIOUS
        <4>2. (j + 1) - 1 >= m => x \in DOMAIN u[(j + 1) - 1] /\ u[(j + 1) - 1][x] = v
          BY <3>2, <4>1
        <4> HIDE DEF T
        <4> QED BY <2>3, <4>1, <4>2
      <3> HIDE DEF T
      <3> QED BY <3>1, <3>2, NatSetInduction
    <2>5. k \in Nat /\ k >= m
      OBVIOUS
    <2> QED BY <2>1, <2>4, <2>5
  <1>5. k \in 0 .. n
    OBVIOUS
  <1> QED BY <1>2, <1>3, <1>4, <1>5
----------------------------------------------------------------------------
(* What the fallback makes of a simple binding *)

AnyLeaf(X) == [literal : Payload] \cup [name : X]

\* A leaf is one word, and read as what it is.
LEMMA LeafText ==
    ASSUME NEW X, NEW a \in AnyLeaf(X), NEW ts, WritesLeaf(ts, a)
    PROVE  /\ Len(ts) \in {1, 2} /\ OneWord(ts)
           /\ "literal" \in DOMAIN a => LeafOf(ts, 1, Len(ts)) = [op |-> "lit", value |-> a.literal]
           /\ "literal" \notin DOMAIN a => LeafOf(ts, 1, Len(ts)) = [op |-> "var", name |-> a.name]
           /\ ts[Len(ts)] \notin {OpenParen, CloseParen} /\ ~IsOperator(ts[Len(ts)])
           /\ Len(ts) = 2 => IsOperator(ts[1])
           /\ Len(ts) = 1 => ts = <<a>>
  <1> DEFINE number(n) == IF n \in Payload THEN [op |-> "lit", value |-> n] ELSE [op |-> "unknown"]
  <1>1. CASE "literal" \in DOMAIN a
    <2>1. a = [literal |-> a.literal] /\ a.literal \in Payload /\ DOMAIN a = {"literal"}
      BY <1>1 DEF AnyLeaf
    <2>2. PICK v : v = a.literal
      OBVIOUS
    <2>3. v \in Int
      BY <2>1, <2>2, PayloadIs
    <2>4. number(v) = [op |-> "lit", value |-> a.literal]
      BY <2>1, <2>2
    <2>5. CASE v < 0
      <3>1. Len(ts) = 2 /\ IsOperator(ts[1]) /\ ts[1].op = "sub" /\ ts[2] = [literal |-> -v]
        BY <1>1, <2>2, <2>5 DEF WritesLeaf
      <3>2. "literal" \in DOMAIN ts[2] /\ ts[2].literal = -v /\ DOMAIN ts[2] = {"literal"}
        BY <3>1
      <3>3. LeafOf(ts, 1, 2) = number(-ts[2].literal)
        BY <3>1, <3>2 DEF LeafOf
      <3>4. -ts[2].literal = v
        BY <2>3, <3>2
      <3>5. ts[2] \notin {OpenParen, CloseParen} /\ ~IsOperator(ts[2])
        <4>1. DOMAIN OpenParen = {"paren"} /\ DOMAIN CloseParen = {"paren"}
          BY DEF OpenParen, CloseParen
        <4> QED BY <3>2, <4>1 DEF IsOperator
      <3>6. OneWord(ts)
        BY <3>1, <3>5 DEF OneWord
      <3> HIDE DEF number
      <3> QED BY <1>1, <2>4, <3>1, <3>3, <3>4, <3>5, <3>6
    <2>6. CASE ~(v < 0)
      <3>1. ts = <<a>>
        BY <2>2, <2>6 DEF WritesLeaf
      <3>2. Len(ts) = 1 /\ ts[1] = a
        BY <3>1
      <3>3. LeafOf(ts, 1, 1) = number(v)
        BY <1>1, <2>2, <3>2 DEF LeafOf
      <3>4. a \notin {OpenParen, CloseParen} /\ ~IsOperator(a)
        <4>1. DOMAIN OpenParen = {"paren"} /\ DOMAIN CloseParen = {"paren"}
          BY DEF OpenParen, CloseParen
        <4> QED BY <2>1, <4>1 DEF IsOperator
      <3>5. OneWord(ts)
        BY <3>2 DEF OneWord
      <3> HIDE DEF number
      <3> QED BY <1>1, <2>4, <3>1, <3>2, <3>3, <3>4, <3>5
    <2> QED BY <2>5, <2>6
  <1>2. CASE "literal" \notin DOMAIN a
    <2>1. a \in [name : X] /\ DOMAIN a = {"name"}
      <3>1. \A b \in [literal : Payload] : "literal" \in DOMAIN b
        OBVIOUS
      <3>2. a \in [name : X]
        BY <1>2, <3>1 DEF AnyLeaf
      <3> QED BY <3>2
    <2>2. ts = <<a>>
      BY <1>2 DEF WritesLeaf
    <2>3. Len(ts) = 1 /\ ts[1] = a
      BY <2>2
    <2>4. LeafOf(ts, 1, 1) = [op |-> "var", name |-> a.name]
      BY <1>2, <2>1, <2>3 DEF LeafOf
    <2>5. a \notin {OpenParen, CloseParen} /\ ~IsOperator(a)
      <3>1. DOMAIN OpenParen = {"paren"} /\ DOMAIN CloseParen = {"paren"}
        BY DEF OpenParen, CloseParen
      <3> QED BY <2>1, <3>1 DEF IsOperator
    <2>6. OneWord(ts)
      BY <2>3 DEF OneWord
    <2> QED BY <1>2, <2>2, <2>3, <2>4, <2>5, <2>6
  <1> QED BY <1>1, <1>2

\* Binding m is the last one called x before binding k.
LastBefore(bindings, k, x, m) ==
    m \in 1 .. k - 1 /\ bindings[m].name = x /\ \A j \in m + 1 .. k - 1 : bindings[j].name # x

\* A leaf becomes its number or the register of the last binding of its name.
LEMMA LeafCompiles ==
    ASSUME NEW bindings, NEW k \in Nat \ {0}, NEW X, X = {bindings[j].name : j \in 1 .. k - 1},
           NEW a \in AnyLeaf(X), NEW ts, WritesLeaf(ts, a)
    PROVE  /\ "literal" \in DOMAIN a => CompiledOperand(bindings, k, ts) = <<[literal |-> a.literal]>>
           /\ "literal" \notin DOMAIN a =>
                  \E m : LastBefore(bindings, k, a.name, m) /\ CompiledOperand(bindings, k, ts) = <<[reg |-> m - 1]>>
  <1>1. PICK leaf : leaf = LeafOf(ts, 1, Len(ts))
    OBVIOUS
  <1>2. PICK r : r = RegisterOf(bindings, k, leaf.name)
    OBVIOUS
  <1>3. CompiledOperand(bindings, k, ts) =
            CASE leaf.op = "lit" -> <<[literal |-> leaf.value]>>
              [] leaf.op = "var" /\ r # <<>> -> <<[reg |-> r[1]]>>
              [] OTHER -> <<>>
    BY <1>1, <1>2, Zenon DEF CompiledOperand
  <1>4. CASE "literal" \in DOMAIN a
    <2>1. leaf = [op |-> "lit", value |-> a.literal]
      BY <1>1, <1>4, LeafText
    <2> QED BY <1>3, <1>4, <2>1
  <1>5. CASE "literal" \notin DOMAIN a
    <2>1. leaf = [op |-> "var", name |-> a.name]
      BY <1>1, <1>5, LeafText
    <2>2. leaf.op = "var" /\ leaf.name = a.name
      BY <2>1
    <2>3. PICK x : x = a.name
      OBVIOUS
    <2>4. r = RegisterOf(bindings, k, x)
      BY <1>2, <2>2, <2>3
    <2>5. x \in X
      <3>1. \A b \in [literal : Payload] : "literal" \in DOMAIN b
        OBVIOUS
      <3>2. a \in [name : X]
        BY <1>5, <3>1 DEF AnyLeaf
      <3> QED BY <2>3, <3>2
    <2>6. r # <<>>
      <3>1. PICK js : js = {j \in 1 .. k - 1 : bindings[j].name = x}
        OBVIOUS
      <3>2. r = IF js = {} THEN <<>> ELSE <<Max(js) - 1>>
        BY <2>4, <3>1, Zenon DEF RegisterOf
      <3>3. js # {}
        BY <2>5, <3>1
      <3>4. PICK y : y = Max(js) - 1
        OBVIOUS
      <3>5. r = <<y>>
        BY <3>2, <3>3, <3>4
      <3> QED BY <3>5
    <2>7. k \in Nat
      OBVIOUS
    <2>8. PICK q : q = r[1]
      OBVIOUS
    <2>9. /\ q \in 0 .. k - 2 /\ bindings[q + 1].name = x
          /\ \A j \in q + 2 .. k - 1 : bindings[j].name # x
      BY <2>4, <2>6, <2>7, <2>8, RegisterIs
    <2>10. PICK m : m = q + 1
      OBVIOUS
    <2>11. LastBefore(bindings, k, x, m) /\ m - 1 = q
      <3>1. m \in 1 .. k - 1 /\ m - 1 = q /\ m + 1 = q + 2
        BY <2>9, <2>10
      <3> QED BY <2>9, <2>10, <3>1 DEF LastBefore
    <2>12. CompiledOperand(bindings, k, ts) = <<[reg |-> q]>>
      BY <1>3, <2>2, <2>6, <2>8
    <2> QED BY <1>5, <2>3, <2>11, <2>12
  <1> QED BY <1>4, <1>5

\* Two words or less are not split.
LEMMA LeafNotSplit ==
    ASSUME NEW ts, Len(ts) \in {1, 2}
    PROVE  FallbackSplit(ts) = 0
  <1> SUFFICES ASSUME FallbackSplit(ts) # 0 PROVE FALSE
    OBVIOUS
  <1>1. Len(ts) \in Nat
    OBVIOUS
  <1>2. FallbackSplit(ts) \in 2 .. Len(ts) - 1
    BY <1>1, SplitIs
  <1>3. PICK n, k : n = Len(ts) /\ k = FallbackSplit(ts)
    OBVIOUS
  <1>4. k \in 2 .. n - 1 /\ n \in {1, 2}
    BY <1>2, <1>3
  <1> QED BY <1>4

\* Tokens without parentheses are split at their only operator.
LEMMA OperationSplit ==
    ASSUME NEW ts, NEW n \in Nat, n = Len(ts), n > 2, IsOperator(ts[n - 1]), ts[n - 1].op \in Operators,
           \A m \in 1 .. n - 1 : ts[m] \notin {OpenParen, CloseParen},
           \A m \in 2 .. n - 2 : ~IsOperator(ts[m])
    PROVE  FallbackSplit(ts) = n - 1
  <1> DEFINE at(op) == {k \in 2 .. Len(ts) - 1 : IsOperator(ts[k]) /\ ts[k].op = op /\ OpenParens(ts, 1, k) = 0}
  <1>1. PICK found : found = {m \in 1 .. Len(FallbackOps) : at(FallbackOps[m]) # {}}
    OBVIOUS
  <1>2. FallbackSplit(ts) = IF found = {} THEN 0 ELSE Max(at(FallbackOps[Min(found)]))
    BY <1>1, Zenon DEF FallbackSplit, FallbackOps
  <1>3. Len(FallbackOps) = 4 /\ FallbackOps[1] = "add" /\ FallbackOps[2] = "sub" /\ FallbackOps[3] = "mul"
        /\ FallbackOps[4] = "div"
    BY DEF FallbackOps
  <1>4. PICK op : op = ts[n - 1].op
    OBVIOUS
  <1>5. PICK i \in 1 .. 4 : FallbackOps[i] = op /\ \A j \in 1 .. 4 : FallbackOps[j] = op => j = i
    <2>1. op \in {"add", "sub", "mul", "div"}
      BY <1>4 DEF Operators
    <2>2. \A j \in 1 .. 4 : j \in {1, 2, 3, 4}
      OBVIOUS
    <2>3. CASE op = "add"
      BY <1>3, <2>2, <2>3
    <2>4. CASE op = "sub"
      BY <1>3, <2>2, <2>4
    <2>5. CASE op = "mul"
      BY <1>3, <2>2, <2>5
    <2>6. CASE op = "div"
      BY <1>3, <2>2, <2>6
    <2> QED BY <2>1, <2>3, <2>4, <2>5, <2>6
  <1>6. OpenParens(ts, 1, n - 1) = 0
    <2>1. PICK A, B : /\ A = {m \in 1 .. n - 1 : ts[m] = OpenParen}
                      /\ B = {m \in 1 .. n - 1 : ts[m] = CloseParen}
      OBVIOUS
    <2>2. A = {} /\ B = {}
      BY <2>1
    <2>3. Cardinality(A) = 0 /\ Cardinality(B) = 0
      BY <2>2, FS_EmptySet
    <2>4. OpenParens(ts, 1, n - 1) = Cardinality(A) - Cardinality(B)
      BY <2>1, Zenon DEF OpenParens
    <2> QED BY <2>3, <2>4
  <1>7. at(op) = {n - 1}
    <2>1. n - 1 \in at(op)
      BY <1>4, <1>6
    <2>2. ASSUME NEW k \in at(op) PROVE k = n - 1
      <3>1. k \in 2 .. n - 1 /\ IsOperator(ts[k])
        OBVIOUS
      <3>2. k \notin 2 .. n - 2
        BY <3>1
      <3> QED BY <3>1, <3>2
    <2> HIDE DEF at
    <2> QED BY <2>1, <2>2
  <1>8. ASSUME NEW j \in 1 .. 4, j # i PROVE at(FallbackOps[j]) = {}
    <2> SUFFICES ASSUME NEW k \in at(FallbackOps[j]) PROVE FALSE
      OBVIOUS
    <2>1. k \in 2 .. n - 1 /\ IsOperator(ts[k]) /\ ts[k].op = FallbackOps[j]
      OBVIOUS
    <2>2. k \notin 2 .. n - 2
      BY <2>1
    <2>3. k = n - 1
      BY <2>1, <2>2
    <2> QED BY <1>4, <1>5, <1>8, <2>1, <2>3
  <1> HIDE DEF at
  <1>9. found = {i}
    <2>1. \A m \in 1 .. 4 : m \in found <=> at(FallbackOps[m]) # {}
      BY <1>1, <1>3
    <2>2. found \subseteq 1 .. 4
      BY <1>1, <1>3
    <2>3. at(FallbackOps[i]) # {}
      BY <1>5, <1>7
    <2> QED BY <1>8, <2>1, <2>2, <2>3
  <1>10. Min(found) = i
    <2>1. i \in Nat
      OBVIOUS
    <2> QED BY <1>9, <2>1 DEF Min
  <1>11. Max({n - 1}) = n - 1
    <2>1. n - 1 \in Nat /\ {n - 1} \subseteq 1 .. n - 1
      OBVIOUS
    <2>2. PICK p \in Nat : p = n - 1
      BY <2>1
    <2>3. Max({p}) \in {p}
      BY <2>1, <2>2, GreatestLine
    <2> QED BY <2>2, <2>3
  <1> QED BY <1>2, <1>5, <1>7, <1>9, <1>10, <1>11
\* How the instruction of a leaf and of an operation looks.
IsOperand(o, bindings, k, a) ==
    /\ "literal" \in DOMAIN a => o = [literal |-> a.literal]
    /\ "literal" \notin DOMAIN a => \E m : LastBefore(bindings, k, a.name, m) /\ o = [reg |-> m - 1]

Computes(i, bindings, k, op, a, b) ==
    /\ i.op = op /\ i.dest = k - 1
    /\ IsOperand(i.src1, bindings, k, a) /\ IsOperand(i.src2, bindings, k, b)

ComputesTerm(i, bindings, k, t) ==
    IF "op" \in DOMAIN t THEN Computes(i, bindings, k, t.op, t.left, t.right)
    ELSE Computes(i, bindings, k, "add", t, [literal |-> 0])

LEMMA OperandsCompile ==
    ASSUME NEW bindings, NEW k \in Nat \ {0}, NEW X, X = {bindings[j].name : j \in 1 .. k - 1},
           NEW op, NEW a \in AnyLeaf(X), NEW ta, WritesLeaf(ta, a),
           NEW b \in AnyLeaf(X), NEW tb, WritesLeaf(tb, b),
           NEW l, l = Compiled(bindings, k, op, ta, tb)
    PROVE  l.kind = "code" /\ Computes(l.instr, bindings, k, op, a, b)
  <1>1. ASSUME NEW c \in AnyLeaf(X), NEW tc, WritesLeaf(tc, c)
        PROVE  /\ CompiledOperand(bindings, k, tc) # <<>>
               /\ IsOperand(CompiledOperand(bindings, k, tc)[1], bindings, k, c)
               /\ OneWord(tc)
    <2>1. PICK p : p = CompiledOperand(bindings, k, tc)
      OBVIOUS
    <2>2. OneWord(tc)
      BY <1>1, LeafText
    <2>3. /\ "literal" \in DOMAIN c => p = <<[literal |-> c.literal]>>
          /\ "literal" \notin DOMAIN c =>
                 \E m : LastBefore(bindings, k, c.name, m) /\ p = <<[reg |-> m - 1]>>
      BY <1>1, <2>1, LeafCompiles
    <2>4. CASE "literal" \in DOMAIN c
      <3>1. PICK o : o = [literal |-> c.literal]
        OBVIOUS
      <3>2. p = <<o>>
        BY <2>3, <2>4, <3>1
      <3>3. p # <<>> /\ p[1] = o
        BY <3>2
      <3> QED BY <2>1, <2>2, <2>4, <3>1, <3>3 DEF IsOperand
    <2>5. CASE "literal" \notin DOMAIN c
      <3>1. PICK m : LastBefore(bindings, k, c.name, m) /\ p = <<[reg |-> m - 1]>>
        BY <2>3, <2>5
      <3>2. PICK o : o = [reg |-> m - 1]
        OBVIOUS
      <3>3. p # <<>> /\ p[1] = o
        BY <3>1, <3>2
      <3>4. IsOperand(o, bindings, k, c)
        BY <2>5, <3>1, <3>2 DEF IsOperand
      <3> QED BY <2>1, <2>2, <3>3, <3>4
    <2> QED BY <2>4, <2>5
  <1>2. PICK src1, src2 : src1 = CompiledOperand(bindings, k, ta) /\ src2 = CompiledOperand(bindings, k, tb)
    OBVIOUS
  <1>3. l = IF ~OneWord(ta) \/ ~OneWord(tb) THEN [kind |-> "comment"]
            ELSE IF src1 = <<>> \/ src2 = <<>> THEN [kind |-> "garbled"]
            ELSE [kind |-> "code",
                  instr |-> [op |-> op, src1 |-> src1[1], src2 |-> src2[1], dest |-> k - 1]]
    BY <1>2, Zenon DEF Compiled
  <1>4. /\ OneWord(ta) /\ OneWord(tb) /\ src1 # <<>> /\ src2 # <<>>
        /\ IsOperand(src1[1], bindings, k, a) /\ IsOperand(src2[1], bindings, k, b)
    BY <1>1, <1>2
  <1>5. PICK i : i = [op |-> op, src1 |-> src1[1], src2 |-> src2[1], dest |-> k - 1]
    OBVIOUS
  <1>6. l.kind = "code" /\ l.instr = i
    BY <1>3, <1>4, <1>5
  <1>7. i.op = op /\ i.src1 = src1[1] /\ i.src2 = src2[1] /\ i.dest = k - 1
    BY <1>5
  <1> QED BY <1>4, <1>6, <1>7 DEF Computes

LEMMA ZeroLeaf == ASSUME NEW X PROVE [literal |-> 0] \in AnyLeaf(X) /\ WritesLeaf(<<[literal |-> 0]>>, [literal |-> 0])
  <1>1. 0 \in Payload
    BY Half64Assumption DEF Payload
  <1>2. PICK z : z = [literal |-> 0]
    OBVIOUS
  <1>3. z \in [literal : Payload] /\ "literal" \in DOMAIN z /\ z.literal = 0
    BY <1>1, <1>2
  <1>4. WritesLeaf(<<z>>, z)
    BY <1>3 DEF WritesLeaf
  <1> QED BY <1>2, <1>3, <1>4 DEF AnyLeaf

\* A simple binding becomes one instruction that computes it.
LEMMA SimpleCompiles ==
    ASSUME NEW src, IsText(src), NEW f, Simple(src, f), Len(f.bindings) \in Nat,
           NEW k \in 1 .. Len(f.bindings), f.bindings[k].line \in 1 .. Len(src),
           src[f.bindings[k].line].kind = "let",
           NEW c, c = CompiledBinding(src, f.bindings, k)
    PROVE  c = <<c[1]>> /\ c[1].kind = "code" /\ ComputesTerm(c[1].instr, f.bindings, k, TermAt(src, f, k))
  <1>1. PICK e, bs : e = src[f.bindings[k].line].expr /\ bs = f.bindings
    OBVIOUS
  <1>2. k \in Nat \ {0}
    OBVIOUS
  <1>3. PICK X : X = {bs[j].name : j \in 1 .. k - 1}
    OBVIOUS
  <1>4. e.form = "arith" /\ (IsLeaf(e, AnyLeaf(X)) \/ IsOperation(e, AnyLeaf(X)))
    BY <1>1, <1>3 DEF Simple, LeavesAt, AnyLeaf
  <1>5. PICK ts : ts = e.tokens
    OBVIOUS
  <1>6. PICK S : ts \in Seq(S) /\ Len(ts) \in Nat
    <2>1. IsExpr(e)
      BY <1>1 DEF IsText, IsSourceLine
    <2> QED BY <1>4, <1>5, <2>1 DEF IsExpr
  <1>7. PICK l : l = CompiledArith(bs, k, ts)
    OBVIOUS
  <1>8. c = <<l>>
    BY <1>1, <1>4, <1>5, <1>7 DEF CompiledBinding
  <1>9. c[1] = l /\ c = <<c[1]>>
    BY <1>8
  <1>10. PICK t : t = e.term
    OBVIOUS
  <1>11. TermAt(src, f, k) = t
    BY <1>1, <1>10 DEF TermAt
  <1>12. CASE IsLeaf(e, AnyLeaf(X))
    <2>1. t \in AnyLeaf(X) /\ WritesLeaf(ts, t)
      BY <1>5, <1>10, <1>12 DEF IsLeaf
    <2>2. FallbackSplit(ts) = 0
      BY <2>1, LeafText, LeafNotSplit
    <2>3. PICK z, tz : z = [literal |-> 0] /\ tz = <<[literal |-> 0]>>
      OBVIOUS
    <2>4. l = Compiled(bs, k, "add", ts, tz)
      BY <1>7, <2>2, <2>3 DEF CompiledArith
    <2>5. z \in AnyLeaf(X) /\ WritesLeaf(tz, z)
      BY <2>3, ZeroLeaf
    <2>6. l.kind = "code" /\ Computes(l.instr, bs, k, "add", t, z)
      BY <1>2, <1>3, <2>1, <2>4, <2>5, OperandsCompile
    <2>7. "op" \notin DOMAIN t
      <3>1. \A a \in [literal : Payload] : "op" \notin DOMAIN a
        OBVIOUS
      <3>2. \A a \in [name : X] : "op" \notin DOMAIN a
        OBVIOUS
      <3> QED BY <2>1, <3>1, <3>2 DEF AnyLeaf
    <2> QED BY <1>1, <1>9, <1>11, <2>3, <2>6, <2>7 DEF ComputesTerm
  <1>13. CASE IsOperation(e, AnyLeaf(X))
    <2>1. PICK n \in Nat : n = Len(ts)
      BY <1>6
    <2>2. PICK ta, tb : ta = SubSeq(ts, 1, n - 2) /\ tb = SubSeq(ts, n, n)
      OBVIOUS
    <2>3. PICK a, b, op : a = t.left /\ b = t.right /\ op = t.op
      OBVIOUS
    <2>4. /\ "op" \in DOMAIN t /\ op \in Operators /\ a \in AnyLeaf(X) /\ b \in AnyLeaf(X)
          /\ n > 2 /\ IsOperator(ts[n - 1]) /\ ts[n - 1].op = op
          /\ WritesLeaf(ta, a) /\ WritesLeaf(tb, b)
      BY <1>5, <1>10, <1>13, <2>1, <2>2, <2>3 DEF IsOperation
    <2>5. Len(ta) = n - 2 /\ \A m \in 1 .. n - 2 : ta[m] = ts[m]
      BY <1>6, <2>1, <2>2, <2>4
    <2>6. Len(ta) \in {1, 2} /\ ta[Len(ta)] \notin {OpenParen, CloseParen} /\ ~IsOperator(ta[Len(ta)])
          /\ (Len(ta) = 2 => IsOperator(ta[1]))
      BY <2>4, LeafText
    <2>7. PICK p \in Nat : p = n - 2 /\ p \in {1, 2}
      BY <2>4, <2>5, <2>6
    <2>8. \A m \in 2 .. n - 2 : ~IsOperator(ts[m])
      <3> TAKE m \in 2 .. n - 2
      <3>1. m = p /\ m = Len(ta) /\ m \in 1 .. n - 2
        BY <2>5, <2>7
      <3> QED BY <2>5, <2>6, <3>1
    <2>9. \A o : IsOperator(o) => o \notin {OpenParen, CloseParen}
      <3>1. DOMAIN OpenParen = {"paren"} /\ DOMAIN CloseParen = {"paren"}
        BY DEF OpenParen, CloseParen
      <3> QED BY <3>1 DEF IsOperator
    <2>10. \A m \in 1 .. n - 1 : ts[m] \notin {OpenParen, CloseParen}
      <3> TAKE m \in 1 .. n - 1
      <3>1. CASE m = n - 1
        BY <2>4, <2>9, <3>1
      <3>2. CASE m = p
        <4>1. m = Len(ta) /\ m \in 1 .. n - 2
          BY <2>5, <2>7, <3>2
        <4> QED BY <2>5, <2>6, <4>1
      <3>3. CASE m # n - 1 /\ m # p
        <4>1. m = 1 /\ p = 2 /\ m \in 1 .. n - 2
          BY <2>7, <3>3
        <4>2. IsOperator(ta[1])
          BY <2>5, <2>6, <2>7, <4>1
        <4> QED BY <2>5, <2>9, <4>1, <4>2
      <3> QED BY <3>1, <3>2, <3>3
    <2>11. FallbackSplit(ts) = n - 1
      BY <2>1, <2>4, <2>8, <2>10, OperationSplit
    <2>12. l = Compiled(bs, k, op, ta, tb)
      <3>1. PICK at : at = FallbackSplit(ts)
        OBVIOUS
      <3>2. l = IF at = 0 THEN Compiled(bs, k, "add", ts, <<[literal |-> 0]>>)
                ELSE Compiled(bs, k, ts[at].op, SubSeq(ts, 1, at - 1), SubSeq(ts, at + 1, Len(ts)))
        BY <1>7, <3>1, Zenon DEF CompiledArith
      <3>3. at # 0 /\ at = n - 1 /\ at - 1 = n - 2 /\ at + 1 = n
        BY <2>4, <2>11, <3>1
      <3> QED BY <2>1, <2>2, <2>4, <3>2, <3>3
    <2>13. l.kind = "code" /\ Computes(l.instr, bs, k, op, a, b)
      <3>1. a \in AnyLeaf(X)
        BY <2>4
      <3>2. b \in AnyLeaf(X)
        BY <2>4
      <3>3. WritesLeaf(ta, a)
        BY <2>4
      <3>4. WritesLeaf(tb, b)
        BY <2>4
      <3> QED BY ONLY <1>2, <1>3, <2>12, <3>1, <3>2, <3>3, <3>4, OperandsCompile
    <2> QED BY <1>1, <1>9, <1>11, <2>3, <2>4, <2>13 DEF ComputesTerm
  <1> QED BY <1>4, <1>12, <1>13
\* What a simple binding states: an operation on leaves or a leaf.
LEMMA SimpleTerms ==
    ASSUME NEW src, NEW f, Simple(src, f), NEW k \in 1 .. Len(f.bindings), NEW t, t = TermAt(src, f, k)
    PROVE  /\ "op" \in DOMAIN t => t.op \in Operators /\ t.left \in LeavesAt(f, k) /\ t.right \in LeavesAt(f, k)
           /\ "op" \notin DOMAIN t => t \in LeavesAt(f, k)
  <1>1. PICK e, leaves : e = src[f.bindings[k].line].expr /\ leaves = LeavesAt(f, k)
    OBVIOUS
  <1>2. e.term = t /\ (IsLeaf(e, leaves) \/ IsOperation(e, leaves))
    BY <1>1 DEF Simple, TermAt
  <1>3. CASE IsLeaf(e, leaves)
    <2>1. t \in leaves
      BY <1>2, <1>3 DEF IsLeaf
    <2>2. "op" \notin DOMAIN t
      <3>1. \A a \in [literal : Payload] : "op" \notin DOMAIN a
        OBVIOUS
      <3>2. \A a \in [name : {f.bindings[j].name : j \in 1 .. k - 1}] : "op" \notin DOMAIN a
        OBVIOUS
      <3> QED BY <1>1, <2>1, <3>1, <3>2 DEF LeavesAt
    <2> QED BY <1>1, <2>1, <2>2
  <1>4. CASE IsOperation(e, leaves)
    BY <1>1, <1>2, <1>4 DEF IsOperation
  <1> QED BY <1>2, <1>3, <1>4

----------------------------------------------------------------------------
(* The functions of the generated program *)

\* f computes its bindings one by one.
Straight(src, fns, f) == Simple(src, f) /\ ~HasCall(fns, f)

\* The code of a function whose bindings are simple.
ComputesAll(src, f, is) ==
    /\ Len(is) = Len(f.bindings)
    /\ \A k \in 1 .. Len(f.bindings) :
           is[k].op \in Operators /\ ComputesTerm(is[k], f.bindings, k, TermAt(src, f, k))

\* Aleo function g is what f was compiled to.
Makes(src, fns, f, g) ==
    /\ g.name = f.aleo /\ g.inputs = <<>>
    /\ Straight(src, fns, f) => ComputesAll(src, f, g.code)
    /\ HasCall(fns, f) => \A k \in 1 .. Len(g.code) : g.code[k].op = "call"

\* The instructions of simple bindings.
LEMMA StraightCode ==
    ASSUME NEW s \in Sources, NEW src, src = TextOf(s), NEW fns, fns = ParseLeoFunctions(src),
           NEW j \in 1 .. Len(fns), NEW f, f = fns[j], Straight(src, fns, f),
           NEW body, body = GeneratedBody(src, fns, f)
    PROVE  ComputesAll(src, f, Instructions(body))
  <1>1. Simple(src, f) /\ ~HasCall(fns, f)
    BY DEF Straight
  <1>2. Inline(src, f)
    BY <1>1 DEF Inline, Simple
  <1>3. /\ Len(f.bindings) \in Nat
        /\ \A k \in 1 .. Len(f.bindings) :
               f.bindings[k].line \in 1 .. Len(src) /\ src[f.bindings[k].line].kind = "let"
    BY FallbackReads
  <1>4. PICK n \in Nat : n = Len(f.bindings)
    BY <1>3
  <1>5. PICK D, t, out : BodyJoined(src, f, n, body, D, t, out)
    BY <1>1, <1>2, <1>4, BodyJoins
  <1>6. PICK K, T : K = {"code", "cast", "comment"} /\ T = {l \in Range(body) : l.kind \in K}
    OBVIOUS
  <1>7. /\ t \in Seq(D) /\ out \in Seq(D) /\ body = t \o out /\ Len(t) = n
        /\ \A k \in 1 .. n : t[k] = CompiledBinding(src, f.bindings, k)[1]
        /\ out = IF n = 0 THEN <<>> ELSE <<[kind |-> "output", reg |-> n - 1]>>
    BY <1>5 DEF BodyJoined
  <1>8. IsText(src)
    BY TextIs
  <1>9. ASSUME NEW k \in 1 .. n
        PROVE  t[k].kind = "code" /\ ComputesTerm(t[k].instr, f.bindings, k, TermAt(src, f, k))
    <2>1. PICK c : c = CompiledBinding(src, f.bindings, k)
      OBVIOUS
    <2>2. k \in 1 .. Len(f.bindings) /\ Len(f.bindings) \in Nat
      BY <1>4
    <2>3. c[1].kind = "code" /\ ComputesTerm(c[1].instr, f.bindings, k, TermAt(src, f, k))
      BY <1>1, <1>3, <1>8, <2>1, <2>2, SimpleCompiles
    <2> QED BY <1>7, <2>1, <2>3
  <1>10. \A k \in 1 .. n : t[k] \in T
    <2> TAKE k \in 1 .. n
    <2>1. Len(body) = Len(t) + Len(out) /\ Len(t) \in Nat /\ Len(out) \in Nat /\ body[k] = t[k]
      BY <1>7, ConcatPlaces
    <2>2. k \in 1 .. Len(body)
      BY <1>7, <2>1
    <2>3. t[k] \in Range(body)
      <3>1. body[k] \in Range(body)
        <4>1. DOMAIN body = 1 .. Len(body)
          BY <1>7
        <4> QED BY <2>2, <4>1 DEF Range
      <3> QED BY <2>1, <3>1
    <2>4. t[k].kind = "code"
      BY <1>9
    <2> QED BY <1>6, <2>3, <2>4
  <1>11. \A k \in 1 .. Len(out) : out[k] \notin T
    <2>1. \A l : l.kind = "output" => l \notin T
      BY <1>6
    <2>2. \A k \in 1 .. Len(out) : out[k].kind = "output"
      <3>1. CASE n = 0
        BY <1>7, <3>1
      <3>2. CASE n # 0
        <4>1. PICK l : l = [kind |-> "output", reg |-> n - 1]
          OBVIOUS
        <4>2. out = <<l>> /\ l.kind = "output"
          BY <1>7, <3>2, <4>1
        <4> QED BY <4>2
      <3> QED BY <3>1, <3>2
    <2> QED BY <2>1, <2>2
  <1>12. OfKind(body, K) = t
    <2>1. Select(t, T) = t
      BY <1>7, <1>10, SelectWhole
    <2>2. Select(out, T) = <<>>
      BY <1>7, <1>11, SelectNothing
    <2>3. Select(t \o out, T) = Select(t, T) \o Select(out, T)
      <3>1. t \in Seq(D) /\ out \in Seq(D)
        BY <1>7
      <3> QED BY ONLY <3>1, SelectConcat
    <2>4. t \o <<>> = t
      BY <1>7
    <2> QED BY <1>6, <1>7, <2>1, <2>2, <2>3, <2>4 DEF OfKind
  <1>13. Instructions(body) = [k \in 1 .. n |-> IF t[k].kind = "code" THEN t[k].instr ELSE [op |-> "unknown"]]
    BY <1>6, <1>7, <1>12 DEF Instructions
  <1>14. PICK is : is = Instructions(body)
    OBVIOUS
  <1>15. Len(is) = n /\ \A k \in 1 .. n : is[k] = t[k].instr
    <2>1. \A k \in 1 .. n : is[k] = t[k].instr
      BY <1>9, <1>13, <1>14
    <2>2. Len(is) = n
      BY <1>13, <1>14
    <2> QED BY <2>1, <2>2
  <1>16. ASSUME NEW k \in 1 .. n
         PROVE  is[k].op \in Operators /\ ComputesTerm(is[k], f.bindings, k, TermAt(src, f, k))
    <2>1. ComputesTerm(is[k], f.bindings, k, TermAt(src, f, k))
      BY <1>9, <1>15
    <2>2. PICK u : u = TermAt(src, f, k)
      OBVIOUS
    <2>3. "op" \in DOMAIN u => u.op \in Operators
      BY <1>1, <1>4, <2>2, SimpleTerms
    <2>4. is[k].op = IF "op" \in DOMAIN u THEN u.op ELSE "add"
      BY <2>1, <2>2 DEF ComputesTerm, Computes
    <2>5. is[k].op \in Operators
      BY <2>3, <2>4 DEF Operators
    <2> QED BY <2>1, <2>5
  <1> QED BY <1>4, <1>14, <1>15, <1>16 DEF ComputesAll
\* A generated function has no inputs.
LEMMA NoInputs ==
    ASSUME NEW body, OfKinds(body, BodyKinds)
    PROVE  Registers(body, "input") = <<>>
  <1>1. PICK S : S = Range(body)
    OBVIOUS
  <1>2. body \in Seq(S)
    BY <1>1 DEF OfKinds, IsAleoText
  <1>3. PICK T : T = {l \in Range(body) : l.kind \in {"input"}}
    OBVIOUS
  <1>4. \A k \in 1 .. Len(body) : body[k] \notin T
    BY <1>3 DEF OfKinds, BodyKinds
  <1>5. Select(body, T) = <<>>
    BY <1>2, <1>4, SelectNothing
  <1>6. OfKind(body, {"input"}) = <<>>
    BY <1>3, <1>5 DEF OfKind
  <1>7. Registers(body, "input") = [k \in 1 .. Len(<<>>) |-> <<>>[k].reg]
    BY <1>6 DEF Registers
  <1>8. Len(<<>>) = 0 /\ 1 .. 0 = {}
    OBVIOUS
  <1> QED BY <1>7, <1>8

\* All that a caller does is to call.
LEMMA CallerCode ==
    ASSUME NEW src, NEW fns, NEW f, HasCall(fns, f),
           NEW body, body = GeneratedBody(src, fns, f), OfKinds(body, BodyKinds),
           NEW is, is = Instructions(body)
    PROVE  \A k \in 1 .. Len(is) : is[k].op = "call"
  <1>1. PICK S : S = Range(body)
    OBVIOUS
  <1>2. body \in Seq(S)
    BY <1>1 DEF OfKinds, IsAleoText
  <1>3. PICK i : i = [op |-> "call", callee |-> Callee(src, f)[1], args |-> <<>>, dests |-> <<0>>]
    OBVIOUS
  <1>4. PICK a, b : a = [kind |-> "code", instr |-> i] /\ b = [kind |-> "output", reg |-> 0]
    OBVIOUS
  <1>5. body = <<>> \/ body = <<a, b>>
    BY <1>3, <1>4, Zenon DEF GeneratedBody
  <1>6. S \subseteq {a, b}
    BY <1>1, <1>5 DEF Range
  <1>7. PICK K, kept : K = {"code", "cast", "comment"} /\ kept = OfKind(body, K)
    OBVIOUS
  <1>8. Len(kept) \in Nat /\ \A k \in 1 .. Len(kept) : kept[k] \in S /\ kept[k].kind \in K
    BY <1>2, <1>7, OfKindType
  <1>9. is = [k \in 1 .. Len(kept) |-> IF kept[k].kind = "code" THEN kept[k].instr ELSE [op |-> "unknown"]]
    BY <1>7, Zenon DEF Instructions
  <1>10. Len(is) = Len(kept)
    BY <1>8, <1>9
  <1>11. b.kind \notin K /\ a.kind = "code" /\ a.instr.op = "call"
    BY <1>3, <1>4, <1>7
  <1>12. \A k \in 1 .. Len(kept) : kept[k] = a
    BY <1>6, <1>8, <1>11
  <1> QED BY <1>9, <1>10, <1>11, <1>12

\* Every function of the generated program is what one of the source was
\* compiled to.
LEMMA ProgramMade ==
    ASSUME NEW s \in Sources, NEW src, src = TextOf(s), NEW fns, fns = ParseLeoFunctions(src),
           NEW lines, lines = GenerateAleo(src, fns),
           NEW gs, gs = ParseAleoProgram(lines), NEW p \in 1 .. Len(gs)
    PROVE  \E m \in 1 .. Len(fns) : Makes(src, fns, fns[m], gs[p])
  <1>1. IsAleoText(lines)
    BY FallbackText
  <1>2. PICK S : S = Range(lines)
    OBVIOUS
  <1>3. lines \in Seq(S) /\ \A l \in S : IsLine(l)
    BY <1>1, <1>2 DEF IsAleoText, Range
  <1>4. PICK os : os = Openings(lines, FnKinds)
    OBVIOUS
  <1>5. Len(gs) = Len(os) /\ Len(os) \in Nat
    BY <1>3, <1>4, ParsedLength, OpeningsAre
  <1>6. PICK i : i = os[p]
    OBVIOUS
  <1>7. i \in 1 .. Len(lines) /\ lines[i].kind \in FnKinds
    BY <1>3, <1>4, <1>5, <1>6, OpeningsAre
  <1>8. PICK block : block = BlockLines(lines, i, BlockEnds)
    OBVIOUS
  <1>9. gs[p] = [name |-> lines[i].name, kind |-> lines[i].kind,
                 inputs |-> Registers(block, "input"), code |-> Instructions(block),
                 outputs |-> Registers(block, "output")]
    <2>1. p \in 1 .. Len(Openings(lines, FnKinds)) /\ i = Openings(lines, FnKinds)[p]
      BY <1>4, <1>5, <1>6
    <2> QED BY <1>3, <1>8, <2>1, ParsedFunction
  <1>10. PICK at : Blocks(lines, at, src, fns)
    BY ProgramBlocks
  <1>11. PICK m \in 1 .. Len(fns) : i = at[m]
    BY <1>7, <1>10 DEF Blocks
  <1>12. PICK f, body : f = fns[m] /\ body = GeneratedBody(src, fns, f)
    OBVIOUS
  <1>13. block = body
    <2>1. PICK ends : ends = BlockEnds
      OBVIOUS
    <2>2. "blank" \in ends /\ ends \cap BodyKinds = {}
      BY <2>1 DEF BlockEnds, BodyKinds, FnKinds
    <2>3. BlockLines(lines, at[m], ends) = GeneratedBody(src, fns, fns[m])
      BY <1>10, <2>2, BlockOf
    <2> QED BY <1>8, <1>11, <1>12, <2>1, <2>3
  <1>14. OfKinds(body, BodyKinds)
    BY <1>12, GeneratedTextIs
  <1>15. lines[i].name = f.aleo
    <2>1. lines[i] = GeneratedOpening(fns, f)
      BY <1>10, <1>11, <1>12 DEF Blocks
    <2> QED BY <2>1 DEF GeneratedOpening
  <1>16. gs[p].name = f.aleo /\ gs[p].inputs = Registers(body, "input") /\ gs[p].code = Instructions(body)
    BY <1>9, <1>13, <1>15
  <1>17. Registers(body, "input") = <<>>
    BY <1>14, NoInputs
  <1>18. HasCall(fns, f) => \A k \in 1 .. Len(Instructions(body)) : Instructions(body)[k].op = "call"
    BY <1>12, <1>14, CallerCode
  <1>19. Straight(src, fns, f) => ComputesAll(src, f, Instructions(body))
    BY <1>12, StraightCode
  <1>20. Makes(src, fns, f, gs[p])
    BY <1>16, <1>17, <1>18, <1>19 DEF Makes
  <1> QED BY <1>12, <1>20
----------------------------------------------------------------------------
(* What the registers hold *)

\* Register k - 1 holds the value of binding k.
RegistersHold(regs, src, f, k) ==
    DOMAIN regs = 0 .. k - 1 /\ \A j \in 1 .. k : regs[j - 1] = BoundValue(src, f, j)

LEMMA OperandHolds ==
    ASSUME NEW src, NEW f, NEW n \in Nat, n = Len(f.bindings), Simple(src, f), NEW k \in 1 .. n,
           NEW regs, RegistersHold(regs, src, f, k - 1),
           NEW a \in LeavesAt(f, k), NEW o, IsOperand(o, f.bindings, k, a)
    PROVE  Resolve(regs, o) = LeafValue(Environment(src, f, k - 1), a)
  <1>1. CASE "literal" \in DOMAIN a
    <2>1. PICK v : v = a.literal
      OBVIOUS
    <2>2. o = [literal |-> v]
      BY <1>1, <2>1 DEF IsOperand
    <2>3. "reg" \notin DOMAIN o /\ o.literal = v
      BY <2>2
    <2> QED BY <1>1, <2>1, <2>3 DEF Resolve, LeafValue
  <1>2. CASE "literal" \notin DOMAIN a
    <2>1. PICK m : LastBefore(f.bindings, k, a.name, m) /\ o = [reg |-> m - 1]
      BY <1>2 DEF IsOperand
    <2>2. PICK h : h = k - 1
      OBVIOUS
    <2>3. h \in 0 .. n /\ m \in 1 .. h /\ f.bindings[m].name = a.name
          /\ \A j \in m + 1 .. h : f.bindings[j].name # f.bindings[m].name
      BY <2>1, <2>2 DEF LastBefore
    <2>4. Environment(src, f, h)[f.bindings[m].name] = BoundValue(src, f, m)
      <3>1. h \in 0 .. n
        BY <2>3
      <3>2. \A q \in 1 .. h : (\A j \in q + 1 .. h : f.bindings[j].name # f.bindings[q].name) =>
                Environment(src, f, h)[f.bindings[q].name] = BoundValue(src, f, q)
        BY <3>1, LastBindingHolds
      <3> QED BY ONLY <2>3, <3>2
    <2>5. m - 1 \in DOMAIN regs /\ regs[m - 1] = BoundValue(src, f, m)
      BY <2>2, <2>3 DEF RegistersHold
    <2>6. PICK r : r = m - 1
      OBVIOUS
    <2>7. "reg" \in DOMAIN o /\ o.reg = r
      BY <2>1, <2>6
    <2>8. Resolve(regs, o) = regs[r]
      BY <2>5, <2>6, <2>7 DEF Resolve, Read
    <2> QED BY <1>2, <2>2, <2>3, <2>4, <2>5, <2>6, <2>8 DEF LeafValue
  <1> QED BY <1>1, <1>2

\* What is in i64 needs no wrapping.
LEMMA WrappingSame == ASSUME NEW v \in Int64 PROVE Wrapping(v) = v
  <1>1. PICK h : h = Half
    OBVIOUS
  <1>2. h \in Nat \ {0} /\ v \in Int /\ -h <= v /\ v <= h - 1
    BY <1>1, HalfAssumption DEF Int64
  <1>3. PICK x, m : x = v + h /\ m = 2 * h
    OBVIOUS
  <1>4. x \in Nat /\ m \in Nat \ {0} /\ x < m
    BY <1>2, <1>3
  <1>5. x % m = x
    BY <1>4
  <1> QED BY <1>1, <1>2, <1>3, <1>5 DEF Wrapping

\* An instruction makes of the bindings before k what binding k states.
LEMMA BindingComputed ==
    ASSUME NEW src, NEW f, NEW n \in Nat, n = Len(f.bindings), Simple(src, f), NEW k \in 1 .. n,
           NEW regs, RegistersHold(regs, src, f, k - 1),
           NEW i, ComputesTerm(i, f.bindings, k, TermAt(src, f, k)),
           NEW a, a = Resolve(regs, i.src1), NEW b, b = Resolve(regs, i.src2), a \in Int64
    PROVE  /\ i.dest = k - 1 /\ i.op \in Operators
           /\ i.op = "div" /\ b = 0 => FailsIn(src, f, k)
           /\ ~(i.op = "div" /\ b = 0) => Binary(i.op, a, b) = BoundValue(src, f, k)
  <1>1. PICK t, env, bs : t = TermAt(src, f, k) /\ env = Environment(src, f, k - 1) /\ bs = f.bindings
    OBVIOUS
  <1>2. BoundValue(src, f, k) = ExprValue(env, t) /\ (FailsIn(src, f, k) <=> FailsAt(env, t))
    BY <1>1 DEF BoundValue, FailsIn, TermAt
  <1>3. ASSUME NEW x \in LeavesAt(f, k), NEW o, IsOperand(o, bs, k, x)
        PROVE  Resolve(regs, o) = LeafValue(env, x)
    BY <1>1, <1>3, OperandHolds
  <1>4. k \in 1 .. Len(f.bindings)
    OBVIOUS
  <1>5. CASE "op" \in DOMAIN t
    <2>1. PICK l, r, op : l = t.left /\ r = t.right /\ op = t.op
      OBVIOUS
    <2>2. op \in Operators /\ l \in LeavesAt(f, k) /\ r \in LeavesAt(f, k)
      BY <1>1, <1>4, <1>5, <2>1, SimpleTerms
    <2>3. i.op = op /\ i.dest = k - 1 /\ IsOperand(i.src1, bs, k, l) /\ IsOperand(i.src2, bs, k, r)
      BY <1>1, <1>5, <2>1 DEF ComputesTerm, Computes
    <2>4. a = LeafValue(env, l) /\ b = LeafValue(env, r)
      BY <1>3, <2>2, <2>3
    <2>5. FailsAt(env, t) <=> op = "div" /\ b = 0
      BY <1>5, <2>1, <2>4 DEF FailsAt
    <2>6. ~FailsAt(env, t) => ExprValue(env, t) = Binary(op, a, b)
      BY <1>5, <2>1, <2>4 DEF ExprValue
    <2> QED BY <1>2, <2>2, <2>3, <2>5, <2>6
  <1>6. CASE "op" \notin DOMAIN t
    <2>1. t \in LeavesAt(f, k)
      BY <1>1, <1>4, <1>6, SimpleTerms
    <2>2. PICK z : z = [literal |-> 0]
      OBVIOUS
    <2>3. z \in LeavesAt(f, k) /\ LeafValue(env, z) = 0
      <3>1. PICK X : X = {f.bindings[j].name : j \in 1 .. k - 1}
        OBVIOUS
      <3>2. z \in AnyLeaf(X)
        BY <2>2, ZeroLeaf
      <3>3. LeavesAt(f, k) = AnyLeaf(X)
        BY <3>1 DEF LeavesAt, AnyLeaf
      <3>4. "literal" \in DOMAIN z /\ z.literal = 0
        BY <2>2
      <3> QED BY <3>2, <3>3, <3>4 DEF LeafValue
    <2>4. i.op = "add" /\ i.dest = k - 1 /\ IsOperand(i.src1, bs, k, t) /\ IsOperand(i.src2, bs, k, z)
      BY <1>1, <1>6, <2>2 DEF ComputesTerm, Computes
    <2>5. a = LeafValue(env, t) /\ b = 0
      BY <1>3, <2>1, <2>3, <2>4
    <2>6. ExprValue(env, t) = a
      BY <1>6, <2>5 DEF ExprValue
    <2>7. Binary("add", a, b) = Wrapping(a + b)
      BY DEF Binary
    <2>8. a + b = a
      BY <2>5, PayloadIs
    <2>9. Binary("add", a, b) = a
      BY <2>7, <2>8, WrappingSame
    <2> QED BY <1>2, <2>4, <2>6, <2>9 DEF Operators
  <1> QED BY <1>5, <1>6

LEMMA OneMoreHolds ==
    ASSUME NEW src, NEW f, NEW k \in Nat \ {0}, NEW regs, RegistersHold(regs, src, f, k - 1),
           NEW v, v = BoundValue(src, f, k)
    PROVE  RegistersHold(Insert(regs, k - 1, v), src, f, k)
  <1>1. PICK g : g = Insert(regs, k - 1, v)
    OBVIOUS
  <1>2. DOMAIN regs = 0 .. (k - 1) - 1 /\ \A j \in 1 .. k - 1 : regs[j - 1] = BoundValue(src, f, j)
    BY DEF RegistersHold
  <1>3. DOMAIN g = (0 .. (k - 1) - 1) \cup {k - 1}
    BY <1>1, <1>2 DEF Insert
  <1>4. DOMAIN g = 0 .. k - 1
    BY <1>3
  <1>5. ASSUME NEW j \in 1 .. k PROVE g[j - 1] = BoundValue(src, f, j)
    <2>1. CASE j = k
      BY <1>1, <2>1 DEF Insert
    <2>2. CASE j # k
      <3>1. j \in 1 .. k - 1 /\ j - 1 \in 0 .. (k - 1) - 1 /\ j - 1 # k - 1
        BY <2>2
      <3>2. g[j - 1] = regs[j - 1]
        BY <1>1, <1>2, <3>1 DEF Insert
      <3> QED BY <1>2, <3>1, <3>2
    <2> QED BY <2>1, <2>2
  <1> QED BY <1>1, <1>4, <1>5 DEF RegistersHold
----------------------------------------------------------------------------
(* The interpreter simulates the source *)

AllSimple(src, fns) == \A n \in 1 .. Len(fns) : Simple(src, fns[n])

SomeFails(src, fns) == \E n \in 1 .. Len(fns) : \E k \in 1 .. Len(fns[n].bindings) : FailsIn(src, fns[n], k)

\* An activation of what f was compiled to holds f's bindings so far.
FrameOf(src, fns, gs, f, a) ==
    /\ Makes(src, fns, f, gs[a.fn])
    /\ Straight(src, fns, f) => RegistersHold(a.regs, src, f, a.pc - 1)

FrameHolds(src, fns, gs, a) == \E m \in 1 .. Len(fns) : FrameOf(src, fns, gs, fns[m], a)

\* A result by the name x holds all the bindings of a function.
ResultOf(src, fns, f, x, r) ==
    /\ f.aleo = x
    /\ Straight(src, fns, f) => RegistersHold(r.registers, src, f, Len(f.bindings))

ResultHolds(src, fns, gs, x, r) ==
    /\ \E p \in 1 .. Len(gs) : gs[p].name = x
    /\ \E m \in 1 .. Len(fns) : ResultOf(src, fns, fns[m], x, r)

AllMade(src, fns, gs) == \A p \in 1 .. Len(gs) : \E m \in 1 .. Len(fns) : Makes(src, fns, fns[m], gs[p])

\* The interpreter runs what was made of the functions, and fails only where
\* one of them divides by zero.
Simulates(src, fns) ==
    /\ AllMade(src, fns, prog.fns)
    /\ \A j \in 1 .. Len(stack) : FrameHolds(src, fns, prog.fns, stack[j])
    /\ \A x \in DOMAIN results : ResultHolds(src, fns, prog.fns, x, results[x])
    /\ status \in {"failing", "err"} /\ AllSimple(src, fns) => SomeFails(src, fns)

\* What a function's activation is about to do.
LEMMA AboutToCompute ==
    ASSUME VMInv, stack # <<>>, top.pc <= Len(code),
           NEW src, NEW fns, NEW f, Len(f.bindings) \in Nat, FrameOf(src, fns, prog.fns, f, top),
           Straight(src, fns, f), NEW k, k = top.pc
    PROVE  /\ k \in 1 .. Len(f.bindings) /\ instr \in Instruction /\ Simple(src, f)
           /\ RegistersHold(top.regs, src, f, k - 1)
           /\ ComputesTerm(instr, f.bindings, k, TermAt(src, f, k))
           /\ instr.op \in Operators
  <1>1. PICK g : g = prog.fns[top.fn]
    OBVIOUS
  <1>2. code = g.code /\ Makes(src, fns, f, g)
    BY <1>1 DEF code, FrameOf
  <1>3. ComputesAll(src, f, g.code)
    BY <1>2 DEF Makes
  <1>4. Len(code) \in Nat /\ top.pc \in 1 .. Len(code) + 1 /\ instr \in Instruction
    BY AtTop
  <1>5. Len(code) = Len(f.bindings)
    BY <1>2, <1>3 DEF ComputesAll
  <1>6. k \in 1 .. Len(f.bindings)
    BY <1>4, <1>5
  <1>7. instr = g.code[k]
    BY <1>2 DEF instr
  <1>8. instr.op \in Operators /\ ComputesTerm(instr, f.bindings, k, TermAt(src, f, k))
    BY <1>3, <1>6, <1>7 DEF ComputesAll
  <1>9. RegistersHold(top.regs, src, f, k - 1)
    BY DEF FrameOf
  <1> QED BY <1>4, <1>6, <1>8, <1>9 DEF Straight

\* One that has computed holds one binding more, and one that computes no
\* binding is not of a function with simple ones.
LEMMA FrameDone ==
    ASSUME VMInv, stack # <<>>, top.pc <= Len(code),
           NEW src, NEW fns, \A m \in 1 .. Len(fns) : Len(fns[m].bindings) \in Nat,
           FrameHolds(src, fns, prog.fns, top),
           NEW regs, \/ instr.op \notin BinaryOp
                     \/ ~DividesByZero /\ regs = Insert(top.regs, instr.dest, Binary(instr.op, left, right)),
           NEW after, after = [top EXCEPT !.regs = regs, !.pc = @ + 1]
    PROVE  FrameHolds(src, fns, prog.fns, after)
  <1>1. PICK m \in 1 .. Len(fns) : FrameOf(src, fns, prog.fns, fns[m], top)
    BY DEF FrameHolds
  <1>2. PICK f, k : f = fns[m] /\ k = top.pc
    OBVIOUS
  <1>3. Len(f.bindings) \in Nat /\ FrameOf(src, fns, prog.fns, f, top)
    BY <1>1, <1>2
  <1>4. ActivationOK(top) /\ RegistersOK(top.regs) /\ Len(code) \in Nat /\ k \in 1 .. Len(code) + 1
    BY <1>2, AtTop
  <1>5. after.fn = top.fn /\ after.regs = regs /\ after.pc = k + 1
    BY <1>2, <1>4 DEF ActivationOK, ActivationFields
  <1>6. ASSUME Straight(src, fns, f) PROVE RegistersHold(regs, src, f, (k + 1) - 1)
    <2>1. /\ k \in 1 .. Len(f.bindings) /\ instr \in Instruction /\ Simple(src, f)
          /\ RegistersHold(top.regs, src, f, k - 1)
          /\ ComputesTerm(instr, f.bindings, k, TermAt(src, f, k))
          /\ instr.op \in Operators
      BY <1>2, <1>3, <1>6, AboutToCompute
    <2>2. instr.op \in BinaryOp
      BY <2>1 DEF Operators, BinaryOp
    <2>3. ~DividesByZero /\ regs = Insert(top.regs, instr.dest, Binary(instr.op, left, right))
      BY <2>2
    <2>4. PICK i, a, b, rs : i = instr /\ a = left /\ b = right /\ rs = top.regs
      OBVIOUS
    <2>5. a = Resolve(rs, i.src1) /\ b = Resolve(rs, i.src2)
      BY <2>4 DEF left, right
    <2>6. a \in Int64
      <3>1. i.src1 \in Operand
        BY <2>1, <2>2, <2>4, InstructionFields
      <3> QED BY <1>4, <2>4, <2>5, <3>1, ResolveOK
    <2>7. PICK n \in Nat : n = Len(f.bindings)
      BY <1>3
    <2>8. k \in 1 .. n /\ Simple(src, f) /\ RegistersHold(rs, src, f, k - 1)
          /\ ComputesTerm(i, f.bindings, k, TermAt(src, f, k))
      BY <2>1, <2>4, <2>7
    <2>9. i.dest = k - 1 /\ (~(i.op = "div" /\ b = 0) => Binary(i.op, a, b) = BoundValue(src, f, k))
      BY <2>5, <2>6, <2>7, <2>8, BindingComputed
    <2>10. ~(i.op = "div" /\ b = 0)
      BY <2>3, <2>4 DEF DividesByZero
    <2>11. PICK v : v = BoundValue(src, f, k)
      OBVIOUS
    <2>12. regs = Insert(rs, k - 1, v)
      BY <2>3, <2>4, <2>9, <2>10, <2>11
    <2>13. k \in Nat \ {0} /\ (k + 1) - 1 = k
      BY <2>8
    <2>14. RegistersHold(Insert(rs, k - 1, v), src, f, k)
      BY <2>8, <2>11, <2>13, OneMoreHolds
    <2> QED BY <2>12, <2>13, <2>14
  <1>7. FrameOf(src, fns, prog.fns, f, after)
    BY <1>3, <1>5, <1>6 DEF FrameOf
  <1> QED BY <1>2, <1>7 DEF FrameHolds

\* A division by zero is one of the source's.
LEMMA FailureIsTheSources ==
    ASSUME VMInv, stack # <<>>, top.pc <= Len(code), instr.op \in BinaryOp, DividesByZero,
           NEW src, NEW fns, \A m \in 1 .. Len(fns) : Len(fns[m].bindings) \in Nat,
           FrameHolds(src, fns, prog.fns, top), AllSimple(src, fns)
    PROVE  SomeFails(src, fns)
  <1>1. PICK m \in 1 .. Len(fns) : FrameOf(src, fns, prog.fns, fns[m], top)
    BY DEF FrameHolds
  <1>2. PICK f, k : f = fns[m] /\ k = top.pc
    OBVIOUS
  <1>3. Len(f.bindings) \in Nat /\ FrameOf(src, fns, prog.fns, f, top)
    BY <1>1, <1>2
  <1>4. RegistersOK(top.regs) /\ Len(code) \in Nat /\ k \in 1 .. Len(code) + 1
    BY <1>2, AtTop
  <1>5. ~HasCall(fns, f)
    <2>1. SUFFICES ASSUME HasCall(fns, f) PROVE FALSE
      OBVIOUS
    <2>2. code = prog.fns[top.fn].code /\ instr = code[k] /\ k \in 1 .. Len(code)
      BY <1>2, <1>4 DEF code, instr
    <2>3. instr.op = "call"
      BY <1>3, <2>1, <2>2 DEF FrameOf, Makes
    <2> QED BY <2>3 DEF BinaryOp
  <1>6. Straight(src, fns, f)
    BY <1>2, <1>5 DEF Straight, AllSimple
  <1>7. /\ k \in 1 .. Len(f.bindings) /\ instr \in Instruction /\ Simple(src, f)
        /\ RegistersHold(top.regs, src, f, k - 1)
        /\ ComputesTerm(instr, f.bindings, k, TermAt(src, f, k))
        /\ instr.op \in Operators
    BY <1>2, <1>3, <1>6, AboutToCompute
  <1>8. PICK i, a, b, rs : i = instr /\ a = left /\ b = right /\ rs = top.regs
    OBVIOUS
  <1>9. a = Resolve(rs, i.src1) /\ b = Resolve(rs, i.src2)
    BY <1>8 DEF left, right
  <1>10. a \in Int64
    <2>1. i.src1 \in Operand
      BY <1>7, <1>8, InstructionFields
    <2> QED BY <1>4, <1>8, <1>9, <2>1, ResolveOK
  <1>11. PICK n \in Nat : n = Len(f.bindings)
    BY <1>3
  <1>12. k \in 1 .. n /\ Simple(src, f) /\ RegistersHold(rs, src, f, k - 1)
         /\ ComputesTerm(i, f.bindings, k, TermAt(src, f, k))
    BY <1>7, <1>8, <1>11
  <1>13. i.op = "div" /\ b = 0 => FailsIn(src, f, k)
    BY <1>9, <1>10, <1>11, <1>12, BindingComputed
  <1>14. i.op = "div" /\ b = 0
    BY <1>7, <1>8 DEF DividesByZero, Operators
  <1>15. FailsIn(src, f, k)
    BY <1>13, <1>14
  <1> QED BY <1>2, <1>7, <1>15 DEF SomeFails
LEMMA WorkSimulates ==
    ASSUME VMInv, NEW src, NEW fns, \A m \in 1 .. Len(fns) : Len(fns[m].bindings) \in Nat,
           Simulates(src, fns), Running, top.pc <= Len(code),
           NEW regs, \/ instr.op \notin BinaryOp
                     \/ ~DividesByZero /\ regs = Insert(top.regs, instr.dest, Binary(instr.op, left, right)),
           Complete(regs)
    PROVE  Simulates(src, fns)'
  <1>1. PICK after : after = [top EXCEPT !.regs = regs, !.pc = @ + 1]
    OBVIOUS
  <1>2. stack' = [stack EXCEPT ![Len(stack)] = after] /\ UNCHANGED <<prog, status, results>>
    BY <1>1 DEF Complete
  <1>3. stack # <<>>
    BY DEF Running
  <1>4. Len(stack) \in Nat \ {0}
    BY <1>3, AtTop
  <1>5. FrameHolds(src, fns, prog.fns, top)
    <2>1. Len(stack) \in 1 .. Len(stack)
      BY <1>4
    <2> QED BY <2>1 DEF Simulates, top
  <1>6. FrameHolds(src, fns, prog.fns, after)
    BY <1>1, <1>3, <1>5, FrameDone
  <1>7. PICK S : stack \in Seq(S)
    BY DEF VMInv, StackOK
  <1>8. /\ Len(stack') = Len(stack) /\ stack'[Len(stack)] = after
        /\ \A k \in 1 .. Len(stack) - 1 : stack'[k] = stack[k]
    BY <1>2, <1>3, <1>7, TopReplacedAt
  <1>9. ASSUME NEW j \in 1 .. Len(stack') PROVE FrameHolds(src, fns, prog.fns, stack'[j])
    <2>1. CASE j = Len(stack)
      BY <1>6, <1>8, <2>1
    <2>2. CASE j # Len(stack)
      <3>1. j \in 1 .. Len(stack) - 1 /\ j \in 1 .. Len(stack)
        BY <1>4, <1>8, <2>2
      <3> QED BY <1>8, <3>1 DEF Simulates
    <2> QED BY <2>1, <2>2
  <1> QED BY <1>2, <1>9 DEF Simulates

LEMMA FailureSimulates ==
    ASSUME VMInv, NEW src, NEW fns, \A m \in 1 .. Len(fns) : Len(fns[m].bindings) \in Nat,
           Simulates(src, fns), FailDivision \/ PanicDivision \/ Unwind
    PROVE  Simulates(src, fns)'
  <1>1. UNCHANGED <<prog, results>>
    BY DEF FailDivision, PanicDivision, Unwind
  <1>2. CASE FailDivision
    <2>1. stack' = stack /\ stack # <<>> /\ top.pc <= Len(code) /\ instr.op \in BinaryOp /\ DividesByZero
      BY <1>2 DEF FailDivision, AtInstruction, Running
    <2>2. FrameHolds(src, fns, prog.fns, top)
      <3>1. Len(stack) \in 1 .. Len(stack)
        BY <2>1, AtTop
      <3> QED BY <3>1 DEF Simulates, top
    <2>3. AllSimple(src, fns) => SomeFails(src, fns)
      BY <2>1, <2>2, FailureIsTheSources
    <2> QED BY <1>1, <2>1, <2>3 DEF Simulates
  <1>3. CASE PanicDivision
    <2>1. stack' = <<>> /\ status' = "panic"
      BY <1>3 DEF PanicDivision
    <2>2. 1 .. Len(<<>>) = {}
      OBVIOUS
    <2> QED BY <1>1, <2>1, <2>2 DEF Simulates
  <1>4. CASE Unwind
    <2>1. stack' = Front(stack) /\ status = "failing"
      BY <1>4 DEF Unwind
    <2>2. stack # <<>> /\ StackOK(stack)
      BY <2>1 DEF VMInv
    <2>3. Len(stack') = Len(stack) - 1 /\ \A k \in 1 .. Len(stack) - 1 : stack'[k] = stack[k]
      BY <2>1, <2>2, TopPopped
    <2>4. Len(stack) \in Nat
      BY <2>2, AtTop
    <2>5. \A j \in 1 .. Len(stack') : FrameHolds(src, fns, prog.fns, stack'[j])
      <3> TAKE j \in 1 .. Len(stack')
      <3>1. j \in 1 .. Len(stack) - 1 /\ j \in 1 .. Len(stack)
        BY <2>3, <2>4
      <3> QED BY <2>3, <3>1 DEF Simulates
    <2> QED BY <1>1, <2>1, <2>5 DEF Simulates
  <1> QED BY <1>2, <1>3, <1>4

\* A call begins with no registers set.
LEMMA NewFrameHolds ==
    ASSUME prog \in Program, NEW src, NEW fns, AllMade(src, fns, prog.fns),
           NEW name \in Known, NEW id, NEW vs
    PROVE  FrameHolds(src, fns, prog.fns, Activate(id, FuncMap(name), vs))
  <1>1. PICK p : p = FuncMap(name)
    OBVIOUS
  <1>2. p \in 1 .. Len(prog.fns)
    BY <1>1, FuncMapOK
  <1>3. PICK m \in 1 .. Len(fns) : Makes(src, fns, fns[m], prog.fns[p])
    BY <1>2 DEF AllMade
  <1>4. PICK a : a = Activate(id, p, vs)
    OBVIOUS
  <1>5. a.fn = p /\ a.pc = 1 /\ a.regs = InputRegisters(prog.fns[p], vs)
    BY <1>4 DEF Activate
  <1>6. prog.fns[p].inputs = <<>>
    BY <1>3 DEF Makes
  <1>7. DOMAIN a.regs = {}
    <2>1. DOMAIN InputRegisters(prog.fns[p], vs) = Range(prog.fns[p].inputs)
      BY DEF InputRegisters
    <2>2. Range(<<>>) = {}
      BY DEF Range
    <2> QED BY <1>5, <1>6, <2>1, <2>2
  <1>8. RegistersHold(a.regs, src, fns[m], a.pc - 1)
    <2>1. 1 - 1 = 0 /\ 0 .. 0 - 1 = {} /\ 1 .. 0 = {}
      OBVIOUS
    <2> QED BY <1>5, <1>7, <2>1 DEF RegistersHold
  <1>9. FrameOf(src, fns, prog.fns, fns[m], a)
    BY <1>3, <1>5, <1>8 DEF FrameOf
  <1> QED BY <1>1, <1>4, <1>9 DEF FrameHolds

LEMMA CallSimulates ==
    ASSUME VMInv, NEW src, NEW fns, Simulates(src, fns), ExecCall
    PROVE  Simulates(src, fns)'
  <1>1. PICK a : a = Activate(Len(hist) + 1, FuncMap(instr.callee),
                              [k \in 1 .. Len(instr.args) |-> Resolve(top.regs, instr.args[k])])
    OBVIOUS
  <1>2. stack' = Append(stack, a) /\ UNCHANGED <<prog, status, results>> /\ instr.callee \in Known
    BY <1>1 DEF ExecCall
  <1>3. FrameHolds(src, fns, prog.fns, a)
    <2>1. PICK name, id, vs : /\ name = instr.callee /\ id = Len(hist) + 1
                              /\ vs = [k \in 1 .. Len(instr.args) |-> Resolve(top.regs, instr.args[k])]
      OBVIOUS
    <2>2. prog \in Program /\ AllMade(src, fns, prog.fns) /\ name \in Known
      BY <1>2, <2>1 DEF VMInv, Simulates
    <2>3. FrameHolds(src, fns, prog.fns, Activate(id, FuncMap(name), vs))
      BY <2>2, NewFrameHolds
    <2> QED BY <1>1, <2>1, <2>3
  <1>4. PICK S : stack \in Seq(S)
    BY DEF VMInv, StackOK
  <1>5. /\ Len(stack) \in Nat /\ Len(stack') = Len(stack) + 1 /\ stack'[Len(stack) + 1] = a
        /\ \A k \in 1 .. Len(stack) : stack'[k] = stack[k]
    <2>1. PICK D : D = S \cup {a}
      OBVIOUS
    <2>2. stack \in Seq(D) /\ a \in D
      BY <1>4, <2>1
    <2> QED BY <1>2, <2>2
  <1>6. ASSUME NEW j \in 1 .. Len(stack') PROVE FrameHolds(src, fns, prog.fns, stack'[j])
    <2>1. CASE j = Len(stack) + 1
      BY <1>3, <1>5, <2>1
    <2>2. CASE j # Len(stack) + 1
      <3>1. j \in 1 .. Len(stack)
        BY <1>5, <2>2
      <3> QED BY <1>5, <3>1 DEF Simulates
    <2> QED BY <2>1, <2>2
  <1> QED BY <1>2, <1>6 DEF Simulates

\* What returns leaves a result that holds all its bindings, and what called it
\* holds none.
LEMMA ReturnSimulates ==
    ASSUME VMInv, NEW src, NEW fns, \A m \in 1 .. Len(fns) : Len(fns[m].bindings) \in Nat,
           Simulates(src, fns), Return
    PROVE  Simulates(src, fns)'
  <1>1. PICK name, r, caller, resumed :
            /\ name = prog.fns[top.fn].name
            /\ r = [registers |-> top.regs, outputs |-> Outputs(top)]
            /\ caller = stack[Len(stack) - 1]
            /\ resumed = [caller EXCEPT !.regs = WithOutputs(@, prog.fns[caller.fn].code[caller.pc].dests,
                                                            r.outputs), !.pc = @ + 1]
    OBVIOUS
  <1>2. /\ stack # <<>> /\ status = "running" /\ top.pc > Len(code) /\ UNCHANGED prog
        /\ results' = results \/ results' = Insert(results, name, r)
        /\ \/ stack' = <<>> /\ status' = "ok"
           \/ stack' = [Front(stack) EXCEPT ![Len(stack) - 1] = resumed] /\ status' = "running" /\ Len(stack) # 1
    BY <1>1, Zenon DEF Return, Running, ResultInserted
  <1>3. /\ Len(stack) \in Nat \ {0} /\ ActivationOK(top) /\ top.fn \in 1 .. Len(prog.fns)
        /\ Len(code) \in Nat /\ top.pc \in 1 .. Len(code) + 1
    BY <1>2, AtTop
  <1>4. PICK m \in 1 .. Len(fns) : FrameOf(src, fns, prog.fns, fns[m], top)
    <2>1. Len(stack) \in 1 .. Len(stack)
      BY <1>3
    <2> QED BY <2>1 DEF Simulates, FrameHolds, top
  <1>5. ResultHolds(src, fns, prog.fns, name, r)
    <2>1. PICK f, g : f = fns[m] /\ g = prog.fns[top.fn]
      OBVIOUS
    <2>2. Makes(src, fns, f, g) /\ code = g.code
      BY <1>4, <2>1 DEF FrameOf, code
    <2>3. f.aleo = name
      BY <1>1, <2>1, <2>2 DEF Makes
    <2>4. ASSUME Straight(src, fns, f) PROVE RegistersHold(r.registers, src, f, Len(f.bindings))
      <3>1. Len(code) = Len(f.bindings)
        BY <2>2, <2>4 DEF Makes, ComputesAll
      <3>2. top.pc - 1 = Len(code)
        BY <1>2, <1>3
      <3>3. RegistersHold(top.regs, src, f, top.pc - 1)
        BY <1>4, <2>1, <2>4 DEF FrameOf
      <3>4. r.registers = top.regs
        BY <1>1
      <3> QED BY <3>1, <3>2, <3>3, <3>4
    <2>5. ResultOf(src, fns, f, name, r)
      BY <2>3, <2>4 DEF ResultOf
    <2> QED BY <1>1, <1>3, <2>1, <2>5 DEF ResultHolds
  <1>6. ASSUME NEW x \in DOMAIN results' PROVE ResultHolds(src, fns, prog.fns, x, results'[x])
    <2>1. CASE results' = results
      BY <2>1 DEF Simulates
    <2>2. CASE results' = Insert(results, name, r)
      <3>1. CASE x = name
        BY <1>5, <2>2, <3>1 DEF Insert
      <3>2. CASE x # name
        <4>1. x \in DOMAIN results /\ results'[x] = results[x]
          BY <2>2, <3>2 DEF Insert
        <4> QED BY <4>1 DEF Simulates
      <3> QED BY <3>1, <3>2
    <2> QED BY <1>2, <2>1, <2>2
  <1>7. CASE stack' = <<>> /\ status' = "ok"
    <2>1. 1 .. Len(<<>>) = {}
      OBVIOUS
    <2> QED BY <1>2, <1>6, <1>7, <2>1 DEF Simulates
  <1>8. CASE stack' = [Front(stack) EXCEPT ![Len(stack) - 1] = resumed] /\ status' = "running" /\ Len(stack) # 1
    <2>1. PICK n : n = Len(stack) - 1
      OBVIOUS
    <2>2. n \in 1 .. Len(stack) /\ n \in Nat \ {0} /\ n \in 1 .. Len(stack) - 1
      BY <1>3, <1>8, <2>1
    <2>3. StackOK(Front(stack)) /\ Len(Front(stack)) = n /\ \A k \in 1 .. n : Front(stack)[k] = stack[k]
      BY <1>2, <2>1, TopPopped DEF VMInv
    <2>4. PICK fr : fr = Front(stack)
      OBVIOUS
    <2>5. PICK S : fr \in Seq(S)
      BY <2>3, <2>4 DEF StackOK
    <2>6. stack' = [fr EXCEPT ![Len(fr)] = resumed] /\ fr # <<>>
      BY <1>8, <2>1, <2>2, <2>3, <2>4
    <2>7. Len(stack') = n /\ stack'[n] = resumed /\ \A k \in 1 .. n - 1 : stack'[k] = stack[k]
      <3>1. /\ Len(stack') = Len(fr) /\ stack'[Len(fr)] = resumed
            /\ \A k \in 1 .. Len(fr) - 1 : stack'[k] = fr[k]
        BY <2>5, <2>6, TopReplacedAt
      <3> QED BY <2>2, <2>3, <2>4, <3>1
    <2>8. caller = stack[n] /\ ActivationOK(caller) /\ Waiting(caller)
      BY <1>1, <2>1, <2>2 DEF VMInv, StackOK
    <2>9. PICK q \in 1 .. Len(fns) : FrameOf(src, fns, prog.fns, fns[q], caller)
      BY <2>2, <2>8 DEF Simulates, FrameHolds
    <2>10. resumed.fn = caller.fn
      BY <1>1, <2>8 DEF ActivationOK, ActivationFields
    <2>11. ~Straight(src, fns, fns[q])
      <3>1. SUFFICES ASSUME Straight(src, fns, fns[q]) PROVE FALSE
        OBVIOUS
      <3>2. PICK f, is, k : f = fns[q] /\ is = CodeOf(caller) /\ k = caller.pc
        OBVIOUS
      <3>3. ComputesAll(src, f, is)
        BY <2>9, <3>1, <3>2 DEF FrameOf, Makes, CodeOf
      <3>4. k <= Len(is) /\ is[k].op = "call" /\ k \in 1 .. Len(is) + 1
        BY <2>8, <3>2 DEF Waiting, ActivationOK
      <3>5. Len(is) = Len(f.bindings) /\ Len(f.bindings) \in Nat
        BY <3>2, <3>3 DEF ComputesAll
      <3>6. k \in 1 .. Len(f.bindings)
        BY <3>4, <3>5
      <3>7. is[k].op \in Operators
        BY <3>3, <3>6 DEF ComputesAll
      <3> QED BY <3>4, <3>7 DEF Operators
    <2>12. FrameHolds(src, fns, prog.fns, resumed)
      <3>1. FrameOf(src, fns, prog.fns, fns[q], resumed)
        BY <2>9, <2>10, <2>11 DEF FrameOf
      <3> QED BY <3>1 DEF FrameHolds
    <2>13. ASSUME NEW j \in 1 .. Len(stack') PROVE FrameHolds(src, fns, prog.fns, stack'[j])
      <3>1. CASE j = n
        BY <2>7, <2>12, <3>1
      <3>2. CASE j # n
        <4>1. j \in 1 .. n - 1 /\ j \in 1 .. Len(stack)
          BY <1>3, <2>1, <2>2, <2>7, <3>2
        <4> QED BY <2>7, <4>1 DEF Simulates
      <3> QED BY <3>1, <3>2
    <2> QED BY <1>2, <1>6, <1>8, <2>13 DEF Simulates
  <1> QED BY <1>2, <1>7, <1>8

LEMMA SimulationStep ==
    ASSUME VMInv, NEW src, NEW fns, \A m \in 1 .. Len(fns) : Len(fns[m].bindings) \in Nat,
           Simulates(src, fns), Execute
    PROVE  Simulates(src, fns)'
  <1>1. ASSUME NEW regs, Running, top.pc <= Len(code),
               \/ instr.op \notin BinaryOp
               \/ ~DividesByZero /\ regs = Insert(top.regs, instr.dest, Binary(instr.op, left, right)),
               Complete(regs)
        PROVE  Simulates(src, fns)'
    BY <1>1, WorkSimulates
  <1>2. CASE ExecBinary
    <2>1. /\ Running /\ top.pc <= Len(code) /\ ~DividesByZero
          /\ Complete(Insert(top.regs, instr.dest, Binary(instr.op, left, right)))
      BY <1>2 DEF ExecBinary, AtInstruction
    <2> QED BY <1>1, <2>1
  <1>3. CASE ExecGet \/ ExecGetOrUse \/ ExecSet \/ ExecRemove \/ ExecContains \/ ExecUnknown \/ ExecUnknownCall
    <2>1. Running /\ top.pc <= Len(code) /\ instr.op \notin BinaryOp
      BY <1>3 DEF ExecGet, ExecGetOrUse, ExecSet, ExecRemove, ExecContains, ExecUnknown, ExecUnknownCall,
                  AtInstruction, BinaryOp
    <2>2. \E regs : Complete(regs)
      <3> USE DEF ExecGet, ExecGetOrUse, ExecSet, ExecRemove, ExecContains, ExecUnknown, ExecUnknownCall
      <3> HIDE DEF Complete
      <3> QED BY <1>3, Zenon
    <2> QED BY <1>1, <2>1, <2>2
  <1>4. CASE FailDivision \/ PanicDivision \/ Unwind
    BY <1>4, FailureSimulates
  <1>5. CASE ExecCall
    BY <1>5, CallSimulates
  <1>6. CASE Return
    BY <1>6, ReturnSimulates
  <1> QED BY <1>2, <1>3, <1>4, <1>5, <1>6 DEF Execute
----------------------------------------------------------------------------
(* The registers read back *)

Namesake(fns, n) ==
    \E m \in 1 .. Len(fns) \ {n} : fns[n].name \in {fns[m].name, fns[m].aleo}

Binds(f, x) == \E k \in 1 .. Len(f.bindings) : f.bindings[k].name = x

\* The value of x is that of the last binding of f by this name.
Agrees(src, f, x, vs) == x \in DOMAIN vs /\ vs[x] = Environment(src, f, Len(f.bindings))[x]

\* What a function's registers are read back as are its variables.
LEMMA ReadBack ==
    ASSUME NEW src, NEW fns, NEW gs, AllMade(src, fns, gs), Len(gs) \in Nat,
           NEW rs, NEW n \in 1 .. Len(fns), NEW f, f = fns[n], Len(f.bindings) \in Nat,
           f.name \in DOMAIN rs, ResultHolds(src, fns, gs, f.name, rs[f.name]),
           Simple(src, f), ~Namesake(fns, n),
           NEW x, Binds(f, x), NEW vs, NEW ws, ws = MapFunction(vs, f, gs, rs)
    PROVE  Agrees(src, f, x, ws)
  <1>1. PICK h \in Nat : h = Len(f.bindings)
    OBVIOUS
  <1>2. ASSUME NEW m \in 1 .. Len(fns), fns[m].aleo = f.name PROVE fns[m] = f
    BY <1>2 DEF Namesake
  <1>3. ~HasCall(fns, f)
    <2>1. f.bindings # <<>>
      BY DEF Binds
    <2> QED BY <2>1 DEF HasCall
  <1>4. PICK regs : regs = rs[f.name].registers
    OBVIOUS
  <1>5. RegistersHold(regs, src, f, h)
    <2>1. PICK m \in 1 .. Len(fns) : ResultOf(src, fns, fns[m], f.name, rs[f.name])
      BY DEF ResultHolds
    <2>2. fns[m] = f
      BY <1>2, <2>1 DEF ResultOf
    <2> QED BY <1>1, <1>3, <1>4, <2>1, <2>2 DEF ResultOf, Straight
  <1>6. PICK p : p = MatchingFunction(gs, f.name)
    OBVIOUS
  <1>7. p # 0 /\ gs[p].inputs = <<>>
    <2>1. PICK P : P = {q \in 1 .. Len(gs) : gs[q].name = f.name}
      OBVIOUS
    <2>2. P # {} /\ P \subseteq 1 .. Len(gs)
      BY <2>1 DEF ResultHolds
    <2>3. p \in P
      <3>1. p = FirstIn(P, 0)
        BY <1>6, <2>1 DEF MatchingFunction
      <3>2. P \subseteq Nat /\ 0 \in Nat
        BY <2>2
      <3> QED BY <2>2, <3>1, <3>2, FirstInIs
    <2>4. p \in 1 .. Len(gs) /\ gs[p].name = f.name
      BY <2>1, <2>3
    <2>5. PICK m \in 1 .. Len(fns) : Makes(src, fns, fns[m], gs[p])
      BY <2>4 DEF AllMade
    <2> QED BY <2>4, <2>5 DEF Makes
  <1> DEFINE at(k) == Len(gs[p].inputs) + k - 1
             held == {k \in 1 .. Len(f.bindings) : at(k) \in DOMAIN regs}
             names == {f.bindings[k].name : k \in held}
             bound(y) == {k \in held : f.bindings[k].name = y}
  <1>8. ws = [y \in DOMAIN vs \cup names |-> IF y \in names THEN regs[at(Max(bound(y)))] ELSE vs[y]]
    BY <1>4, <1>6, <1>7, Zenon DEF MapFunction
  <1>9. \A k \in 1 .. h : at(k) = k - 1
    <2>1. Len(<<>>) = 0
      OBVIOUS
    <2>2. \A k \in 1 .. h : 0 + k - 1 = k - 1
      OBVIOUS
    <2> QED BY <1>7, <2>1, <2>2
  <1>10. held = 1 .. h
    <2>1. \A k \in 1 .. h : at(k) \in DOMAIN regs
      <3> TAKE k \in 1 .. h
      <3>1. k - 1 \in 0 .. h - 1
        BY <1>1
      <3> QED BY <1>5, <1>9, <3>1 DEF RegistersHold
    <2> HIDE DEF at
    <2> QED BY <1>1, <2>1
  <1>11. PICK B : B = bound(x)
    OBVIOUS
  <1>12. B = {k \in 1 .. h : f.bindings[k].name = x}
    <2> HIDE DEF held
    <2> QED BY <1>10, <1>11
  <1>13. B # {} /\ B \subseteq 1 .. h /\ x \in names
    <2>1. PICK k \in 1 .. h : f.bindings[k].name = x
      BY <1>1 DEF Binds
    <2> HIDE DEF held
    <2> QED BY <1>10, <1>12, <2>1
  <1>14. PICK m : m = Max(B)
    OBVIOUS
  <1>15. m \in B /\ \A j \in B : j <= m
    BY <1>1, <1>13, <1>14, GreatestLine
  <1>16. ws[x] = regs[m - 1] /\ x \in DOMAIN ws
    <2>1. m \in 1 .. h /\ at(m) = m - 1
      BY <1>9, <1>13, <1>15
    <2>2. ws[x] = regs[at(Max(bound(x)))] /\ x \in DOMAIN ws
      <3> HIDE DEF names, at, bound
      <3> QED BY <1>8, <1>13
    <2> HIDE DEF at, bound
    <2> QED BY <1>11, <1>14, <2>1, <2>2
  <1>17. m \in 1 .. h /\ f.bindings[m].name = x /\ \A j \in m + 1 .. h : f.bindings[j].name # x
    <2>1. m \in 1 .. h /\ f.bindings[m].name = x
      BY <1>12, <1>15
    <2>2. ASSUME NEW j \in m + 1 .. h, f.bindings[j].name = x PROVE FALSE
      <3>1. j \in 1 .. h /\ ~(j <= m)
        BY <1>1, <2>1
      <3> QED BY <1>12, <1>15, <2>2, <3>1
    <2> QED BY <2>1, <2>2
  <1>18. Environment(src, f, h)[x] = BoundValue(src, f, m)
    <2>1. h \in 0 .. h
      BY <1>1
    <2>2. \A q \in 1 .. h : (\A j \in q + 1 .. h : f.bindings[j].name # f.bindings[q].name) =>
              Environment(src, f, h)[f.bindings[q].name] = BoundValue(src, f, q)
      <3>1. h \in Nat /\ h = Len(f.bindings) /\ Simple(src, f)
        BY <1>1
      <3> QED BY ONLY <2>1, <3>1, LastBindingHolds
    <2> QED BY ONLY <1>17, <2>2
  <1>19. regs[m - 1] = BoundValue(src, f, m)
    BY <1>5, <1>17 DEF RegistersHold
  <1> QED BY <1>1, <1>16, <1>18, <1>19 DEF Agrees

\* A function that does not bind a variable leaves it alone.
LEMMA OthersLeave ==
    ASSUME NEW f, NEW gs, NEW rs, NEW x, f.name \in DOMAIN rs => ~Binds(f, x),
           NEW vs, x \in DOMAIN vs, NEW ws, ws = MapFunction(vs, f, gs, rs)
    PROVE  x \in DOMAIN ws /\ ws[x] = vs[x]
  <1>1. PICK p, regs : p = MatchingFunction(gs, f.name) /\ regs = rs[f.name].registers
    OBVIOUS
  <1> DEFINE at(k) == Len(gs[p].inputs) + k - 1
             held == {k \in 1 .. Len(f.bindings) : at(k) \in DOMAIN regs}
             names == {f.bindings[k].name : k \in held}
             bound(y) == {k \in held : f.bindings[k].name = y}
  <1>2. CASE p = 0 \/ f.name \notin DOMAIN rs
    <2>1. ws = vs
      BY <1>1, <1>2, Zenon DEF MapFunction
    <2> QED BY <2>1
  <1>3. CASE ~(p = 0 \/ f.name \notin DOMAIN rs)
    <2>1. ws = [y \in DOMAIN vs \cup names |-> IF y \in names THEN regs[at(Max(bound(y)))] ELSE vs[y]]
      BY <1>1, <1>3, Zenon DEF MapFunction
    <2>2. x \notin names
      BY <1>3 DEF Binds
    <2> HIDE DEF names, at, bound
    <2> QED BY <2>1, <2>2
  <1> QED BY <1>2, <1>3

\* The variables in the end.
LEMMA MapAgrees ==
    ASSUME NEW src, NEW fns, NEW l \in Nat, l = Len(fns), \A m \in 1 .. l : Len(fns[m].bindings) \in Nat,
           NEW gs, AllMade(src, fns, gs), Len(gs) \in Nat,
           NEW rs, \A y \in DOMAIN rs : RegistersOK(rs[y].registers) /\ ResultHolds(src, fns, gs, y, rs[y]),
           NEW n \in 1 .. l, NEW f, f = fns[n], f.name \in DOMAIN rs, Simple(src, f), ~Namesake(fns, n),
           NEW x, Binds(f, x), \A m \in 1 .. l \ {n} : fns[m].name \in DOMAIN rs => ~Binds(fns[m], x),
           NEW vs, vs = MapRegisters(fns, gs, rs)
    PROVE  Agrees(src, f, x, vs)
  <1>1. PICK u \in [0 .. l -> ValueMaps(fns)] : MapUpTo(u, fns, gs, rs, l) /\ MapRegisters(fns, gs, rs) = u[l]
    <2>1. \A y \in DOMAIN rs : RegistersOK(rs[y].registers)
      OBVIOUS
    <2>2. MapTabled(fns, gs, rs, l)
      BY <2>1, MapDef
    <2> QED BY <2>2 DEF MapTabled
  <1>2. \A k \in 1 .. l : u[k] = MapFunction(u[k - 1], fns[k], gs, rs)
    <2> TAKE k \in 1 .. l
    <2>1. k \in 0 .. l /\ k # 0
      OBVIOUS
    <2> QED BY <1>1, <2>1 DEF MapUpTo
  <1>3. PICK v : v = Environment(src, f, Len(f.bindings))[x]
    OBVIOUS
  <1> DEFINE T == {k \in Nat : k >= n /\ k <= l => x \in DOMAIN u[k] /\ u[k][x] = v}
  <1>4. ASSUME NEW k \in Nat, k >= n, k <= l, k - 1 >= n => x \in DOMAIN u[k - 1] /\ u[k - 1][x] = v
        PROVE  x \in DOMAIN u[k] /\ u[k][x] = v
    <2>1. k \in 1 .. l
      BY <1>4
    <2>2. PICK a, b : a = u[k - 1] /\ b = u[k]
      OBVIOUS
    <2>3. b = MapFunction(a, fns[k], gs, rs)
      BY <1>2, <2>1, <2>2
    <2>4. CASE k = n
      <3>1. b = MapFunction(a, f, gs, rs) /\ n \in 1 .. Len(fns) /\ f = fns[n] /\ Len(f.bindings) \in Nat
            /\ ResultHolds(src, fns, gs, f.name, rs[f.name])
        BY <2>3, <2>4
      <3>2. /\ AllMade(src, fns, gs) /\ Len(gs) \in Nat /\ f.name \in DOMAIN rs
            /\ Simple(src, f) /\ ~Namesake(fns, n) /\ Binds(f, x)
        OBVIOUS
      <3>3. Agrees(src, f, x, b)
        BY ONLY <3>1, <3>2, ReadBack
      <3> QED BY <1>3, <2>2, <3>3 DEF Agrees
    <2>5. CASE k # n
      <3>1. k \in 1 .. l \ {n} /\ k - 1 >= n
        BY <1>4, <2>1, <2>5
      <3>2. x \in DOMAIN a /\ a[x] = v
        BY <1>4, <2>2, <3>1
      <3>3. PICK g : g = fns[k]
        OBVIOUS
      <3>4. g.name \in DOMAIN rs => ~Binds(g, x)
        BY <3>1, <3>3
      <3>5. b = MapFunction(a, g, gs, rs)
        BY <2>3, <3>3
      <3>6. x \in DOMAIN b /\ b[x] = a[x]
        BY <3>2, <3>4, <3>5, OthersLeave
      <3> QED BY <2>2, <3>2, <3>6
    <2> QED BY <2>4, <2>5
  <1>5. \A k \in Nat : k \in T
    <2>1. 0 \in T
      OBVIOUS
    <2>2. ASSUME NEW k \in Nat, k \in T PROVE k + 1 \in T
      <3> SUFFICES ASSUME k + 1 >= n, k + 1 <= l PROVE x \in DOMAIN u[k + 1] /\ u[k + 1][x] = v
        OBVIOUS
      <3>1. k + 1 \in Nat /\ (k + 1) - 1 = k
        OBVIOUS
      <3>2. (k + 1) - 1 >= n => x \in DOMAIN u[(k + 1) - 1] /\ u[(k + 1) - 1][x] = v
        BY <2>2, <3>1
      <3> HIDE DEF T
      <3> QED BY <1>4, <3>1, <3>2
    <2> HIDE DEF T
    <2> QED BY <2>1, <2>2, NatSetInduction
  <1>6. l \in T /\ l >= n
    BY <1>5
  <1> QED BY <1>1, <1>3, <1>6 DEF Agrees
----------------------------------------------------------------------------
(* From the source to its variables *)

OfFallback == aleo # <<>> /\ aleo = GenerateAleo(text, leoFunctions)

FallbackInv ==
    /\ PipeInv
    /\ aleo \in {<<>>, source.cli, GenerateAleo(text, leoFunctions)}
    /\ stage = "compile" => aleo = <<>>
    /\ stage \in {"compile", "parse", "begin"} => results = <<>>
    /\ stage \notin {"compile", "parse"} /\ OfFallback => Simulates(text, leoFunctions)
    /\ outcome = "avm_runtime_error" => stage = "end" /\ status = "err"
    /\ stage = "emit" => values = MapRegisters(leoFunctions, prog.fns, results)

\* What was read of a source.
SourceIs(src, fns) ==
    /\ \E s \in Sources : src = TextOf(s)
    /\ fns = ParseLeoFunctions(src)
    /\ \A m \in 1 .. Len(fns) : Len(fns[m].bindings) \in Nat

LEMMA SourceIsRead == SourceRead => SourceIs(text, leoFunctions)
  <1> SUFFICES ASSUME SourceRead PROVE SourceIs(text, leoFunctions)
    OBVIOUS
  <1>1. PICK s, src, fns : s = source /\ src = text /\ fns = leoFunctions
    OBVIOUS
  <1>2. s \in Sources /\ src = TextOf(s) /\ fns = ParseLeoFunctions(src)
    BY <1>1 DEF SourceRead, text
  <1>3. \A m \in 1 .. Len(fns) : Len(fns[m].bindings) \in Nat
    BY <1>2, FallbackReads
  <1>4. SourceIs(src, fns)
    BY <1>2, <1>3 DEF SourceIs
  <1> QED BY <1>1, <1>4

\* The simulation begins when the program is parsed and when main is called.
LEMMA ParsedSimulates ==
    ASSUME FallbackInv, ParseAleo, NEW src, NEW fns, src = text, fns = leoFunctions, OfFallback
    PROVE  Simulates(src, fns)'
  <1>1. /\ stage = "parse" /\ prog' = Recorded(ParseAleoProgram(aleo))
        /\ UNCHANGED <<stack, results, status>>
    BY DEF ParseAleo
  <1>2. stack = <<>> /\ status = "running" /\ results = <<>>
    BY <1>1 DEF FallbackInv, PipeInv, MachineInv, Idle
  <1>3. PICK lines, gs : lines = aleo /\ gs = ParseAleoProgram(lines)
    OBVIOUS
  <1>4. prog'.fns = gs
    BY <1>1, <1>3 DEF Recorded
  <1>5. AllMade(src, fns, gs)
    <2>1. PICK s \in Sources : src = TextOf(s)
      BY SourceIsRead DEF SourceIs, FallbackInv, PipeInv
    <2>2. fns = ParseLeoFunctions(src) /\ lines = GenerateAleo(src, fns)
      BY <1>3 DEF FallbackInv, PipeInv, SourceRead, OfFallback
    <2>3. ASSUME NEW p \in 1 .. Len(gs) PROVE \E m \in 1 .. Len(fns) : Makes(src, fns, fns[m], gs[p])
      BY <1>3, <2>1, <2>2, ProgramMade
    <2> QED BY <2>3 DEF AllMade
  <1>6. 1 .. Len(<<>>) = {} /\ DOMAIN <<>> = {}
    OBVIOUS
  <1> QED BY <1>1, <1>2, <1>4, <1>5, <1>6 DEF Simulates

LEMMA BeginSimulates ==
    ASSUME FallbackInv, BeginExecution, NEW src, NEW fns, Simulates(src, fns)
    PROVE  Simulates(src, fns)'
  <1>1. stage = "begin" /\ UNCHANGED <<prog, results>>
    BY DEF BeginExecution
  <1>2. stack = <<>> /\ status = "running" /\ prog \in Program
    BY <1>1 DEF FallbackInv, PipeInv, MachineInv, Idle, VMInv
  <1>3. CASE "main" \in Known
    <2>1. PICK name, id, vs : name = "main" /\ id = 0 /\ vs = <<>>
      OBVIOUS
    <2>2. PICK a : a = Activate(id, FuncMap(name), vs)
      OBVIOUS
    <2>3. stack' = <<a>> /\ status' = status
      BY <1>3, <2>1, <2>2 DEF BeginExecution
    <2>4. FrameHolds(src, fns, prog.fns, a)
      <3>1. AllMade(src, fns, prog.fns) /\ name \in Known
        BY <1>3, <2>1 DEF Simulates
      <3> QED BY <1>2, <2>2, <3>1, NewFrameHolds
    <2>5. Len(stack') = 1 /\ stack'[1] = a
      BY <2>3
    <2>6. \A j \in 1 .. Len(stack') : FrameHolds(src, fns, prog.fns, stack'[j])
      BY <2>4, <2>5
    <2> QED BY <1>1, <2>3, <2>6 DEF Simulates
  <1>4. CASE "main" \notin Known
    <2>1. stack' = stack /\ status' = "ok"
      BY <1>4 DEF BeginExecution
    <2> QED BY <1>1, <2>1 DEF Simulates
  <1> QED BY <1>3, <1>4

LEMMA FallbackStep == FallbackInv /\ [PipelineNext]_allVars => FallbackInv'
  <1> SUFFICES ASSUME FallbackInv, [PipelineNext]_allVars PROVE FallbackInv'
    OBVIOUS
  <1>1. PICK src, fns, lines : src = text /\ fns = leoFunctions /\ lines = GenerateAleo(src, fns)
    OBVIOUS
  <1>2. PipeInv'
    BY PipeStep DEF FallbackInv
  <1>3. source' = source /\ text' = src /\ leoFunctions' = fns
    BY <1>1, SourceStays DEF srcVars, text
  <1>4. OfFallback' <=> aleo' # <<>> /\ aleo' = lines
    BY <1>1, <1>3 DEF OfFallback
  <1>5. OfFallback <=> aleo # <<>> /\ aleo = lines
    BY <1>1 DEF OfFallback
  <1>6. /\ aleo \in {<<>>, source.cli, lines}
        /\ stage \notin {"compile", "parse"} /\ OfFallback => Simulates(src, fns)
    BY <1>1 DEF FallbackInv
  <1>7. VMInv /\ SourceIs(src, fns)
    BY <1>1, SourceIsRead DEF FallbackInv, PipeInv, MachineInv
  <1>8. SUFFICES /\ aleo' \in {<<>>, source.cli, lines}
                 /\ stage' = "compile" => aleo' = <<>>
                 /\ stage' \in {"compile", "parse", "begin"} => results' = <<>>
                 /\ stage' \notin {"compile", "parse"} /\ OfFallback' => Simulates(src, fns)'
                 /\ outcome' = "avm_runtime_error" => stage' = "end" /\ status' = "err"
                 /\ stage' = "emit" => values' = MapRegisters(fns, prog'.fns, results')
    BY <1>1, <1>2, <1>3 DEF FallbackInv
  <1>9. ASSUME UNCHANGED vmVars PROVE Simulates(src, fns)' <=> Simulates(src, fns)
    BY <1>9 DEF vmVars, Simulates
  <1>10. CASE CompileViaCli \/ CompileViaFallback
    <2>1. stage = "compile" /\ results = <<>> /\ outcome # "avm_runtime_error" /\ aleo = <<>>
      BY <1>10 DEF FallbackInv, CompileViaCli, CompileViaFallback
    <2>2. UNCHANGED vmVars
      BY <1>10 DEF CompileViaCli, CompileViaFallback
    <2>3. \/ stage' = "parse" /\ outcome' = outcome /\ aleo' \in {source.cli, lines}
          \/ stage' = "end" /\ outcome' = "leo_compile_error" /\ aleo' = aleo
      BY <1>1, <1>10, Zenon DEF CompileViaCli, CompileViaFallback, Goto, End
    <2> QED BY <1>4, <2>1, <2>2, <2>3 DEF vmVars
  <1>11. CASE ParseAleo
    <2>1. stage = "parse" /\ stage' = "begin" /\ UNCHANGED <<aleo, outcome, results>>
      BY <1>11 DEF ParseAleo, Goto
    <2>2. results = <<>> /\ outcome # "avm_runtime_error"
      BY <2>1 DEF FallbackInv
    <2>3. OfFallback => Simulates(src, fns)'
      BY <1>1, <1>11, ParsedSimulates
    <2> QED BY <1>4, <1>5, <1>6, <2>1, <2>2, <2>3
  <1>12. CASE BeginExecution
    <2>1. stage = "begin" /\ stage' = "execute" /\ UNCHANGED <<aleo, outcome>>
      BY <1>12 DEF BeginExecution, Goto
    <2>2. outcome # "avm_runtime_error"
      BY <2>1 DEF FallbackInv
    <2>3. OfFallback => Simulates(src, fns)'
      BY <1>6, <1>12, <2>1, BeginSimulates
    <2> QED BY <1>4, <1>5, <1>6, <2>1, <2>2, <2>3
  <1>13. CASE Execution
    <2>1. stage = "execute" /\ UNCHANGED <<stage, aleo, outcome>> /\ Execute
      BY <1>13 DEF Execution, pipeVars
    <2>2. outcome # "avm_runtime_error"
      BY <2>1 DEF FallbackInv
    <2>3. OfFallback => Simulates(src, fns)'
      BY <1>6, <1>7, <2>1, SimulationStep DEF SourceIs
    <2> QED BY <1>4, <1>5, <1>6, <2>1, <2>2, <2>3
  <1>14. CASE Executed
    <2>1. /\ stage = "execute" /\ UNCHANGED <<aleo, vmVars>>
          /\ \/ stage' = "map" /\ outcome' = outcome
             \/ stage' = "end" /\ outcome' = "avm_runtime_error" /\ status = "err"
             \/ stage' = "end" /\ outcome' = "panic"
      BY <1>14, Zenon DEF Executed, Goto, End
    <2>2. outcome # "avm_runtime_error"
      BY <2>1 DEF FallbackInv
    <2>3. status' = status
      BY <2>1 DEF vmVars
    <2> QED BY <1>4, <1>5, <1>6, <1>9, <2>1, <2>2, <2>3
  <1>15. CASE MapVariables
    <2>1. /\ stage = "map" /\ stage' = "emit" /\ UNCHANGED <<aleo, vmVars, outcome>>
          /\ values' = MapRegisters(fns, prog.fns, results)
      BY <1>1, <1>15 DEF MapVariables, Goto
    <2>2. outcome # "avm_runtime_error"
      BY <2>1 DEF FallbackInv
    <2>3. prog' = prog /\ results' = results
      BY <2>1 DEF vmVars
    <2> QED BY <1>4, <1>5, <1>6, <1>9, <2>1, <2>2, <2>3
  <1>16. CASE \/ ChooseDialect \/ ChooseStructured \/ ChooseLegacy
              \/ WalkDialectLine \/ EmitDialectFunction \/ DialectEmitted
              \/ LegacyCall \/ LegacyReturn \/ LegacyEmitted
    <2>1. /\ stage \in {"emit", "dialect", "legacy"} /\ stage' \in {"dialect", "legacy", "end"}
          /\ UNCHANGED <<aleo, vmVars>> /\ outcome' \in {outcome, "recorded", "panic"}
      BY <1>16 DEF ChooseDialect, ChooseStructured, ChooseLegacy, WalkDialectLine, EmitDialectFunction,
                   DialectEmitted, LegacyCall, LegacyReturn, LegacyEmitted, Goto, End
    <2>2. outcome # "avm_runtime_error"
      BY <2>1 DEF FallbackInv
    <2> QED BY <1>4, <1>5, <1>6, <1>9, <2>1, <2>2
  <1>17. CASE UNCHANGED allVars
    <2>1. UNCHANGED <<stage, aleo, outcome, values, vmVars>>
      BY <1>17 DEF allVars, pipeVars
    <2>2. prog' = prog /\ results' = results /\ status' = status
      BY <2>1 DEF vmVars
    <2> QED BY <1>1, <1>4, <1>5, <1>6, <1>9, <2>1, <2>2 DEF FallbackInv
  <1> QED BY <1>10, <1>11, <1>12, <1>13, <1>14, <1>15, <1>16, <1>17 DEF PipelineNext, Pipeline, Ended

LEMMA FallbackStarts == PipelineInit => FallbackInv
  <1> SUFFICES ASSUME PipelineInit PROVE FallbackInv
    OBVIOUS
  <1>1. PipeInv
    BY PipeStarts
  <1>2. stage = "compile" /\ outcome = "running" /\ aleo = <<>> /\ results = <<>>
    BY DEF PipelineInit
  <1> QED BY <1>1, <1>2 DEF FallbackInv

LEMMA FallbackReadBack == FallbackInv => FallbackAgreesWithSource
  <1> SUFFICES ASSUME FallbackInv, ByFallback PROVE FallbackAgreesWithSource
    BY DEF FallbackAgreesWithSource
  <1>1. PICK src, fns, gs, rs : src = text /\ fns = leoFunctions /\ gs = prog.fns /\ rs = results
    OBVIOUS
  <1>2. OfFallback
    BY DEF FallbackInv, ByFallback, OfFallback
  <1>3. stage \notin {"compile", "parse"} => Simulates(src, fns)
    BY <1>1, <1>2 DEF FallbackInv
  <1>4. SourceIs(src, fns) /\ VMInv
    BY <1>1, SourceIsRead DEF FallbackInv, PipeInv, MachineInv
  <1>5. ASSUME stage = "emit", NEW n \in 1 .. Len(fns), fns[n].name \in DOMAIN rs,
               Simple(src, fns[n]), ~Namesake(fns, n),
               NEW x \in DOMAIN Environment(src, fns[n], Len(fns[n].bindings)),
               \A m \in {j \in 1 .. Len(fns) : fns[j].name \in DOMAIN rs} \ {n} :
                   ~\E k \in 1 .. Len(fns[m].bindings) : fns[m].bindings[k].name = x
        PROVE  x \in DOMAIN values /\ values[x] = Environment(src, fns[n], Len(fns[n].bindings))[x]
    <2>1. PICK f, l : f = fns[n] /\ l = Len(fns)
      OBVIOUS
    <2>2. l \in Nat
      <3>1. PICK s \in Sources : src = TextOf(s)
        BY <1>4 DEF SourceIs
      <3>2. IsText(src)
        BY <3>1, TextIs
      <3> QED BY <1>4, <2>1, <3>2, FunctionsAre DEF SourceIs
    <2>3. \A m \in 1 .. l : Len(fns[m].bindings) \in Nat
      BY <1>4, <2>1 DEF SourceIs
    <2>4. AllMade(src, fns, gs) /\ Len(gs) \in Nat
      <3>1. Len(prog.fns) \in Nat
        BY <1>4, ProgramParts DEF VMInv
      <3> QED BY <1>1, <1>3, <1>5, <3>1 DEF Simulates
    <2>5. \A y \in DOMAIN rs : RegistersOK(rs[y].registers) /\ ResultHolds(src, fns, gs, y, rs[y])
      BY <1>1, <1>3, <1>4, <1>5 DEF Simulates, VMInv, ResultsOK
    <2>6. n \in 1 .. l /\ f = fns[n] /\ f.name \in DOMAIN rs /\ Simple(src, f) /\ ~Namesake(fns, n)
      BY <1>5, <2>1
    <2>7. Binds(f, x)
      <3>1. PICK h \in Nat : h = Len(f.bindings)
        BY <2>3, <2>6
      <3>2. h \in 0 .. h
        BY <3>1
      <3>3. Environment(src, f, h) \in [NamesTo(f, h) -> Int]
        <4>1. h \in Nat /\ h = Len(f.bindings) /\ Simple(src, f) /\ h \in 0 .. h
          BY <2>6, <3>1, <3>2
        <4> QED BY ONLY <4>1, LastBindingHolds
      <3>4. x \in NamesTo(f, h)
        BY <2>1, <3>1, <3>3
      <3> QED BY <3>1, <3>4 DEF NamesTo, Binds
    <2>8. \A m \in 1 .. l \ {n} : fns[m].name \in DOMAIN rs => ~Binds(fns[m], x)
      BY <1>5, <2>1 DEF Binds
    <2>9. PICK vs : vs = MapRegisters(fns, gs, rs)
      OBVIOUS
    <2>10. Agrees(src, f, x, vs)
      <3>1. l \in Nat /\ l = Len(fns)
        BY <2>1, <2>2
      <3> QED BY ONLY <2>3, <2>4, <2>5, <2>6, <2>7, <2>8, <2>9, <3>1, MapAgrees
    <2>11. values = vs
      BY <1>1, <1>5, <2>9 DEF FallbackInv
    <2> QED BY <2>1, <2>10, <2>11 DEF Agrees
  <1>6. ASSUME outcome = "avm_runtime_error", \A n \in 1 .. Len(fns) : Simple(src, fns[n])
        PROVE  \E n \in 1 .. Len(fns) : \E k \in 1 .. Len(fns[n].bindings) : FailsIn(src, fns[n], k)
    <2>1. stage = "end" /\ status = "err"
      BY <1>6 DEF FallbackInv
    <2> QED BY <1>3, <1>6, <2>1 DEF Simulates, AllSimple, SomeFails
  <1> DEFINE ran == {n \in 1 .. Len(leoFunctions) : leoFunctions[n].name \in DOMAIN results}
             env(n) == Environment(text, leoFunctions[n], Len(leoFunctions[n].bindings))
             binds(n, x) == \E k \in 1 .. Len(leoFunctions[n].bindings) :
                                leoFunctions[n].bindings[k].name = x
             namesake(n) == \E m \in 1 .. Len(leoFunctions) \ {n} :
                                leoFunctions[n].name \in {leoFunctions[m].name, leoFunctions[m].aleo}
  <1>7. ASSUME stage = "emit", NEW n \in ran, Simple(text, leoFunctions[n]) /\ ~namesake(n),
               NEW x \in DOMAIN env(n), \A m \in ran \ {n} : ~binds(m, x)
        PROVE  x \in DOMAIN values /\ values[x] = env(n)[x]
    <2>1. n \in 1 .. Len(fns) /\ fns[n].name \in DOMAIN rs
      BY <1>1, <1>7
    <2>2. Simple(src, fns[n])
      BY <1>1, <1>7
    <2>3. ~Namesake(fns, n)
      BY <1>1, <1>7 DEF Namesake
    <2>4. x \in DOMAIN Environment(src, fns[n], Len(fns[n].bindings))
      BY <1>1, <1>7
    <2>5. \A m \in {j \in 1 .. Len(fns) : fns[j].name \in DOMAIN rs} \ {n} :
              ~\E k \in 1 .. Len(fns[m].bindings) : fns[m].bindings[k].name = x
      BY <1>1, <1>7
    <2>6. x \in DOMAIN values /\ values[x] = Environment(src, fns[n], Len(fns[n].bindings))[x]
      BY ONLY <1>5, <1>7, <2>1, <2>2, <2>3, <2>4, <2>5
    <2> QED BY <1>1, <2>6
  <1>8. stage = "emit" => \A n \in ran : Simple(text, leoFunctions[n]) /\ ~namesake(n) =>
            \A x \in DOMAIN env(n) : (\A m \in ran \ {n} : ~binds(m, x)) =>
                x \in DOMAIN values /\ values[x] = env(n)[x]
    <2> HIDE DEF ran, env, binds, namesake
    <2> QED BY <1>7
  <1>9. outcome = "avm_runtime_error" /\ (\A n \in 1 .. Len(leoFunctions) : Simple(text, leoFunctions[n]))
            => \E n \in 1 .. Len(leoFunctions) :
                   \E k \in 1 .. Len(leoFunctions[n].bindings) : FailsIn(text, leoFunctions[n], k)
    BY <1>1, <1>6
  <1> QED BY ONLY <1>8, <1>9, Zenon DEF FallbackAgreesWithSource

\* Read back from its registers, what the fallback's program computes are the
\* values of the source's bindings, for every source and every width, and it
\* fails only where a binding divides by zero (generate_aleo_from_leo_source,
\* parse_aleo_program, execute_function and map_registers_to_variables,
\* tracer.rs).
THEOREM FallbackAgrees == PipelineSpec => []FallbackAgreesWithSource
  <1> QED BY FallbackStarts, FallbackStep, FallbackReadBack, PTL DEF PipelineSpec

=============================================================================
