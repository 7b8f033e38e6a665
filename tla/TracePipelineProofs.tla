------------------------ MODULE TracePipelineProofs ------------------------
(***************************************************************************)
(* What holds of TracePipeline for every source and every width.  The      *)
(* typed arithmetic of AleoDialect comes first, then recursion over        *)
(* naturals, from which everything that a recursive function computes is   *)
(* obtained; the legacy walk with its invariant; what the fallback writes; *)
(* and the types of the pipeline.                                          *)
(***************************************************************************)
EXTENDS TracePipeline, AleoVMProofs

----------------------------------------------------------------------------
(* Typed arithmetic: a recorded value that is not the mathematical one has *)
(* its overflow reported, and saturated values lie in their type           *)

Ops == {"add", "sub", "mul"}

\* A remainder is below its divisor, and what is below already is its own.
LEMMA Remainder ==
    ASSUME NEW n \in Int, NEW m \in Nat \ {0}
    PROVE  /\ n % m \in 0 .. m - 1
           /\ (n % m = n) <=> (0 <= n /\ n < m)
  <1>1. n % m \in 0 .. m - 1
    OBVIOUS
  <1>2. 0 <= n /\ n < m => n % m = n
    OBVIOUS
  <1> QED
    BY <1>1, <1>2

\* A cast to 2 * h signed values changes exactly what is outside -h .. h - 1.
LEMMA SignedCast ==
    ASSUME NEW n \in Int, NEW h \in Nat \ {0}
    PROVE  (InSigned(n, h) = n) <=> (-h <= n /\ n < h)
  <1>1. n + h \in Int /\ 2 * h \in Nat \ {0}
    OBVIOUS
  <1>2. ((n + h) % (2 * h) = n + h) <=> (0 <= n + h /\ n + h < 2 * h)
    BY <1>1, Remainder
  <1>3. (n + h) % (2 * h) \in Int
    BY <1>1, Remainder
  <1> QED
    BY <1>2, <1>3 DEF InSigned

\* The widths of the narrow types.
LEMMA Widths ==
    ASSUME NEW t \in Narrow
    PROVE  /\ Size[t] \in Nat \ {0}
           /\ Size[t] \div 2 \in Nat \ {0}
           /\ 2 * (Size[t] \div 2) = Size[t]
           /\ Size[t] <= Half64
  BY SizeAssumption, Half64Assumption

\* The bounds of a type lie in i64, the lower below the upper.
LEMMA Bounds ==
    ASSUME NEW t \in Types
    PROVE  /\ MinOf(t) \in Int /\ MaxOf(t) \in Int
           /\ -Half64 <= MinOf(t) /\ MinOf(t) <= MaxOf(t) /\ MaxOf(t) <= Half64 - 1
  <1>1. CASE t \in Unsigned
    BY <1>1, Widths, Half64Assumption DEF MinOf, MaxOf, Unsigned, Signed, Narrow
  <1>2. CASE t \in Signed
    BY <1>2, Widths, Half64Assumption DEF MinOf, MaxOf, Unsigned, Signed, Narrow
  <1>3. CASE t \in {"u64", "u128", "i64", "i128"}
    BY <1>3, Half64Assumption DEF MinOf, MaxOf, Unsigned, Signed
  <1>4. CASE t \in {"field", "scalar", "group"}
    <2>1. "u32" \in Narrow
      BY DEF Narrow, Unsigned
    <2> QED
      BY <1>4, <2>1, Widths, Half64Assumption DEF MinOf, MaxOf, Unsigned, Signed
  <1> QED
    BY <1>1, <1>2, <1>3, <1>4 DEF Types, Narrow

\* A cast to a narrow type changes exactly what is outside the type.
LEMMA NarrowCast ==
    ASSUME NEW n \in Int, NEW t \in Narrow
    PROVE  (As(n, t) = n) <=> InBounds(n, t)
  <1>1. CASE t \in Unsigned
    <2>1. (n % Size[t] = n) <=> (0 <= n /\ n < Size[t])
      BY Widths, Remainder
    <2> QED
      BY <1>1, <2>1, Widths DEF As, InBounds, MinOf, MaxOf, Unsigned, Signed
  <1>2. CASE t \in Signed
    <2>1. (InSigned(n, Size[t] \div 2) = n) <=> (-(Size[t] \div 2) <= n /\ n < Size[t] \div 2)
      BY Widths, SignedCast
    <2> QED
      BY <1>2, <2>1, Widths DEF As, InBounds, MinOf, MaxOf, Unsigned, Signed
  <1> QED
    BY <1>1, <1>2 DEF Narrow

LEMMA ExactIsInteger ==
    ASSUME NEW op \in Ops, NEW a \in Int, NEW b \in Int
    PROVE  Exact(op, a, b) \in Int
  BY DEF Ops, Exact

\* The wrapped value of operands in the type is the exact one if and only if
\* that lies in the type, or in i64 for a type without a width.
LEMMA WrappingExact ==
    ASSUME NEW op \in Ops, NEW t \in Types, NEW a \in Int, NEW b \in Int,
           InBounds(a, t), InBounds(b, t)
    PROVE  (WrappingInType(op, a, b, t) = Exact(op, a, b)) <=>
               IF t \in Narrow THEN InBounds(Exact(op, a, b), t)
               ELSE -Half64 <= Exact(op, a, b) /\ Exact(op, a, b) < Half64
  <1>1. Exact(op, a, b) \in Int
    BY ExactIsInteger
  <1>2. CASE t \in Narrow
    <2>1. As(a, t) = a /\ As(b, t) = b
      BY <1>2, NarrowCast
    <2> QED
      BY <1>1, <1>2, <2>1, NarrowCast DEF WrappingInType
  <1>3. CASE t \notin Narrow
    BY <1>1, <1>3, SignedCast, Half64Assumption DEF WrappingInType
  <1> QED
    BY <1>2, <1>3

\* detect_checked_overflow (tracer.rs:4880-4888) against wrapping_*_in_type
\* (4779-4816): no value that is not the mathematical one goes unreported, and
\* in a type with a width of its own none is reported needlessly.
THEOREM OverflowReported ==
    ASSUME NEW op \in Ops, NEW t \in Types, NEW a \in Int, NEW b \in Int
    PROVE  ReportsOverflow(op, a, b, t)
  <1> SUFFICES ASSUME InBounds(a, t), InBounds(b, t)
               PROVE  /\ ~DetectCheckedOverflow(op, a, b, t) =>
                             WrappingInType(op, a, b, t) = Exact(op, a, b)
                      /\ t \in Narrow \cup {"i64", "i128"} =>
                             (WrappingInType(op, a, b, t) = Exact(op, a, b) =>
                                 ~DetectCheckedOverflow(op, a, b, t))
    BY DEF ReportsOverflow
  <1> DEFINE n == Exact(op, a, b)
             inside == -Half64 <= n /\ n < Half64
             exact == WrappingInType(op, a, b, t) = n
  <1>1. n \in Int
    BY ExactIsInteger
  <1>2. exact <=> IF t \in Narrow THEN InBounds(n, t) ELSE inside
    BY WrappingExact
  <1>3. ~DetectCheckedOverflow(op, a, b, t) <=> inside /\ InBounds(n, t)
    BY DEF DetectCheckedOverflow
  <1>4. InBounds(n, t) => inside
    BY <1>1, Bounds, Half64Assumption DEF InBounds
  <1>5. t \in {"i64", "i128"} /\ inside => InBounds(n, t)
    BY <1>1, Half64Assumption DEF InBounds, MinOf, MaxOf, Unsigned, Signed
  <1> HIDE DEF n, inside, exact
  <1> QED
    BY <1>2, <1>3, <1>4, <1>5 DEF exact, n

\* A clamped number lies between the bounds, and a number between them is its
\* own.
LEMMA Clamped ==
    ASSUME NEW n \in Int, NEW lo \in Int, NEW hi \in Int, lo <= hi
    PROVE  /\ Clamp(n, lo, hi) \in Int
           /\ lo <= Clamp(n, lo, hi) /\ Clamp(n, lo, hi) <= hi
           /\ lo <= n /\ n <= hi => Clamp(n, lo, hi) = n
  BY DEF Clamp

\* eval_instance_method's saturating operations (tracer.rs:4735-4749).
THEOREM SaturationInType ==
    ASSUME NEW op \in Ops, NEW t \in Types, NEW a \in Int, NEW b \in Int
    PROVE  SaturatesInType(op, a, b, t)
  <1> DEFINE n == Exact(op, a, b)
             wide == Clamp(n, -Half64, Half64 - 1)
  <1>1. n \in Int
    BY ExactIsInteger
  <1>2. /\ wide \in Int
        /\ -Half64 <= n /\ n <= Half64 - 1 => wide = n
    <2>1. -Half64 \in Int /\ Half64 - 1 \in Int /\ -Half64 <= Half64 - 1
      BY Half64Assumption
    <2> HIDE DEF n
    <2> QED
      BY <1>1, <2>1 DEF Clamp
  <1>3. MinOf(t) \in Int /\ MaxOf(t) \in Int /\ MinOf(t) <= MaxOf(t)
    BY Bounds
  <1>4. InBounds(Clamp(wide, MinOf(t), MaxOf(t)), t)
    BY <1>2, <1>3, Clamped DEF InBounds
  <1>5. ASSUME ~DetectCheckedOverflow(op, a, b, t)
        PROVE  Clamp(wide, MinOf(t), MaxOf(t)) = n
    <2>1. -Half64 <= n /\ n <= Half64 - 1 /\ MinOf(t) <= n /\ n <= MaxOf(t)
      BY <1>1, <1>5, Half64Assumption DEF DetectCheckedOverflow, InBounds
    <2> HIDE DEF wide, n
    <2> QED
      BY <1>1, <1>2, <1>3, <2>1, Clamped
  <1> QED
    BY <1>4, <1>5 DEF SaturatesInType, Saturating

----------------------------------------------------------------------------
(* Functions defined by recursion over the naturals *)

\* u is what the recursion from base makes of step, up to n.
Recurs(u, S, base, step, n) ==
    u \in [0 .. n -> S] /\ u[0] = base /\ \A k \in 1 .. n : u[k] = step[<<k, u[k - 1]>>]

\* A recursion has a solution.
LEMMA Recursion ==
    ASSUME NEW S, NEW base \in S, NEW step, NEW n \in Nat,
           \A k \in Nat, x \in S : step[<<k, x>>] \in S
    PROVE  \E u : Recurs(u, S, base, step, n)
  <1> DEFINE P(m) == \E u \in [0 .. m -> S] :
                         u[0] = base /\ \A k \in 1 .. m : u[k] = step[<<k, u[k - 1]>>]
             T == {m \in Nat : P(m)}
  <1>1. 0 \in T
    <2>1. PICK u : u = [k \in 0 .. 0 |-> base]
      OBVIOUS
    <2>2. u \in [0 .. 0 -> S] /\ u[0] = base /\ \A k \in 1 .. 0 : u[k] = step[<<k, u[k - 1]>>]
      BY <2>1
    <2> QED BY <2>2
  <1>2. ASSUME NEW m \in Nat, m \in T PROVE m + 1 \in T
    <2>1. PICK u \in [0 .. m -> S] : u[0] = base /\ \A k \in 1 .. m : u[k] = step[<<k, u[k - 1]>>]
      BY <1>2
    <2>2. PICK x : x = step[<<m + 1, u[m]>>]
      OBVIOUS
    <2>3. u[m] \in S /\ m + 1 \in Nat
      OBVIOUS
    <2>4. x \in S
      BY <2>2, <2>3
    <2>5. PICK v : v = [k \in 0 .. m + 1 |-> IF k = m + 1 THEN x ELSE u[k]]
      OBVIOUS
    <2>6. v \in [0 .. m + 1 -> S] /\ v[m + 1] = x /\ \A k \in 0 .. m : v[k] = u[k]
      BY <2>4, <2>5
    <2>7. v[0] = base
      BY <2>1, <2>6
    <2>8. ASSUME NEW k \in 1 .. m + 1 PROVE v[k] = step[<<k, v[k - 1]>>]
      <3>1. CASE k = m + 1
        <4>1. k - 1 = m /\ m \in 0 .. m
          BY <3>1
        <4> QED BY <2>2, <2>6, <3>1, <4>1
      <3>2. CASE k # m + 1
        <4>1. k \in 1 .. m /\ k \in 0 .. m /\ k - 1 \in 0 .. m
          BY <3>2
        <4> QED BY <2>1, <2>6, <4>1
      <3> QED BY <3>1, <3>2
    <2> QED BY <2>6, <2>7, <2>8
  <1> HIDE DEF T
  <1>3. n \in T
    BY <1>1, <1>2, NatSetInduction
  <1> QED BY <1>3 DEF T, Recurs

\* And only one: two solutions agree as far as both go.
LEMMA RecursionUnique ==
    ASSUME NEW step, NEW n \in Nat, NEW m \in Nat, n <= m, NEW u, NEW v, u[0] = v[0],
           \A k \in 1 .. n : u[k] = step[<<k, u[k - 1]>>],
           \A k \in 1 .. m : v[k] = step[<<k, v[k - 1]>>]
    PROVE  \A k \in 0 .. n : u[k] = v[k]
  <1> DEFINE T == {k \in Nat : k <= n => u[k] = v[k]}
  <1>1. 0 \in T
    OBVIOUS
  <1>2. ASSUME NEW k \in Nat, k \in T PROVE k + 1 \in T
    <2> SUFFICES ASSUME k + 1 <= n PROVE u[k + 1] = v[k + 1]
      OBVIOUS
    <2>1. u[k] = v[k] /\ k + 1 \in 1 .. n /\ k + 1 \in 1 .. m /\ (k + 1) - 1 = k
      BY <1>2
    <2> QED BY <2>1
  <1>3. Nat \subseteq T
    <2> HIDE DEF T
    <2> QED BY <1>1, <1>2, NatSetInduction
  <1> QED BY <1>3

----------------------------------------------------------------------------
(* Braces *)

\* A text whose lines are what the scanners tell apart.
IsText(src) ==
    /\ src \in Seq(Range(src))
    /\ \A k \in 1 .. Len(src) : IsSourceLine(src[k])

\* u holds what lines i .. k leave open.
NetUpTo(u, src, i, j) ==
    u = [k \in i - 1 .. j |-> IF k < i THEN 0 ELSE u[k - 1] + src[k].opens - src[k].closes]

LEMMA NetExists ==
    ASSUME NEW src, IsText(src), NEW i \in 1 .. Len(src), NEW j \in i - 1 .. Len(src)
    PROVE  \E u \in [i - 1 .. j -> Int] : NetUpTo(u, src, i, j)
  <1>1. Len(src) \in Nat /\ \A k \in 1 .. Len(src) : src[k].opens \in Nat /\ src[k].closes \in Nat
    BY DEF IsText, IsSourceLine, IsLeoLine
  <1>2. PICK step : step = [p \in Nat \X Int |->
                      IF p[1] + i - 1 \in 1 .. Len(src)
                      THEN p[2] + src[p[1] + i - 1].opens - src[p[1] + i - 1].closes ELSE 0]
    OBVIOUS
  <1>3. \A k \in Nat, x \in Int : step[<<k, x>>] \in Int
    BY <1>1, <1>2
  <1>4. PICK n \in Nat : n = j - i + 1
    BY <1>1
  <1>5. PICK u \in [0 .. n -> Int] :
            u[0] = 0 /\ \A k \in 1 .. n : u[k] = step[<<k, u[k - 1]>>]
    <2>1. 0 \in Int
      OBVIOUS
    <2>2. \E u : Recurs(u, Int, 0, step, n)
      BY <1>3, <2>1, Recursion
    <2> QED BY <2>2 DEF Recurs
  <1>6. PICK v : v = [k \in i - 1 .. j |-> u[k - i + 1]]
    OBVIOUS
  <1>7. v \in [i - 1 .. j -> Int]
    <2>1. \A k \in i - 1 .. j : k - i + 1 \in 0 .. n
      BY <1>1, <1>4
    <2> QED BY <1>6, <2>1
  <1>8. ASSUME NEW k \in i - 1 .. j
        PROVE  v[k] = IF k < i THEN 0 ELSE v[k - 1] + src[k].opens - src[k].closes
    <2>1. CASE k < i
      <3>1. k - i + 1 = 0
        BY <2>1, <1>1
      <3> QED BY <1>5, <1>6, <2>1, <3>1
    <2>2. CASE ~(k < i)
      <3>1. PICK d : d = k - i + 1
        OBVIOUS
      <3>2. /\ d \in 1 .. n /\ d - 1 = (k - 1) - i + 1 /\ k - 1 \in i - 1 .. j /\ d + i - 1 = k
            /\ k \in 1 .. Len(src) /\ d \in Nat /\ d - 1 \in 0 .. n
        <4>1. i \in Nat /\ j \in Int /\ k \in Int /\ i <= k /\ k <= j /\ j <= Len(src) /\ 1 <= i
          BY <1>1, <2>2
        <4> QED BY <1>1, <1>4, <3>1, <4>1
      <3>3. v[k] = u[d] /\ v[k - 1] = u[d - 1] /\ u[d - 1] \in Int
        BY <1>6, <3>1, <3>2
      <3>4. u[d] = step[<<d, u[d - 1]>>]
        BY <1>5, <3>2
      <3>5. step[<<d, u[d - 1]>>] = u[d - 1] + src[k].opens - src[k].closes
        BY <1>2, <3>2, <3>3
      <3> QED BY <2>2, <3>3, <3>4, <3>5
    <2> QED BY <2>1, <2>2
  <1>9. v = [k \in i - 1 .. j |-> v[k]]
    BY <1>7
  <1>10. NetUpTo(v, src, i, j)
    BY <1>8, <1>9 DEF NetUpTo
  <1> QED BY <1>7, <1>10

\* What lines i .. j leave open.
LEMMA NetDef ==
    ASSUME NEW src, IsText(src), NEW i \in 1 .. Len(src), NEW j \in i - 1 .. Len(src)
    PROVE  \E u : NetUpTo(u, src, i, j) /\ Net(src, i, j) = u[j]
  <1> DEFINE P(u) == u = [k \in i - 1 .. j |-> IF k < i THEN 0 ELSE u[k - 1] + src[k].opens - src[k].closes]
  <1>1. \A u : P(u) <=> NetUpTo(u, src, i, j)
    BY DEF NetUpTo
  <1>2. \E u : P(u)
    BY <1>1, NetExists
  <1>3. Net(src, i, j) = (CHOOSE u : P(u))[j]
    BY DEF Net
  <1>4. P(CHOOSE u : P(u))
    <2> HIDE DEF P
    <2> QED BY <1>2
  <1> HIDE DEF P
  <1> QED BY <1>1, <1>3, <1>4

\* What lines 1 .. j leave open is what those before i and those from i on do.
LEMMA NetSplits ==
    ASSUME NEW src, IsText(src), NEW i \in 1 .. Len(src), NEW j \in i - 1 .. Len(src)
    PROVE  /\ Net(src, 1, j) = Net(src, 1, i - 1) + Net(src, i, j)
           /\ Net(src, i, j) \in Int /\ Net(src, 1, i - 1) \in Int
  <1>1. Len(src) \in Nat /\ \A k \in 1 .. Len(src) : src[k].opens \in Nat /\ src[k].closes \in Nat
    BY DEF IsText, IsSourceLine, IsLeoLine
  <1>2. /\ 1 \in 1 .. Len(src) /\ j \in 1 - 1 .. Len(src) /\ i - 1 \in 1 - 1 .. Len(src)
        /\ i - 1 \in i - 1 .. j /\ j \in i - 1 .. j /\ i - 1 \in Nat /\ j \in Nat
        /\ i - 1 \in 0 .. i - 1 /\ j \in 0 .. j /\ 1 - 1 = 0
    BY <1>1
  <1>3. PICK u : NetUpTo(u, src, i, j) /\ Net(src, i, j) = u[j]
    BY NetDef
  <1>4. PICK v : NetUpTo(v, src, 1, j) /\ Net(src, 1, j) = v[j]
    BY <1>2, NetDef
  <1>5. PICK w : NetUpTo(w, src, 1, i - 1) /\ Net(src, 1, i - 1) = w[i - 1]
    BY <1>2, NetDef
  <1>6. \A k \in i - 1 .. j : u[k] = IF k < i THEN 0 ELSE u[k - 1] + src[k].opens - src[k].closes
    BY <1>3 DEF NetUpTo
  <1>7. \A k \in 0 .. j : v[k] = IF k < 1 THEN 0 ELSE v[k - 1] + src[k].opens - src[k].closes
    BY <1>4, <1>2 DEF NetUpTo
  <1>8. \A k \in 0 .. i - 1 : w[k] = IF k < 1 THEN 0 ELSE w[k - 1] + src[k].opens - src[k].closes
    BY <1>5, <1>2 DEF NetUpTo
  <1> DEFINE A == {k \in Nat : k <= i - 1 => w[k] = v[k] /\ w[k] \in Int}
             B == {k \in Nat : i - 1 + k <= j => v[i - 1 + k] = v[i - 1] + u[i - 1 + k] /\ u[i - 1 + k] \in Int}
  <1>9. Nat \subseteq A
    <2>1. 0 \in A
      BY <1>7, <1>8, <1>2
    <2>2. ASSUME NEW k \in Nat, k \in A PROVE k + 1 \in A
      <3> SUFFICES ASSUME k + 1 <= i - 1 PROVE w[k + 1] = v[k + 1] /\ w[k + 1] \in Int
        OBVIOUS
      <3>1. /\ k + 1 \in 0 .. i - 1 /\ k + 1 \in 0 .. j /\ ~(k + 1 < 1) /\ (k + 1) - 1 = k
            /\ k + 1 \in 1 .. Len(src) /\ w[k] = v[k] /\ w[k] \in Int
        BY <2>2, <1>1, <1>2
      <3>2. /\ w[k + 1] = w[k] + src[k + 1].opens - src[k + 1].closes
            /\ v[k + 1] = v[k] + src[k + 1].opens - src[k + 1].closes
        BY <1>7, <1>8, <3>1
      <3> QED BY <1>1, <3>1, <3>2
    <2> HIDE DEF A
    <2> QED BY <2>1, <2>2, NatSetInduction
  <1>10. w[i - 1] = v[i - 1] /\ w[i - 1] \in Int
    BY <1>9, <1>2
  <1>11. Nat \subseteq B
    <2>1. 0 \in B
      BY <1>6, <1>10, <1>2
    <2>2. ASSUME NEW k \in Nat, k \in B PROVE k + 1 \in B
      <3> SUFFICES ASSUME i - 1 + (k + 1) <= j
                   PROVE  v[i - 1 + (k + 1)] = v[i - 1] + u[i - 1 + (k + 1)] /\ u[i - 1 + (k + 1)] \in Int
        OBVIOUS
      <3>1. PICK m : m = i - 1 + (k + 1)
        OBVIOUS
      <3>2. /\ m \in i - 1 .. j /\ m \in 0 .. j /\ ~(m < 1) /\ ~(m < i) /\ m - 1 = i - 1 + k
            /\ m \in 1 .. Len(src) /\ i - 1 + k <= j
        BY <1>1, <1>2, <3>1
      <3>3. v[m - 1] = v[i - 1] + u[m - 1] /\ u[m - 1] \in Int
        BY <2>2, <3>2
      <3>4. /\ u[m] = u[m - 1] + src[m].opens - src[m].closes
            /\ v[m] = v[m - 1] + src[m].opens - src[m].closes
        BY <1>6, <1>7, <3>2
      <3> QED BY <1>1, <1>10, <3>1, <3>2, <3>3, <3>4
    <2> HIDE DEF B
    <2> QED BY <2>1, <2>2, NatSetInduction
  <1>12. j - (i - 1) \in Nat /\ i - 1 + (j - (i - 1)) = j
    BY <1>2
  <1>13. v[j] = v[i - 1] + u[j] /\ u[j] \in Int
    <2> HIDE DEF A
    <2>1. j - (i - 1) \in B
      BY <1>11, <1>12
    <2> QED BY <2>1, <1>12
  <1> HIDE DEF A, B
  <1> QED BY <1>3, <1>4, <1>5, <1>10, <1>13

\* A body lies in what its first line opens.
LEMMA BodyInExtent ==
    ASSUME NEW src, IsText(src), NEW i \in 1 .. Len(src)
    PROVE  Body(src, i) \subseteq Extent(src, i) /\ Body(src, i) \subseteq 1 .. Len(src)
  <1>1. Len(src) \in Nat
    BY DEF IsText
  <1>2. PICK n : n = Len(src) /\ n \in Nat /\ i \in Nat /\ i <= n
    BY <1>1
  <1>3. PICK C : C = {j \in i .. n : Closed(src, i, j)}
    OBVIOUS
  <1>4. PICK D : D = {j \in i .. n : Net(src, 1, j) <= Depth(src, i) /\ Closed(src, i, j)}
    OBVIOUS
  <1>5. C = D
    <2> SUFFICES ASSUME NEW j \in i .. n, Closed(src, i, j) PROVE Net(src, 1, j) <= Depth(src, i)
      BY <1>3, <1>4
    <2>1. j \in i - 1 .. Len(src)
      BY <1>2
    <2>2. /\ Net(src, 1, j) = Net(src, 1, i - 1) + Net(src, i, j)
          /\ Net(src, i, j) \in Int /\ Net(src, 1, i - 1) \in Int
      BY <2>1, NetSplits
    <2>3. Net(src, i, j) <= 0
      BY DEF Closed
    <2> QED BY <2>2, <2>3 DEF Depth
  <1>6. Extent(src, i) = i .. FirstIn(C, n)
    BY <1>2, <1>4, <1>5 DEF Extent
  <1>7. CASE Closed(src, i, i)
    BY <1>7 DEF Body
  <1>8. CASE ~Closed(src, i, i)
    <2>1. C = {j \in i + 1 .. n : Closed(src, i, j)}
      BY <1>2, <1>3, <1>8
    <2>2. Body(src, i) = {j \in i + 1 .. FirstIn(C, n + 1) : j <= n}
      BY <1>2, <1>8, <2>1 DEF Body, BodyEnd
    <2>3. CASE C = {}
      <3>1. FirstIn(C, n) = n /\ FirstIn(C, n + 1) = n + 1
        BY <2>3 DEF FirstIn
      <3> QED BY <1>2, <1>6, <2>2, <3>1
    <2>4. CASE C # {}
      <3>1. FirstIn(C, n) = Min(C) /\ FirstIn(C, n + 1) = Min(C)
        BY <2>4 DEF FirstIn
      <3>2. PICK m \in C : \A y \in C : m <= y
        <4>1. C \subseteq Nat
          BY <1>2, <1>3
        <4> QED BY <2>4, <4>1, LeastNat
      <3>3. Min(C) \in C
        BY <3>2 DEF Min
      <3>4. Min(C) \in i .. n
        BY <3>3, <1>3
      <3> QED BY <1>2, <1>6, <2>2, <3>1, <3>4
    <2> QED BY <2>3, <2>4
  <1> QED BY <1>7, <1>8

----------------------------------------------------------------------------
(* What the scanners find is in the text *)

\* A line of Aleo is none of the statements of Leo.
LEMMA AleoAsLeo ==
    ASSUME NEW l, IsLine(l)
    PROVE  /\ IsSourceLine(AsLeoLine(l)) /\ AsLeoLine(l).opens = 0 /\ AsLeoLine(l).closes = 0
           /\ AsLeoLine(l).kind \in {"function", "program", "blank", "text"}
           /\ AsLeoLine(l).kind = "function" => l.kind = "function"
  <1>1. CASE l.kind = "function"
    <2>1. l.name \in FnName
      BY <1>1 DEF IsLine, FnKinds
    <2>2. PICK h : h = AsLeoLine(l)
      OBVIOUS
    <2>3. /\ h.kind = "function" /\ h.opens = 0 /\ h.closes = 0
          /\ h.semi = FALSE /\ h.trimmed = l.name
      BY <1>1, <2>2 DEF AsLeoLine
    <2>4. IsSourceLine(h)
      <3>1. h.kind \in Headers /\ h.kind \in LeoLineKinds /\ h.kind \notin {"let", "return"} /\ h.kind # "let"
        BY <2>3 DEF Headers, LeoLineKinds
      <3>2. h.opens \in Nat /\ h.closes \in Nat
        BY <2>3
      <3>3. h.semi \in BOOLEAN
        BY <2>3, Zenon
      <3>4. IsLeoLine(h)
        BY <3>1, <3>2, <3>3, Zenon DEF IsLeoLine
      <3> QED BY <2>1, <2>3, <3>1, <3>4 DEF IsSourceLine
    <2> QED BY <1>1, <2>2, <2>3, <2>4
  <1>2. CASE l.kind # "function"
    <2>1. PICK k \in {"program", "blank", "text"}, b \in BOOLEAN :
              AsLeoLine(l) = [kind |-> k, opens |-> 0, closes |-> 0, semi |-> b]
      <3>1. CASE l.kind = "program"
        BY <3>1 DEF AsLeoLine
      <3>2. CASE l.kind = "blank"
        BY <3>2 DEF AsLeoLine
      <3>3. CASE l.kind # "program" /\ l.kind # "blank"
        BY <1>2, <3>3 DEF AsLeoLine
      <3> QED BY <3>1, <3>2, <3>3
    <2>2. PICK h : h = AsLeoLine(l)
      OBVIOUS
    <2>3. h.kind = k /\ h.opens = 0 /\ h.closes = 0 /\ h.semi = b
      BY <2>1, <2>2
    <2>4. k \in LeoLineKinds /\ k \notin Headers /\ k \notin {"let", "return"} /\ k # "let" /\ k # "function"
      BY DEF Headers, LeoLineKinds
    <2>5. IsSourceLine(h)
      BY <2>3, <2>4 DEF IsSourceLine, IsLeoLine
    <2> QED BY <2>2, <2>3, <2>4, <2>5
  <1> QED BY <1>1, <1>2

\* The lines of a sequence.
LEMMA OfItsRange ==
    ASSUME NEW S, NEW s \in Seq(S)
    PROVE  s \in Seq(Range(s)) /\ Len(s) \in Nat /\ DOMAIN s = 1 .. Len(s)
           /\ \A k \in 1 .. Len(s) : s[k] \in S
  <1>1. s \in [1 .. Len(s) -> S] /\ Len(s) \in Nat /\ DOMAIN s = 1 .. Len(s)
    OBVIOUS
  <1>2. \A k \in 1 .. Len(s) : s[k] \in Range(s)
    BY <1>1 DEF Range
  <1>3. s \in [1 .. Len(s) -> Range(s)]
    BY <1>1, <1>2
  <1> QED BY <1>1, <1>3, SeqDef

\* Whatever the source, what the Leo scanners read is a text.
LEMMA TextIs ==
    ASSUME NEW s \in Sources
    PROVE  IsText(TextOf(s)) /\ Len(TextOf(s)) \in Nat
  <1>1. IsSource(s)
    BY SourcesAssumption
  <1>2. CASE s.bare = <<>>
    <2>1. TextOf(s) = s.leo
      BY <1>2 DEF TextOf
    <2> QED BY <1>1, <2>1 DEF IsSource, IsLeoSource, IsText
  <1>3. CASE s.bare # <<>>
    <2>1. s.bare \in Seq(Range(s.bare)) /\ \A k \in 1 .. Len(s.bare) : IsLine(s.bare[k])
      BY <1>1 DEF IsSource, IsAleoText
    <2>2. PICK n \in Nat : n = Len(s.bare)
      BY <2>1
    <2>3. PICK t : t = [k \in 1 .. n |-> AsLeoLine(s.bare[k])]
      OBVIOUS
    <2>4. TextOf(s) = t
      BY <1>3, <2>2, <2>3 DEF TextOf
    <2>5. \A k \in 1 .. n : IsSourceLine(t[k])
      BY <2>1, <2>2, <2>3, AleoAsLeo
    <2>6. PICK S : S = {t[k] : k \in 1 .. n}
      OBVIOUS
    <2>7. t \in [1 .. n -> S]
      BY <2>3, <2>6
    <2>8. t \in Seq(S) /\ Len(t) = n
      BY <2>2, <2>7, SeqDef
    <2> QED BY <2>2, <2>4, <2>5, <2>8, OfItsRange DEF IsText
  <1> QED BY <1>2, <1>3

\* Lines of some kinds are in the text, and of the kinds.
LEMMA LinesOfAre ==
    ASSUME NEW src, Len(src) \in Nat, NEW S, NEW kinds
    PROVE  /\ LinesOf(src, S, kinds) \in Seq(1 .. Len(src)) /\ Len(LinesOf(src, S, kinds)) \in Nat
           /\ Len(LinesOf(src, S, kinds)) <= Len(src)
           /\ \A k \in 1 .. Len(LinesOf(src, S, kinds)) :
                  /\ LinesOf(src, S, kinds)[k] \in S
                  /\ src[LinesOf(src, S, kinds)[k]].kind \in kinds
  <1>1. PICK n \in Nat : n = Len(src)
    OBVIOUS
  <1>2. PICK ns : ns = Numbers(src)
    OBVIOUS
  <1>3. ns = [k \in 1 .. n |-> k]
    BY <1>1, <1>2 DEF Numbers
  <1>4. ns \in Seq(1 .. n) /\ Len(ns) = n
    BY <1>3, SeqDef
  <1>5. PICK T : T = {i \in S : src[i].kind \in kinds}
    OBVIOUS
  <1>6. LinesOf(src, S, kinds) = Select(ns, T)
    BY <1>2, <1>5 DEF LinesOf
  <1>7. PICK u : u = Select(ns, T)
    OBVIOUS
  <1>8. /\ u \in Seq(1 .. n) /\ Len(u) \in Nat
        /\ \A k \in 1 .. Len(u) : \E j \in 1 .. Len(ns) : ns[j] = u[k] /\ ns[j] \in T
    BY <1>4, <1>7, SelectType
  <1>9. Len(u) <= n
    BY <1>4, <1>7, SelectLength
  <1>10. \A k \in 1 .. Len(u) : u[k] \in T
    BY <1>8
  <1> QED BY <1>1, <1>5, <1>6, <1>7, <1>8, <1>9, <1>10

\* So are the lines that are reached.
LEMMA ReachedAre ==
    ASSUME NEW src, Len(src) \in Nat, NEW at, NEW resume
    PROVE  /\ Reached(src, at, resume) \in Seq(1 .. Len(src)) /\ Len(Reached(src, at, resume)) \in Nat
           /\ \A k \in 1 .. Len(Reached(src, at, resume)) : Reached(src, at, resume)[k] \in at
  <1>1. PICK n \in Nat : n = Len(src)
    OBVIOUS
  <1>2. PICK ns : ns = Numbers(src)
    OBVIOUS
  <1>3. ns = [k \in 1 .. n |-> k]
    BY <1>1, <1>2 DEF Numbers
  <1>4. ns \in Seq(1 .. n) /\ Len(ns) = n
    BY <1>3, SeqDef
  <1>5. PICK T : T = at \cap Visited(src, at, resume)
    OBVIOUS
  <1>6. Reached(src, at, resume) = Select(ns, T)
    BY <1>2, <1>5 DEF Reached
  <1>7. PICK u : u = Select(ns, T)
    OBVIOUS
  <1>8. /\ u \in Seq(1 .. n) /\ Len(u) \in Nat
        /\ \A k \in 1 .. Len(u) : \E j \in 1 .. Len(ns) : ns[j] = u[k] /\ ns[j] \in T
    BY <1>4, <1>7, SelectType
  <1>9. \A k \in 1 .. Len(u) : u[k] \in at
    BY <1>5, <1>8
  <1> QED BY <1>1, <1>6, <1>7, <1>8, <1>9

\* The greatest line of a set of lines.
LEMMA GreatestLine ==
    ASSUME NEW n \in Nat, NEW S, S \subseteq 1 .. n, S # {}
    PROVE  Max(S) \in S /\ \A y \in S : y <= Max(S)
  <1>1. IsFiniteSet(1 .. n)
    BY FS_Interval
  <1>2. IsFiniteSet(S)
    BY <1>1, FS_Subset
  <1>3. S \subseteq Nat
    OBVIOUS
  <1> QED BY <1>2, <1>3, MaxIs

\* The bindings found among some lines.
LEMMA BindingsAre ==
    ASSUME NEW src, Len(src) \in Nat, NEW S
    PROVE  /\ Len(LeoBindings(src, S)) \in Nat /\ Len(LeoBindings(src, S)) <= Len(src)
           /\ LeoBindings(src, S) \in Seq(Range(LeoBindings(src, S)))
           /\ \A k \in 1 .. Len(LeoBindings(src, S)) :
                  /\ LeoBindings(src, S)[k].line \in S \cap 1 .. Len(src)
                  /\ src[LeoBindings(src, S)[k].line].kind = "let"
  <1>1. PICK T : T = {i \in S : src[i].kind = "let" => src[i].typed}
    OBVIOUS
  <1>2. PICK ls : ls = LinesOf(src, T, {"let"})
    OBVIOUS
  <1>3. /\ ls \in Seq(1 .. Len(src)) /\ Len(ls) \in Nat /\ Len(ls) <= Len(src)
        /\ \A k \in 1 .. Len(ls) : ls[k] \in T /\ src[ls[k]].kind \in {"let"}
    BY <1>2, LinesOfAre
  <1>4. PICK n \in Nat : n = Len(ls)
    BY <1>3
  <1>5. PICK bs : bs = [k \in 1 .. n |-> [name |-> src[ls[k]].name, line |-> ls[k]]]
    OBVIOUS
  <1>6. LeoBindings(src, S) = bs
    BY <1>1, <1>2, <1>4, <1>5 DEF LeoBindings
  <1>7. PICK B : B = {bs[k] : k \in 1 .. n}
    OBVIOUS
  <1>8. bs \in [1 .. n -> B]
    BY <1>5, <1>7
  <1>9. bs \in Seq(B) /\ Len(bs) = n
    BY <1>8, SeqDef
  <1>10. \A k \in 1 .. n : bs[k].line = ls[k]
    BY <1>5
  <1>11. \A k \in 1 .. n : ls[k] \in S /\ ls[k] \in 1 .. Len(src) /\ src[ls[k]].kind = "let"
    BY <1>1, <1>3, <1>4
  <1>12. bs \in Seq(Range(bs))
    BY <1>9, OfItsRange
  <1> QED BY <1>3, <1>4, <1>6, <1>9, <1>10, <1>11, <1>12

\* What is found of a function is in its body.
LEMMA DefinitionIs ==
    ASSUME NEW src, IsText(src), NEW i \in 1 .. Len(src), NEW f, f = LeoFunctionDef(src, i)
    PROVE  /\ f.line = i /\ f.name = src[i].name /\ f.aleo = src[i].trimmed
           /\ f.parameters = ParameterList(src, i)
           /\ f.bindings = LeoBindings(src, Body(src, i))
           /\ f.return_line # 0 => /\ f.return_line \in Body(src, i) /\ f.return_line \in 1 .. Len(src)
                                   /\ src[f.return_line].kind = "return"
           /\ f.return_line \in Nat
  <1>1. Len(src) \in Nat
    BY DEF IsText
  <1>2. PICK R : R = {j \in Body(src, i) : src[j].kind = "return"}
    OBVIOUS
  <1>3. R \subseteq 1 .. Len(src)
    BY <1>2, BodyInExtent
  <1>4. f.return_line = IF R = {} THEN 0 ELSE Max(R)
    BY <1>2 DEF LeoFunctionDef
  <1>5. R # {} => Max(R) \in R
    BY <1>1, <1>3, GreatestLine
  <1>6. /\ f.return_line # 0 => /\ f.return_line \in Body(src, i) /\ f.return_line \in 1 .. Len(src)
                                   /\ src[f.return_line].kind = "return"
        /\ f.return_line \in Nat
    BY <1>1, <1>2, <1>3, <1>4, <1>5
  <1>7. /\ f.line = i /\ f.name = src[i].name /\ f.aleo = src[i].trimmed
        /\ f.parameters = ParameterList(src, i)
        /\ f.bindings = LeoBindings(src, Body(src, i))
    BY DEF LeoFunctionDef
  <1> QED BY <1>6, <1>7

\* parse_leo_functions finds headers.
LEMMA FunctionsAre ==
    ASSUME NEW src, IsText(src), NEW fs, fs = ParseLeoFunctions(src)
    PROVE  /\ Len(fs) \in Nat /\ fs \in Seq(Range(fs))
           /\ \A n \in 1 .. Len(fs) : /\ fs[n].line \in 1 .. Len(src)
                                      /\ src[fs[n].line].kind \in Headers
                                      /\ fs[n] = LeoFunctionDef(src, fs[n].line)
  <1>1. Len(src) \in Nat
    BY DEF IsText
  <1>2. PICK heads : heads = AtKinds(src, Headers)
    OBVIOUS
  <1>3. PICK resume : resume = [i \in heads |-> BodyEnd(src, i) + 1]
    OBVIOUS
  <1>4. PICK at : at = Reached(src, heads, resume)
    OBVIOUS
  <1>5. /\ at \in Seq(1 .. Len(src)) /\ Len(at) \in Nat
        /\ \A k \in 1 .. Len(at) : at[k] \in heads
    BY <1>1, <1>4, ReachedAre
  <1>6. PICK m \in Nat : m = Len(at)
    BY <1>5
  <1>7. fs = [n \in 1 .. m |-> LeoFunctionDef(src, at[n])]
    BY <1>2, <1>3, <1>4, <1>6 DEF ParseLeoFunctions
  <1>8. PICK F : F = {fs[n] : n \in 1 .. m}
    OBVIOUS
  <1>9. fs \in [1 .. m -> F]
    BY <1>7, <1>8
  <1>10. fs \in Seq(F) /\ Len(fs) = m
    BY <1>9, SeqDef
  <1>11. \A n \in 1 .. m : at[n] \in 1 .. Len(src) /\ src[at[n]].kind \in Headers
    BY <1>2, <1>5, <1>6 DEF AtKinds
  <1>12. \A n \in 1 .. m : fs[n].line = at[n]
    BY <1>7, <1>11, DefinitionIs
  <1> QED BY <1>7, <1>10, <1>11, <1>12, OfItsRange

----------------------------------------------------------------------------
(* The calls in progress after some events *)

\* u holds the calls in progress after each of the first n events.
OpenUpTo(u, es, n) == u = [k \in 0 .. n |-> IF k = 0 THEN <<>> ELSE CallsAfter(u[k - 1], es[k])]

LEMMA CallsAfterType ==
    ASSUME NEW E, NEW open \in Seq(E), NEW e \in E, [ev |-> "none"] \in E
    PROVE  CallsAfter(open, e) \in Seq(E)
  <1>1. CASE e.ev = "call"
    BY <1>1 DEF CallsAfter
  <1>2. CASE e.ev = "return"
    <2>1. CASE open = <<>>
      BY <1>2, <2>1 DEF CallsAfter
    <2>2. CASE open # <<>>
      <3>1. Front(open) \in Seq(E)
        BY <2>2 DEF Front
      <3> QED BY <1>2, <2>2, <3>1 DEF CallsAfter
    <2> QED BY <2>1, <2>2
  <1>3. CASE e.ev # "call" /\ e.ev # "return"
    BY <1>3 DEF CallsAfter
  <1> QED BY <1>1, <1>2, <1>3

LEMMA OpenExists ==
    ASSUME NEW es, NEW n \in Nat
    PROVE  \E u : OpenUpTo(u, es, n)
  <1>1. PICK E : E = {es[k] : k \in 1 .. n} \cup {[ev |-> "none"]}
    OBVIOUS
  <1>2. PICK S : S = Seq(E)
    OBVIOUS
  <1>3. PICK step : step = [p \in Nat \X S |-> IF p[1] \in 1 .. n THEN CallsAfter(p[2], es[p[1]]) ELSE p[2]]
    OBVIOUS
  <1>4. ASSUME NEW k \in Nat, NEW x \in S PROVE step[<<k, x>>] \in S
    <2>1. CASE k \in 1 .. n
      <3>1. es[k] \in E /\ [ev |-> "none"] \in E
        BY <1>1, <2>1
      <3>2. CallsAfter(x, es[k]) \in S
        BY <1>2, <3>1, CallsAfterType
      <3>3. step[<<k, x>>] = CallsAfter(x, es[k])
        BY <1>3, <2>1
      <3> QED BY <3>2, <3>3
    <2>2. CASE k \notin 1 .. n
      BY <1>3, <2>2
    <2> QED BY <2>1, <2>2
  <1>5. <<>> \in S
    BY <1>2
  <1>6. PICK u : Recurs(u, S, <<>>, step, n)
    BY <1>4, <1>5, Recursion
  <1>7. u \in [0 .. n -> S] /\ u[0] = <<>> /\ \A k \in 1 .. n : u[k] = step[<<k, u[k - 1]>>]
    BY <1>6 DEF Recurs
  <1>8. ASSUME NEW k \in 0 .. n PROVE u[k] = IF k = 0 THEN <<>> ELSE CallsAfter(u[k - 1], es[k])
    <2>1. CASE k = 0
      BY <1>7, <2>1
    <2>2. CASE k # 0
      <3>1. k \in 1 .. n /\ k - 1 \in 0 .. n /\ k \in Nat
        BY <2>2
      <3>2. u[k - 1] \in S
        BY <1>7, <3>1
      <3>3. step[<<k, u[k - 1]>>] = CallsAfter(u[k - 1], es[k])
        BY <1>3, <3>1, <3>2
      <3> QED BY <1>7, <2>2, <3>1, <3>3
    <2> QED BY <2>1, <2>2
  <1>9. u = [k \in 0 .. n |-> u[k]]
    BY <1>7
  <1>10. OpenUpTo(u, es, n)
    BY <1>8, <1>9 DEF OpenUpTo
  <1> QED BY <1>10

LEMMA OpenDef ==
    ASSUME NEW es, NEW n \in Nat
    PROVE  \E u : OpenUpTo(u, es, n) /\ OpenCalls(es, n) = u[n]
  <1> DEFINE P(u) == u = [k \in 0 .. n |-> IF k = 0 THEN <<>> ELSE CallsAfter(u[k - 1], es[k])]
  <1>1. \A u : P(u) <=> OpenUpTo(u, es, n)
    BY DEF OpenUpTo
  <1>2. \E u : P(u)
    BY <1>1, OpenExists
  <1>3. OpenCalls(es, n) = (CHOOSE u : P(u))[n]
    BY DEF OpenCalls
  <1>4. P(CHOOSE u : P(u))
    <2> HIDE DEF P
    <2> QED BY <1>2
  <1> HIDE DEF P
  <1> QED BY <1>1, <1>3, <1>4

\* The calls open after the same events are the same.
LEMMA OpenSame ==
    ASSUME NEW es, NEW fs, NEW n \in Nat, NEW m \in Nat, n <= m, NEW u, NEW v,
           OpenUpTo(u, es, n), OpenUpTo(v, fs, m), \A k \in 1 .. n : es[k] = fs[k]
    PROVE  u[n] = v[n]
  <1>1. /\ \A k \in 0 .. n : u[k] = IF k = 0 THEN <<>> ELSE CallsAfter(u[k - 1], es[k])
        /\ \A k \in 0 .. m : v[k] = IF k = 0 THEN <<>> ELSE CallsAfter(v[k - 1], fs[k])
    BY DEF OpenUpTo
  <1> DEFINE T == {k \in Nat : k <= n => u[k] = v[k]}
  <1>2. 0 \in T
    BY <1>1
  <1>3. ASSUME NEW k \in Nat, k \in T PROVE k + 1 \in T
    <2> SUFFICES ASSUME k + 1 <= n PROVE u[k + 1] = v[k + 1]
      OBVIOUS
    <2>1. /\ k + 1 \in 0 .. n /\ k + 1 \in 0 .. m /\ k + 1 # 0 /\ k <= n /\ (k + 1) - 1 = k
          /\ k + 1 \in 1 .. n
      OBVIOUS
    <2>2. u[k] = v[k] /\ es[k + 1] = fs[k + 1]
      BY <1>3, <2>1
    <2> QED BY <1>1, <2>1, <2>2
  <1>4. Nat \subseteq T
    <2> HIDE DEF T
    <2> QED BY <1>2, <1>3, NatSetInduction
  <1>5. n \in T
    BY <1>4
  <1> QED BY <1>5

LEMMA OpenAgree ==
    ASSUME NEW es, NEW fs, NEW n \in Nat, \A k \in 1 .. n : es[k] = fs[k]
    PROVE  OpenCalls(es, n) = OpenCalls(fs, n)
  <1>1. PICK u : OpenUpTo(u, es, n) /\ OpenCalls(es, n) = u[n]
    BY OpenDef
  <1>2. PICK v : OpenUpTo(v, fs, n) /\ OpenCalls(fs, n) = v[n]
    BY OpenDef
  <1>3. n <= n
    OBVIOUS
  <1> QED BY <1>1, <1>2, <1>3, OpenSame

LEMMA NoEventsNoCalls == \A es : OpenCalls(es, 0) = <<>>
  <1> TAKE es
  <1>1. PICK u : OpenUpTo(u, es, 0) /\ OpenCalls(es, 0) = u[0]
    BY OpenDef
  <1> QED BY <1>1 DEF OpenUpTo

\* One more event.
LEMMA OneMoreCall ==
    ASSUME NEW es, NEW n \in Nat
    PROVE  OpenCalls(es, n + 1) = CallsAfter(OpenCalls(es, n), es[n + 1])
  <1>1. PICK m \in Nat : m = n + 1 /\ n <= m
    OBVIOUS
  <1>2. PICK u : OpenUpTo(u, es, n) /\ OpenCalls(es, n) = u[n]
    BY OpenDef
  <1>3. PICK v : OpenUpTo(v, es, m) /\ OpenCalls(es, m) = v[m]
    BY OpenDef
  <1>4. PICK fs : fs = es
    OBVIOUS
  <1>5. OpenUpTo(v, fs, m) /\ \A k \in 1 .. n : es[k] = fs[k]
    BY <1>3, <1>4
  <1>6. u[n] = v[n]
    BY <1>1, <1>2, <1>5, OpenSame
  <1>7. v[m] = CallsAfter(v[m - 1], es[m])
    BY <1>1, <1>3 DEF OpenUpTo
  <1>8. m - 1 = n
    BY <1>1
  <1> QED BY <1>1, <1>2, <1>3, <1>6, <1>7, <1>8

\* Steps and values leave the calls as they are.
LEMMA StepsOpenNothing ==
    ASSUME NEW es, NEW n \in Nat, NEW m \in Nat,
           \A k \in n + 1 .. n + m : es[k].ev \notin {"call", "return"}
    PROVE  \A k \in n .. n + m : OpenCalls(es, k) = OpenCalls(es, n)
  <1> DEFINE T == {k \in Nat : k <= m => OpenCalls(es, n + k) = OpenCalls(es, n)}
  <1>1. 0 \in T
    OBVIOUS
  <1>2. ASSUME NEW k \in Nat, k \in T PROVE k + 1 \in T
    <2> SUFFICES ASSUME k + 1 <= m PROVE OpenCalls(es, n + (k + 1)) = OpenCalls(es, n)
      OBVIOUS
    <2>1. n + k \in Nat /\ n + (k + 1) = (n + k) + 1 /\ (n + k) + 1 \in n + 1 .. n + m /\ k <= m
      OBVIOUS
    <2>2. OpenCalls(es, (n + k) + 1) = CallsAfter(OpenCalls(es, n + k), es[(n + k) + 1])
      BY <2>1, OneMoreCall
    <2>3. es[(n + k) + 1].ev # "call" /\ es[(n + k) + 1].ev # "return"
      BY <2>1
    <2>4. CallsAfter(OpenCalls(es, n + k), es[(n + k) + 1]) = OpenCalls(es, n + k)
      BY <2>3 DEF CallsAfter
    <2> QED BY <1>2, <2>1, <2>2, <2>4
  <1>3. Nat \subseteq T
    <2> HIDE DEF T
    <2> QED BY <1>1, <1>2, NatSetInduction
  <1>4. ASSUME NEW k \in n .. n + m PROVE OpenCalls(es, k) = OpenCalls(es, n)
    <2>1. k - n \in Nat /\ n + (k - n) = k /\ k - n <= m
      OBVIOUS
    <2>2. k - n \in T
      BY <1>3, <2>1
    <2> QED BY <2>1, <2>2
  <1> QED BY <1>4

----------------------------------------------------------------------------
(* The legacy walk *)

\* LegacyFunctions and what LegacyWalkNests says, of functions fs of a text
\* src and a log es.
KeptFunctions(fs) ==
    {n \in 1 .. Len(fs) : \A j \in n + 1 .. Len(fs) : fs[j].name # fs[n].name}

EntryOf(fs, src, es) == {n \in KeptFunctions(fs) : es[1].line \in Extent(src, fs[n].line)}

NamedIn(fs, x) == {n \in KeptFunctions(fs) : fs[n].name = x}

InsideOf(fs, src, es, k) ==
    LET o == OpenCalls(es, k) IN IF o = <<>> THEN EntryOf(fs, src, es) ELSE NamedIn(fs, Last(o).fn)

EventNested(fs, src, es, k) ==
    /\ es[k].ev = "step" => \E n \in InsideOf(fs, src, es, k) : es[k].line \in Extent(src, fs[n].line)
    /\ es[k].ev = "call" => \E n \in InsideOf(fs, src, es, k - 1) :
                                /\ k > 1 /\ es[k - 1] = Step(fs[n].return_line)
                                /\ src[fs[n].return_line].expr.callee = es[k].fn

LogNested(fs, src, es) == \A k \in 1 .. Len(es) : EventNested(fs, src, es, k)

\* The calls in progress are those of the log, and the one in progress last, if
\* its own call is still to come, has just stepped to its return.
WalkFits(fs, src, w, es) ==
    /\ w \in Seq([fn : KeptFunctions(fs), entered : BOOLEAN])
    /\ \A d \in 1 .. Len(w) - 1 : w[d].entered
    /\ w = <<>> => OpenCalls(es, Len(es)) = <<>>
    /\ w # <<>> =>
         /\ Len(OpenCalls(es, Len(es))) = Len(w) - 1
         /\ \A d \in 1 .. Len(w) - 1 : OpenCalls(es, Len(es))[d].fn = fs[w[d + 1].fn].name
         /\ es # <<>> => w[1].fn \in EntryOf(fs, src, es)
         /\ ~w[Len(w)].entered => es # <<>> /\ es[Len(es)] = Step(fs[w[Len(w)].fn].return_line)

LogTyped(es) == Len(es) \in Nat /\ \E S : es \in Seq(S)

\* The calls in progress are a sequence.
LEMMA OpenCallsType ==
    ASSUME NEW es, NEW n \in Nat
    PROVE  \E S : OpenCalls(es, n) \in Seq(S)
  <1>1. PICK E : E = {es[k] : k \in 1 .. n} \cup {[ev |-> "none"]}
    OBVIOUS
  <1> DEFINE T == {k \in Nat : k <= n => OpenCalls(es, k) \in Seq(E)}
  <1>2. 0 \in T
    <2>1. OpenCalls(es, 0) = <<>>
      BY NoEventsNoCalls
    <2>2. <<>> \in Seq(E)
      OBVIOUS
    <2> QED BY <2>1, <2>2
  <1>3. ASSUME NEW k \in Nat, k \in T PROVE k + 1 \in T
    <2> SUFFICES ASSUME k + 1 <= n PROVE OpenCalls(es, k + 1) \in Seq(E)
      OBVIOUS
    <2>1. OpenCalls(es, k) \in Seq(E) /\ k + 1 \in 1 .. n
      BY <1>3
    <2>2. es[k + 1] \in E /\ [ev |-> "none"] \in E
      BY <1>1, <2>1
    <2>3. CallsAfter(OpenCalls(es, k), es[k + 1]) \in Seq(E)
      BY <2>1, <2>2, CallsAfterType
    <2> QED BY <2>3, OneMoreCall
  <1>4. Nat \subseteq T
    <2> HIDE DEF T
    <2> QED BY <1>2, <1>3, NatSetInduction
  <1>5. n \in T
    BY <1>4
  <1> QED BY <1>5

\* Whether an event nests depends on what came before it alone.
LEMMA PastNests ==
    ASSUME NEW fs, NEW src, NEW es, NEW ds, NEW n \in Nat \ {0}, \A k \in 1 .. n : es[k] = ds[k]
    PROVE  /\ EventNested(fs, src, es, n) <=> EventNested(fs, src, ds, n)
           /\ InsideOf(fs, src, es, n) = InsideOf(fs, src, ds, n)
  <1>1. n - 1 \in Nat /\ n \in Nat /\ 1 \in 1 .. n /\ n \in 1 .. n /\ (n > 1 => n - 1 \in 1 .. n)
        /\ \A k \in 1 .. n - 1 : k \in 1 .. n
    OBVIOUS
  <1>2. OpenCalls(es, n) = OpenCalls(ds, n)
    BY <1>1, OpenAgree
  <1>3. OpenCalls(es, n - 1) = OpenCalls(ds, n - 1)
    <2>1. PICK m \in Nat : m = n - 1
      BY <1>1
    <2>2. \A k \in 1 .. m : es[k] = ds[k]
      BY <1>1, <2>1
    <2>3. OpenCalls(es, m) = OpenCalls(ds, m)
      BY <2>2, OpenAgree
    <2> QED BY <2>1, <2>3
  <1>4. es[1] = ds[1] /\ es[n] = ds[n] /\ (n > 1 => es[n - 1] = ds[n - 1])
    BY <1>1
  <1>5. EntryOf(fs, src, es) = EntryOf(fs, src, ds)
    BY <1>4 DEF EntryOf
  <1>6. /\ InsideOf(fs, src, es, n) = InsideOf(fs, src, ds, n)
        /\ InsideOf(fs, src, es, n - 1) = InsideOf(fs, src, ds, n - 1)
    BY <1>2, <1>3, <1>5 DEF InsideOf
  <1>7. EventNested(fs, src, es, n) <=> EventNested(fs, src, ds, n)
    BY <1>4, <1>6 DEF EventNested
  <1> QED BY <1>6, <1>7

\* Steps to lines of the function the log is in nest.
LEMMA StepsNest ==
    ASSUME NEW fs, NEW src, NEW es, LogNested(fs, src, es), NEW S, es \in Seq(S), es # <<>>,
           NEW ts \in Seq(S), NEW n \in InsideOf(fs, src, es, Len(es)),
           \A k \in 1 .. Len(ts) : ts[k].ev = "step" /\ ts[k].line \in Extent(src, fs[n].line)
    PROVE  /\ LogNested(fs, src, es \o ts)
           /\ OpenCalls(es \o ts, Len(es \o ts)) = OpenCalls(es, Len(es))
           /\ es \o ts \in Seq(S) /\ (es \o ts)[1] = es[1] /\ es \o ts # <<>>
           /\ Len(es \o ts) = Len(es) + Len(ts)
  <1>1. PICK m \in Nat \ {0} : m = Len(es)
    OBVIOUS
  <1>2. PICK l \in Nat : l = Len(ts)
    OBVIOUS
  <1>3. PICK ds : ds = es \o ts
    OBVIOUS
  <1>4. /\ ds \in Seq(S) /\ Len(ds) = m + l /\ \A k \in 1 .. m : ds[k] = es[k]
    BY <1>1, <1>2, <1>3, ConcatElement
  <1>5. \A k \in 1 .. l : ds[m + k] = ts[k]
    BY <1>1, <1>2, <1>3, ConcatElement
  <1>6. \A k \in m + 1 .. m + l : ds[k].ev = "step" /\ ds[k].line \in Extent(src, fs[n].line)
    <2> TAKE k \in m + 1 .. m + l
    <2>1. k - m \in 1 .. l /\ m + (k - m) = k
      OBVIOUS
    <2>2. ds[k] = ts[k - m]
      BY <1>5, <2>1
    <2> QED BY <1>2, <2>1, <2>2
  <1>7. \A k \in m .. m + l : OpenCalls(ds, k) = OpenCalls(ds, m)
    BY <1>6, StepsOpenNothing
  <1>8. InsideOf(fs, src, es, m) = InsideOf(fs, src, ds, m)
    BY <1>4, PastNests
  <1>9. ASSUME NEW k \in 1 .. m + l PROVE EventNested(fs, src, ds, k)
    <2>1. CASE k <= m
      <3>1. k \in Nat \ {0} /\ k \in 1 .. m /\ \A j \in 1 .. k : es[j] = ds[j]
        BY <1>4, <2>1
      <3>2. EventNested(fs, src, es, k)
        BY <1>1, <3>1 DEF LogNested
      <3> QED BY <3>1, <3>2, PastNests
    <2>2. CASE ~(k <= m)
      <3>1. k \in m + 1 .. m + l /\ k \in m .. m + l
        BY <2>2
      <3>2. OpenCalls(ds, k) = OpenCalls(ds, m)
        BY <1>7, <3>1
      <3>3. InsideOf(fs, src, ds, k) = InsideOf(fs, src, ds, m)
        BY <3>2 DEF InsideOf
      <3>4. n \in InsideOf(fs, src, ds, k)
        BY <1>1, <1>8, <3>3
      <3> QED BY <1>6, <3>1, <3>4 DEF EventNested
    <2> QED BY <2>1, <2>2
  <1>10. m + l \in m .. m + l /\ m + l \in Nat /\ m + l # 0 /\ 1 \in 1 .. m
    OBVIOUS
  <1>11. OpenCalls(ds, m + l) = OpenCalls(es, m)
    <2>1. OpenCalls(ds, m + l) = OpenCalls(ds, m)
      BY <1>7, <1>10
    <2>2. OpenCalls(es, m) = OpenCalls(ds, m)
      BY <1>4, OpenAgree
    <2> QED BY <2>1, <2>2
  <1>12. LogNested(fs, src, ds)
    BY <1>4, <1>9 DEF LogNested
  <1>13. ds # <<>> /\ ds[1] = es[1]
    BY <1>4, <1>10
  <1> QED BY <1>1, <1>2, <1>3, <1>4, <1>11, <1>12, <1>13

\* The function whose call is in progress last is the one the log is in.
LEMMA TopIsInside ==
    ASSUME NEW fs, NEW src, NEW w, NEW es, WalkFits(fs, src, w, es), w # <<>>, es # <<>>, LogTyped(es)
    PROVE  w[Len(w)].fn \in InsideOf(fs, src, es, Len(es)) /\ w[Len(w)].fn \in KeptFunctions(fs)
  <1>1. PICK K : K = KeptFunctions(fs)
    OBVIOUS
  <1>2. w \in Seq([fn : K, entered : BOOLEAN])
    BY <1>1 DEF WalkFits
  <1>3. PICK n \in Nat \ {0} : n = Len(w)
    BY <1>2
  <1>4. PICK o : o = OpenCalls(es, Len(es))
    OBVIOUS
  <1>5. PICK S : o \in Seq(S)
    BY <1>4, OpenCallsType DEF LogTyped
  <1>6. Len(o) = n - 1 /\ \A d \in 1 .. n - 1 : o[d].fn = fs[w[d + 1].fn].name
    BY <1>3, <1>4 DEF WalkFits
  <1>7. n \in 1 .. Len(w) /\ w[n].fn \in K
    <2>1. n \in 1 .. Len(w)
      BY <1>3
    <2>2. w[n] \in [fn : K, entered : BOOLEAN]
      BY <1>2, <2>1, ElementType
    <2> QED BY <2>1, <2>2
  <1>8. CASE n = 1
    <2>1. o = <<>>
      BY <1>5, <1>6, <1>8
    <2>2. w[1].fn \in EntryOf(fs, src, es)
      BY DEF WalkFits
    <2> QED BY <1>1, <1>3, <1>4, <1>7, <1>8, <2>1, <2>2 DEF InsideOf
  <1>9. CASE n # 1
    <2>1. n - 1 \in 1 .. n - 1 /\ (n - 1) + 1 = n
      BY <1>9
    <2>2. o[n - 1].fn = fs[w[n].fn].name
      BY <1>6, <2>1
    <2>3. o # <<>> /\ Last(o) = o[n - 1]
      BY <1>5, <1>6, <1>9 DEF Last
    <2>4. w[n].fn \in NamedIn(fs, Last(o).fn)
      BY <1>1, <1>7, <2>2, <2>3 DEF NamedIn
    <2> QED BY <1>1, <1>3, <1>4, <1>7, <2>3, <2>4 DEF InsideOf
  <1> QED BY <1>8, <1>9

SourceRead == source \in Sources /\ leoFunctions = ParseLeoFunctions(text)

LegacyHolds(fs, src, w, es) == LogTyped(es) /\ LogNested(fs, src, es) /\ WalkFits(fs, src, w, es)

StepEvents == [ev : {"step"}, line : Nat]

\* The steps of a function lie in it, the last of them at its return.
LEMMA LegacyStepsAre ==
    ASSUME SourceRead, NEW n \in LegacyFunctions, NEW ts, ts = LegacySteps(n), NEW f, f = leoFunctions[n]
    PROVE  /\ ts \in Seq(StepEvents) /\ Len(ts) \in Nat
           /\ \A k \in 1 .. Len(ts) : /\ ts[k].ev = "step" /\ ts[k].line \in Extent(text, f.line)
                                      /\ ts[k].line \in 1 .. Len(text)
           /\ f.return_line # 0 => ts # <<>> /\ ts[Len(ts)] = Step(f.return_line)
  <1>1. PICK src : src = text /\ IsText(src) /\ Len(src) \in Nat
    BY TextIs DEF SourceRead, text
  <1>2. n \in 1 .. Len(leoFunctions)
    BY DEF LegacyFunctions
  <1>3. f = LeoFunctionDef(src, f.line) /\ f.line \in 1 .. Len(src)
    BY <1>1, <1>2, FunctionsAre DEF SourceRead
  <1>4. PICK B : B = Body(src, f.line)
    OBVIOUS
  <1>5. /\ f.bindings = LeoBindings(src, B)
        /\ f.return_line # 0 => f.return_line \in B
        /\ f.return_line \in Nat
    BY <1>1, <1>3, <1>4, DefinitionIs
  <1>6. B \subseteq Extent(src, f.line) /\ B \subseteq 1 .. Len(src)
    BY <1>1, <1>3, <1>4, BodyInExtent
  <1>7. PICK m \in Nat : m = Len(f.bindings) /\ \A k \in 1 .. m : f.bindings[k].line \in B
    BY <1>1, <1>5, BindingsAre
  <1>8. PICK bs : bs = [k \in 1 .. m |-> Step(f.bindings[k].line)]
    OBVIOUS
  <1>9. bs \in [1 .. m -> StepEvents] /\ \A k \in 1 .. m : bs[k].ev = "step" /\ bs[k].line \in B
    <2>1. \A k \in 1 .. m : f.bindings[k].line \in Nat
      BY <1>1, <1>6, <1>7
    <2> QED BY <1>7, <1>8, <2>1 DEF Step, StepEvents
  <1>10. bs \in Seq(StepEvents) /\ Len(bs) = m
    BY <1>9, SeqDef
  <1>11. PICK rs : rs = IF f.return_line = 0 THEN <<>> ELSE <<Step(f.return_line)>>
    OBVIOUS
  <1>12. /\ rs \in Seq(StepEvents) /\ Len(rs) \in Nat
         /\ f.return_line # 0 => Len(rs) = 1 /\ rs[1] = Step(f.return_line)
         /\ \A k \in 1 .. Len(rs) : rs[k].ev = "step" /\ rs[k].line \in B
    <2>1. CASE f.return_line = 0
      BY <1>11, <2>1
    <2>2. CASE f.return_line # 0
      <3>1. Step(f.return_line) \in StepEvents
        BY <1>5 DEF Step, StepEvents
      <3>2. rs \in Seq(StepEvents) /\ Len(rs) = 1 /\ rs[1] = Step(f.return_line)
        BY <1>11, <2>2, <3>1
      <3>3. rs[1].ev = "step" /\ rs[1].line \in B
        BY <1>5, <2>2, <3>2 DEF Step
      <3> QED BY <2>2, <3>2, <3>3
    <2> QED BY <2>1, <2>2
  <1>13. ts = bs \o rs
    BY <1>7, <1>8, <1>11 DEF LegacySteps
  <1>14. /\ ts \in Seq(StepEvents) /\ Len(ts) = m + Len(rs)
         /\ \A k \in 1 .. Len(ts) : \/ k \in 1 .. m /\ ts[k] = bs[k]
                                    \/ k - m \in 1 .. Len(rs) /\ ts[k] = rs[k - m]
         /\ \A k \in 1 .. Len(rs) : ts[m + k] = rs[k]
    <2>1. /\ ts \in Seq(StepEvents) /\ Len(ts) = Len(bs) + Len(rs)
          /\ \A k \in 1 .. Len(ts) : \/ k \in 1 .. Len(bs) /\ ts[k] = bs[k]
                                     \/ k - Len(bs) \in 1 .. Len(rs) /\ ts[k] = rs[k - Len(bs)]
          /\ \A k \in 1 .. Len(rs) : ts[Len(bs) + k] = rs[k]
      <3> HIDE DEF StepEvents
      <3>1. bs \in Seq(StepEvents) /\ rs \in Seq(StepEvents)
        BY <1>10, <1>12
      <3> QED BY <1>13, <3>1, ConcatElement
    <2> QED BY <1>10, <2>1
  <1>15. \A k \in 1 .. Len(ts) : ts[k].ev = "step" /\ ts[k].line \in B
    BY <1>9, <1>12, <1>14
  <1>16. f.return_line # 0 => ts # <<>> /\ ts[Len(ts)] = Step(f.return_line)
    <2> SUFFICES ASSUME f.return_line # 0 PROVE ts # <<>> /\ ts[Len(ts)] = Step(f.return_line)
      OBVIOUS
    <2>1. Len(rs) = 1 /\ rs[1] = Step(f.return_line) /\ 1 \in 1 .. 1
      BY <1>12
    <2>2. Len(ts) = m + 1 /\ ts[m + 1] = Step(f.return_line)
      BY <1>14, <2>1
    <2> QED BY <1>14, <2>2
  <1>17. Len(ts) \in Nat
    BY <1>12, <1>14
  <1> QED BY <1>1, <1>6, <1>14, <1>15, <1>16, <1>17

\* The walk begins with the steps of one function.
LEMMA LegacyBegins ==
    ASSUME SourceRead, ChooseLegacy, stage' = "legacy", NEW fs, fs = leoFunctions, NEW src, src = text
    PROVE  LegacyHolds(fs, src, walk', log')
  <1>1. PICK n \in LegacyFunctions : walk' = <<Begun(n)>> /\ log' = LegacySteps(n)
    BY Zenon DEF ChooseLegacy, Goto, End
  <1>2. PICK es : es = LegacySteps(n)
    OBVIOUS
  <1>3. PICK f : f = fs[n]
    OBVIOUS
  <1>4. /\ es \in Seq(StepEvents) /\ Len(es) \in Nat
        /\ \A k \in 1 .. Len(es) : es[k].ev = "step" /\ es[k].line \in Extent(src, f.line)
        /\ f.return_line # 0 => es # <<>> /\ es[Len(es)] = Step(f.return_line)
    BY <1>2, <1>3, LegacyStepsAre
  <1>5. PICK l \in Nat : l = Len(es)
    BY <1>4
  <1>6. n \in KeptFunctions(fs)
    BY DEF LegacyFunctions, KeptFunctions
  <1>7. \A k \in 0 .. l : OpenCalls(es, k) = <<>>
    <2>1. \A k \in 0 + 1 .. 0 + l : es[k].ev \notin {"call", "return"}
      BY <1>4, <1>5
    <2>2. 0 \in Nat /\ 0 + l = l
      OBVIOUS
    <2>3. \A k \in 0 .. 0 + l : OpenCalls(es, k) = OpenCalls(es, 0)
      BY <2>1, <2>2, StepsOpenNothing
    <2> QED BY <2>2, <2>3, NoEventsNoCalls
  <1>8. ASSUME NEW k \in 1 .. l PROVE EventNested(fs, src, es, k)
    <2>1. 1 \in 1 .. l /\ k \in 0 .. l
      OBVIOUS
    <2>2. n \in EntryOf(fs, src, es)
      BY <1>3, <1>4, <1>5, <1>6, <2>1 DEF EntryOf
    <2>3. InsideOf(fs, src, es, k) = EntryOf(fs, src, es)
      BY <1>7, <2>1 DEF InsideOf
    <2> QED BY <1>3, <1>4, <1>5, <2>2, <2>3 DEF EventNested
  <1>9. PICK e : e = (ReturnCalls(n) = {})
    OBVIOUS
  <1>10. PICK w : w = <<[fn |-> n, entered |-> e]>>
    OBVIOUS
  <1>11. walk' = w
    BY <1>1, <1>9, <1>10 DEF Begun
  <1>12. e \in BOOLEAN /\ (~e => f.return_line # 0)
    <2>1. e \in BOOLEAN
      BY <1>9
    <2>2. f.return_line = 0 => ReturnCalls(n) = {}
      BY <1>3 DEF ReturnCalls
    <2> QED BY <1>9, <2>1, <2>2
  <1>13. PICK W : W = [fn : KeptFunctions(fs), entered : BOOLEAN]
    OBVIOUS
  <1>14. PICK x : x = [fn |-> n, entered |-> e]
    OBVIOUS
  <1>15. x \in W /\ x.fn = n /\ (x.entered <=> e)
    BY <1>6, <1>12, <1>13, <1>14
  <1>16. w \in Seq(W) /\ Len(w) = 1 /\ w # <<>> /\ w[1] = x
    BY <1>10, <1>14, <1>15
  <1>17. WalkFits(fs, src, w, es)
    <2>1. Len(OpenCalls(es, Len(es))) = 0
      <3>1. l \in 0 .. l
        OBVIOUS
      <3> QED BY <1>5, <1>7, <3>1
    <2>2. es # <<>> => n \in EntryOf(fs, src, es)
      <3> SUFFICES ASSUME es # <<>> PROVE n \in EntryOf(fs, src, es)
        OBVIOUS
      <3>1. 1 \in 1 .. Len(es)
        BY <1>4
      <3> QED BY <1>3, <1>4, <1>6, <3>1 DEF EntryOf
    <2>3. Len(w) - 1 = 0 /\ 1 .. Len(w) - 1 = {}
      BY <1>16
    <2>4. ~x.entered => es # <<>> /\ es[Len(es)] = Step(fs[n].return_line)
      BY <1>3, <1>4, <1>12, <1>15
    <2>5. w \in Seq([fn : KeptFunctions(fs), entered : BOOLEAN])
      BY <1>13, <1>16
    <2> QED BY <1>15, <1>16, <2>1, <2>2, <2>3, <2>4, <2>5 DEF WalkFits
  <1>18. LogNested(fs, src, es)
    BY <1>5, <1>8 DEF LogNested
  <1>19. log' = es
    BY <1>1, <1>2
  <1> QED BY <1>4, <1>11, <1>17, <1>18, <1>19 DEF LegacyHolds, LogTyped

\* A call is made by the return of the function in progress, and its steps
\* follow it.
LEMMA LegacyCalls ==
    ASSUME SourceRead, NEW fs, fs = leoFunctions, NEW src, src = text,
           LegacyHolds(fs, src, walk, log), LegacyCall
    PROVE  LegacyHolds(fs, src, walk', log')
  <1> DEFINE W == [fn : KeptFunctions(fs), entered : BOOLEAN]
  <1>1. PICK w : w = walk
    OBVIOUS
  <1>2. PICK es : es = log
    OBVIOUS
  <1>3. LogTyped(es) /\ LogNested(fs, src, es) /\ WalkFits(fs, src, w, es)
    BY <1>1, <1>2 DEF LegacyHolds
  <1>4. w \in Seq(W)
    BY <1>3 DEF WalkFits
  <1>5. PICK n \in Nat \ {0} : n = Len(w)
    BY <1>1, <1>4 DEF LegacyCall
  <1>6. w # <<>> /\ Last(w) = w[n] /\ n \in 1 .. n
    BY <1>1, <1>5 DEF LegacyCall, Last
  <1>7. PICK cur : cur = w[n] /\ cur \in W
    <2> HIDE DEF W
    <2> QED BY <1>4, <1>5, <1>6, ElementType
  <1>8. cur.fn \in KeptFunctions(fs) /\ cur.entered \in BOOLEAN /\ ~cur.entered
    BY <1>1, <1>6, <1>7 DEF LegacyCall
  <1>9. PICK m \in ReturnCalls(cur.fn) :
            /\ walk' = Append([w EXCEPT ![Len(w)].entered = TRUE], Begun(m))
            /\ \E args : log' = es \o <<CallOf(fs[m].name, fs[m].line, args)>> \o LegacySteps(m)
    BY <1>1, <1>2, <1>6, <1>7, Zenon DEF LegacyCall
  <1>10. PICK f : f = fs[cur.fn]
    OBVIOUS
  <1>11. m \in LegacyFunctions /\ m \in KeptFunctions(fs) /\ f.return_line # 0
         /\ src[f.return_line].expr.callee = fs[m].name
    <2>1. ReturnCalls(cur.fn) # {}
      BY <1>9
    <2>2. m \in LegacyFunctions /\ f.return_line # 0 /\ src[f.return_line].expr.callee = fs[m].name
      BY <1>9, <1>10, <2>1 DEF ReturnCalls
    <2> QED BY <2>2 DEF LegacyFunctions, KeptFunctions
  <1>12. PICK args : log' = es \o <<CallOf(fs[m].name, fs[m].line, args)>> \o LegacySteps(m)
    BY <1>9
  <1>13. PICK call : call = CallOf(fs[m].name, fs[m].line, args)
    OBVIOUS
  <1>14. call.ev = "call" /\ call.fn = fs[m].name
    BY <1>13 DEF CallOf
  <1>15. PICK ts : ts = LegacySteps(m)
    OBVIOUS
  <1>16. PICK g : g = fs[m]
    OBVIOUS
  <1>17. /\ ts \in Seq(StepEvents) /\ Len(ts) \in Nat
         /\ \A k \in 1 .. Len(ts) : ts[k].ev = "step" /\ ts[k].line \in Extent(src, g.line)
         /\ g.return_line # 0 => ts # <<>> /\ ts[Len(ts)] = Step(g.return_line)
    BY <1>11, <1>15, <1>16, LegacyStepsAre
  <1>18. PICK E : es \in Seq(E)
    BY <1>3 DEF LogTyped
  <1>19. PICK S : S = E \cup StepEvents \cup {call}
    OBVIOUS
  <1>20. es \in Seq(S) /\ ts \in Seq(S) /\ call \in S
    <2>1. E \subseteq S /\ StepEvents \subseteq S
      BY <1>19
    <2> HIDE DEF StepEvents
    <2> QED BY <1>17, <1>18, <1>19, <2>1
  <1>21. PICK l \in Nat \ {0} : l = Len(es) /\ es # <<>> /\ es[l] = Step(f.return_line)
    <2>1. es # <<>> /\ es[Len(es)] = Step(f.return_line)
      BY <1>3, <1>5, <1>6, <1>7, <1>8, <1>10 DEF WalkFits
    <2>2. Len(es) \in Nat \ {0}
      BY <1>20, <2>1
    <2> QED BY <2>1, <2>2
  <1>22. PICK cs : cs = Append(es, call)
    OBVIOUS
  <1>23. /\ cs \in Seq(S) /\ Len(cs) = l + 1 /\ cs[l + 1] = call /\ \A k \in 1 .. l : cs[k] = es[k]
         /\ cs # <<>> /\ cs[1] = es[1]
    <2>1. /\ cs \in Seq(S) /\ Len(cs) = l + 1 /\ cs[l + 1] = call /\ \A k \in 1 .. l : cs[k] = es[k]
      BY <1>20, <1>21, <1>22, AppendElement
    <2>2. 1 \in 1 .. l
      OBVIOUS
    <2> QED BY <2>1, <2>2
  <1>24. PICK o : o = OpenCalls(es, l)
    OBVIOUS
  <1>25. /\ Len(o) = n - 1 /\ \A d \in 1 .. n - 1 : o[d].fn = fs[w[d + 1].fn].name
         /\ w[1].fn \in EntryOf(fs, src, es) /\ \A d \in 1 .. n - 1 : w[d].entered
    BY <1>3, <1>5, <1>6, <1>21, <1>24 DEF WalkFits
  <1>26. PICK T : o \in Seq(T)
    BY <1>24, OpenCallsType
  <1>27. OpenCalls(cs, l + 1) = Append(o, call)
    <2>1. OpenCalls(cs, l) = OpenCalls(es, l)
      BY <1>23, OpenAgree
    <2>2. OpenCalls(cs, l + 1) = CallsAfter(OpenCalls(cs, l), cs[l + 1])
      BY OneMoreCall
    <2>3. CallsAfter(o, call) = Append(o, call)
      BY <1>14 DEF CallsAfter
    <2> QED BY <1>23, <1>24, <2>1, <2>2, <2>3
  <1>28. PICK oc : oc = Append(o, call)
    OBVIOUS
  <1>29. /\ Len(oc) = n /\ oc[n] = call /\ \A d \in 1 .. n - 1 : oc[d] = o[d]
         /\ oc # <<>> /\ Last(oc) = call
    <2>1. PICK U : U = T \cup {call}
      OBVIOUS
    <2>2. o \in Seq(U) /\ call \in U
      BY <1>26, <2>1
    <2>3. /\ Len(oc) = Len(o) + 1 /\ oc[Len(o) + 1] = call /\ \A d \in 1 .. Len(o) : oc[d] = o[d]
          /\ oc \in Seq(U)
      BY <1>28, <2>2, AppendElement
    <2>4. Len(oc) = n /\ oc[n] = call /\ \A d \in 1 .. n - 1 : oc[d] = o[d]
      BY <1>25, <2>3
    <2> QED BY <2>3, <2>4 DEF Last
  <1>30. cur.fn \in InsideOf(fs, src, es, l)
    BY <1>3, <1>5, <1>6, <1>7, <1>21, TopIsInside
  <1>31. LogNested(fs, src, cs)
    <2>1. ASSUME NEW k \in 1 .. l + 1 PROVE EventNested(fs, src, cs, k)
      <3>1. CASE k = l + 1
        <4>1. k - 1 = l /\ k > 1 /\ cs[k] = call /\ cs[l] = es[l] /\ l \in 1 .. l
          BY <1>23, <3>1
        <4>2. InsideOf(fs, src, cs, l) = InsideOf(fs, src, es, l)
          BY <1>23, PastNests
        <4>3. call.ev # "step"
          BY <1>14
        <4> QED BY <1>10, <1>11, <1>14, <1>21, <1>30, <4>1, <4>2, <4>3 DEF EventNested
      <3>2. CASE k # l + 1
        <4>1. k \in 1 .. l /\ k \in Nat \ {0} /\ \A j \in 1 .. k : cs[j] = es[j]
          BY <1>23, <3>2
        <4>2. EventNested(fs, src, es, k)
          BY <1>3, <1>21, <4>1 DEF LogNested
        <4> QED BY <4>1, <4>2, PastNests
      <3> QED BY <3>1, <3>2
    <2> QED BY <1>23, <2>1 DEF LogNested
  <1>32. m \in InsideOf(fs, src, cs, l + 1)
    BY <1>11, <1>14, <1>27, <1>28, <1>29 DEF InsideOf, NamedIn
  <1>33. PICK ds : ds = cs \o ts
    OBVIOUS
  <1>34. /\ LogNested(fs, src, ds) /\ OpenCalls(ds, Len(ds)) = oc
         /\ ds \in Seq(S) /\ ds[1] = es[1] /\ ds # <<>> /\ Len(ds) = l + 1 + Len(ts)
    <2>1. m \in InsideOf(fs, src, cs, Len(cs))
      BY <1>23, <1>32
    <2>2. \A k \in 1 .. Len(ts) : ts[k].ev = "step" /\ ts[k].line \in Extent(src, fs[m].line)
      BY <1>16, <1>17
    <2>3. /\ LogNested(fs, src, cs \o ts)
          /\ OpenCalls(cs \o ts, Len(cs \o ts)) = OpenCalls(cs, Len(cs))
          /\ cs \o ts \in Seq(S) /\ (cs \o ts)[1] = cs[1] /\ cs \o ts # <<>>
          /\ Len(cs \o ts) = Len(cs) + Len(ts)
      <3> HIDE DEF W
      <3>1. cs \in Seq(S) /\ cs # <<>> /\ ts \in Seq(S)
        BY <1>20, <1>23
      <3> QED BY <1>31, <2>1, <2>2, <3>1, StepsNest
    <2> QED BY <1>23, <1>27, <1>28, <1>33, <2>3
  <1>35. log' = ds
    <2>1. es \o <<call>> = cs
      BY <1>20, <1>22
    <2> QED BY <1>12, <1>13, <1>15, <1>33, <2>1
  <1>36. PICK e : e = (ReturnCalls(m) = {})
    OBVIOUS
  <1>37. e \in BOOLEAN /\ (~e => g.return_line # 0)
    <2>1. g.return_line = 0 => ReturnCalls(m) = {}
      BY <1>16 DEF ReturnCalls
    <2>2. e \in BOOLEAN
      BY <1>36
    <2> QED BY <1>36, <2>1, <2>2
  <1>38. PICK x : x = [fn |-> m, entered |-> e]
    OBVIOUS
  <1>39. x \in W /\ x.fn = m /\ (x.entered <=> e)
    BY <1>11, <1>37, <1>38
  <1>40. PICK v : v = [w EXCEPT ![n].entered = TRUE]
    OBVIOUS
  <1>41. v \in Seq(W) /\ Len(v) = n /\ v[n].entered /\ v[n].fn = cur.fn /\ \A d \in 1 .. n - 1 : v[d] = w[d]
    <2>1. PICK y : y = [cur EXCEPT !.entered = TRUE]
      OBVIOUS
    <2>2. y \in W /\ y.entered /\ y.fn = cur.fn
      BY <1>7, <2>1
    <2>3. v = [w EXCEPT ![n] = y]
      BY <1>7, <1>40, <2>1
    <2> HIDE DEF W
    <2>4. v \in Seq(W) /\ Len(v) = n /\ v[n] = y /\ \A d \in 1 .. n - 1 : v[d] = w[d]
      BY <1>4, <1>5, <2>2, <2>3
    <2> QED BY <2>2, <2>4
  <1>42. PICK u : u = Append(v, x)
    OBVIOUS
  <1>43. u \in Seq(W) /\ Len(u) = n + 1 /\ u[n + 1] = x /\ \A d \in 1 .. n : u[d] = v[d]
    <2> HIDE DEF W
    <2> QED BY <1>39, <1>41, <1>42, AppendElement
  <1>44. walk' = u
    BY <1>5, <1>9, <1>36, <1>38, <1>40, <1>42 DEF Begun
  <1>45. WalkFits(fs, src, u, ds)
    <2>1. u \in Seq([fn : KeptFunctions(fs), entered : BOOLEAN])
      BY <1>43
    <2>2. \A d \in 1 .. Len(u) - 1 : u[d].entered
      <3> TAKE d \in 1 .. Len(u) - 1
      <3>1. d \in 1 .. n
        BY <1>43
      <3>2. CASE d = n
        BY <1>41, <1>43, <3>1, <3>2
      <3>3. CASE d # n
        <4>1. d \in 1 .. n - 1
          BY <3>1, <3>3
        <4> QED BY <1>25, <1>41, <1>43, <3>1, <4>1
      <3> QED BY <3>2, <3>3
    <2>3. u # <<>> /\ Len(u) - 1 = n
      BY <1>43
    <2>4. ASSUME NEW d \in 1 .. n PROVE oc[d].fn = fs[u[d + 1].fn].name
      <3>1. CASE d = n
        BY <1>14, <1>29, <1>39, <1>43, <3>1
      <3>2. CASE d # n
        <4>1. d \in 1 .. n - 1 /\ d + 1 \in 1 .. n
          BY <3>2
        <4>2. oc[d].fn = fs[w[d + 1].fn].name /\ u[d + 1] = v[d + 1]
          BY <1>25, <1>29, <1>43, <4>1
        <4>3. v[d + 1].fn = w[d + 1].fn
          <5>1. CASE d + 1 = n
            BY <1>7, <1>41, <5>1
          <5>2. CASE d + 1 # n
            <6>1. d + 1 \in 1 .. n - 1
              BY <4>1, <5>2
            <6> QED BY <1>41, <6>1
          <5> QED BY <5>1, <5>2
        <4> QED BY <4>2, <4>3
      <3> QED BY <3>1, <3>2
    <2>5. u[1].fn \in EntryOf(fs, src, ds)
      <3>1. 1 \in 1 .. n
        OBVIOUS
      <3>2. u[1].fn = w[1].fn
        <4>1. CASE n = 1
          BY <1>7, <1>41, <1>43, <3>1, <4>1
        <4>2. CASE n # 1
          <5>1. 1 \in 1 .. n - 1
            BY <4>2
          <5> QED BY <1>41, <1>43, <3>1, <5>1
        <4> QED BY <4>1, <4>2
      <3> QED BY <1>25, <1>34, <3>2 DEF EntryOf
    <2>6. ~x.entered => ds[Len(ds)] = Step(fs[m].return_line)
      <3> SUFFICES ASSUME ~x.entered PROVE ds[Len(ds)] = Step(fs[m].return_line)
        OBVIOUS
      <3>1. ts # <<>> /\ ts[Len(ts)] = Step(g.return_line)
        BY <1>17, <1>37, <1>39
      <3>2. Len(ts) \in 1 .. Len(ts)
        BY <1>17, <3>1
      <3>3. ds[Len(cs) + Len(ts)] = ts[Len(ts)]
        BY <1>20, <1>23, <1>33, <3>2, ConcatElement
      <3> QED BY <1>16, <1>23, <1>34, <3>1, <3>3
    <2> HIDE DEF W
    <2>7. Len(OpenCalls(ds, Len(ds))) = Len(u) - 1
      BY <1>29, <1>34, <2>3
    <2>8. \A d \in 1 .. Len(u) - 1 : OpenCalls(ds, Len(ds))[d].fn = fs[u[d + 1].fn].name
      BY <1>34, <2>3, <2>4
    <2>9. ~u[Len(u)].entered => ds # <<>> /\ ds[Len(ds)] = Step(fs[u[Len(u)].fn].return_line)
      BY <1>34, <1>39, <1>43, <2>6
    <2> QED BY <2>1, <2>2, <2>3, <2>5, <2>7, <2>8, <2>9 DEF WalkFits
  <1>46. LogTyped(ds)
    BY <1>34 DEF LogTyped
  <1> QED BY <1>34, <1>35, <1>44, <1>45, <1>46 DEF LegacyHolds

\* A return closes the last call.
LEMMA LegacyReturns ==
    ASSUME NEW fs, NEW src, LegacyHolds(fs, src, walk, log), LegacyReturn
    PROVE  LegacyHolds(fs, src, walk', log')
  <1> DEFINE W == [fn : KeptFunctions(fs), entered : BOOLEAN]
  <1>1. PICK w : w = walk
    OBVIOUS
  <1>2. PICK es : es = log
    OBVIOUS
  <1>3. LogTyped(es) /\ LogNested(fs, src, es) /\ WalkFits(fs, src, w, es)
    BY <1>1, <1>2 DEF LegacyHolds
  <1>4. w \in Seq(W)
    BY <1>3 DEF WalkFits
  <1>5. PICK n \in Nat \ {0} : n = Len(w)
    BY <1>1, <1>4 DEF LegacyReturn
  <1>6. w # <<>>
    BY <1>1 DEF LegacyReturn
  <1>7. PICK v : v = Front(w)
    OBVIOUS
  <1>8. v \in Seq(W) /\ Len(v) = n - 1 /\ \A d \in 1 .. n - 1 : v[d] = w[d]
    <2> HIDE DEF W
    <2> QED BY <1>4, <1>5, <1>6, <1>7 DEF Front
  <1>9. PICK l \in Nat : l = Len(es)
    BY <1>3 DEF LogTyped
  <1>10. PICK o : o = OpenCalls(es, l)
    OBVIOUS
  <1>11. PICK T : o \in Seq(T)
    BY <1>10, OpenCallsType
  <1>12. /\ Len(o) = n - 1 /\ \A d \in 1 .. n - 1 : o[d].fn = fs[w[d + 1].fn].name
         /\ es # <<>> => w[1].fn \in EntryOf(fs, src, es)
         /\ \A d \in 1 .. n - 1 : w[d].entered
    BY <1>3, <1>5, <1>6, <1>9, <1>10 DEF WalkFits
  <1>13. walk' = v
    BY <1>1, <1>7 DEF LegacyReturn
  <1>14. CASE n = 1
    <2>1. v = <<>>
      <3> HIDE DEF W
      <3> QED BY <1>8, <1>14
    <2>2. o = <<>>
      BY <1>11, <1>12, <1>14
    <2>3. log' = es
      BY <1>1, <1>2, <1>5, <1>14 DEF LegacyReturn
    <2>4. \A d \in 1 .. Len(v) - 1 : v[d].entered
      <3> HIDE DEF W
      <3> QED BY <1>8, <1>14
    <2>5. WalkFits(fs, src, v, es)
      BY <1>8, <1>9, <1>10, <2>1, <2>2, <2>4 DEF WalkFits
    <2> QED BY <1>3, <1>13, <2>3, <2>5 DEF LegacyHolds
  <1>15. CASE n # 1
    <2>1. PICK e : e = Returns("NONE_VALUE")
      OBVIOUS
    <2>2. e.ev = "return"
      BY <2>1 DEF Returns
    <2>3. log' = es \o <<e>>
      BY <1>1, <1>2, <1>5, <1>15, <2>1 DEF LegacyReturn, LegacyReturned
    <2>4. PICK E : es \in Seq(E)
      BY <1>3 DEF LogTyped
    <2>5. PICK S : S = E \cup {e}
      OBVIOUS
    <2>6. es \in Seq(S) /\ e \in S
      BY <2>4, <2>5
    <2>7. PICK ds : ds = Append(es, e)
      OBVIOUS
    <2>8. ds \in Seq(S) /\ Len(ds) = l + 1 /\ ds[l + 1] = e /\ \A k \in 1 .. l : ds[k] = es[k]
      BY <1>9, <2>6, <2>7, AppendElement
    <2>9. log' = ds
      BY <2>3, <2>6, <2>7
    <2>10. o # <<>>
      BY <1>12, <1>15
    <2>11. PICK p : p = Front(o)
      OBVIOUS
    <2>12. /\ p \in Seq(T) /\ Len(p) = n - 2 /\ \A d \in 1 .. n - 2 : p[d] = o[d]
      BY <1>11, <1>12, <2>10, <2>11 DEF Front
    <2>13. OpenCalls(ds, l + 1) = p
      <3>1. OpenCalls(ds, l) = o
        BY <1>10, <2>8, OpenAgree
      <3>2. OpenCalls(ds, l + 1) = CallsAfter(OpenCalls(ds, l), ds[l + 1])
        BY OneMoreCall
      <3>3. CallsAfter(o, e) = p
        BY <2>2, <2>10, <2>11 DEF CallsAfter
      <3> QED BY <2>8, <3>1, <3>2, <3>3
    <2>14. ASSUME NEW k \in 1 .. l + 1 PROVE EventNested(fs, src, ds, k)
      <3>1. CASE k = l + 1
        BY <2>2, <2>8, <3>1 DEF EventNested
      <3>2. CASE k # l + 1
        <4>1. k \in 1 .. l /\ k \in Nat \ {0} /\ \A j \in 1 .. k : ds[j] = es[j]
          BY <2>8, <3>2
        <4>2. EventNested(fs, src, es, k)
          BY <1>3, <1>9, <4>1 DEF LogNested
        <4> QED BY <4>1, <4>2, PastNests
      <3> QED BY <3>1, <3>2
    <2>15. LogNested(fs, src, ds) /\ LogTyped(ds)
      BY <2>8, <2>14 DEF LogNested, LogTyped
    <2>16. WalkFits(fs, src, v, ds)
      <3>1. v \in Seq([fn : KeptFunctions(fs), entered : BOOLEAN])
        BY <1>8
      <3> HIDE DEF W
      <3>2. v # <<>> /\ Len(v) - 1 = n - 2 /\ n - 1 \in 1 .. n - 1 /\ 1 \in 1 .. n - 1
            /\ \A d \in 1 .. n - 2 : d \in 1 .. n - 1 /\ d + 1 \in 1 .. n - 1
        BY <1>8, <1>15
      <3>3. \A d \in 1 .. Len(v) - 1 : v[d].entered
        BY <1>8, <1>12, <3>2
      <3>4. Len(OpenCalls(ds, Len(ds))) = Len(v) - 1
        BY <2>8, <2>12, <2>13, <3>2
      <3>5. \A d \in 1 .. Len(v) - 1 : OpenCalls(ds, Len(ds))[d].fn = fs[v[d + 1].fn].name
        <4> TAKE d \in 1 .. Len(v) - 1
        <4>1. d \in 1 .. n - 2 /\ d \in 1 .. n - 1 /\ d + 1 \in 1 .. n - 1
          BY <3>2
        <4>2. p[d].fn = fs[w[d + 1].fn].name /\ v[d + 1] = w[d + 1]
          BY <1>8, <1>12, <2>12, <4>1
        <4> QED BY <2>8, <2>13, <4>2
      <3>6. v[Len(v)].entered
        BY <1>8, <1>12, <3>2
      <3>7. ds # <<>> => v[1].fn \in EntryOf(fs, src, ds)
        <4>1. v[1] = w[1]
          BY <1>8, <3>2
        <4>2. CASE es = <<>>
          <5>1. \A k \in 1 .. l : FALSE
            BY <1>9, <4>2
          <5>2. OpenCalls(es, 0) = <<>> /\ l = 0
            BY <1>9, <4>2, NoEventsNoCalls
          <5> QED BY <1>10, <2>10, <5>2
        <4>3. CASE es # <<>>
          <5>1. 1 \in 1 .. l
            BY <1>9, <2>4, <4>3
          <5>2. ds[1] = es[1]
            BY <2>8, <5>1
          <5> QED BY <1>12, <4>1, <4>3, <5>2 DEF EntryOf
        <4> QED BY <4>2, <4>3
      <3> QED BY <3>1, <3>2, <3>3, <3>4, <3>5, <3>6, <3>7 DEF WalkFits
    <2> QED BY <1>13, <2>9, <2>15, <2>16 DEF LegacyHolds
  <1> QED BY <1>14, <1>15

\* What LegacyWalkNests rests on.
WalkInv ==
    /\ SourceRead
    /\ stage \in {"compile", "parse", "begin", "execute", "map", "emit", "dialect", "legacy", "end"}
    /\ stage \notin {"dialect", "legacy", "end"} => log = <<>>
    /\ stage # "end" => outcome = "running"
    /\ stage = "dialect" => IsBareAleoDialect(text)
    /\ stage = "legacy" => LegacyHolds(leoFunctions, text, walk, log)
    /\ stage = "end" /\ ~IsBareAleoDialect(text) =>
         /\ LogNested(leoFunctions, text, log)
         /\ outcome = "recorded" => OpenCalls(log, Len(log)) = <<>>

LEMMA EmptyLogNests ==
    \A fs, src : LogNested(fs, src, <<>>) /\ OpenCalls(<<>>, Len(<<>>)) = <<>>
  BY NoEventsNoCalls DEF LogNested

LEMMA WalkStep == WalkInv /\ [PipelineNext]_allVars => WalkInv'
  <1> SUFFICES ASSUME WalkInv, [PipelineNext]_allVars PROVE WalkInv'
    OBVIOUS
  <1>1. PICK fs : fs = leoFunctions
    OBVIOUS
  <1>2. PICK src : src = text
    OBVIOUS
  <1>3. CASE UNCHANGED allVars
    BY <1>3 DEF WalkInv, allVars, pipeVars, srcVars, SourceRead, text
  <1>4. CASE Pipeline
    <2>1. UNCHANGED srcVars
      BY <1>4 DEF Pipeline, CompileViaCli, CompileViaFallback, ParseAleo, BeginExecution, Execution,
                  Executed, MapVariables, ChooseDialect, ChooseStructured, ChooseLegacy,
                  WalkDialectLine, EmitDialectFunction, DialectEmitted, LegacyCall, LegacyReturn,
                  LegacyEmitted, pipeVars
    <2>2. /\ SourceRead /\ SourceRead' /\ leoFunctions' = fs /\ text' = src
          /\ IsBareAleoDialect(text)' <=> IsBareAleoDialect(src)
      BY <1>1, <1>2, <2>1 DEF WalkInv, SourceRead, srcVars, text
    <2> DEFINE Early == {"compile", "parse", "begin", "execute", "map", "emit"}
               Middle == stage \in Early /\ stage' \in Early /\ log' = log /\ UNCHANGED outcome
               Failing == stage \in Early /\ stage' = "end" /\ log' = log
    <2>3. CASE CompileViaCli \/ ParseAleo \/ BeginExecution \/ MapVariables \/ Execution
      <3>1. Middle
        BY <2>3 DEF CompileViaCli, ParseAleo, BeginExecution, MapVariables, Execution, Goto, pipeVars
      <3> QED BY <2>2, <3>1 DEF WalkInv
    <2>4. CASE CompileViaFallback \/ Executed
      <3>1. Middle \/ Failing
        BY <2>4 DEF CompileViaFallback, Executed, Goto, End
      <3>2. CASE Middle
        BY <2>2, <3>2 DEF WalkInv
      <3>3. CASE Failing
        <4>1. log' = <<>>
          BY <3>3 DEF WalkInv
        <4> QED BY <2>2, <3>3, <4>1, EmptyLogNests DEF WalkInv
      <3> QED BY <3>1, <3>2, <3>3
    <2>5. CASE ChooseDialect
      BY <1>2, <2>2, <2>5 DEF WalkInv, ChooseDialect, Goto
    <2>6. CASE ChooseStructured
      <3>1. log' = <<>> /\ stage' = "end"
        BY <2>6 DEF WalkInv, ChooseStructured, End
      <3> QED BY <2>2, <3>1, EmptyLogNests DEF WalkInv
    <2>7. CASE ChooseLegacy
      <3>1. CASE stage' = "legacy"
        <4>1. LegacyHolds(fs, src, walk', log')
          BY <1>1, <1>2, <2>2, <2>7, <3>1, LegacyBegins
        <4>2. outcome' = "running"
          BY <2>7, <3>1 DEF WalkInv, ChooseLegacy, Goto, End
        <4> QED BY <2>2, <3>1, <4>1, <4>2 DEF WalkInv
      <3>2. CASE stage' # "legacy"
        <4>1. log' = <<>> /\ stage' = "end"
          BY <2>7, <3>2 DEF WalkInv, ChooseLegacy, Goto, End
        <4> QED BY <2>2, <4>1, EmptyLogNests DEF WalkInv
      <3> QED BY <3>1, <3>2
    <2>8. CASE WalkDialectLine \/ EmitDialectFunction \/ DialectEmitted
      <3>1. stage = "dialect" /\ stage' \in {"dialect", "end"} /\ (stage' = "dialect" => UNCHANGED outcome)
        BY <2>8 DEF WalkDialectLine, EmitDialectFunction, DialectEmitted, Goto, End
      <3>2. IsBareAleoDialect(src)
        BY <1>2, <3>1 DEF WalkInv
      <3> QED BY <2>2, <3>1, <3>2 DEF WalkInv
    <2>9. CASE LegacyCall \/ LegacyReturn
      <3>1. stage = "legacy" /\ stage' = "legacy" /\ UNCHANGED outcome
        BY <2>9 DEF LegacyCall, LegacyReturn
      <3>2. LegacyHolds(fs, src, walk, log)
        BY <1>1, <1>2, <3>1 DEF WalkInv
      <3>3. LegacyHolds(fs, src, walk', log')
        BY <1>1, <1>2, <2>2, <2>9, <3>2, LegacyCalls, LegacyReturns
      <3> QED BY <2>2, <3>1, <3>3 DEF WalkInv
    <2>10. CASE LegacyEmitted
      <3>1. stage = "legacy" /\ stage' = "end" /\ walk = <<>> /\ log' = log
        BY <2>10 DEF LegacyEmitted, End
      <3>2. LegacyHolds(fs, src, <<>>, log)
        BY <1>1, <1>2, <3>1 DEF WalkInv
      <3>3. PICK es : es = log
        OBVIOUS
      <3>4. LogNested(fs, src, es) /\ OpenCalls(es, Len(es)) = <<>>
        BY <3>2, <3>3 DEF LegacyHolds, WalkFits
      <3>5. log' = es
        BY <3>1, <3>3
      <3> QED BY <2>2, <3>1, <3>4, <3>5 DEF WalkInv
    <2> QED BY <1>4, <2>3, <2>4, <2>5, <2>6, <2>7, <2>8, <2>9, <2>10 DEF Pipeline
  <1>5. CASE Ended
    BY <1>3, <1>5 DEF Ended
  <1> QED BY <1>3, <1>4, <1>5 DEF PipelineNext

LEMMA WalkStarts == PipelineInit => WalkInv
  BY DEF PipelineInit, WalkInv, SourceRead

LEMMA WalkNests == WalkInv => LegacyWalkNests
  <1> SUFFICES ASSUME WalkInv, stage = "legacy" \/ (stage = "end" /\ ~IsBareAleoDialect(text))
               PROVE  LegacyWalkNests
    BY DEF LegacyWalkNests
  <1>1. PICK fs : fs = leoFunctions
    OBVIOUS
  <1>2. PICK src : src = text
    OBVIOUS
  <1>3. PICK es : es = log
    OBVIOUS
  <1>4. LogNested(fs, src, es)
    BY <1>1, <1>2, <1>3 DEF WalkInv, LegacyHolds
  <1>5. outcome = "recorded" => OpenCalls(es, Len(es)) = <<>>
    BY <1>3 DEF WalkInv
  <1>6. LegacyFunctions = KeptFunctions(fs)
    BY <1>1 DEF LegacyFunctions, KeptFunctions
  <1>7. \A x : {n \in LegacyFunctions : leoFunctions[n].name = x} = NamedIn(fs, x)
    BY <1>1, <1>6 DEF NamedIn
  <1>8. {n \in LegacyFunctions : log[1].line \in Extent(text, leoFunctions[n].line)} = EntryOf(fs, src, es)
    BY <1>1, <1>2, <1>3, <1>6 DEF EntryOf
  <1>9. \A k \in 1 .. Len(es) : EventNested(fs, src, es, k)
    BY <1>4 DEF LogNested
  <1> QED BY <1>1, <1>2, <1>3, <1>5, <1>7, <1>8, <1>9 DEF LegacyWalkNests, EventNested, InsideOf

\* A step of the legacy walk lies in the function whose call is open, a call is
\* made by the return of the function it is nested in, and a recorded walk has
\* closed all its calls (emit_function_body and emit_trace_events, tracer.rs),
\* in every text, whatever its braces.
THEOREM LegacyWalkIsNested == PipelineSpec => []LegacyWalkNests
  <1>1. PipelineInit => WalkInv
    BY WalkStarts
  <1>2. WalkInv /\ [PipelineNext]_allVars => WalkInv'
    BY WalkStep
  <1>3. WalkInv => LegacyWalkNests
    BY WalkNests
  <1> QED BY <1>1, <1>2, <1>3, PTL DEF PipelineSpec

----------------------------------------------------------------------------
(* Sequences put together *)

\* u holds the first n sequences put together.
FlatUpTo(u, seqs, n) ==
    u = [i \in 1 .. n |-> IF i = 1 THEN seqs[i] ELSE u[i - 1] \o seqs[i]]

\* Sequences over a set put together are a sequence over it.
LEMMA FlattenType ==
    ASSUME NEW S, NEW seqs \in Seq(Seq(S))
    PROVE  FlattenSeq(seqs) \in Seq(S)
  <1>1. PICK n \in Nat : n = Len(seqs)
    OBVIOUS
  <1>2. CASE n = 0
    <2>1. FlattenSeq(seqs) = seqs
      BY <1>1, <1>2, Zenon DEF FlattenSeq
    <2>2. seqs = <<>>
      BY <1>1, <1>2, EmptySeq
    <2> QED BY <2>1, <2>2
  <1>3. CASE n # 0
    <2>1. PICK Z : Z = Seq(S)
      OBVIOUS
    <2>2. PICK step : step = [p \in Nat \X Z |-> IF p[1] \in 1 .. n THEN p[2] \o seqs[p[1]] ELSE p[2]]
      OBVIOUS
    <2>3. \A k \in 1 .. n : seqs[k] \in Z
      BY <1>1, <2>1
    <2>4. ASSUME NEW k \in Nat, NEW x \in Z PROVE step[<<k, x>>] \in Z
      <3>1. CASE k \in 1 .. n
        <4>1. seqs[k] \in Seq(S) /\ x \in Seq(S)
          BY <2>1, <2>3, <3>1
        <4>2. x \o seqs[k] \in Seq(S)
          BY <4>1
        <4> QED BY <2>1, <2>2, <3>1, <4>2
      <3>2. CASE k \notin 1 .. n
        BY <2>2, <3>2
      <3> QED BY <3>1, <3>2
    <2>5. <<>> \in Z
      BY <2>1
    <2>6. PICK u : Recurs(u, Z, <<>>, step, n)
      BY <2>4, <2>5, Recursion
    <2>7. u \in [0 .. n -> Z] /\ u[0] = <<>> /\ \A k \in 1 .. n : u[k] = step[<<k, u[k - 1]>>]
      BY <2>6 DEF Recurs
    <2>8. PICK v : v = [i \in 1 .. n |-> u[i]]
      OBVIOUS
    <2>9. ASSUME NEW i \in 1 .. n PROVE v[i] = IF i = 1 THEN seqs[i] ELSE v[i - 1] \o seqs[i]
      <3>1. i - 1 \in 0 .. n /\ i \in Nat /\ u[i - 1] \in Z
        BY <2>7
      <3>2. u[i] = u[i - 1] \o seqs[i]
        BY <2>2, <2>7, <3>1
      <3>3. CASE i = 1
        <4>1. seqs[1] \in Seq(S)
          BY <2>1, <2>3, <3>3
        <4>2. <<>> \o seqs[1] = seqs[1]
          BY <4>1
        <4>3. i - 1 = 0 /\ v[i] = u[i]
          BY <2>8, <3>3
        <4>4. u[i] = <<>> \o seqs[i]
          BY <2>7, <3>2, <4>3
        <4>5. v[i] = seqs[i]
          BY <3>3, <4>2, <4>3, <4>4
        <4> QED BY <3>3, <4>5
      <3>4. CASE i # 1
        <4>1. i - 1 \in 1 .. n
          BY <3>4
        <4> QED BY <2>8, <3>2, <3>4, <4>1
      <3> QED BY <3>3, <3>4
    <2>10. v = [i \in 1 .. n |-> v[i]]
      BY <2>8
    <2>11. FlatUpTo(v, seqs, n)
      BY <2>9, <2>10 DEF FlatUpTo
    <2> DEFINE P(f) == f = [i \in 1 .. Len(seqs) |-> IF i = 1 THEN seqs[i] ELSE f[i - 1] \o seqs[i]]
    <2>12. \A f : P(f) <=> FlatUpTo(f, seqs, n)
      BY <1>1 DEF FlatUpTo
    <2>13. FlattenSeq(seqs) = (CHOOSE f : P(f))[n]
      BY <1>1, <1>3 DEF FlattenSeq
    <2>14. PICK f : f = CHOOSE g : P(g)
      OBVIOUS
    <2>15. FlatUpTo(f, seqs, n)
      <3>1. P(f)
        <4>1. \E g : P(g)
          BY <2>11, <2>12
        <4> HIDE DEF P
        <4> QED BY <2>14, <4>1
      <3> HIDE DEF P
      <3> QED BY <2>12, <3>1
    <2>16. \A i \in 1 .. n : f[i] = IF i = 1 THEN seqs[i] ELSE f[i - 1] \o seqs[i]
      BY <2>15 DEF FlatUpTo
    <2> DEFINE T == {k \in Nat : k + 1 <= n => f[k + 1] \in Seq(S)}
    <2>17. 0 \in T
      BY <2>1, <2>3, <2>16
    <2>18. ASSUME NEW k \in Nat, k \in T PROVE k + 1 \in T
      <3> SUFFICES ASSUME (k + 1) + 1 <= n PROVE f[(k + 1) + 1] \in Seq(S)
        OBVIOUS
      <3>1. (k + 1) + 1 \in 1 .. n /\ (k + 1) + 1 # 1 /\ ((k + 1) + 1) - 1 = k + 1 /\ k + 1 <= n
        OBVIOUS
      <3>2. f[k + 1] \in Seq(S) /\ seqs[(k + 1) + 1] \in Seq(S)
        BY <2>1, <2>3, <2>18, <3>1
      <3>3. f[(k + 1) + 1] = f[k + 1] \o seqs[(k + 1) + 1]
        BY <2>16, <3>1
      <3> QED BY <3>2, <3>3
    <2>19. Nat \subseteq T
      <3> HIDE DEF T
      <3> QED BY <2>17, <2>18, NatSetInduction
    <2>20. n - 1 \in T /\ (n - 1) + 1 = n
      BY <1>3, <2>19
    <2>21. f[n] \in Seq(S)
      BY <2>20
    <2> HIDE DEF P, T
    <2> QED BY <2>13, <2>14, <2>21
  <1> QED BY <1>2, <1>3

FlatElements(f, n, seqs) ==
    /\ Len(f) \in Nat /\ \E S : f \in Seq(S)
    /\ \A k \in 1 .. Len(f) : \E i \in 1 .. n : \E j \in 1 .. Len(seqs[i]) : f[k] = seqs[i][j]

\* Each of its elements is one of theirs.
LEMMA FlattenElements ==
    ASSUME NEW n \in Nat, NEW seqs, seqs = [i \in 1 .. n |-> seqs[i]],
           \A i \in 1 .. n : \E S : seqs[i] \in Seq(S)
    PROVE  FlatElements(FlattenSeq(seqs), n, seqs)
  <1>1. PICK A : A = {a \in (1 .. n) \X Nat : a[2] \in 1 .. Len(seqs[a[1]])}
    OBVIOUS
  <1>2. PICK E : E = {seqs[a[1]][a[2]] : a \in A}
    OBVIOUS
  <1>3. ASSUME NEW i \in 1 .. n PROVE seqs[i] \in Seq(E)
    <2>1. PICK S : seqs[i] \in Seq(S)
      OBVIOUS
    <2>2. PICK s : s = seqs[i]
      OBVIOUS
    <2>3. s \in [1 .. Len(s) -> S] /\ Len(s) \in Nat
      BY <2>1, <2>2
    <2>4. ASSUME NEW j \in 1 .. Len(s) PROVE s[j] \in E
      <3>1. <<i, j>> \in A
        BY <1>1, <2>2, <2>3
      <3>2. seqs[<<i, j>>[1]][<<i, j>>[2]] = s[j]
        BY <2>2
      <3> QED BY <1>2, <3>1, <3>2
    <2>5. s \in [1 .. Len(s) -> E]
      BY <2>3, <2>4
    <2> QED BY <2>2, <2>3, <2>5, SeqDef
  <1>4. seqs \in Seq(Seq(E)) /\ Len(seqs) = n
    <2>1. seqs \in [1 .. n -> Seq(E)]
      BY <1>3
    <2> QED BY <2>1, SeqDef
  <1>5. PICK f : f = FlattenSeq(seqs)
    OBVIOUS
  <1>6. f \in Seq(E)
    BY <1>4, <1>5, FlattenType
  <1>7. Len(f) \in Nat /\ \A k \in 1 .. Len(f) : f[k] \in E
    BY <1>6
  <1>8. ASSUME NEW k \in 1 .. Len(f)
        PROVE  \E i \in 1 .. n : \E j \in 1 .. Len(seqs[i]) : f[k] = seqs[i][j]
    <2>1. PICK a \in A : f[k] = seqs[a[1]][a[2]]
      BY <1>2, <1>7
    <2>2. a[1] \in 1 .. n /\ a[2] \in 1 .. Len(seqs[a[1]])
      BY <1>1, <2>1
    <2> QED BY <2>1, <2>2
  <1>9. FlatElements(f, n, seqs)
    BY <1>6, <1>7, <1>8 DEF FlatElements
  <1> QED BY <1>5, <1>9

----------------------------------------------------------------------------
(* What the fallback writes is an Aleo text *)

\* A number that an operand shows is an i64.
LEMMA LeafLiteral ==
    ASSUME NEW e, NEW leaf, leaf = LeafOf(e, 1, Len(e)), leaf.op = "lit"
    PROVE  leaf.value \in Int64
  <1>1. Payload = Int64
    BY PayloadAssumption DEF Payload, Int64
  <1> DEFINE number(x) == IF x \in Payload THEN [op |-> "lit", value |-> x] ELSE [op |-> "unknown"]
  <1>2. ASSUME NEW x, leaf = number(x) PROVE leaf.value \in Int64
    <2>1. CASE x \in Payload
      BY <1>1, <1>2, <2>1
    <2>2. CASE x \notin Payload
      BY <1>2, <2>2
    <2> QED BY <2>1, <2>2
  <1>3. \/ \E x : leaf = number(x)
        \/ \E x : leaf = [op |-> "var", name |-> x]
        \/ leaf = [op |-> "unknown"]
    BY Zenon DEF LeafOf
  <1> HIDE DEF number
  <1>4. CASE \E x : leaf = [op |-> "var", name |-> x]
    BY <1>4
  <1>5. CASE leaf = [op |-> "unknown"]
    BY <1>5
  <1> QED BY <1>2, <1>3, <1>4, <1>5

\* A binding's register is the number of bindings before it.
LEMMA RegisterIs ==
    ASSUME NEW bindings, NEW k \in Nat, NEW x, RegisterOf(bindings, k, x) # <<>>
    PROVE  /\ RegisterOf(bindings, k, x)[1] \in 0 .. k - 2
           /\ RegisterOf(bindings, k, x) = <<RegisterOf(bindings, k, x)[1]>>
           /\ bindings[RegisterOf(bindings, k, x)[1] + 1].name = x
           /\ \A j \in RegisterOf(bindings, k, x)[1] + 2 .. k - 1 : bindings[j].name # x
  <1>1. PICK js : js = {j \in 1 .. k - 1 : bindings[j].name = x}
    OBVIOUS
  <1>2. RegisterOf(bindings, k, x) = IF js = {} THEN <<>> ELSE <<Max(js) - 1>>
    BY <1>1, Zenon DEF RegisterOf
  <1>3. js # {}
    BY <1>2
  <1>4. js \subseteq 1 .. k /\ k \in Nat
    BY <1>1
  <1>5. Max(js) \in js /\ \A y \in js : y <= Max(js)
    BY <1>3, <1>4, GreatestLine
  <1>6. PICK r : r = RegisterOf(bindings, k, x)
    OBVIOUS
  <1>7. r = <<Max(js) - 1>> /\ r[1] = Max(js) - 1
    BY <1>2, <1>3, <1>6
  <1>8. Max(js) \in 1 .. k - 1 /\ bindings[Max(js)].name = x
    BY <1>1, <1>5
  <1>9. ASSUME NEW j \in r[1] + 2 .. k - 1 PROVE bindings[j].name # x
    <2>1. j \in 1 .. k - 1 /\ ~(j <= Max(js))
      BY <1>7, <1>8
    <2> QED BY <1>1, <1>5, <2>1
  <1>10. r[1] + 1 = Max(js)
    BY <1>7, <1>8
  <1> QED BY <1>6, <1>7, <1>8, <1>9, <1>10

LEMMA OperandOK ==
    ASSUME NEW bindings, NEW n \in Nat, 0 .. n \subseteq Reg, NEW k \in 1 .. n, NEW e,
           CompiledOperand(bindings, k, e) # <<>>
    PROVE  /\ CompiledOperand(bindings, k, e)[1] \in Operand
           /\ CompiledOperand(bindings, k, e) = <<CompiledOperand(bindings, k, e)[1]>>
  <1>1. PICK leaf : leaf = LeafOf(e, 1, Len(e))
    OBVIOUS
  <1>2. PICK c : c = CompiledOperand(bindings, k, e)
    OBVIOUS
  <1>3. PICK r : r = RegisterOf(bindings, k, leaf.name)
    OBVIOUS
  <1>4. c = CASE leaf.op = "lit" -> <<[literal |-> leaf.value]>>
              [] leaf.op = "var" /\ r # <<>> -> <<[reg |-> r[1]]>>
              [] OTHER -> <<>>
    BY <1>1, <1>2, <1>3, Zenon DEF CompiledOperand
  <1>5. CASE leaf.op = "lit"
    <2>1. leaf.value \in Int64
      BY <1>1, <1>5, LeafLiteral
    <2>2. c = <<[literal |-> leaf.value]>>
      BY <1>4, <1>5
    <2> QED BY <1>2, <2>1, <2>2 DEF Operand
  <1>6. CASE leaf.op # "lit"
    <2>1. leaf.op = "var" /\ r # <<>>
      BY <1>2, <1>4, <1>6
    <2>2. c = <<[reg |-> r[1]]>>
      BY <1>4, <2>1
    <2> k \in Nat
      OBVIOUS
    <2>5. PICK x : x = leaf.name
      OBVIOUS
    <2>6. r = RegisterOf(bindings, k, x)
      BY <1>3, <2>5
    <2>7. RegisterOf(bindings, k, x) # <<>>
      BY <2>1, <2>6
    <2>3. r[1] \in 0 .. k - 2
      BY <2>6, <2>7, RegisterIs
    <2>4. r[1] \in Reg
      BY <2>3
    <2> QED BY <1>2, <2>2, <2>4 DEF Operand
  <1> QED BY <1>5, <1>6

LEMMA PlainLines == /\ IsLine([kind |-> "comment"]) /\ IsLine([kind |-> "garbled"])
                    /\ IsLine([kind |-> "blank"]) /\ IsLine([kind |-> "program"])
  BY DEF IsLine, AleoLineKinds, FnKinds

\* An instruction of the fallback.
LEMMA CompiledOK ==
    ASSUME NEW bindings, NEW n \in Nat, 0 .. n \subseteq Reg, NEW k \in 1 .. n,
           NEW op \in BinaryOp, NEW a, NEW b, NEW l, l = Compiled(bindings, k, op, a, b)
    PROVE  IsLine(l) /\ l.kind \in {"comment", "garbled", "code"}
  <1>1. PICK src1 : src1 = CompiledOperand(bindings, k, a)
    OBVIOUS
  <1>2. PICK src2 : src2 = CompiledOperand(bindings, k, b)
    OBVIOUS
  <1>3. l = IF ~OneWord(a) \/ ~OneWord(b) THEN [kind |-> "comment"]
            ELSE IF src1 = <<>> \/ src2 = <<>> THEN [kind |-> "garbled"]
            ELSE [kind |-> "code",
                  instr |-> [op |-> op, src1 |-> src1[1], src2 |-> src2[1], dest |-> k - 1]]
    BY <1>1, <1>2, Zenon DEF Compiled
  <1>4. CASE ~OneWord(a) \/ ~OneWord(b)
    BY <1>3, <1>4, PlainLines
  <1>5. CASE OneWord(a) /\ OneWord(b) /\ (src1 = <<>> \/ src2 = <<>>)
    BY <1>3, <1>5, PlainLines
  <1>6. CASE OneWord(a) /\ OneWord(b) /\ src1 # <<>> /\ src2 # <<>>
    <2>1. src1[1] \in Operand /\ src2[1] \in Operand
      BY <1>1, <1>2, <1>6, OperandOK
    <2>2. k - 1 \in Reg
      OBVIOUS
    <2>3. PICK i : i = [op |-> op, src1 |-> src1[1], src2 |-> src2[1], dest |-> k - 1]
      OBVIOUS
    <2>4. i \in Instruction
      BY <2>1, <2>2, <2>3 DEF Instruction
    <2>5. l.kind = "code" /\ l.instr = i
      BY <1>3, <1>6, <2>3
    <2>6. IsLine(l)
      BY <2>4, <2>5 DEF IsLine, AleoLineKinds, FnKinds
    <2> QED BY <2>5, <2>6
  <1> QED BY <1>4, <1>5, <1>6

FallbackOps == <<"add", "sub", "mul", "div">>

\* The operator to split at is one the fallback knows.
LEMMA SplitIs ==
    ASSUME NEW e, Len(e) \in Nat, FallbackSplit(e) # 0
    PROVE  /\ FallbackSplit(e) \in 2 .. Len(e) - 1
           /\ e[FallbackSplit(e)].op \in {"add", "sub", "mul", "div"}
  <1> DEFINE at(op) == {k \in 2 .. Len(e) - 1 : IsOperator(e[k]) /\ e[k].op = op /\ OpenParens(e, 1, k) = 0}
  <1>1. PICK found : found = {n \in 1 .. Len(FallbackOps) : at(FallbackOps[n]) # {}}
    OBVIOUS
  <1>2. FallbackSplit(e) = IF found = {} THEN 0 ELSE Max(at(FallbackOps[Min(found)]))
    BY <1>1, Zenon DEF FallbackSplit, FallbackOps
  <1>3. found # {}
    BY <1>2
  <1>4. Len(FallbackOps) = 4
    BY DEF FallbackOps
  <1>5. found \subseteq Nat
    BY <1>1, <1>4
  <1>6. PICK x \in found : \A y \in found : x <= y
    BY <1>3, <1>5, LeastNat
  <1>7. PICK m : m = Min(found)
    OBVIOUS
  <1>8. m \in found
    BY <1>6, <1>7 DEF Min
  <1>9. m \in 1 .. 4 /\ at(FallbackOps[m]) # {}
    BY <1>1, <1>4, <1>8
  <1>10. PICK op : op = FallbackOps[m] /\ op \in {"add", "sub", "mul", "div"}
    BY <1>9 DEF FallbackOps
  <1>11. PICK S : S = at(op)
    OBVIOUS
  <1>12. S # {} /\ S \subseteq 1 .. Len(e)
    BY <1>9, <1>10, <1>11
  <1>13. Max(S) \in S
    BY <1>12, GreatestLine
  <1>14. Max(S) \in 2 .. Len(e) - 1 /\ e[Max(S)].op = op
    BY <1>11, <1>13
  <1>15. FallbackSplit(e) = Max(S)
    BY <1>2, <1>3, <1>7, <1>10, <1>11
  <1> QED BY <1>10, <1>14, <1>15

\* A bare program has lines of four kinds only.
LEMMA BareText ==
    ASSUME NEW s, IsSource(s), s.bare # <<>>
    PROVE  /\ Len(TextOf(s)) = Len(s.bare) /\ Len(s.bare) \in Nat
           /\ \A k \in 1 .. Len(s.bare) :
                  /\ TextOf(s)[k] = AsLeoLine(s.bare[k])
                  /\ TextOf(s)[k].kind \in {"function", "program", "blank", "text"}
                  /\ TextOf(s)[k].kind # "let" /\ TextOf(s)[k].kind # "return"
  <1>1. s.bare \in Seq(Range(s.bare)) /\ \A k \in 1 .. Len(s.bare) : IsLine(s.bare[k])
    BY DEF IsSource, IsAleoText
  <1>2. PICK n \in Nat : n = Len(s.bare)
    BY <1>1
  <1>3. PICK t : t = [k \in 1 .. n |-> AsLeoLine(s.bare[k])]
    OBVIOUS
  <1>4. TextOf(s) = t
    BY <1>2, <1>3 DEF TextOf
  <1>5. Len(t) = n
    BY <1>3
  <1>6. ASSUME NEW k \in 1 .. n
        PROVE  t[k] = AsLeoLine(s.bare[k]) /\ t[k].kind \in {"function", "program", "blank", "text"}
    <2>1. t[k] = AsLeoLine(s.bare[k])
      BY <1>3
    <2>2. IsLine(s.bare[k])
      BY <1>1, <1>2
    <2>3. AsLeoLine(s.bare[k]).kind \in {"function", "program", "blank", "text"}
      BY <2>2, AleoAsLeo
    <2> QED BY <2>1, <2>3
  <1> QED BY <1>2, <1>4, <1>5, <1>6

\* One text after another.
LEMMA TextsJoin ==
    ASSUME NEW a, NEW b, IsAleoText(a), IsAleoText(b)
    PROVE  IsAleoText(a \o b) /\ Len(a \o b) = Len(a) + Len(b)
  <1>1. PICK S : S = Range(a) \cup Range(b)
    OBVIOUS
  <1>2. a \in Seq(Range(a)) /\ b \in Seq(Range(b))
    BY DEF IsAleoText
  <1>3. a \in Seq(S) /\ b \in Seq(S) /\ Len(a) \in Nat /\ Len(b) \in Nat
    BY <1>1, <1>2
  <1>4. PICK c : c = a \o b
    OBVIOUS
  <1>5. c \in Seq(S) /\ Len(c) = Len(a) + Len(b)
    BY <1>3, <1>4
  <1>6. ASSUME NEW k \in 1 .. Len(c) PROVE IsLine(c[k])
    <2>1. CASE k \in 1 .. Len(a)
      <3>1. c[k] = a[k]
        BY <1>3, <1>4, <2>1
      <3> QED BY <2>1, <3>1 DEF IsAleoText
    <2>2. CASE k \notin 1 .. Len(a)
      <3>1. k - Len(a) \in 1 .. Len(b)
        BY <1>3, <1>5, <2>2
      <3>2. c[k] = b[k - Len(a)]
        BY <1>3, <1>4, <1>5, <2>2
      <3> QED BY <3>1, <3>2 DEF IsAleoText
    <2> QED BY <2>1, <2>2
  <1> QED BY <1>4, <1>5, <1>6, OfItsRange DEF IsAleoText

LEMMA TextsFlatten ==
    ASSUME NEW n \in Nat, NEW seqs, seqs = [i \in 1 .. n |-> seqs[i]],
           \A i \in 1 .. n : IsAleoText(seqs[i])
    PROVE  IsAleoText(FlattenSeq(seqs))
  <1>1. PICK f : f = FlattenSeq(seqs)
    OBVIOUS
  <1>2. \A i \in 1 .. n : \E S : seqs[i] \in Seq(S)
    BY DEF IsAleoText
  <1>3. /\ \E S : f \in Seq(S)
        /\ \A k \in 1 .. Len(f) : \E i \in 1 .. n : \E j \in 1 .. Len(seqs[i]) : f[k] = seqs[i][j]
    <2>1. FlatElements(f, n, seqs)
      BY <1>1, <1>2, FlattenElements
    <2> QED BY <2>1 DEF FlatElements
  <1>4. \A k \in 1 .. Len(f) : IsLine(f[k])
    BY <1>3 DEF IsAleoText
  <1> QED BY <1>1, <1>3, <1>4, OfItsRange DEF IsAleoText

LEMMA OneLineText ==
    ASSUME NEW l, IsLine(l)
    PROVE  IsAleoText(<<l>>) /\ Len(<<l>>) = 1
  <1>1. PICK S : S = {l}
    OBVIOUS
  <1>2. PICK a : a = <<l>>
    OBVIOUS
  <1>3. a \in Seq(S) /\ Len(a) = 1 /\ a[1] = l
    BY <1>1, <1>2
  <1>4. \A k \in 1 .. Len(a) : IsLine(a[k])
    BY <1>3
  <1> QED BY <1>2, <1>3, <1>4, OfItsRange DEF IsAleoText

LEMMA NoLineText == IsAleoText(<<>>) /\ Len(<<>>) = 0
  <1>1. PICK a : a = <<>>
    OBVIOUS
  <1>2. a \in Seq({}) /\ Len(a) = 0
    BY <1>1
  <1> QED BY <1>1, <1>2, OfItsRange DEF IsAleoText

\* A text of two lines.
LEMMA TwoLineText ==
    ASSUME NEW k, NEW l, IsLine(k), IsLine(l)
    PROVE  IsAleoText(<<k, l>>)
  <1>1. PICK a : a = <<k, l>>
    OBVIOUS
  <1>2. a \in Seq({k, l}) /\ Len(a) = 2 /\ a[1] = k /\ a[2] = l
    BY <1>1
  <1>3. \A j \in 1 .. Len(a) : IsLine(a[j])
    <2> TAKE j \in 1 .. Len(a)
    <2>1. j = 1 \/ j = 2
      BY <1>2
    <2> QED BY <1>2, <2>1
  <1> QED BY <1>1, <1>2, <1>3, OfItsRange DEF IsAleoText

\* What binding k compiles to.
LEMMA BindingText ==
    ASSUME NEW src, IsText(src), NEW S, NEW bindings, bindings = LeoBindings(src, S),
           NEW n \in Nat, n = Len(bindings), 0 .. n \subseteq Reg, NEW k \in 1 .. n
    PROVE  /\ IsAleoText(CompiledBinding(src, bindings, k))
           /\ src[bindings[k].line].expr.form = "none" => CompiledBinding(src, bindings, k) = <<>>
           /\ src[bindings[k].line].expr.form # "none" =>
                /\ CompiledBinding(src, bindings, k) = <<CompiledBinding(src, bindings, k)[1]>>
                /\ CompiledBinding(src, bindings, k)[1].kind \in {"comment", "garbled", "code"}
  <1>1. PICK e : e = src[bindings[k].line].expr
    OBVIOUS
  <1>2. PICK c : c = CompiledBinding(src, bindings, k)
    OBVIOUS
  <1>3. c = CASE e.form = "none"  -> <<>>
              [] e.form = "arith" -> <<CompiledArith(bindings, k, e.tokens)>>
              [] OTHER -> <<[kind |-> IF e.spaced THEN "comment" ELSE "garbled"]>>
    BY <1>1, <1>2, Zenon DEF CompiledBinding
  <1>4. bindings[k].line \in 1 .. Len(src) /\ src[bindings[k].line].kind = "let"
    <2>1. Len(src) \in Nat
      BY DEF IsText
    <2> QED BY <2>1, BindingsAre
  <1>5. IsExpr(e)
    BY <1>1, <1>4 DEF IsText, IsSourceLine
  <1>6. CASE e.form = "none"
    BY <1>1, <1>2, <1>3, <1>6, NoLineText
  <1>7. CASE e.form = "arith"
    <2>1. PICK t : t = e.tokens
      OBVIOUS
    <2>2. Len(t) \in Nat
      BY <1>5, <1>7, <2>1 DEF IsExpr
    <2>3. PICK l : l = CompiledArith(bindings, k, t)
      OBVIOUS
    <2>4. PICK at : at = FallbackSplit(t)
      OBVIOUS
    <2>5. IsLine(l) /\ l.kind \in {"comment", "garbled", "code"}
      <3>1. CASE at = 0
        <4>1. l = Compiled(bindings, k, "add", t, <<[literal |-> 0]>>)
          BY <2>3, <2>4, <3>1, Zenon DEF CompiledArith
        <4>2. "add" \in BinaryOp
          BY DEF BinaryOp
        <4> QED BY <4>1, <4>2, CompiledOK
      <3>2. CASE at # 0
        <4>1. l = Compiled(bindings, k, t[at].op, SubSeq(t, 1, at - 1), SubSeq(t, at + 1, Len(t)))
          BY <2>3, <2>4, <3>2, Zenon DEF CompiledArith
        <4>2. t[at].op \in {"add", "sub", "mul", "div"}
          BY <2>2, <2>4, <3>2, SplitIs
        <4>3. t[at].op \in BinaryOp
          BY <4>2 DEF BinaryOp
        <4> QED BY <4>1, <4>3, CompiledOK
      <3> QED BY <3>1, <3>2
    <2>6. c = <<l>>
      BY <1>3, <1>7, <2>1, <2>3
    <2>7. IsAleoText(c)
      BY <2>5, <2>6, OneLineText
    <2>8. c = <<c[1]>> /\ c[1].kind \in {"comment", "garbled", "code"}
      BY <2>5, <2>6
    <2> QED BY <1>1, <1>2, <1>7, <2>7, <2>8
  <1>8. CASE e.form # "none" /\ e.form # "arith"
    <2>1. PICK w, l : /\ w = IF e.spaced THEN "comment" ELSE "garbled"
                      /\ w \in {"comment", "garbled"} /\ l = [kind |-> w]
      OBVIOUS
    <2>2. c = <<l>> /\ l.kind \in {"comment", "garbled"}
      BY <1>3, <1>8, <2>1
    <2>3. IsAleoText(c)
      BY <2>1, <2>2, PlainLines, OneLineText
    <2>4. c = <<c[1]>> /\ c[1].kind \in {"comment", "garbled", "code"}
      BY <2>2
    <2> QED BY <1>1, <1>2, <1>8, <2>3, <2>4
  <1> QED BY <1>6, <1>7, <1>8

\* The registers of the bindings are the interpreter's.
LEMMA RegistersSuffice ==
    ASSUME NEW s \in Sources, NEW src, src = TextOf(s), NEW S
    PROVE  0 .. Len(LeoBindings(src, S)) \subseteq Reg /\ 0 \in Reg
  <1>1. IsSource(s)
    BY SourcesAssumption
  <1>2. 0 .. Len(s.leo) \subseteq Reg /\ Len(s.leo) \in Nat
    BY <1>1 DEF IsSource, IsLeoSource
  <1>3. 0 \in Reg
    BY <1>2
  <1>4. PICK b : b = LeoBindings(src, S)
    OBVIOUS
  <1>5. Len(src) \in Nat
    BY TextIs
  <1>6. /\ Len(b) \in Nat /\ Len(b) <= Len(src)
        /\ \A k \in 1 .. Len(b) : b[k].line \in 1 .. Len(src) /\ src[b[k].line].kind = "let"
    BY <1>4, <1>5, BindingsAre
  <1>7. CASE s.bare = <<>>
    <2>1. src = s.leo
      BY <1>7 DEF TextOf
    <2>2. \A k \in 0 .. Len(b) : k \in 0 .. Len(s.leo)
      BY <1>2, <1>6, <2>1
    <2> QED BY <1>2, <1>3, <1>4, <2>2
  <1>8. CASE s.bare # <<>>
    <2>1. /\ Len(src) = Len(s.bare) /\ Len(s.bare) \in Nat
          /\ \A k \in 1 .. Len(s.bare) : src[k].kind # "let"
      BY <1>1, <1>8, BareText
    <2>2. Len(b) = 0
      <3> SUFFICES ASSUME Len(b) # 0 PROVE FALSE
        OBVIOUS
      <3>1. 1 \in 1 .. Len(b)
        BY <1>6
      <3>2. b[1].line \in 1 .. Len(src) /\ src[b[1].line].kind = "let"
        BY <1>6, <3>1
      <3> QED BY <2>1, <3>2
    <2>3. 0 .. Len(b) = {0}
      BY <2>2
    <2> QED BY <1>3, <1>4, <2>3
  <1> QED BY <1>7, <1>8

\* The block that is generated for a function.
GeneratedText(src, fns, f) ==
    (IF HasCall(fns, f) THEN GeneratedCaller(src, f) ELSE GeneratedClosure(src, f))
        \o <<[kind |-> "blank"]>>

GeneratedHead == <<[kind |-> "program"], [kind |-> "blank"]>>

LEMMA GenerateIs ==
    ASSUME NEW src, NEW fns, NEW n, n = Len(fns)
    PROVE  GenerateAleo(src, fns) =
               GeneratedHead \o FlattenSeq([k \in 1 .. n |-> GeneratedText(src, fns, fns[k])])
  BY Zenon DEF GenerateAleo, GeneratedText, GeneratedHead

\* The parts of a function that the fallback reads.
LEMMA FallbackReads ==
    ASSUME NEW s \in Sources, NEW src, src = TextOf(s), NEW fns, fns = ParseLeoFunctions(src),
           NEW n \in 1 .. Len(fns), NEW f, f = fns[n]
    PROVE  /\ f.bindings = LeoBindings(src, Body(src, f.line)) /\ Len(f.bindings) \in Nat
           /\ 0 .. Len(f.bindings) \subseteq Reg /\ 0 \in Reg /\ f.aleo \in FnName
           /\ f.line \in 1 .. Len(src)
           /\ f.return_line # 0 => f.return_line \in 1 .. Len(src) /\ src[f.return_line].kind = "return"
           /\ \A k \in 1 .. Len(f.bindings) :
                  f.bindings[k].line \in 1 .. Len(src) /\ src[f.bindings[k].line].kind = "let"
  <1>1. IsText(src) /\ Len(src) \in Nat
    BY TextIs
  <1>2. /\ f.line \in 1 .. Len(src) /\ src[f.line].kind \in Headers
        /\ f = LeoFunctionDef(src, f.line)
    BY <1>1, FunctionsAre
  <1>3. /\ f.bindings = LeoBindings(src, Body(src, f.line)) /\ f.aleo = src[f.line].trimmed
        /\ f.return_line # 0 => f.return_line \in 1 .. Len(src) /\ src[f.return_line].kind = "return"
    BY <1>1, <1>2, DefinitionIs
  <1>4. f.aleo \in FnName
    BY <1>1, <1>2, <1>3 DEF IsText, IsSourceLine
  <1>5. PICK S : S = Body(src, f.line)
    OBVIOUS
  <1>6. /\ Len(f.bindings) \in Nat
        /\ \A k \in 1 .. Len(f.bindings) :
               f.bindings[k].line \in 1 .. Len(src) /\ src[f.bindings[k].line].kind = "let"
    BY <1>1, <1>3, BindingsAre
  <1>7. 0 .. Len(LeoBindings(src, S)) \subseteq Reg /\ 0 \in Reg
    BY RegistersSuffice
  <1> QED BY <1>2, <1>3, <1>4, <1>5, <1>6, <1>7

LEMMA CallerText ==
    ASSUME NEW s \in Sources, NEW src, src = TextOf(s), NEW fns, fns = ParseLeoFunctions(src),
           NEW n \in 1 .. Len(fns), NEW f, f = fns[n], f.return_line # 0
    PROVE  IsAleoText(GeneratedCaller(src, f))
  <1>1. /\ 0 \in Reg /\ f.aleo \in FnName
        /\ f.return_line \in 1 .. Len(src) /\ src[f.return_line].kind = "return"
    BY FallbackReads
  <1>2. PICK head : head = [kind |-> "function", name |-> f.aleo]
    OBVIOUS
  <1>3. IsLine(head)
    BY <1>1, <1>2 DEF IsLine, AleoLineKinds, FnKinds
  <1>4. PICK callee : callee = Callee(src, f)
    OBVIOUS
  <1>5. CASE callee = <<>>
    <2>1. GeneratedCaller(src, f) = <<head>> \o <<>>
      BY <1>2, <1>4, <1>5 DEF GeneratedCaller
    <2>2. IsAleoText(<<head>> \o <<>>)
      BY <1>3, OneLineText, NoLineText, TextsJoin
    <2> QED BY <2>1, <2>2
  <1>6. CASE callee # <<>>
    <2>1. PICK e : e = src[f.return_line].expr
      OBVIOUS
    <2>2. IsExpr(e)
      <3>1. IsText(src)
        BY TextIs
      <3> QED BY <1>1, <2>1, <3>1 DEF IsText, IsSourceLine
    <2>3. e.form = "call" /\ callee = <<e.callee>>
      BY <1>4, <1>6, <2>1 DEF Callee
    <2>4. callee[1] \in FnName
      BY <2>2, <2>3 DEF IsExpr
    <2>5. PICK i : i = [op |-> "call", callee |-> callee[1], args |-> <<>>, dests |-> <<0>>]
      OBVIOUS
    <2>6. i \in Instruction
      <3>1. <<>> \in Seq(Operand) /\ <<0>> \in Seq(Reg)
        BY <1>1
      <3>2. i \in [op : {"call"}, callee : FnName, args : Seq(Operand), dests : Seq(Reg)]
        BY <2>4, <2>5, <3>1
      <3> QED BY <3>2 DEF Instruction
    <2>7. PICK code1 : code1 = [kind |-> "code", instr |-> i]
      OBVIOUS
    <2>8. IsLine(code1)
      BY <2>6, <2>7 DEF IsLine, AleoLineKinds, FnKinds
    <2>9. PICK out : out = [kind |-> "output", reg |-> 0]
      OBVIOUS
    <2>10. IsLine(out)
      BY <1>1, <2>9 DEF IsLine, AleoLineKinds, FnKinds
    <2>11. GeneratedCaller(src, f) = <<head>> \o <<code1, out>>
      BY <1>2, <1>4, <1>6, <2>5, <2>7, <2>9 DEF GeneratedCaller
    <2>12. IsAleoText(<<head>> \o <<code1, out>>)
      BY <1>3, <2>8, <2>10, OneLineText, TwoLineText, TextsJoin
    <2> QED BY <2>11, <2>12
  <1> QED BY <1>5, <1>6

LEMMA ClosureText ==
    ASSUME NEW s \in Sources, NEW src, src = TextOf(s), NEW fns, fns = ParseLeoFunctions(src),
           NEW j \in 1 .. Len(fns), NEW f, f = fns[j]
    PROVE  IsAleoText(GeneratedClosure(src, f))
  <1>1. /\ f.bindings = LeoBindings(src, Body(src, f.line)) /\ Len(f.bindings) \in Nat
        /\ 0 .. Len(f.bindings) \subseteq Reg /\ f.aleo \in FnName
    BY FallbackReads
  <1>2. PICK n \in Nat : n = Len(f.bindings)
    BY <1>1
  <1>3. PICK head : head = [kind |-> "closure", name |-> f.aleo]
    OBVIOUS
  <1>4. IsLine(head)
    BY <1>1, <1>3 DEF IsLine, AleoLineKinds, FnKinds
  <1>5. PICK seqs : seqs = [k \in 1 .. n |-> CompiledBinding(src, f.bindings, k)]
    OBVIOUS
  <1>6. IsText(src)
    BY TextIs
  <1>7. \A k \in 1 .. n : IsAleoText(seqs[k])
    <2> TAKE k \in 1 .. n
    <2>1. IsAleoText(CompiledBinding(src, f.bindings, k))
      BY <1>1, <1>2, <1>6, BindingText
    <2> QED BY <1>5, <2>1
  <1>8. seqs = [k \in 1 .. n |-> seqs[k]]
    BY <1>5
  <1>9. IsAleoText(FlattenSeq(seqs))
    BY <1>7, <1>8, TextsFlatten
  <1>10. PICK out : out = IF n = 0 THEN <<>> ELSE <<[kind |-> "output", reg |-> n - 1]>>
    OBVIOUS
  <1>11. IsAleoText(out)
    <2>1. CASE n = 0
      BY <1>10, <2>1, NoLineText
    <2>2. CASE n # 0
      <3>1. PICK l : l = [kind |-> "output", reg |-> n - 1]
        OBVIOUS
      <3>2. n - 1 \in Reg
        BY <1>1, <1>2, <2>2
      <3>3. IsLine(l)
        BY <3>1, <3>2 DEF IsLine, AleoLineKinds, FnKinds
      <3>4. out = <<l>>
        BY <1>10, <2>2, <3>1
      <3> QED BY <3>3, <3>4, OneLineText
    <2> QED BY <2>1, <2>2
  <1>12. GeneratedClosure(src, f) = <<head>> \o FlattenSeq(seqs) \o out
    BY <1>2, <1>3, <1>5, <1>10, Zenon DEF GeneratedClosure
  <1>13. IsAleoText(<<head>> \o FlattenSeq(seqs) \o out)
    BY <1>4, <1>9, <1>11, OneLineText, TextsJoin
  <1> QED BY <1>12, <1>13

\* The fallback writes a program that the interpreter takes.
LEMMA FallbackText ==
    ASSUME NEW s \in Sources, NEW src, src = TextOf(s), NEW fns, fns = ParseLeoFunctions(src)
    PROVE  IsAleoText(GenerateAleo(src, fns))
  <1>1. IsText(src)
    BY TextIs
  <1>2. PICK n \in Nat : n = Len(fns)
    BY <1>1, FunctionsAre
  <1>3. PICK seqs : seqs = [k \in 1 .. n |-> GeneratedText(src, fns, fns[k])]
    OBVIOUS
  <1>4. ASSUME NEW k \in 1 .. n PROVE IsAleoText(seqs[k])
    <2>1. PICK f : f = fns[k]
      OBVIOUS
    <2>2. k \in 1 .. Len(fns)
      BY <1>2
    <2>3. PICK a : a = IF HasCall(fns, f) THEN GeneratedCaller(src, f) ELSE GeneratedClosure(src, f)
      OBVIOUS
    <2>4. IsAleoText(a)
      <3>1. CASE HasCall(fns, f)
        <4>1. f.return_line # 0
          BY <3>1 DEF HasCall
        <4>2. IsAleoText(GeneratedCaller(src, f))
          BY <2>1, <2>2, <4>1, CallerText
        <4> QED BY <2>3, <3>1, <4>2
      <3>2. CASE ~HasCall(fns, f)
        <4>1. IsAleoText(GeneratedClosure(src, f))
          BY <2>1, <2>2, ClosureText
        <4> QED BY <2>3, <3>2, <4>1
      <3> QED BY <3>1, <3>2
    <2>5. GeneratedText(src, fns, f) = a \o <<[kind |-> "blank"]>>
      BY <2>3, Zenon DEF GeneratedText
    <2>6. IsAleoText(a \o <<[kind |-> "blank"]>>)
      BY <2>4, PlainLines, OneLineText, TextsJoin
    <2> QED BY <1>3, <2>1, <2>5, <2>6
  <1>5. seqs = [k \in 1 .. n |-> seqs[k]]
    BY <1>3
  <1>6. IsAleoText(FlattenSeq(seqs))
    BY <1>4, <1>5, TextsFlatten
  <1>7. IsAleoText(GeneratedHead)
    BY PlainLines, TwoLineText DEF GeneratedHead
  <1>8. GenerateAleo(src, fns) = GeneratedHead \o FlattenSeq(seqs)
    BY <1>2, <1>3, GenerateIs
  <1> QED BY <1>6, <1>7, <1>8, TextsJoin

----------------------------------------------------------------------------
(* The variables read back from the registers *)

NamesUpTo(leo) ==
    UNION {{leo[n].bindings[k].name : k \in 1 .. Len(leo[n].bindings)} : n \in 1 .. Len(leo)}

ValueMaps(leo) == UNION {[D -> Int64] : D \in SUBSET NamesUpTo(leo)}

MapsInto(v, N) == \E E \in SUBSET N : v \in [E -> Int64]

\* What one function adds.
LEMMA FunctionMapped ==
    ASSUME NEW f, Len(f.bindings) \in Nat, NEW fns, NEW rs,
           f.name \in DOMAIN rs => RegistersOK(rs[f.name].registers),
           NEW D, NEW vs \in [D -> Int64],
           NEW N, D \subseteq N, \A k \in 1 .. Len(f.bindings) : f.bindings[k].name \in N
    PROVE  MapsInto(MapFunction(vs, f, fns, rs), N)
  <1> DEFINE n == MatchingFunction(fns, f.name)
             regs == rs[f.name].registers
             at(k) == Len(fns[n].inputs) + k - 1
             held == {k \in 1 .. Len(f.bindings) : at(k) \in DOMAIN regs}
             names == {f.bindings[k].name : k \in held}
             bound(x) == {k \in held : f.bindings[k].name = x}
             mapped == [x \in DOMAIN vs \cup names |->
                           IF x \in names THEN regs[at(Max(bound(x)))] ELSE vs[x]]
  <1>1. MapFunction(vs, f, fns, rs) = IF n = 0 \/ f.name \notin DOMAIN rs THEN vs ELSE mapped
    BY Zenon DEF MapFunction
  <1>2. CASE n = 0 \/ f.name \notin DOMAIN rs
    BY <1>1, <1>2 DEF MapsInto
  <1>3. CASE ~(n = 0 \/ f.name \notin DOMAIN rs)
    <2>1. RegistersOK(regs)
      BY <1>3
    <2>2. names \subseteq N /\ DOMAIN vs = D
      OBVIOUS
    <2>3. ASSUME NEW x \in names PROVE regs[at(Max(bound(x)))] \in Int64
      <3>1. bound(x) # {} /\ bound(x) \subseteq 1 .. Len(f.bindings)
        OBVIOUS
      <3>2. PICK m : m = Max(bound(x))
        OBVIOUS
      <3> HIDE DEF n, regs
      <3>3. m \in bound(x)
        <4> HIDE DEF bound
        <4> QED BY <3>1, <3>2, GreatestLine
      <3>4. at(m) \in DOMAIN regs
        BY <3>3
      <3> HIDE DEF at, bound
      <3> QED BY <2>1, <3>2, <3>4 DEF RegistersOK
    <2>4. ASSUME NEW x \in D \ names PROVE vs[x] \in Int64
      OBVIOUS
    <2>5. PICK E : E = D \cup names
      OBVIOUS
    <2>6. mapped \in [E -> Int64]
      <3> HIDE DEF names, bound, at, regs, n
      <3> QED BY <2>2, <2>3, <2>4, <2>5
    <2>7. E \in SUBSET N
      BY <2>2, <2>5
    <2> HIDE DEF mapped, n
    <2> QED BY <1>1, <1>3, <2>6, <2>7 DEF MapsInto
  <1> QED BY <1>2, <1>3

MapUpTo(u, leo, fns, rs, n) ==
    u = [k \in 0 .. n |-> IF k = 0 THEN <<>> ELSE MapFunction(u[k - 1], leo[k], fns, rs)]

LEMMA MapExists ==
    ASSUME NEW leo, NEW n \in Nat, n = Len(leo), \A k \in 1 .. n : Len(leo[k].bindings) \in Nat,
           NEW fns, NEW rs, \A x \in DOMAIN rs : RegistersOK(rs[x].registers)
    PROVE  \E u \in [0 .. n -> ValueMaps(leo)] : MapUpTo(u, leo, fns, rs, n)
  <1>1. PICK S : S = ValueMaps(leo)
    OBVIOUS
  <1>2. PICK step : step = [p \in Nat \X S |->
                              IF p[1] \in 1 .. n THEN MapFunction(p[2], leo[p[1]], fns, rs) ELSE p[2]]
    OBVIOUS
  <1>3. ASSUME NEW k \in Nat, NEW x \in S PROVE step[<<k, x>>] \in S
    <2>1. CASE k \in 1 .. n
      <3>1. PICK N : N = NamesUpTo(leo)
        OBVIOUS
      <3>2. PICK D \in SUBSET N : x \in [D -> Int64]
        BY <1>1, <3>1 DEF ValueMaps
      <3>3. \A j \in 1 .. Len(leo[k].bindings) : leo[k].bindings[j].name \in N
        BY <2>1, <3>1 DEF NamesUpTo
      <3>4. PICK f : f = leo[k]
        OBVIOUS
      <3>8. Len(f.bindings) \in Nat /\ \A j \in 1 .. Len(f.bindings) : f.bindings[j].name \in N
        BY <2>1, <3>3, <3>4
      <3>9. f.name \in DOMAIN rs => RegistersOK(rs[f.name].registers)
        OBVIOUS
      <3>5. MapsInto(MapFunction(x, f, fns, rs), N)
        BY <3>2, <3>8, <3>9, FunctionMapped
      <3>6. MapFunction(x, f, fns, rs) \in S
        BY <1>1, <3>1, <3>5 DEF ValueMaps, MapsInto
      <3>7. step[<<k, x>>] = MapFunction(x, f, fns, rs)
        BY <1>2, <2>1, <3>4
      <3> QED BY <3>6, <3>7
    <2>2. CASE k \notin 1 .. n
      BY <1>2, <2>2
    <2> QED BY <2>1, <2>2
  <1>4. <<>> \in S
    <2>1. <<>> \in [{} -> Int64]
      OBVIOUS
    <2> QED BY <1>1, <2>1 DEF ValueMaps
  <1>5. PICK u : Recurs(u, S, <<>>, step, n)
    BY <1>3, <1>4, Recursion
  <1>6. u \in [0 .. n -> S] /\ u[0] = <<>> /\ \A k \in 1 .. n : u[k] = step[<<k, u[k - 1]>>]
    BY <1>5 DEF Recurs
  <1>7. ASSUME NEW k \in 0 .. n
        PROVE  u[k] = IF k = 0 THEN <<>> ELSE MapFunction(u[k - 1], leo[k], fns, rs)
    <2>1. CASE k = 0
      BY <1>6, <2>1
    <2>2. CASE k # 0
      <3>1. k \in 1 .. n /\ k - 1 \in 0 .. n /\ k \in Nat
        BY <2>2
      <3>2. u[k - 1] \in S
        BY <1>6, <3>1
      <3>3. step[<<k, u[k - 1]>>] = MapFunction(u[k - 1], leo[k], fns, rs)
        BY <1>2, <3>1, <3>2
      <3> QED BY <1>6, <2>2, <3>1, <3>3
    <2> QED BY <2>1, <2>2
  <1>8. u = [k \in 0 .. n |-> u[k]]
    BY <1>6
  <1>9. MapUpTo(u, leo, fns, rs, n)
    BY <1>7, <1>8 DEF MapUpTo
  <1> QED BY <1>1, <1>6, <1>9

\* The variables after the last function are the last entry of the table.
MapTabled(leo, fns, rs, n) ==
    \E u \in [0 .. n -> ValueMaps(leo)] : MapUpTo(u, leo, fns, rs, n) /\ MapRegisters(leo, fns, rs) = u[n]

LEMMA MapDef ==
    ASSUME NEW leo, NEW n \in Nat, n = Len(leo), \A k \in 1 .. n : Len(leo[k].bindings) \in Nat,
           NEW fns, NEW rs, \A x \in DOMAIN rs : RegistersOK(rs[x].registers)
    PROVE  MapTabled(leo, fns, rs, n)
  <1> DEFINE P(u) == u = [k \in 0 .. Len(leo) |->
                            IF k = 0 THEN <<>> ELSE MapFunction(u[k - 1], leo[k], fns, rs)]
  <1>1. \A u : P(u) <=> MapUpTo(u, leo, fns, rs, n)
    BY DEF MapUpTo
  <1>2. PICK v \in [0 .. n -> ValueMaps(leo)] : MapUpTo(v, leo, fns, rs, n)
    BY MapExists
  <1>3. MapRegisters(leo, fns, rs) = (CHOOSE u : P(u))[n]
    BY DEF MapRegisters
  <1>4. PICK w : w = CHOOSE u : P(u)
    OBVIOUS
  <1>5. P(w)
    <2> HIDE DEF P
    <2> QED BY <1>1, <1>2, <1>4
  <1>6. w = v
    <2> DEFINE T == {k \in Nat : k <= n => w[k] = v[k]}
    <2>1. /\ \A k \in 0 .. n : v[k] = IF k = 0 THEN <<>> ELSE MapFunction(v[k - 1], leo[k], fns, rs)
          /\ \A k \in 0 .. n : w[k] = IF k = 0 THEN <<>> ELSE MapFunction(w[k - 1], leo[k], fns, rs)
      BY <1>1, <1>2, <1>5 DEF MapUpTo
    <2>2. 0 \in T
      BY <2>1
    <2>3. ASSUME NEW k \in Nat, k \in T PROVE k + 1 \in T
      <3> SUFFICES ASSUME k + 1 <= n PROVE w[k + 1] = v[k + 1]
        OBVIOUS
      <3>1. k + 1 \in 0 .. n /\ k + 1 # 0 /\ (k + 1) - 1 = k /\ w[k] = v[k]
        BY <2>3
      <3> QED BY <2>1, <3>1
    <2>4. \A k \in Nat : k \in T
      <3> HIDE DEF T
      <3> QED BY <2>2, <2>3, NatSetInduction
    <2>5. \A k \in 0 .. n : w[k] = v[k]
      BY <2>4
    <2>6. DOMAIN w = 0 .. n /\ w = [k \in 0 .. n |-> w[k]]
      BY <1>5
    <2> HIDE DEF P
    <2>7. v = [k \in 0 .. n |-> v[k]]
      OBVIOUS
    <2> QED BY <2>5, <2>6, <2>7
  <1> HIDE DEF P
  <1>7. MapRegisters(leo, fns, rs) = v[n]
    BY <1>3, <1>4, <1>6
  <1> QED BY <1>2, <1>7 DEF MapTabled

LEMMA MappedType ==
    ASSUME NEW leo, Len(leo) \in Nat, \A k \in 1 .. Len(leo) : Len(leo[k].bindings) \in Nat,
           NEW fns, NEW rs, \A x \in DOMAIN rs : RegistersOK(rs[x].registers),
           NEW vs, vs = MapRegisters(leo, fns, rs)
    PROVE  \A x \in DOMAIN vs : vs[x] \in Int64
  <1>1. PICK n \in Nat : n = Len(leo)
    OBVIOUS
  <1>2. PICK u \in [0 .. n -> ValueMaps(leo)] : MapRegisters(leo, fns, rs) = u[n]
    <2>1. MapTabled(leo, fns, rs, n)
      BY <1>1, MapDef
    <2> QED BY <2>1 DEF MapTabled
  <1>3. vs \in ValueMaps(leo)
    BY <1>2
  <1>4. PICK D \in SUBSET NamesUpTo(leo) : vs \in [D -> Int64]
    BY <1>3 DEF ValueMaps
  <1> QED BY <1>4

----------------------------------------------------------------------------
(* The steps of every trace are on lines of the source *)

LogOn(es, n) ==
    /\ Len(es) \in Nat /\ \E S : es \in Seq(S)
    /\ \A k \in 1 .. Len(es) : es[k].ev = "step" => es[k].line \in 1 .. n

LEMMA LogsJoin ==
    ASSUME NEW n, NEW a, NEW b, LogOn(a, n), LogOn(b, n)
    PROVE  LogOn(a \o b, n)
  <1>1. PICK A : a \in Seq(A)
    BY DEF LogOn
  <1>2. PICK B : b \in Seq(B)
    BY DEF LogOn
  <1>3. PICK S : S = A \cup B
    OBVIOUS
  <1>4. a \in Seq(S) /\ b \in Seq(S) /\ Len(a) \in Nat /\ Len(b) \in Nat
    BY <1>1, <1>2, <1>3
  <1>5. PICK c : c = a \o b
    OBVIOUS
  <1>6. c \in Seq(S) /\ Len(c) = Len(a) + Len(b) /\ Len(c) \in Nat
    BY <1>4, <1>5
  <1>7. ASSUME NEW k \in 1 .. Len(c), c[k].ev = "step" PROVE c[k].line \in 1 .. n
    <2>1. CASE k \in 1 .. Len(a)
      <3>1. c[k] = a[k]
        BY <1>4, <1>5, <2>1
      <3> QED BY <1>7, <2>1, <3>1 DEF LogOn
    <2>2. CASE k \notin 1 .. Len(a)
      <3>1. k - Len(a) \in 1 .. Len(b)
        BY <1>4, <1>6, <2>2
      <3>2. c[k] = b[k - Len(a)]
        BY <1>4, <1>5, <1>6, <2>2
      <3> QED BY <1>7, <3>1, <3>2 DEF LogOn
    <2> QED BY <2>1, <2>2
  <1> QED BY <1>5, <1>6, <1>7 DEF LogOn

LEMMA LogsFlatten ==
    ASSUME NEW n, NEW m \in Nat, NEW seqs, seqs = [i \in 1 .. m |-> seqs[i]],
           \A i \in 1 .. m : LogOn(seqs[i], n)
    PROVE  LogOn(FlattenSeq(seqs), n)
  <1>1. PICK f : f = FlattenSeq(seqs)
    OBVIOUS
  <1>2. \A i \in 1 .. m : \E S : seqs[i] \in Seq(S)
    BY DEF LogOn
  <1>3. FlatElements(f, m, seqs)
    BY <1>1, <1>2, FlattenElements
  <1>4. \A k \in 1 .. Len(f) : f[k].ev = "step" => f[k].line \in 1 .. n
    BY <1>3 DEF FlatElements, LogOn
  <1> QED BY <1>1, <1>3, <1>4 DEF FlatElements, LogOn

\* One entry that is no step, and one that is.
LEMMA OneEntry ==
    ASSUME NEW n, NEW e, e.ev = "step" => e.line \in 1 .. n
    PROVE  LogOn(<<e>>, n)
  <1>1. PICK a : a = <<e>>
    OBVIOUS
  <1>2. a \in Seq({e}) /\ Len(a) = 1 /\ Len(a) \in Nat /\ a[1] = e
    BY <1>1
  <1>3. \A k \in 1 .. Len(a) : a[k] = e
    BY <1>2
  <1> QED BY <1>1, <1>2, <1>3 DEF LogOn

LEMMA NoEntry == \A n : LogOn(<<>>, n)
  <1>1. <<>> \in Seq({}) /\ Len(<<>>) = 0
    OBVIOUS
  <1> QED BY <1>1 DEF LogOn

LEMMA TwoEntries ==
    ASSUME NEW n, NEW d, NEW e, d.ev = "step" => d.line \in 1 .. n, e.ev = "step" => e.line \in 1 .. n
    PROVE  LogOn(<<d, e>>, n)
  <1>1. PICK a : a = <<d, e>>
    OBVIOUS
  <1>2. a \in Seq({d, e}) /\ Len(a) = 2 /\ Len(a) \in Nat /\ a[1] = d /\ a[2] = e
    BY <1>1
  <1>3. \A k \in 1 .. Len(a) : a[k] = d \/ a[k] = e
    BY <1>2
  <1> QED BY <1>1, <1>2, <1>3 DEF LogOn

LEMMA ThreeEntries ==
    ASSUME NEW n, NEW c, NEW d, NEW e, c.ev = "step" => c.line \in 1 .. n,
           d.ev # "step", e.ev # "step"
    PROVE  LogOn(<<c, d, e>>, n)
  <1>1. PICK a : a = <<c, d, e>>
    OBVIOUS
  <1>2. a \in Seq({c, d, e}) /\ Len(a) = 3 /\ Len(a) \in Nat /\ a[1] = c /\ a[2] = d /\ a[3] = e
    BY <1>1
  <1>3. \A k \in 1 .. Len(a) : a[k] = c \/ a[k] = d \/ a[k] = e
    BY <1>2
  <1> QED BY <1>1, <1>2, <1>3 DEF LogOn

LEMMA EntriesAre ==
    /\ \A k : Step(k).ev = "step" /\ Step(k).line = k
    /\ \A r, v : Shown(r, v).ev = "var"
    /\ \A name, k, args : CallOf(name, k, args).ev = "call"
    /\ \A v : Returns(v).ev = "return"
  BY DEF Step, Shown, CallOf, Returns

\* What is shown together is on no line of its own.
LEMMA VarsOnly ==
    ASSUME NEW n, NEW m \in Nat, NEW vs, vs = [k \in 1 .. m |-> vs[k]],
           \A k \in 1 .. m : vs[k].ev = "var"
    PROVE  LogOn(vs, n)
  <1>1. PICK S : S = {vs[k] : k \in 1 .. m}
    OBVIOUS
  <1>2. vs \in [1 .. m -> S]
    BY <1>1
  <1>3. vs \in Seq(S) /\ Len(vs) = m
    BY <1>2, SeqDef
  <1> QED BY <1>3 DEF LogOn

----------------------------------------------------------------------------
(* The walk of a bare program *)

WalkerFields == {"regs", "inputs", "shown", "output", "panics", "next"}

WalkerOn(w, n) ==
    /\ DOMAIN w = WalkerFields
    /\ \E S : w.inputs \in Seq(S)
    /\ \E S : w.shown \in Seq(S)
    /\ \A k \in 1 .. Len(w.shown) : w.shown[k].line \in 1 .. n
    /\ w.output # <<>> => w.output.line \in 1 .. n

LEMMA Shows1 ==
    ASSUME NEW n, NEW w, WalkerOn(w, n), NEW k \in 1 .. n, NEW r, NEW v, NEW z, z = Shows(w, k, r, v)
    PROVE  WalkerOn(z, n) /\ z.next = w.next
  <1>1. PICK s : s = [line |-> k, reg |-> r, val |-> v]
    OBVIOUS
  <1>2. /\ DOMAIN z = WalkerFields /\ z.next = w.next /\ z.inputs = w.inputs /\ z.output = w.output
        /\ z.shown = Append(w.shown, s)
    BY <1>1 DEF Shows, WalkerOn, WalkerFields
  <1>3. PICK S : w.shown \in Seq(S)
    BY DEF WalkerOn
  <1>4. PICK a : a = w.shown
    OBVIOUS
  <1>5. PICK T : T = S \cup {s}
    OBVIOUS
  <1>6. a \in Seq(T) /\ s \in T
    BY <1>3, <1>4, <1>5
  <1>7. PICK b : b = Append(a, s)
    OBVIOUS
  <1>8. b \in Seq(T) /\ Len(b) = Len(a) + 1 /\ Len(a) \in Nat /\ b[Len(a) + 1] = s
        /\ \A j \in 1 .. Len(a) : b[j] = a[j]
    BY <1>6, <1>7
  <1>9. s.line = k
    BY <1>1
  <1>10. ASSUME NEW j \in 1 .. Len(b) PROVE b[j].line \in 1 .. n
    <2>1. j \in 1 .. Len(a) \/ j = Len(a) + 1
      BY <1>8
    <2>2. \A i \in 1 .. Len(a) : a[i].line \in 1 .. n
      BY <1>4 DEF WalkerOn
    <2> QED BY <1>8, <1>9, <2>1, <2>2
  <1> QED BY <1>2, <1>4, <1>7, <1>8, <1>10 DEF WalkerOn

LEMMA WalkedOn ==
    ASSUME NEW n, NEW w, WalkerOn(w, n), NEW k \in 1 .. n, NEW lines, NEW z, z = Walked(w, lines, k)
    PROVE  WalkerOn(z, n) /\ z.next = w.next
  <1>1. PICK l : l = lines[k]
    OBVIOUS
  <1>2. CASE z = InputLine(w, l)
    <2>1. PICK i : i = [reg |-> l.reg, type |-> l.type]
      OBVIOUS
    <2>2. /\ DOMAIN z = WalkerFields /\ z.next = w.next /\ z.shown = w.shown /\ z.output = w.output
          /\ z.inputs = Append(w.inputs, i)
      BY <1>2, <2>1 DEF InputLine, WalkerOn, WalkerFields
    <2>3. PICK S : w.inputs \in Seq(S)
      BY DEF WalkerOn
    <2>4. PICK T : T = S \cup {i}
      OBVIOUS
    <2>5. Append(w.inputs, i) \in Seq(T)
      BY <2>3, <2>4
    <2> QED BY <2>2, <2>5 DEF WalkerOn
  <1>3. CASE z = OutputLine(w, k, l)
    <2>1. /\ DOMAIN z = WalkerFields /\ z.next = w.next /\ z.shown = w.shown /\ z.inputs = w.inputs
          /\ z.output.line = k
      BY <1>3 DEF OutputLine, WalkerOn, WalkerFields
    <2> QED BY <2>1 DEF WalkerOn
  <1>4. CASE z = CastLine(w, k, l)
    <2>1. PICK r : r = l.dest
      OBVIOUS
    <2>2. \E v : z = Shows(w, k, r, v)
      BY <1>4, <2>1, Zenon DEF CastLine
    <2> QED BY <2>2, Shows1
  <1>5. CASE z = CodeLine(w, k, l.instr)
    <2>1. PICK c : c = l.instr
      OBVIOUS
    <2>2. CASE z = BinaryLine(w, k, c)
      <3>1. PICK r : r = c.dest
        OBVIOUS
      <3>2. \E v, b : z = [Shows(w, k, r, v) EXCEPT !.panics = @ \/ b]
        BY <2>2, <3>1, Zenon DEF BinaryLine
      <3>3. PICK v : \E b : z = [Shows(w, k, r, v) EXCEPT !.panics = @ \/ b]
        BY <3>2
      <3>4. PICK y : y = Shows(w, k, r, v)
        OBVIOUS
      <3>5. WalkerOn(y, n) /\ y.next = w.next
        BY <3>4, Shows1
      <3>6. \E b : z = [y EXCEPT !.panics = b]
        BY <3>3, <3>4, Zenon
      <3>7. /\ DOMAIN z = DOMAIN y /\ z.next = y.next /\ z.shown = y.shown /\ z.inputs = y.inputs
            /\ z.output = y.output
        BY <3>5, <3>6 DEF WalkerOn, WalkerFields
      <3> QED BY <3>5, <3>7 DEF WalkerOn
    <2>3. CASE z = MistakenLine(w, k, c)
      <3>1. PICK r : r = IF c.op = "call" THEN c.dests[1] ELSE c.dest
        OBVIOUS
      <3>2. z = Shows(w, k, r, [value |-> 0, type |-> "u32"])
        BY <2>3, <3>1, Zenon DEF MistakenLine
      <3> QED BY <3>2, Shows1
    <2>4. CASE z = w
      BY <2>4
    <2> QED BY <1>5, <2>1, <2>2, <2>3, <2>4 DEF CodeLine
  <1>6. CASE z = w
    BY <1>6
  <1> QED BY <1>1, <1>2, <1>3, <1>4, <1>5, <1>6 DEF Walked
LEMMA DialectEventsOn ==
    ASSUME NEW n, NEW i \in 1 .. n, NEW lines, NEW w, WalkerOn(w, n)
    PROVE  LogOn(DialectEvents(lines, i, w), n)
  <1> DEFINE final(r) == IF r \in DOMAIN w.regs THEN w.regs[r].value ELSE 0
             args == [k \in 1 .. Len(w.inputs) |->
                         [reg |-> w.inputs[k].reg, val |-> [value |-> final(w.inputs[k].reg),
                                                            type |-> w.inputs[k].type]]]
             steps == [k \in 1 .. Len(w.shown) |->
                         <<Step(w.shown[k].line), Shown(w.shown[k].reg, ShownOf(w, w.shown[k]))>>]
             out == [value |-> final(w.output.reg), type |-> lines[w.output.line].type]
             call == CallOf(lines[i].name, i, args)
             given1 == [k \in 1 .. Len(args) |-> Shown(args[k].reg, args[k].val)]
             end == IF w.output = <<>> THEN <<Returns("NONE_VALUE")>>
                    ELSE <<Step(w.output.line), Shown(w.output.reg, out), Returns(out)>>
  <1>1. DialectEvents(lines, i, w) = <<call, Step(i)>> \o given1 \o FlattenSeq(steps) \o end
    BY Zenon DEF DialectEvents
  <1>2. LogOn(<<call, Step(i)>>, n)
    BY EntriesAre, TwoEntries
  <1>3. LogOn(given1, n)
    <2>1. Len(w.inputs) \in Nat
      BY DEF WalkerOn
    <2>2. Len(args) = Len(w.inputs)
      BY <2>1
    <2> HIDE DEF args
    <2>3. PICK m \in Nat : m = Len(args)
      BY <2>1, <2>2
    <2>4. PICK vs : vs = given1
      OBVIOUS
    <2>5. vs = [k \in 1 .. m |-> vs[k]] /\ \A k \in 1 .. m : vs[k].ev = "var"
      BY <2>3, <2>4, EntriesAre
    <2>6. LogOn(vs, n)
      BY <2>5, VarsOnly
    <2> QED BY <2>4, <2>6
  <1>4. LogOn(FlattenSeq(steps), n)
    <2>1. PICK m \in Nat : m = Len(w.shown)
      BY DEF WalkerOn
    <2>2. PICK seqs : seqs = steps
      OBVIOUS
    <2>3. seqs = [k \in 1 .. m |-> seqs[k]]
      BY <2>1, <2>2
    <2>4. ASSUME NEW k \in 1 .. m PROVE LogOn(seqs[k], n)
      <3>1. w.shown[k].line \in 1 .. n
        BY <2>1 DEF WalkerOn
      <3>2. PICK v : v = ShownOf(w, w.shown[k])
        OBVIOUS
      <3>3. seqs[k] = <<Step(w.shown[k].line), Shown(w.shown[k].reg, v)>>
        BY <2>1, <2>2, <3>2
      <3>4. LogOn(<<Step(w.shown[k].line), Shown(w.shown[k].reg, v)>>, n)
        BY <3>1, EntriesAre, TwoEntries
      <3> QED BY <3>3, <3>4
    <2>5. LogOn(FlattenSeq(seqs), n)
      BY <2>3, <2>4, LogsFlatten
    <2> QED BY <2>2, <2>5
  <1>5. LogOn(end, n)
    <2>1. CASE w.output = <<>>
      BY <2>1, EntriesAre, OneEntry
    <2>2. CASE w.output # <<>>
      <3>1. w.output.line \in 1 .. n
        BY <2>2 DEF WalkerOn
      <3>2. PICK a : a = Step(w.output.line)
        OBVIOUS
      <3>3. PICK b : b = Shown(w.output.reg, out)
        OBVIOUS
      <3>4. PICK c : c = Returns(out)
        OBVIOUS
      <3>6. LogOn(<<a, b, c>>, n)
        BY <3>1, <3>2, <3>3, <3>4, EntriesAre, ThreeEntries
      <3>8. end = <<a, b, c>>
        BY <2>2, <3>2, <3>3, <3>4, Zenon
      <3> QED BY <3>6, <3>8
    <2> QED BY <2>1, <2>2
  <1> HIDE DEF call, given1, steps, end
  <1>6. LogOn(<<call, Step(i)>> \o given1, n)
    BY <1>2, <1>3, LogsJoin
  <1>7. LogOn(<<call, Step(i)>> \o given1 \o FlattenSeq(steps), n)
    BY <1>4, <1>6, LogsJoin
  <1>8. LogOn(<<call, Step(i)>> \o given1 \o FlattenSeq(steps) \o end, n)
    BY <1>5, <1>7, LogsJoin
  <1> QED BY <1>1, <1>8

\* The functions to come, and the line and the registers of the one walked.
DialectOn(lines, w, z) ==
    LET n == Len(lines)
    IN  /\ IsAleoText(lines)
        /\ w \in Seq(1 .. n)
        /\ WalkerOn(z, n)
        /\ w # <<>> => z.next \in Nat /\ Head(w) < z.next

LEMMA StartsOn ==
    ASSUME NEW lines, IsAleoText(lines), NEW w, w \in Seq(1 .. Len(lines))
    PROVE  DialectOn(lines, w, StartAt(w))
  <1>1. PICK n \in Nat : n = Len(lines)
    BY DEF IsAleoText
  <1>2. PICK z : z = StartAt(w)
    OBVIOUS
  <1>3. /\ DOMAIN z = WalkerFields /\ z.inputs = <<>> /\ z.shown = <<>> /\ z.output = <<>>
        /\ w # <<>> => z.next = Head(w) + 1
    BY <1>2 DEF StartAt, NoRegisters, WalkerFields
  <1>4. <<>> \in Seq({}) /\ Len(<<>>) = 0
    OBVIOUS
  <1>5. WalkerOn(z, n)
    BY <1>3, <1>4 DEF WalkerOn
  <1>6. w # <<>> => Head(w) \in 1 .. n
    BY <1>1
  <1> QED BY <1>1, <1>2, <1>3, <1>5, <1>6 DEF DialectOn

LEMMA DialectFunctionsOn ==
    ASSUME NEW lines, IsAleoText(lines)
    PROVE  DialectFunctions(lines) \in Seq(1 .. Len(lines))
  <1>1. PICK at : at = DialectFunctions(lines)
    OBVIOUS
  <1>2. at = Openings(lines, {"function"})
    BY <1>1 DEF DialectFunctions
  <1>3. PICK T : T = {k \in 1 .. Len(lines) : lines[k].kind \in {"function"}}
    OBVIOUS
  <1>4. at = Select(Numbers(lines), T)
    BY <1>2, <1>3, Zenon DEF Openings
  <1>5. PICK N : N = 1 .. Len(lines)
    OBVIOUS
  <1>6. PICK s : s = Numbers(lines)
    OBVIOUS
  <1>7. s \in Seq(N)
    <2>1. Len(lines) \in Nat
      BY DEF IsAleoText
    <2> QED BY <1>5, <1>6, <2>1 DEF Numbers
  <1>8. at \in Seq(N)
    BY <1>4, <1>6, <1>7, SelectType
  <1> QED BY <1>1, <1>5, <1>8

----------------------------------------------------------------------------
(* The types of the pipeline *)

Stages == {"compile", "parse", "begin", "execute", "map", "emit", "dialect", "legacy", "end"}

Outcomes == {"running", "recorded", "leo_compile_error", "avm_runtime_error", "panic"}

Idle == stack = <<>> /\ status = "running"

MachineInv ==
    /\ VMInv
    /\ IsAleoText(aleo)
    /\ stage \in {"compile", "parse", "begin"} => Idle
    /\ \A x \in DOMAIN values : values[x] \in Int64

EmissionInv ==
    /\ LogOn(log, Len(text))
    /\ stage = "dialect" => DialectOn(source.bare, walk, walker)

PipeInv ==
    /\ SourceRead
    /\ stage \in Stages /\ outcome \in Outcomes
    /\ MachineInv
    /\ EmissionInv

\* An interpreter that has nothing to do.
LEMMA IdleMachine ==
    ASSUME prog \in Program, stack = <<>>, status \in {"running", "ok", "err", "panic"},
           IsStore(store), ResultsOK
    PROVE  VMInv
  <1>1. StackOK(<<>>)
    <2>1. <<>> \in Seq({}) /\ Len(<<>>) = 0
      OBVIOUS
    <2> QED BY <2>1 DEF StackOK
  <1> QED BY <1>1 DEF VMInv

LEMMA RecordedIs ==
    ASSUME NEW fns \in Seq(AleoFunction)
    PROVE  Recorded(fns) \in Program
  <1>1. <<>> \in Seq(Int64)
    OBVIOUS
  <1> QED BY <1>1, MainAssumption DEF Recorded, Program

LEMMA MachineCompiles ==
    ASSUME PipeInv, CompileViaCli \/ CompileViaFallback
    PROVE  MachineInv'
  <1>1. UNCHANGED <<vmVars, values>> /\ stage = "compile" /\ stage' \in {"parse", "end"}
    BY DEF CompileViaCli, CompileViaFallback, Goto, End
  <1>2. VMInv'
    <2>1. UNCHANGED vars
      BY <1>1 DEF vars, vmVars
    <2> QED BY <2>1, VMStep DEF PipeInv, MachineInv
  <1>3. IsAleoText(aleo')
    <2>1. CASE CompileViaCli
      <3>1. aleo' = source.cli /\ IsSource(source)
        BY <2>1, SourcesAssumption DEF CompileViaCli, PipeInv, SourceRead
      <3> QED BY <3>1 DEF IsSource
    <2>2. CASE CompileViaFallback
      <3>1. aleo' = aleo \/ aleo' = GenerateAleo(text, leoFunctions)
        BY <2>2 DEF CompileViaFallback
      <3>2. IsAleoText(GenerateAleo(text, leoFunctions))
        <4>1. PICK src : src = TextOf(source)
          OBVIOUS
        <4>2. PICK fns : fns = leoFunctions
          OBVIOUS
        <4>3. source \in Sources /\ fns = ParseLeoFunctions(src) /\ text = src
          BY <4>1, <4>2 DEF PipeInv, SourceRead, text
        <4>4. IsAleoText(GenerateAleo(src, fns))
          BY <4>1, <4>3, FallbackText
        <4> QED BY <4>2, <4>3, <4>4
      <3> QED BY <3>1, <3>2 DEF PipeInv, MachineInv
    <2> QED BY <2>1, <2>2
  <1>4. Idle'
    BY <1>1 DEF PipeInv, MachineInv, Idle, vmVars
  <1> QED BY <1>1, <1>2, <1>3, <1>4 DEF PipeInv, MachineInv

LEMMA MachineParses ==
    ASSUME PipeInv, ParseAleo
    PROVE  MachineInv'
  <1>1. /\ prog' = Recorded(ParseAleoProgram(aleo)) /\ stage' = "begin" /\ stage = "parse"
        /\ UNCHANGED <<aleo, values, stack, store, results, status>>
    BY DEF ParseAleo, Goto
  <1>2. IsAleoText(aleo) /\ VMInv /\ Idle
    BY <1>1 DEF PipeInv, MachineInv
  <1>3. prog' \in Program
    BY <1>1, <1>2, TextParses, RecordedIs
  <1>4. StackOK(stack)'
    <2>1. <<>> \in Seq({}) /\ Len(<<>>) = 0
      OBVIOUS
    <2> QED BY <1>1, <1>2, <2>1 DEF StackOK, Idle
  <1>5. VMInv'
    BY <1>1, <1>2, <1>3, <1>4 DEF VMInv, ResultsOK
  <1> QED BY <1>1, <1>2, <1>5 DEF PipeInv, MachineInv, Idle

LEMMA MachineBegins ==
    ASSUME PipeInv, BeginExecution
    PROVE  MachineInv'
  <1>1. stage' = "execute" /\ stage = "begin" /\ UNCHANGED <<aleo, values, prog, store, results>>
    BY DEF BeginExecution, Goto
  <1>2. IsAleoText(aleo) /\ VMInv /\ Idle
    BY <1>1 DEF PipeInv, MachineInv
  <1>3. StackOK(stack') /\ status' \in {"running", "ok"}
    <2>1. CASE "main" \in Known
      <3> DEFINE a == Activate(0, FuncMap("main"), <<>>)
      <3>1. stack' = <<a>> /\ status' = "running"
        BY <1>2, <2>1 DEF BeginExecution, Idle
      <3>2. ActivationOK(a)
        <4>1. PICK vs : vs = <<>>
          OBVIOUS
        <4>2. Len(vs) \in Nat /\ \A k \in 1 .. Len(vs) : vs[k] \in Int64
          BY <4>1
        <4>3. prog \in Program
          BY <1>2 DEF VMInv
        <4>4. ActivationOK(Activate(0, FuncMap("main"), vs))
          BY <2>1, <4>2, <4>3, ActivateOK
        <4> QED BY <4>1, <4>4
      <3> HIDE DEF a
      <3>3. PICK s : s = <<a>>
        OBVIOUS
      <3>4. s \in Seq({a}) /\ Len(s) = 1 /\ s[1] = a
        BY <3>3
      <3>5. StackOK(s)
        BY <3>2, <3>4 DEF StackOK
      <3> QED BY <3>1, <3>3, <3>5
    <2>2. CASE "main" \notin Known
      BY <1>2, <2>2 DEF BeginExecution, VMInv, Idle
    <2> QED BY <2>1, <2>2
  <1>4. VMInv'
    BY <1>1, <1>2, <1>3, VMKept DEF VMInv, ResultsOK
  <1> QED BY <1>1, <1>2, <1>4 DEF PipeInv, MachineInv

LEMMA MachineExecutes ==
    ASSUME PipeInv, Execution
    PROVE  MachineInv'
  <1>1. stage = "execute" /\ UNCHANGED <<stage, aleo, values>> /\ Execute
    BY DEF Execution, pipeVars
  <1>2. VMInv'
    BY <1>1, VMStep DEF PipeInv, MachineInv, Next
  <1> QED BY <1>1, <1>2 DEF PipeInv, MachineInv

LEMMA MachineMaps ==
    ASSUME PipeInv, MapVariables
    PROVE  MachineInv'
  <1>1. /\ values' = MapRegisters(leoFunctions, prog.fns, results) /\ stage' = "emit"
        /\ UNCHANGED <<aleo, vmVars>>
    BY DEF MapVariables, Goto
  <1>2. VMInv'
    <2>1. UNCHANGED vars
      BY <1>1 DEF vars, vmVars
    <2> QED BY <2>1, VMStep DEF PipeInv, MachineInv
  <1>3. \A x \in DOMAIN values' : values'[x] \in Int64
    <2>1. PICK leo : leo = leoFunctions
      OBVIOUS
    <2>2. PICK src : src = TextOf(source)
      OBVIOUS
    <2>3. source \in Sources /\ leo = ParseLeoFunctions(src)
      BY <2>1, <2>2 DEF PipeInv, SourceRead, text
    <2>4. Len(leo) \in Nat
      BY <2>2, <2>3, TextIs, FunctionsAre
    <2>5. \A k \in 1 .. Len(leo) : Len(leo[k].bindings) \in Nat
      BY <2>2, <2>3, FallbackReads
    <2>6. \A x \in DOMAIN results : RegistersOK(results[x].registers)
      BY DEF PipeInv, MachineInv, VMInv, ResultsOK
    <2>7. PICK fns : fns = prog.fns
      OBVIOUS
    <2>8. PICK vs : vs = MapRegisters(leo, fns, results)
      OBVIOUS
    <2>9. \A x \in DOMAIN vs : vs[x] \in Int64
      BY <2>4, <2>5, <2>6, <2>8, MappedType
    <2> QED BY <1>1, <2>1, <2>7, <2>8, <2>9
  <1> QED BY <1>1, <1>2, <1>3 DEF PipeInv, MachineInv

LEMMA MachineKept ==
    ASSUME PipeInv, UNCHANGED <<aleo, values, vmVars>>,
           stage \notin {"compile", "parse", "begin"}, stage' \notin {"compile", "parse", "begin"}
    PROVE  MachineInv'
  <1>1. UNCHANGED vars
    BY DEF vars, vmVars
  <1>2. VMInv'
    BY <1>1, VMStep DEF PipeInv, MachineInv
  <1> QED BY <1>2 DEF PipeInv, MachineInv

\* The lines of a bare program are the lines of the text.
LEMMA BareLines ==
    ASSUME SourceRead
    PROVE  IsAleoText(source.bare) /\ (source.bare # <<>> => Len(text) = Len(source.bare))
  BY SourcesAssumption, BareText DEF SourceRead, IsSource, text

LEMMA DialectBegins ==
    ASSUME PipeInv, ChooseDialect
    PROVE  EmissionInv'
  <1>1. PICK lines : lines = source.bare
    OBVIOUS
  <1>2. PICK w : w = DialectFunctions(lines)
    OBVIOUS
  <1>3. IsAleoText(lines) /\ w \in Seq(1 .. Len(lines))
    BY <1>1, <1>2, BareLines, DialectFunctionsOn DEF PipeInv
  <1>4. DialectOn(lines, w, StartAt(w))
    BY <1>3, StartsOn
  <1>5. walk' = w /\ walker' = StartAt(w) /\ log' = log /\ UNCHANGED source
    BY <1>1, <1>2 DEF ChooseDialect, srcVars
  <1> QED BY <1>1, <1>4, <1>5 DEF PipeInv, EmissionInv, text

LEMMA DialectWalks ==
    ASSUME PipeInv, WalkDialectLine
    PROVE  EmissionInv'
  <1>1. PICK lines : lines = source.bare
    OBVIOUS
  <1>2. PICK w : w = walk
    OBVIOUS
  <1>3. PICK z : z = walker
    OBVIOUS
  <1>4. DialectOn(lines, w, z) /\ w # <<>> /\ z.next <= DialectLast(lines, Head(w))
    BY <1>1, <1>2, <1>3 DEF PipeInv, EmissionInv, WalkDialectLine
  <1>5. PICK n : n = Len(lines)
    OBVIOUS
  <1>6. /\ n \in Nat /\ w \in Seq(1 .. n) /\ WalkerOn(z, n) /\ z.next \in Nat /\ Head(w) < z.next
        /\ lines \in Seq(Range(lines))
    BY <1>4, <1>5 DEF DialectOn, IsAleoText
  <1>7. PICK i : i = Head(w)
    OBVIOUS
  <1>8. i \in 1 .. n
    BY <1>4, <1>6, <1>7
  <1>9. PICK k \in Nat : k = z.next
    BY <1>6
  <1>10. k \in 1 .. n
    <2>1. i \in 1 .. Len(lines)
      BY <1>5, <1>8
    <2>2. PICK S : lines \in Seq(S)
      BY <1>6
    <2>3. PICK m : m = Len(BlockLines(lines, i, {"function"}))
      OBVIOUS
    <2>4. i + m <= Len(lines) /\ m \in Nat
      BY <2>1, <2>2, <2>3, BlockIsRun
    <2>5. DialectLast(lines, i) = i + m
      BY <2>3 DEF DialectLast
    <2> QED BY <1>4, <1>5, <1>6, <1>7, <1>8, <1>9, <2>4, <2>5
  <1>11. PICK y : y = Walked(z, lines, k)
    OBVIOUS
  <1>12. WalkerOn(y, n) /\ y.next = z.next
    BY <1>6, <1>10, <1>11, WalkedOn
  <1>13. walker' = [y EXCEPT !.next = @ + 1] /\ walk' = w /\ log' = log /\ UNCHANGED source
    BY <1>1, <1>2, <1>3, <1>9, <1>11 DEF WalkDialectLine, srcVars
  <1>14. PICK x : x = [y EXCEPT !.next = @ + 1]
    OBVIOUS
  <1>15. /\ DOMAIN x = DOMAIN y /\ x.inputs = y.inputs /\ x.shown = y.shown /\ x.output = y.output
         /\ x.next = k + 1
    BY <1>9, <1>12, <1>14 DEF WalkerOn, WalkerFields
  <1>16. WalkerOn(x, n)
    BY <1>12, <1>15 DEF WalkerOn
  <1>17. DialectOn(lines, w, x)
    BY <1>4, <1>5, <1>6, <1>7, <1>8, <1>9, <1>15, <1>16 DEF DialectOn
  <1> QED BY <1>1, <1>13, <1>14, <1>17 DEF PipeInv, EmissionInv, text

LEMMA DialectEmits ==
    ASSUME PipeInv, EmitDialectFunction
    PROVE  EmissionInv'
  <1>1. PICK lines : lines = source.bare
    OBVIOUS
  <1>2. PICK w : w = walk
    OBVIOUS
  <1>3. PICK z : z = walker
    OBVIOUS
  <1>4. DialectOn(lines, w, z) /\ w # <<>>
    BY <1>1, <1>2, <1>3 DEF PipeInv, EmissionInv, EmitDialectFunction
  <1>5. PICK n : n = Len(lines)
    OBVIOUS
  <1>6. n \in Nat /\ w \in Seq(1 .. n) /\ WalkerOn(z, n) /\ IsAleoText(lines)
    BY <1>4, <1>5 DEF DialectOn, IsAleoText
  <1>7. PICK i : i = Head(w)
    OBVIOUS
  <1>8. i \in 1 .. n
    BY <1>4, <1>6, <1>7
  <1>9. n = Len(text)
    <2>1. lines # <<>>
      <3> SUFFICES ASSUME lines = <<>> PROVE FALSE
        OBVIOUS
      <3>1. n = 0
        BY <1>5
      <3> QED BY <1>8, <3>1
    <2> QED BY <1>1, <1>5, <2>1, BareLines DEF PipeInv
  <1>10. PICK es : es = DialectEvents(lines, i, z)
    OBVIOUS
  <1>11. LogOn(es, n)
    BY <1>6, <1>8, <1>10, DialectEventsOn
  <1>12. LogOn(log \o es, n)
    BY <1>9, <1>11, LogsJoin DEF PipeInv, EmissionInv
  <1>13. /\ log' = log \o es /\ walk' = Tail(w) /\ walker' = StartAt(walk') /\ UNCHANGED source
    BY <1>1, <1>2, <1>3, <1>7, <1>10 DEF EmitDialectFunction, srcVars
  <1>14. PICK t : t = Tail(w)
    OBVIOUS
  <1>15. t \in Seq(1 .. Len(lines))
    BY <1>4, <1>5, <1>6, <1>14
  <1>16. DialectOn(lines, t, StartAt(t))
    BY <1>6, <1>15, StartsOn
  <1>17. text' = text
    BY <1>13 DEF text
  <1> QED BY <1>1, <1>9, <1>12, <1>13, <1>14, <1>16, <1>17 DEF EmissionInv

\* The steps of a function that the legacy walk enters.
LEMMA LegacyStepsOn ==
    ASSUME SourceRead, NEW m \in LegacyFunctions
    PROVE  LogOn(LegacySteps(m), Len(text))
  <1>1. PICK f : f = leoFunctions[m]
    OBVIOUS
  <1>2. PICK ts : ts = LegacySteps(m)
    OBVIOUS
  <1>3. /\ ts \in Seq(StepEvents) /\ Len(ts) \in Nat
        /\ \A k \in 1 .. Len(ts) : ts[k].line \in 1 .. Len(text)
    BY <1>1, <1>2, LegacyStepsAre
  <1>4. \E S : ts \in Seq(S)
    BY <1>3
  <1> QED BY <1>2, <1>3, <1>4 DEF LogOn

LEMMA LegacyEmits ==
    ASSUME PipeInv, ChooseLegacy \/ LegacyCall \/ LegacyReturn
    PROVE  EmissionInv'
  <1>1. SourceRead /\ LogOn(log, Len(text)) /\ text' = text
    BY DEF PipeInv, EmissionInv, ChooseLegacy, LegacyCall, LegacyReturn, srcVars, text
  <1>2. stage' # "dialect"
    BY DEF ChooseLegacy, LegacyCall, LegacyReturn, Goto, End
  <1>3. CASE ChooseLegacy
    <2>1. log' = log \/ \E n \in LegacyFunctions : log' = LegacySteps(n)
      BY <1>3, Zenon DEF ChooseLegacy
    <2>2. LogOn(log', Len(text))
      BY <1>1, <2>1, LegacyStepsOn
    <2> QED BY <1>1, <1>2, <2>2 DEF EmissionInv
  <1>4. CASE LegacyCall
    <2>1. PICK x : x = Last(walk).fn
      OBVIOUS
    <2>2. \E m \in ReturnCalls(x) : \E name, k, args :
              log' = log \o <<CallOf(name, k, args)>> \o LegacySteps(m)
      BY <1>4, <2>1, Zenon DEF LegacyCall
    <2>3. PICK m \in ReturnCalls(x) : \E name, k, args :
              log' = log \o <<CallOf(name, k, args)>> \o LegacySteps(m)
      BY <2>2
    <2>4. m \in LegacyFunctions
      BY <2>3 DEF ReturnCalls
    <2>5. PICK name, k, args : log' = log \o <<CallOf(name, k, args)>> \o LegacySteps(m)
      BY <2>3
    <2>6. PICK c : c = CallOf(name, k, args)
      OBVIOUS
    <2>7. LogOn(<<c>>, Len(text))
      BY <2>6, EntriesAre, OneEntry
    <2>8. LogOn(log \o <<c>>, Len(text))
      BY <1>1, <2>7, LogsJoin
    <2>9. LogOn(log \o <<c>> \o LegacySteps(m), Len(text))
      BY <1>1, <2>4, <2>8, LegacyStepsOn, LogsJoin
    <2> QED BY <1>1, <1>2, <2>5, <2>6, <2>9 DEF EmissionInv
  <1>5. CASE LegacyReturn
    <2>1. log' = log \/ log' = log \o <<Returns("NONE_VALUE")>>
      BY <1>5 DEF LegacyReturn, LegacyReturned
    <2>2. LogOn(<<Returns("NONE_VALUE")>>, Len(text))
      BY EntriesAre, OneEntry
    <2>3. LogOn(log', Len(text))
      BY <1>1, <2>1, <2>2, LogsJoin
    <2> QED BY <1>1, <1>2, <2>3 DEF EmissionInv
  <1> QED BY <1>3, <1>4, <1>5

LEMMA PipeStep == PipeInv /\ [PipelineNext]_allVars => PipeInv'
  <1> SUFFICES ASSUME PipeInv, [PipelineNext]_allVars PROVE PipeInv'
    OBVIOUS
  <1>1. CASE UNCHANGED allVars
    <2>1. VMInv'
      <3>1. UNCHANGED vars
        BY <1>1 DEF allVars, vars, vmVars
      <3> QED BY <3>1, VMStep DEF PipeInv, MachineInv
    <2> QED BY <1>1, <2>1 DEF PipeInv, MachineInv, EmissionInv, SourceRead, Idle, allVars, pipeVars, srcVars,
                              vmVars, text
  <1>2. CASE Pipeline
    <2>1. UNCHANGED srcVars
      BY <1>2 DEF Pipeline, CompileViaCli, CompileViaFallback, ParseAleo, BeginExecution, Execution,
                  Executed, MapVariables, ChooseDialect, ChooseStructured, ChooseLegacy,
                  WalkDialectLine, EmitDialectFunction, DialectEmitted, LegacyCall, LegacyReturn,
                  LegacyEmitted, pipeVars
    <2>2. SourceRead' /\ text' = text /\ source' = source
      BY <2>1 DEF PipeInv, SourceRead, srcVars, text
    <2>3. stage' \in Stages /\ outcome' \in Outcomes
      BY <1>2 DEF PipeInv, Stages, Outcomes, Pipeline, CompileViaCli, CompileViaFallback, ParseAleo,
                  BeginExecution, Execution, Executed, MapVariables, ChooseDialect, ChooseStructured,
                  ChooseLegacy, WalkDialectLine, EmitDialectFunction, DialectEmitted, LegacyCall,
                  LegacyReturn, LegacyEmitted, Goto, End, pipeVars
    <2>4. MachineInv'
      <3>1. CASE CompileViaCli \/ CompileViaFallback \/ ParseAleo \/ BeginExecution \/ Execution
                 \/ MapVariables
        BY <3>1, MachineCompiles, MachineParses, MachineBegins, MachineExecutes, MachineMaps
      <3>2. CASE ~(CompileViaCli \/ CompileViaFallback \/ ParseAleo \/ BeginExecution \/ Execution
                   \/ MapVariables)
        <4>1. UNCHANGED <<aleo, values, vmVars>> /\ stage \notin {"compile", "parse", "begin"}
              /\ stage' \notin {"compile", "parse", "begin"}
          BY <1>2, <3>2 DEF Pipeline, Executed, ChooseDialect, ChooseStructured, ChooseLegacy,
                            WalkDialectLine, EmitDialectFunction, DialectEmitted, LegacyCall,
                            LegacyReturn, LegacyEmitted, Goto, End
        <4> QED BY <4>1, MachineKept
      <3> QED BY <3>1, <3>2
    <2>5. EmissionInv'
      <3>1. CASE ChooseDialect \/ WalkDialectLine \/ EmitDialectFunction \/ ChooseLegacy \/ LegacyCall
                 \/ LegacyReturn
        BY <3>1, DialectBegins, DialectWalks, DialectEmits, LegacyEmits
      <3>2. CASE ~(ChooseDialect \/ WalkDialectLine \/ EmitDialectFunction \/ ChooseLegacy \/ LegacyCall
                   \/ LegacyReturn)
        <4>1. log' = log /\ stage' # "dialect"
          BY <1>2, <3>2 DEF Pipeline, CompileViaCli, CompileViaFallback, ParseAleo, BeginExecution,
                            Execution, Executed, MapVariables, ChooseStructured, DialectEmitted,
                            LegacyEmitted, Goto, End, pipeVars
        <4> QED BY <2>2, <4>1 DEF PipeInv, EmissionInv
      <3> QED BY <3>1, <3>2
    <2> QED BY <2>2, <2>3, <2>4, <2>5 DEF PipeInv
  <1>3. CASE Ended
    BY <1>1, <1>3 DEF Ended
  <1> QED BY <1>1, <1>2, <1>3 DEF PipelineNext

LEMMA PipeStarts == PipelineInit => PipeInv
  <1> SUFFICES ASSUME PipelineInit PROVE PipeInv
    OBVIOUS
  <1>1. SourceRead /\ stage = "compile" /\ outcome = "running"
    BY DEF PipelineInit, SourceRead
  <1>2. prog \in Program
    <2>1. <<>> \in Seq(AleoFunction)
      OBVIOUS
    <2> QED BY <2>1, RecordedIs DEF PipelineInit
  <1>3. IsStore(store) /\ ResultsOK
    BY DEF PipelineInit, IsStore, ResultsOK
  <1>4. VMInv
    BY <1>2, <1>3, IdleMachine DEF PipelineInit
  <1>5. MachineInv
    BY <1>4, NoLineText DEF PipelineInit, MachineInv, Idle
  <1>6. EmissionInv
    BY <1>1, NoEntry DEF PipelineInit, EmissionInv
  <1> QED BY <1>1, <1>5, <1>6 DEF PipeInv, Stages, Outcomes

\* The pipeline keeps the types: the interpreter runs whatever text it is given,
\* the CLI's or the fallback's, with registers, stack and stores of the right
\* kinds, every variable read back is an i64, and every step that is written is
\* on a line of the source (trace_program, tracer.rs).
THEOREM PipelineTypeCorrect == PipelineSpec => []PipelineTypeOK
  <1>1. PipeInv => PipelineTypeOK
    <2> SUFFICES ASSUME PipeInv PROVE PipelineTypeOK
      OBVIOUS
    <2>1. TypeOK
      BY DEF PipeInv, MachineInv, VMInv, TypeOK, StackOK, ActivationOK, CodeOf, ResultsOK
    <2> QED BY <2>1 DEF PipeInv, MachineInv, EmissionInv, LogOn, Outcomes, PipelineTypeOK
  <1>2. PipelineInit => PipeInv
    BY PipeStarts
  <1>3. PipeInv /\ [PipelineNext]_allVars => PipeInv'
    BY PipeStep
  <1> QED BY <1>1, <1>2, <1>3, PTL DEF PipelineSpec

\* g holds the first i of the sequences put together, for every i.
Joins(g, S, seqs, n) ==
    /\ g \in [0 .. n -> Seq(S)] /\ g[0] = <<>>
    /\ \A i \in 1 .. n : g[i] = g[i - 1] \o seqs[i]

\* Sequences are put together one by one.
LEMMA FlattenSteps ==
    ASSUME NEW S, NEW seqs \in Seq(Seq(S)), NEW n \in Nat, n = Len(seqs)
    PROVE  \E g : Joins(g, S, seqs, n) /\ g[n] = FlattenSeq(seqs)
  <1>2. CASE n = 0
    <2>1. FlattenSeq(seqs) = seqs
      BY <1>2, Zenon DEF FlattenSeq
    <2>2. seqs = <<>>
      BY <1>2, EmptySeq
    <2>3. PICK g : g = [i \in 0 .. 0 |-> <<>>]
      OBVIOUS
    <2>4. <<>> \in Seq(S)
      OBVIOUS
    <2>5. g \in [0 .. 0 -> Seq(S)] /\ g[0] = <<>>
      BY <2>3, <2>4
    <2> QED BY <1>2, <2>1, <2>2, <2>5 DEF Joins
  <1>3. CASE n # 0
    <2>1. PICK Z : Z = Seq(S)
      OBVIOUS
    <2>2. PICK step : step = [p \in Nat \X Z |-> IF p[1] \in 1 .. n THEN p[2] \o seqs[p[1]] ELSE p[2]]
      OBVIOUS
    <2>3. \A k \in 1 .. n : seqs[k] \in Z
      BY <2>1
    <2>4. ASSUME NEW k \in Nat, NEW x \in Z PROVE step[<<k, x>>] \in Z
      <3>1. CASE k \in 1 .. n
        <4>1. seqs[k] \in Seq(S) /\ x \in Seq(S)
          BY <2>1, <2>3, <3>1
        <4>2. x \o seqs[k] \in Seq(S)
          BY <4>1
        <4> QED BY <2>1, <2>2, <3>1, <4>2
      <3>2. CASE k \notin 1 .. n
        BY <2>2, <3>2
      <3> QED BY <3>1, <3>2
    <2>5. <<>> \in Z
      BY <2>1
    <2>6. PICK u : Recurs(u, Z, <<>>, step, n)
      BY <2>4, <2>5, Recursion
    <2>7. u \in [0 .. n -> Z] /\ u[0] = <<>> /\ \A k \in 1 .. n : u[k] = step[<<k, u[k - 1]>>]
      BY <2>6 DEF Recurs
    <2>20. ASSUME NEW i \in 1 .. n PROVE u[i] = u[i - 1] \o seqs[i]
      <3>2. i - 1 \in 0 .. n /\ i \in Nat
        OBVIOUS
      <3>1. i \in Nat /\ u[i - 1] \in Z
        BY <2>7, <3>2
      <3> QED BY <2>2, <2>7, <3>1
    <2>8. PICK v : v = [i \in 1 .. n |-> u[i]]
      OBVIOUS
    <2>9. ASSUME NEW i \in 1 .. n PROVE v[i] = IF i = 1 THEN seqs[i] ELSE v[i - 1] \o seqs[i]
      <3>2. u[i] = u[i - 1] \o seqs[i]
        BY <2>20
      <3>3. CASE i = 1
        <4>1. seqs[1] \in Seq(S)
          BY <2>1, <2>3, <3>3
        <4>2. <<>> \o seqs[1] = seqs[1]
          BY <4>1
        <4>3. i - 1 = 0 /\ v[i] = u[i]
          BY <2>8, <3>3
        <4>4. u[i] = <<>> \o seqs[i]
          BY <2>7, <3>2, <4>3
        <4>5. v[i] = seqs[i]
          BY <3>3, <4>2, <4>3, <4>4
        <4> QED BY <3>3, <4>5
      <3>4. CASE i # 1
        <4>1. i - 1 \in 1 .. n
          BY <3>4
        <4> QED BY <2>8, <3>2, <3>4, <4>1
      <3> QED BY <3>3, <3>4
    <2>10. v = [i \in 1 .. n |-> v[i]]
      BY <2>8
    <2>11. FlatUpTo(v, seqs, n)
      BY <2>9, <2>10 DEF FlatUpTo
    <2> DEFINE P(f) == f = [i \in 1 .. Len(seqs) |-> IF i = 1 THEN seqs[i] ELSE f[i - 1] \o seqs[i]]
    <2>12. \A f : P(f) <=> FlatUpTo(f, seqs, n)
      BY DEF FlatUpTo
    <2>13. FlattenSeq(seqs) = (CHOOSE f : P(f))[n]
      BY <1>3 DEF FlattenSeq
    <2>14. PICK f : f = CHOOSE g : P(g)
      OBVIOUS
    <2>15. FlatUpTo(f, seqs, n)
      <3>1. P(f)
        <4>1. \E g : P(g)
          BY <2>11, <2>12
        <4> HIDE DEF P
        <4> QED BY <2>14, <4>1
      <3> HIDE DEF P
      <3> QED BY <2>12, <3>1
    <2>16. \A i \in 1 .. n : f[i] = IF i = 1 THEN seqs[i] ELSE f[i - 1] \o seqs[i]
      BY <2>15 DEF FlatUpTo
    <2> DEFINE T == {k \in Nat : k + 1 <= n => f[k + 1] = v[k + 1]}
    <2>17. 0 \in T
      BY <2>9, <2>16
    <2>18. ASSUME NEW k \in Nat, k \in T PROVE k + 1 \in T
      <3> SUFFICES ASSUME (k + 1) + 1 <= n PROVE f[(k + 1) + 1] = v[(k + 1) + 1]
        OBVIOUS
      <3>1. (k + 1) + 1 \in 1 .. n /\ (k + 1) + 1 # 1 /\ ((k + 1) + 1) - 1 = k + 1 /\ k + 1 <= n
        OBVIOUS
      <3>2. f[k + 1] = v[k + 1]
        BY <2>18, <3>1
      <3>3. f[(k + 1) + 1] = f[k + 1] \o seqs[(k + 1) + 1]
        BY <2>16, <3>1
      <3>4. v[(k + 1) + 1] = v[k + 1] \o seqs[(k + 1) + 1]
        BY <2>9, <3>1
      <3> QED BY <3>2, <3>3, <3>4
    <2>19. Nat \subseteq T
      <3> HIDE DEF T
      <3> QED BY <2>17, <2>18, NatSetInduction
    <2>25. n - 1 \in Nat /\ (n - 1) + 1 = n
      BY <1>3
    <2>21. n - 1 \in T
      <3> HIDE DEF T
      <3> QED BY <2>19, <2>25
    <2>22. f[n] = u[n]
      BY <2>8, <2>21, <2>25, <1>3
    <2> HIDE DEF P, T
    <2>23. Joins(u, S, seqs, n)
      BY <2>1, <2>7, <2>20 DEF Joins
    <2>24. u[n] = FlattenSeq(seqs)
      BY <2>13, <2>14, <2>22
    <2> QED BY <2>23, <2>24
  <1> QED BY <1>2, <1>3

\* What is put together first stays where it is.
LEMMA JoinsKeep ==
    ASSUME NEW S, NEW seqs \in Seq(Seq(S)), NEW n \in Nat, n = Len(seqs), NEW g, Joins(g, S, seqs, n),
           NEW i \in 0 .. n
    PROVE  /\ Len(g[i]) \in Nat /\ Len(g[n]) \in Nat /\ Len(g[i]) <= Len(g[n])
           /\ \A k \in 1 .. Len(g[i]) : g[n][k] = g[i][k]
  <1>1. /\ \A m \in 0 .. n : g[m] \in Seq(S)
        /\ \A m \in 1 .. n : g[m] = g[m - 1] \o seqs[m] /\ seqs[m] \in Seq(S)
    <2>1. \A m \in 1 .. n : seqs[m] \in Seq(S)
      OBVIOUS
    <2>2. /\ \A m \in 0 .. n : g[m] \in Seq(S)
          /\ \A m \in 1 .. n : g[m] = g[m - 1] \o seqs[m]
      BY DEF Joins
    <2> QED BY <2>1, <2>2
  <1> DEFINE Kept(m) == /\ Len(g[m]) \in Nat /\ Len(g[i]) <= Len(g[m])
                        /\ \A k \in 1 .. Len(g[i]) : g[m][k] = g[i][k]
             T == {m \in Nat : i + m <= n => Kept(i + m)}
  <1>2. 0 \in T
    <2>1. g[i] \in Seq(S) /\ i + 0 = i
      BY <1>1
    <2>2. Len(g[i]) \in Nat
      BY <2>1
    <2>3. Kept(i)
      BY <2>2
    <2> HIDE DEF Kept
    <2> QED BY <2>1, <2>3
  <1>3. ASSUME NEW m \in Nat, m \in T PROVE m + 1 \in T
    <2> SUFFICES ASSUME i + (m + 1) <= n PROVE Kept(i + (m + 1))
      OBVIOUS
    <2>1. PICK a : a = i + m
      OBVIOUS
    <2>2. a \in 0 .. n /\ a + 1 \in 1 .. n /\ (a + 1) - 1 = a /\ a + 1 = i + (m + 1)
      BY <2>1
    <2>3. Kept(a)
      BY <1>3, <2>1, <2>2
    <2>4. g[a + 1] = g[a] \o seqs[a + 1] /\ g[a] \in Seq(S) /\ seqs[a + 1] \in Seq(S)
      BY <1>1, <2>2
    <2>5. PICK x, y : x = g[a] /\ y = seqs[a + 1]
      OBVIOUS
    <2>10. x \in Seq(S) /\ y \in Seq(S)
      BY <2>4, <2>5
    <2>6. Len(x \o y) = Len(x) + Len(y) /\ Len(x) \in Nat /\ Len(y) \in Nat /\ \A k \in 1 .. Len(x) : (x \o y)[k] = x[k]
      BY <2>10, ConcatElement
    <2>7. g[a + 1] = x \o y
      BY <2>4, <2>5
    <2>8. Len(g[i]) \in Nat
      BY <1>1
    <2>9. Kept(a + 1)
      <3>1. \A k \in 1 .. Len(g[i]) : k \in 1 .. Len(x)
        BY <2>3, <2>5, <2>6, <2>8
      <3>2. \A k \in 1 .. Len(g[i]) : g[a + 1][k] = g[i][k]
        BY <2>3, <2>5, <2>6, <2>7, <3>1
      <3>3. Len(g[a + 1]) \in Nat /\ Len(g[i]) <= Len(g[a + 1])
        <4>1. Len(g[a + 1]) = Len(x) + Len(y) /\ Len(g[i]) <= Len(x)
          BY <2>3, <2>5, <2>6, <2>7
        <4> HIDE DEF Kept
        <4> QED BY <2>6, <2>8, <4>1
      <3> QED BY <3>2, <3>3
    <2> QED BY <2>2, <2>9
  <1>4. Nat \subseteq T
    <2> HIDE DEF T
    <2> QED BY <1>2, <1>3, NatSetInduction
  <1>5. n - i \in Nat /\ i + (n - i) = n
    OBVIOUS
  <1>6. Kept(n)
    <2>1. n - i \in T
      <3> HIDE DEF T
      <3> QED BY <1>4, <1>5
    <2>2. n <= n
      OBVIOUS
    <2> HIDE DEF Kept
    <2> QED BY <1>5, <2>1, <2>2
  <1>7. Len(g[i]) \in Nat
    BY <1>1
  <1> QED BY <1>6, <1>7

\* Every place belongs to one of the sequences.
LEMMA JoinsCover ==
    ASSUME NEW S, NEW seqs \in Seq(Seq(S)), NEW n \in Nat, n = Len(seqs), NEW g, Joins(g, S, seqs, n)
    PROVE  \A q \in 1 .. Len(g[n]) : \E i \in 1 .. n : q > Len(g[i - 1]) /\ q <= Len(g[i])
  <1>1. /\ \A m \in 0 .. n : g[m] \in Seq(S)
        /\ g[0] = <<>>
    BY DEF Joins
  <1> DEFINE Covered(m) == \A q \in 1 .. Len(g[m]) : \E i \in 1 .. n : q > Len(g[i - 1]) /\ q <= Len(g[i])
             T == {m \in Nat : m <= n => Covered(m)}
  <1>2. 0 \in T
    <2>1. Len(g[0]) = 0
      BY <1>1
    <2> QED BY <2>1
  <1>3. ASSUME NEW m \in Nat, m \in T PROVE m + 1 \in T
    <2> SUFFICES ASSUME m + 1 <= n, NEW q \in 1 .. Len(g[m + 1])
                 PROVE  \E i \in 1 .. n : q > Len(g[i - 1]) /\ q <= Len(g[i])
      OBVIOUS
    <2>1. m + 1 \in 1 .. n /\ (m + 1) - 1 = m /\ m \in 0 .. n /\ m + 1 \in 0 .. n
      OBVIOUS
    <2>2. Len(g[m]) \in Nat /\ Len(g[m + 1]) \in Nat
      BY <1>1, <2>1
    <2>3. CASE q <= Len(g[m])
      <3>1. Covered(m)
        BY <1>3
      <3>2. q \in 1 .. Len(g[m])
        BY <2>2, <2>3
      <3> QED BY <3>1, <3>2
    <2>4. CASE ~(q <= Len(g[m]))
      <3>1. q > Len(g[m]) /\ q <= Len(g[m + 1])
        BY <2>2, <2>4
      <3> QED BY <2>1, <3>1
    <2> QED BY <2>3, <2>4
  <1>4. Nat \subseteq T
    <2> HIDE DEF T
    <2> QED BY <1>2, <1>3, NatSetInduction
  <1>5. n \in T
    BY <1>4
  <1> QED BY <1>5

\* Element j of sequence i is at off[i - 1] + j of f, and f has no others.
Placed(f, off, seqs, n) ==
    /\ off \in [0 .. n -> Nat] /\ off[0] = 0 /\ Len(f) = off[n]
    /\ \A i \in 1 .. n :
          /\ off[i] = off[i - 1] + Len(seqs[i]) /\ off[i] <= off[n]
          /\ \A j \in 1 .. Len(seqs[i]) : f[off[i - 1] + j] = seqs[i][j]
    /\ \A q \in 1 .. Len(f) : \E i \in 1 .. n : \E j \in 1 .. Len(seqs[i]) : q = off[i - 1] + j

LEMMA FlattenPlaces ==
    ASSUME NEW S, NEW seqs \in Seq(Seq(S)), NEW n \in Nat, n = Len(seqs)
    PROVE  \E off : Placed(FlattenSeq(seqs), off, seqs, n)
  <1>1. PICK g : Joins(g, S, seqs, n) /\ g[n] = FlattenSeq(seqs)
    BY FlattenSteps
  <1>2. PICK off : off = [i \in 0 .. n |-> Len(g[i])]
    OBVIOUS
  <1>3. PICK f : f = g[n]
    OBVIOUS
  <1>4. /\ \A m \in 0 .. n : g[m] \in Seq(S)
        /\ \A m \in 1 .. n : g[m] = g[m - 1] \o seqs[m] /\ seqs[m] \in Seq(S)
        /\ g[0] = <<>>
    <2>1. \A m \in 1 .. n : seqs[m] \in Seq(S)
      OBVIOUS
    <2>2. /\ \A m \in 0 .. n : g[m] \in Seq(S)
          /\ \A m \in 1 .. n : g[m] = g[m - 1] \o seqs[m]
          /\ g[0] = <<>>
      BY <1>1 DEF Joins
    <2> QED BY <2>1, <2>2
  <1>5. off \in [0 .. n -> Nat] /\ off[0] = 0 /\ Len(f) = off[n]
    BY <1>2, <1>3, <1>4
  <1>6. ASSUME NEW i \in 1 .. n
        PROVE  /\ off[i] = off[i - 1] + Len(seqs[i]) /\ off[i] <= off[n]
               /\ \A j \in 1 .. Len(seqs[i]) : f[off[i - 1] + j] = seqs[i][j]
    <2>1. i - 1 \in 0 .. n /\ i \in 0 .. n
      OBVIOUS
    <2>2. PICK x, y : x = g[i - 1] /\ y = seqs[i]
      OBVIOUS
    <2>3. x \in Seq(S) /\ y \in Seq(S) /\ g[i] = x \o y
      BY <1>4, <2>1, <2>2
    <2>4. Len(x \o y) = Len(x) + Len(y) /\ Len(x) \in Nat /\ Len(y) \in Nat
      BY <2>3
    <2>5. \A j \in 1 .. Len(y) : (x \o y)[Len(x) + j] = y[j]
      BY <2>3
    <2>6. Len(g[i]) <= Len(g[n]) /\ \A k \in 1 .. Len(g[i]) : g[n][k] = g[i][k]
      BY <1>1, <2>1, JoinsKeep
    <2>7. off[i] = Len(g[i]) /\ off[i - 1] = Len(x) /\ off[n] = Len(g[n])
      BY <1>2, <2>1, <2>2
    <2>8. ASSUME NEW j \in 1 .. Len(y) PROVE f[off[i - 1] + j] = y[j]
      <3>1. Len(x) + j \in 1 .. Len(g[i])
        BY <2>3, <2>4
      <3> QED BY <1>3, <2>3, <2>5, <2>6, <2>7, <3>1
    <2> QED BY <2>2, <2>3, <2>4, <2>6, <2>7, <2>8
  <1>7. ASSUME NEW q \in 1 .. Len(f) PROVE \E i \in 1 .. n : \E j \in 1 .. Len(seqs[i]) : q = off[i - 1] + j
    <2>1. PICK i \in 1 .. n : q > Len(g[i - 1]) /\ q <= Len(g[i])
      BY <1>1, <1>3, JoinsCover
    <2>2. i - 1 \in 0 .. n /\ i \in 0 .. n
      OBVIOUS
    <2>3. off[i] = off[i - 1] + Len(seqs[i]) /\ off[i] = Len(g[i]) /\ off[i - 1] = Len(g[i - 1])
      BY <1>2, <1>6, <2>2
    <2>4. PICK a, b : a = off[i - 1] /\ b = Len(seqs[i])
      OBVIOUS
    <2>5. a \in Nat /\ b \in Nat /\ q \in Int
      <3>1. seqs[i] \in Seq(S)
        BY <1>4
      <3> QED BY <1>5, <2>2, <2>4, <3>1
    <2>6. q > a /\ q <= a + b
      BY <2>1, <2>3, <2>4
    <2>7. q - a \in 1 .. b /\ q = a + (q - a)
      BY <2>5, <2>6
    <2> QED BY <2>4, <2>7
  <1>8. Placed(f, off, seqs, n)
    BY <1>5, <1>6, <1>7 DEF Placed
  <1> QED BY <1>1, <1>3, <1>8

\* Sequences of one element each.
LEMMA FlattenSingles ==
    ASSUME NEW n \in Nat, NEW seqs, NEW f, NEW off, Placed(f, off, seqs, n),
           \A i \in 1 .. n : Len(seqs[i]) = 1
    PROVE  Len(f) = n /\ \A i \in 1 .. n : f[i] = seqs[i][1]
  <1>1. /\ off[0] = 0 /\ Len(f) = off[n]
        /\ \A i \in 1 .. n : off[i] = off[i - 1] + Len(seqs[i])
        /\ \A i \in 1 .. n : \A j \in 1 .. Len(seqs[i]) : f[off[i - 1] + j] = seqs[i][j]
    BY DEF Placed
  <1> DEFINE T == {m \in Nat : m <= n => off[m] = m}
  <1>2. 0 \in T
    BY <1>1
  <1>3. ASSUME NEW m \in Nat, m \in T PROVE m + 1 \in T
    <2> SUFFICES ASSUME m + 1 <= n PROVE off[m + 1] = m + 1
      OBVIOUS
    <2>1. m + 1 \in 1 .. n /\ (m + 1) - 1 = m /\ off[m] = m
      BY <1>3
    <2> QED BY <1>1, <2>1
  <1>4. Nat \subseteq T
    <2> HIDE DEF T
    <2> QED BY <1>2, <1>3, NatSetInduction
  <1>5. \A m \in 0 .. n : off[m] = m
    BY <1>4
  <1>6. ASSUME NEW i \in 1 .. n PROVE f[i] = seqs[i][1]
    <2>1. off[i - 1] = i - 1 /\ (i - 1) + 1 = i
      BY <1>5
    <2>3. 1 \in 1 .. Len(seqs[i])
      OBVIOUS
    <2>2. f[off[i - 1] + 1] = seqs[i][1]
      BY <1>1, <2>3
    <2> QED BY <2>1, <2>2
  <1> QED BY <1>1, <1>5, <1>6

\* A scanner that never goes past one of some lines looks at all of them.
LEMMA VisitedSome ==
    ASSUME NEW src, NEW n \in Nat, n = Len(src), NEW at, NEW some, some \subseteq 1 .. n, NEW resume,
           \A i \in at : resume[i] \in Nat /\ resume[i] > i,
           \A i \in at, h \in some : h > i => h >= resume[i]
    PROVE  some \subseteq Visited(src, at, resume)
  <1>1. PICK step : step = [p \in Nat \X Nat |-> IF p[2] \in at THEN resume[p[2]] ELSE p[2] + 1]
    OBVIOUS
  <1>2. ASSUME NEW k \in Nat, NEW x \in Nat PROVE step[<<k, x>>] \in Nat
    <2>1. step[<<k, x>>] = IF x \in at THEN resume[x] ELSE x + 1
      BY <1>1
    <2> QED BY <2>1
  <1>3. PICK u : Recurs(u, Nat, 1, step, n)
    BY <1>2, Recursion
  <1>4. u \in [0 .. n -> Nat] /\ u[0] = 1 /\ \A k \in 1 .. n : u[k] = step[<<k, u[k - 1]>>]
    BY <1>3 DEF Recurs
  <1>5. ASSUME NEW k \in 1 .. n
        PROVE  u[k - 1] \in Nat /\ u[k] = IF u[k - 1] \in at THEN resume[u[k - 1]] ELSE u[k - 1] + 1
    <2>1. k - 1 \in 0 .. n /\ k \in Nat
      OBVIOUS
    <2>2. u[k - 1] \in Nat
      BY <1>4, <2>1
    <2>3. step[<<k, u[k - 1]>>] = IF u[k - 1] \in at THEN resume[u[k - 1]] ELSE u[k - 1] + 1
      BY <1>1, <2>1, <2>2
    <2> QED BY <1>4, <2>2, <2>3
  <1> DEFINE P(v) == v = [k \in 0 .. n |-> IF k = 0 THEN 1
                                          ELSE IF v[k - 1] \in at THEN resume[v[k - 1]] ELSE v[k - 1] + 1]
             Q(v) == v = [k \in 0 .. Len(src) |->
                             IF k = 0 THEN 1
                             ELSE IF v[k - 1] \in at THEN resume[v[k - 1]] ELSE v[k - 1] + 1]
  <1>6. P(u)
    <2>1. u = [k \in 0 .. n |-> u[k]]
      BY <1>4
    <2>2. \A k \in 0 .. n : u[k] = IF k = 0 THEN 1 ELSE IF u[k - 1] \in at THEN resume[u[k - 1]] ELSE u[k - 1] + 1
      <3>1. ASSUME NEW k \in 0 .. n, k # 0
            PROVE  u[k] = IF u[k - 1] \in at THEN resume[u[k - 1]] ELSE u[k - 1] + 1
        <4>1. k \in 1 .. n
          BY <3>1
        <4> QED BY <1>5, <4>1
      <3> QED BY <1>4, <3>1
    <2> QED BY <2>1, <2>2
  <1>7. PICK w : w = CHOOSE v : P(v)
    OBVIOUS
  <1>8. P(w)
    <2> HIDE DEF P
    <2> QED BY <1>6, <1>7
  <1>9. Visited(src, at, resume) = {w[k] : k \in 0 .. n}
    <2>1. \A v : P(v) <=> Q(v)
      OBVIOUS
    <2>2. (CHOOSE v : P(v)) = CHOOSE v : Q(v)
      <3> HIDE DEF P, Q
      <3> QED BY <2>1, Zenon
    <2>3. Visited(src, at, resume) = {(CHOOSE v : Q(v))[k] : k \in 0 .. Len(src)}
      BY DEF Visited
    <2> HIDE DEF P, Q
    <2> QED BY <1>7, <2>2, <2>3
  <1>10. /\ w[0] = 1
         /\ \A k \in 1 .. n : w[k] = IF w[k - 1] \in at THEN resume[w[k - 1]] ELSE w[k - 1] + 1
    BY <1>8
  <1> HIDE DEF P, Q
  <1> DEFINE T == {k \in Nat : k <= n => w[k] \in Nat /\ w[k] >= k + 1}
  <1>11. 0 \in T
    BY <1>10
  <1>12. ASSUME NEW k \in Nat, k \in T PROVE k + 1 \in T
    <2> SUFFICES ASSUME k + 1 <= n PROVE w[k + 1] \in Nat /\ w[k + 1] >= (k + 1) + 1
      OBVIOUS
    <2>1. k + 1 \in 1 .. n /\ (k + 1) - 1 = k /\ w[k] \in Nat /\ w[k] >= k + 1
      BY <1>12
    <2>2. w[k + 1] = IF w[k] \in at THEN resume[w[k]] ELSE w[k] + 1
      BY <1>10, <2>1
    <2>3. CASE w[k] \in at
      <3>1. w[k + 1] \in Nat /\ w[k + 1] > w[k]
        BY <2>2, <2>3
      <3> QED BY <2>1, <3>1
    <2>4. CASE w[k] \notin at
      BY <2>1, <2>2, <2>4
    <2> QED BY <2>3, <2>4
  <1>13. Nat \subseteq T
    <2> HIDE DEF T
    <2> QED BY <1>11, <1>12, NatSetInduction
  <1>14. \A k \in 0 .. n : w[k] \in Nat /\ w[k] >= k + 1
    BY <1>13
  <1> HIDE DEF T
  <1>15. ASSUME NEW h \in some PROVE \E k \in 0 .. n : w[k] = h
    <2>1. h \in Nat /\ h >= 1 /\ h <= n
      OBVIOUS
    <2>2. PICK D : D = {k \in Nat : k <= n /\ w[k] > h}
      OBVIOUS
    <2>3. n \in D
      BY <1>14, <2>1, <2>2
    <2>4. PICK m \in D : \A y \in D : m <= y
      BY <2>2, <2>3, LeastNat
    <2>5. m \in Nat /\ m <= n /\ w[m] > h
      BY <2>2
    <2>6. m # 0
      BY <1>10, <2>1, <2>5
    <2>7. PICK k : k = m - 1
      OBVIOUS
    <2>8. k \in Nat /\ k <= n /\ k \in 0 .. n /\ m \in 1 .. n /\ k + 1 = m
      BY <2>5, <2>6, <2>7
    <2>9. k \notin D
      BY <2>4, <2>8
    <2>10. w[k] \in Nat /\ ~(w[k] > h)
      BY <1>14, <2>2, <2>8, <2>9
    <2>11. w[m] = IF w[k] \in at THEN resume[w[k]] ELSE w[k] + 1
      BY <1>10, <2>7, <2>8
    <2>12. CASE w[k] = h
      BY <2>8, <2>12
    <2>13. CASE w[k] # h /\ w[k] \in at
      <3>1. h > w[k]
        BY <2>1, <2>10, <2>13
      <3>2. h >= resume[w[k]] /\ resume[w[k]] \in Nat
        BY <2>13, <3>1
      <3> QED BY <2>1, <2>5, <2>11, <2>13, <3>2
    <2>14. CASE w[k] # h /\ w[k] \notin at
      BY <2>1, <2>5, <2>10, <2>11, <2>14
    <2> QED BY <2>12, <2>13, <2>14
  <1> QED BY <1>9, <1>15

\* It finds all of them, each once.
LEMMA ReachedAll ==
    ASSUME NEW src, NEW n \in Nat, n = Len(src), NEW at, at \subseteq 1 .. n, NEW resume,
           \A i \in at : resume[i] \in Nat /\ resume[i] > i,
           \A i, h \in at : h > i => h >= resume[i]
    PROVE  /\ Reached(src, at, resume) = Select(Numbers(src), at)
           /\ \A h \in at : \E k \in 1 .. Len(Reached(src, at, resume)) : Reached(src, at, resume)[k] = h
  <1>1. at \subseteq Visited(src, at, resume)
    BY VisitedSome
  <1>2. at \cap Visited(src, at, resume) = at
    BY <1>1
  <1>3. PICK ns : ns = Numbers(src)
    OBVIOUS
  <1>4. ns = [k \in 1 .. n |-> k]
    BY <1>3 DEF Numbers
  <1>5. ns \in Seq(1 .. n) /\ Len(ns) = n /\ \A k \in 1 .. n : ns[k] = k
    BY <1>4, SeqDef
  <1>6. Reached(src, at, resume) = Select(ns, at)
    BY <1>2, <1>3 DEF Reached
  <1>7. ASSUME NEW h \in at PROVE \E k \in 1 .. Len(Select(ns, at)) : Select(ns, at)[k] = h
    <2>1. h \in 1 .. Len(ns) /\ ns[h] = h /\ ns[h] \in at
      BY <1>5
    <2>3. PICK D : D = 1 .. n
      OBVIOUS
    <2>4. ns \in Seq(D)
      BY <1>5, <2>3
    <2>2. \E k \in 1 .. Len(Select(ns, at)) : Select(ns, at)[k] = ns[h]
      BY <2>1, <2>4, SelectHas
    <2> QED BY <2>1, <2>2
  <1> QED BY <1>3, <1>6, <1>7

\* The first of some lines, or the line given for none.
LEMMA FirstInIs ==
    ASSUME NEW S, S \subseteq Nat, NEW d \in Nat
    PROVE  /\ FirstIn(S, d) \in Nat
           /\ S = {} => FirstIn(S, d) = d
           /\ S # {} => FirstIn(S, d) \in S /\ \A y \in S : FirstIn(S, d) <= y
  <1>1. CASE S = {}
    BY <1>1 DEF FirstIn
  <1>2. CASE S # {}
    <2>1. PICK m \in S : \A y \in S : m <= y
      BY <1>2, LeastNat
    <2>2. Min(S) \in S /\ \A y \in S : Min(S) <= y
      BY <2>1 DEF Min
    <2>3. FirstIn(S, d) = Min(S)
      BY <1>2 DEF FirstIn
    <2> QED BY <1>2, <2>2, <2>3
  <1> QED BY <1>1, <1>2

\* Where a scanner stops.
LEMMA BodyEndIs ==
    ASSUME NEW src, NEW n \in Nat, n = Len(src), NEW i \in 1 .. n
    PROVE  BodyEnd(src, i) \in Nat /\ BodyEnd(src, i) > i /\ BodyEnd(src, i) <= n + 1
  <1>1. CASE Closed(src, i, i)
    BY <1>1 DEF BodyEnd
  <1>2. CASE ~Closed(src, i, i)
    <2>1. PICK C : C = {j \in i + 1 .. n : Closed(src, i, j)}
      OBVIOUS
    <2>2. BodyEnd(src, i) = FirstIn(C, n + 1)
      BY <1>2, <2>1 DEF BodyEnd
    <2>3. C \subseteq Nat /\ n + 1 \in Nat
      BY <2>1
    <2>4. /\ FirstIn(C, n + 1) \in Nat
          /\ C = {} => FirstIn(C, n + 1) = n + 1
          /\ C # {} => FirstIn(C, n + 1) \in C
      BY <2>3, FirstInIs
    <2> QED BY <2>1, <2>2, <2>4
  <1> QED BY <1>1, <1>2

\* A signature ends where it begins or later.
LEMMA SignatureEndIs ==
    ASSUME NEW src, NEW n \in Nat, n = Len(src), NEW i \in 1 .. n
    PROVE  SignatureEnd(src, i) \in Nat /\ SignatureEnd(src, i) >= i
  <1>1. CASE src[i].sig = "whole"
    BY <1>1 DEF SignatureEnd
  <1>2. CASE src[i].sig # "whole"
    <2>1. PICK C : C = {k \in i + 1 .. n : src[k].kind = "params" /\ src[k].sig = "close"}
      OBVIOUS
    <2>2. SignatureEnd(src, i) = FirstIn(C, n + 1)
      BY <1>2, <2>1 DEF SignatureEnd
    <2>3. C \subseteq Nat /\ n + 1 \in Nat
      BY <2>1
    <2>4. /\ FirstIn(C, n + 1) \in Nat
          /\ C = {} => FirstIn(C, n + 1) = n + 1
          /\ C # {} => FirstIn(C, n + 1) \in C
      BY <2>3, FirstInIs
    <2> QED BY <2>1, <2>2, <2>4
  <1> QED BY <1>1, <1>2

\* In a well laid source a scanner of functions finds every one of its kinds.
LEMMA ScanFinds ==
    ASSUME NEW src, IsText(src), WellLaid(src), NEW kinds, kinds \subseteq Headers,
           NEW at, at = AtKinds(src, kinds), NEW resume, resume = [i \in at |-> BodyEnd(src, i) + 1]
    PROVE  /\ Reached(src, at, resume) = Select(Numbers(src), at)
           /\ \A h \in at : \E k \in 1 .. Len(Reached(src, at, resume)) : Reached(src, at, resume)[k] = h
  <1>1. PICK n \in Nat : n = Len(src)
    BY DEF IsText
  <1>2. at \subseteq 1 .. n
    BY <1>1 DEF AtKinds
  <1>3. ASSUME NEW i \in at PROVE resume[i] \in Nat /\ resume[i] > i
    <2>1. i \in 1 .. n
      BY <1>2
    <2>2. BodyEnd(src, i) \in Nat /\ BodyEnd(src, i) > i
      BY <1>1, <2>1, BodyEndIs
    <2> QED BY <2>1, <2>2
  <1>4. ASSUME NEW i \in at, NEW h \in at, h > i PROVE h >= resume[i]
    <2>1. i \in 1 .. n /\ h \in 1 .. n /\ src[i].kind \in Headers /\ h \in AtKinds(src, Headers)
      BY <1>1, <1>2 DEF AtKinds
    <2>2. BodyEnd(src, i) \in Nat /\ BodyEnd(src, i) > i
      BY <1>1, <2>1, BodyEndIs
    <2>3. /\ \A k \in i .. SignatureEnd(src, i) : ~Closed(src, i, k)
          /\ AtKinds(src, Headers) \cap Extent(src, i) = {i}
      BY <1>1, <2>1 DEF WellLaid
    <2>4. ~Closed(src, i, i)
      <3>1. SignatureEnd(src, i) \in Nat /\ SignatureEnd(src, i) >= i
        BY <1>1, <2>1, SignatureEndIs
      <3> QED BY <2>1, <2>3, <3>1
    <2>5. SUFFICES ASSUME h <= BodyEnd(src, i) PROVE FALSE
      BY <2>1, <2>2
    <2>6. h \in Body(src, i)
      BY <1>1, <1>4, <2>1, <2>2, <2>4, <2>5 DEF Body
    <2>7. h \in Extent(src, i)
      BY <1>1, <2>1, <2>6, BodyInExtent
    <2>8. h = i
      BY <2>1, <2>3, <2>7
    <2> QED BY <1>4, <2>1, <2>8
  <1> HIDE DEF AtKinds
  <1> QED BY <1>1, <1>2, <1>3, <1>4, ReachedAll

\* A function of a name of its own is found by source_map.rs with its bindings.
LEMMA InfoFound ==
    ASSUME NEW src, IsText(src), WellLaid(src), NEW fs, fs = ParseLeoFunctions(src),
           NEW infos, infos = ParseLeoFunctionInfo(src), NEW n \in 1 .. Len(fs),
           src[fs[n].line].kind \in {"function", "transition"},
           \A m \in 1 .. Len(fs) : fs[m].name = fs[n].name => m = n
    PROVE  /\ Len(infos) \in Nat
           /\ \E m \in 1 .. Len(infos) : infos[m].name = fs[n].name
           /\ \A m \in 1 .. Len(infos) : infos[m].name = fs[n].name => infos[m].bindings = fs[n].bindings
  <1>1. Len(src) \in Nat
    BY DEF IsText
  <1>2. PICK all : all = AtKinds(src, Headers)
    OBVIOUS
  <1>3. PICK next : next = [i \in all |-> BodyEnd(src, i) + 1]
    OBVIOUS
  <1>4. PICK a : a = Reached(src, all, next)
    OBVIOUS
  <1>5. \A h \in all : \E k \in 1 .. Len(a) : a[k] = h
    BY <1>2, <1>3, <1>4, ScanFinds
  <1>6. PICK heads : heads = AtKinds(src, {"function", "transition"})
    OBVIOUS
  <1>7. PICK resume : resume = [i \in heads |-> BodyEnd(src, i) + 1]
    OBVIOUS
  <1>8. PICK b : b = Reached(src, heads, resume)
    OBVIOUS
  <1>9. \A h \in heads : \E k \in 1 .. Len(b) : b[k] = h
    <2>1. {"function", "transition"} \subseteq Headers
      BY DEF Headers
    <2> QED BY <1>6, <1>7, <1>8, <2>1, ScanFinds
  <1>10. Len(b) \in Nat /\ \A k \in 1 .. Len(b) : b[k] \in heads
    BY <1>1, <1>8, ReachedAre
  <1>11. infos = [m \in 1 .. Len(b) |-> [name |-> src[b[m]].name, bindings |-> LeoBindings(src, Body(src, b[m]))]]
    BY <1>6, <1>7, <1>8 DEF ParseLeoFunctionInfo
  <1>12. Len(infos) = Len(b)
    <2>1. PICK D : D = {infos[m] : m \in 1 .. Len(b)}
      OBVIOUS
    <2>2. infos \in [1 .. Len(b) -> D]
      BY <1>11, <2>1
    <2>3. infos \in Seq(D)
      BY <1>10, <2>2, SeqDef
    <2> QED BY <1>10, <2>2, <2>3
  <1>13. fs = [k \in 1 .. Len(a) |-> LeoFunctionDef(src, a[k])]
    BY <1>2, <1>3, <1>4 DEF ParseLeoFunctions
  <1>14. heads \subseteq all /\ all \subseteq 1 .. Len(src)
    BY <1>2, <1>6 DEF AtKinds, Headers
  <1>15. Len(a) \in Nat /\ Len(fs) = Len(a)
    <2>1. Len(a) \in Nat
      BY <1>1, <1>4, ReachedAre
    <2>2. PICK D : D = {fs[m] : m \in 1 .. Len(a)}
      OBVIOUS
    <2>3. fs \in [1 .. Len(a) -> D]
      BY <1>13, <2>2
    <2>4. fs \in Seq(D)
      BY <2>1, <2>3, SeqDef
    <2> QED BY <2>1, <2>3, <2>4
  <1>16. PICK f : f = fs[n]
    OBVIOUS
  <1>17. f.line \in 1 .. Len(src) /\ f = LeoFunctionDef(src, f.line)
    BY <1>16, FunctionsAre
  <1>18. f.name = src[f.line].name /\ f.bindings = LeoBindings(src, Body(src, f.line))
    BY <1>17, DefinitionIs
  <1>19. f.line \in heads
    BY <1>6, <1>16, <1>17 DEF AtKinds
  <1>20. \E m \in 1 .. Len(infos) : infos[m].name = f.name
    <2>1. PICK m \in 1 .. Len(b) : b[m] = f.line
      BY <1>9, <1>19
    <2>2. infos[m].name = src[b[m]].name
      BY <1>11
    <2> QED BY <1>12, <1>18, <2>1, <2>2
  <1>21. ASSUME NEW m \in 1 .. Len(infos), infos[m].name = f.name PROVE infos[m].bindings = f.bindings
    <2>1. /\ b[m] \in heads /\ infos[m].name = src[b[m]].name
          /\ infos[m].bindings = LeoBindings(src, Body(src, b[m]))
      BY <1>10, <1>11, <1>12
    <2>2. PICK k \in 1 .. Len(a) : a[k] = b[m]
      BY <1>5, <1>14, <2>1
    <2>3. k \in 1 .. Len(fs) /\ fs[k] = LeoFunctionDef(src, b[m]) /\ b[m] \in 1 .. Len(src)
      BY <1>13, <1>14, <1>15, <2>1, <2>2
    <2>4. fs[k].name = src[b[m]].name /\ fs[k].line = b[m]
      BY <2>3, DefinitionIs
    <2>5. fs[k].name = fs[n].name
      BY <1>16, <1>21, <2>1, <2>4
    <2>6. k = n
      BY <2>3, <2>5
    <2> QED BY <1>16, <1>18, <2>1, <2>4, <2>6
  <1> QED BY <1>10, <1>12, <1>16, <1>20, <1>21

\* The lines between a generated function's first and its blank one.
GeneratedBody(src, fns, f) ==
    IF HasCall(fns, f)
    THEN IF Callee(src, f) = <<>> THEN <<>>
         ELSE <<[kind |-> "code", instr |-> [op |-> "call", callee |-> Callee(src, f)[1], args |-> <<>>,
                                             dests |-> <<0>>]],
                [kind |-> "output", reg |-> 0]>>
    ELSE FlattenSeq([k \in 1 .. Len(f.bindings) |-> CompiledBinding(src, f.bindings, k)])
             \o (IF Len(f.bindings) = 0 THEN <<>> ELSE <<[kind |-> "output", reg |-> Len(f.bindings) - 1]>>)

GeneratedOpening(fns, f) ==
    [kind |-> IF HasCall(fns, f) THEN "function" ELSE "closure", name |-> f.aleo]

BodyKinds == {"code", "comment", "garbled", "output"}

\* A text all of whose lines are of some kinds.
OfKinds(lines, kinds) == IsAleoText(lines) /\ \A k \in 1 .. Len(lines) : lines[k].kind \in kinds

LEMMA KindsJoin ==
    ASSUME NEW a, NEW b, NEW K, OfKinds(a, K), OfKinds(b, K)
    PROVE  OfKinds(a \o b, K)
  <1>1. IsAleoText(a \o b)
    BY TextsJoin DEF OfKinds
  <1>2. PICK S : S = Range(a) \cup Range(b)
    OBVIOUS
  <1>3. a \in Seq(Range(a)) /\ b \in Seq(Range(b))
    BY DEF IsAleoText, OfKinds
  <1>4. a \in Seq(S) /\ b \in Seq(S)
    BY <1>2, <1>3
  <1>5. \A k \in 1 .. Len(a \o b) : (a \o b)[k].kind \in K
    <2> TAKE k \in 1 .. Len(a \o b)
    <2>1. \/ k \in 1 .. Len(a) /\ (a \o b)[k] = a[k]
          \/ k - Len(a) \in 1 .. Len(b) /\ (a \o b)[k] = b[k - Len(a)]
      BY <1>4, ConcatElement
    <2> QED BY <2>1 DEF OfKinds
  <1> QED BY <1>1, <1>5 DEF OfKinds

LEMMA KindsFlatten ==
    ASSUME NEW n \in Nat, NEW seqs, seqs = [i \in 1 .. n |-> seqs[i]], NEW K,
           \A i \in 1 .. n : OfKinds(seqs[i], K)
    PROVE  OfKinds(FlattenSeq(seqs), K)
  <1>1. PICK f : f = FlattenSeq(seqs)
    OBVIOUS
  <1>2. \A i \in 1 .. n : IsAleoText(seqs[i])
    BY DEF OfKinds
  <1>3. IsAleoText(f)
    BY <1>1, <1>2, TextsFlatten
  <1>4. \A i \in 1 .. n : \E S : seqs[i] \in Seq(S)
    BY <1>2 DEF IsAleoText
  <1>5. FlatElements(f, n, seqs)
    BY <1>1, <1>4, FlattenElements
  <1>6. \A k \in 1 .. Len(f) : f[k].kind \in K
    BY <1>5 DEF FlatElements, OfKinds
  <1> QED BY <1>1, <1>3, <1>6 DEF OfKinds

\* A generated function is its first line, its body and a blank line.
LEMMA GeneratedTextIs ==
    ASSUME NEW s \in Sources, NEW src, src = TextOf(s), NEW fns, fns = ParseLeoFunctions(src),
           NEW j \in 1 .. Len(fns), NEW f, f = fns[j]
    PROVE  /\ GeneratedText(src, fns, f) =
                  (<<GeneratedOpening(fns, f)>> \o GeneratedBody(src, fns, f)) \o <<[kind |-> "blank"]>>
           /\ OfKinds(GeneratedBody(src, fns, f), BodyKinds)
           /\ IsLine(GeneratedOpening(fns, f))
  <1>1. /\ f.bindings = LeoBindings(src, Body(src, f.line)) /\ Len(f.bindings) \in Nat
        /\ 0 .. Len(f.bindings) \subseteq Reg /\ 0 \in Reg /\ f.aleo \in FnName
        /\ f.return_line # 0 => f.return_line \in 1 .. Len(src) /\ src[f.return_line].kind = "return"
    BY FallbackReads
  <1>2. IsText(src)
    BY TextIs
  <1>3. IsLine(GeneratedOpening(fns, f))
    BY <1>1 DEF GeneratedOpening, IsLine, AleoLineKinds, FnKinds
  <1>4. CASE HasCall(fns, f)
    <2>1. PICK head : head = [kind |-> "function", name |-> f.aleo]
      OBVIOUS
    <2>2. GeneratedOpening(fns, f) = head
      BY <1>4, <2>1 DEF GeneratedOpening
    <2>3. GeneratedText(src, fns, f) = GeneratedCaller(src, f) \o <<[kind |-> "blank"]>>
      BY <1>4, Zenon DEF GeneratedText
    <2>4. GeneratedCaller(src, f) = <<head>> \o GeneratedBody(src, fns, f)
      BY <1>4, <2>1, Zenon DEF GeneratedCaller, GeneratedBody
    <2>5. OfKinds(GeneratedBody(src, fns, f), BodyKinds)
      <3>1. CASE Callee(src, f) = <<>>
        <4>1. GeneratedBody(src, fns, f) = <<>>
          BY <1>4, <3>1 DEF GeneratedBody
        <4> QED BY <4>1, NoLineText DEF OfKinds
      <3>2. CASE Callee(src, f) # <<>>
        <4>1. PICK i : i = [op |-> "call", callee |-> Callee(src, f)[1], args |-> <<>>, dests |-> <<0>>]
          OBVIOUS
        <4>2. PICK l : l = [kind |-> "code", instr |-> i]
          OBVIOUS
        <4>3. PICK out : out = [kind |-> "output", reg |-> 0]
          OBVIOUS
        <4>4. GeneratedBody(src, fns, f) = <<l, out>>
          BY <1>4, <3>2, <4>1, <4>2, <4>3 DEF GeneratedBody
        <4>5. PICK e : e = src[f.return_line].expr
          OBVIOUS
        <4>6. f.return_line # 0 /\ IsExpr(e)
          <5>1. f.return_line # 0
            BY <1>4 DEF HasCall
          <5> QED BY <1>1, <1>2, <4>5, <5>1 DEF IsText, IsSourceLine
        <4>7. e.form = "call" /\ Callee(src, f) = <<e.callee>>
          BY <3>2, <4>5 DEF Callee
        <4>8. Callee(src, f)[1] \in FnName
          BY <4>6, <4>7 DEF IsExpr
        <4>9. i \in Instruction
          <5>1. <<>> \in Seq(Operand) /\ <<0>> \in Seq(Reg)
            BY <1>1
          <5>2. i \in [op : {"call"}, callee : FnName, args : Seq(Operand), dests : Seq(Reg)]
            BY <4>1, <4>8, <5>1
          <5> QED BY <5>2 DEF Instruction
        <4>10. IsLine(l)
          BY <4>2, <4>9 DEF IsLine, AleoLineKinds, FnKinds
        <4>11. IsLine(out)
          BY <1>1, <4>3 DEF IsLine, AleoLineKinds, FnKinds
        <4>12. IsAleoText(<<l, out>>)
          BY <4>10, <4>11, TwoLineText
        <4>13. PICK a : a = <<l, out>>
          OBVIOUS
        <4>14. Len(a) = 2 /\ a[1] = l /\ a[2] = out
          BY <4>13
        <4>15. \A k \in 1 .. Len(a) : a[k].kind \in BodyKinds
          <5> TAKE k \in 1 .. Len(a)
          <5>1. k = 1 \/ k = 2
            BY <4>14
          <5> QED BY <4>2, <4>3, <4>14, <5>1 DEF BodyKinds
        <4> QED BY <4>4, <4>12, <4>13, <4>15 DEF OfKinds
      <3> QED BY <3>1, <3>2
    <2> QED BY <1>3, <2>2, <2>3, <2>4, <2>5
  <1>5. CASE ~HasCall(fns, f)
    <2>1. PICK head : head = [kind |-> "closure", name |-> f.aleo]
      OBVIOUS
    <2>2. GeneratedOpening(fns, f) = head
      BY <1>5, <2>1 DEF GeneratedOpening
    <2>3. GeneratedText(src, fns, f) = GeneratedClosure(src, f) \o <<[kind |-> "blank"]>>
      BY <1>5, Zenon DEF GeneratedText
    <2>4. PICK n \in Nat : n = Len(f.bindings)
      BY <1>1
    <2>5. PICK seqs : seqs = [k \in 1 .. n |-> CompiledBinding(src, f.bindings, k)]
      OBVIOUS
    <2>6. PICK out : out = IF n = 0 THEN <<>> ELSE <<[kind |-> "output", reg |-> n - 1]>>
      OBVIOUS
    <2>7. GeneratedClosure(src, f) = (<<head>> \o FlattenSeq(seqs)) \o out
      BY <2>1, <2>4, <2>5, <2>6, Zenon DEF GeneratedClosure
    <2>8. GeneratedBody(src, fns, f) = FlattenSeq(seqs) \o out
      BY <1>5, <2>4, <2>5, <2>6, Zenon DEF GeneratedBody
    <2>9. OfKinds(FlattenSeq(seqs), BodyKinds)
      <3>1. ASSUME NEW k \in 1 .. n PROVE OfKinds(seqs[k], BodyKinds)
        <4>1. PICK c : c = CompiledBinding(src, f.bindings, k)
          OBVIOUS
        <4>2. /\ IsAleoText(c)
              /\ src[f.bindings[k].line].expr.form = "none" => c = <<>>
              /\ src[f.bindings[k].line].expr.form # "none" =>
                     c = <<c[1]>> /\ c[1].kind \in {"comment", "garbled", "code"}
          BY <1>1, <1>2, <2>4, <4>1, BindingText
        <4>3. \A m \in 1 .. Len(c) : c[m].kind \in BodyKinds
          <5>1. CASE c = <<>>
            BY <5>1
          <5>2. CASE c # <<>>
            <6>1. c = <<c[1]>> /\ c[1].kind \in {"comment", "garbled", "code"}
              BY <4>2, <5>2
            <6>2. Len(c) = 1
              BY <6>1
            <6> QED BY <6>1, <6>2 DEF BodyKinds
          <5> QED BY <5>1, <5>2
        <4> QED BY <2>5, <4>1, <4>2, <4>3 DEF OfKinds
      <3>2. seqs = [k \in 1 .. n |-> seqs[k]]
        BY <2>5
      <3> QED BY <3>1, <3>2, KindsFlatten
    <2>10. OfKinds(out, BodyKinds)
      <3>1. CASE n = 0
        BY <2>6, <3>1, NoLineText DEF OfKinds
      <3>2. CASE n # 0
        <4>1. PICK l : l = [kind |-> "output", reg |-> n - 1]
          OBVIOUS
        <4>2. n - 1 \in Reg
          BY <1>1, <2>4, <3>2
        <4>3. IsLine(l)
          BY <4>1, <4>2 DEF IsLine, AleoLineKinds, FnKinds
        <4>4. out = <<l>> /\ Len(out) = 1 /\ out[1] = l
          BY <2>6, <3>2, <4>1
        <4>5. IsAleoText(out)
          BY <4>3, <4>4, OneLineText
        <4>6. \A k \in 1 .. Len(out) : out[k].kind \in BodyKinds
          BY <4>1, <4>4 DEF BodyKinds
        <4> QED BY <4>5, <4>6 DEF OfKinds
      <3> QED BY <3>1, <3>2
    <2>11. OfKinds(FlattenSeq(seqs) \o out, BodyKinds)
      BY <2>9, <2>10, KindsJoin
    <2>12. (<<head>> \o FlattenSeq(seqs)) \o out = <<head>> \o (FlattenSeq(seqs) \o out)
      <3>1. PICK a, b, c : a = <<head>> /\ b = FlattenSeq(seqs) /\ c = out
        OBVIOUS
      <3>2. PICK S : S = {head} \cup Range(b) \cup Range(c)
        OBVIOUS
      <3>3. b \in Seq(Range(b)) /\ c \in Seq(Range(c))
        BY <2>9, <2>10, <3>1 DEF OfKinds, IsAleoText
      <3>4. a \in Seq(S) /\ b \in Seq(S) /\ c \in Seq(S)
        BY <3>1, <3>2, <3>3
      <3>5. (a \o b) \o c = a \o (b \o c)
        BY <3>4
      <3> QED BY <3>1, <3>5
    <2> QED BY <1>3, <2>2, <2>3, <2>7, <2>8, <2>11, <2>12
  <1> QED BY <1>4, <1>5

\* The elements of two sequences in one.
LEMMA ConcatPlaces ==
    ASSUME NEW S, NEW s \in Seq(S), NEW t \in Seq(S)
    PROVE  /\ s \o t \in Seq(S) /\ Len(s \o t) = Len(s) + Len(t) /\ Len(s) \in Nat /\ Len(t) \in Nat
           /\ \A k \in 1 .. Len(s) : (s \o t)[k] = s[k]
           /\ \A j \in 1 .. Len(t) : (s \o t)[Len(s) + j] = t[j]
  <1>1. \A j \in 1 .. Len(t) : (s \o t)[Len(s) + j] = t[j]
    OBVIOUS
  <1> QED BY <1>1, ConcatElement

\* A sequence between two elements.
LEMMA Between ==
    ASSUME NEW S, NEW b \in Seq(S), NEW x, NEW y, NEW t, t = (<<x>> \o b) \o <<y>>
    PROVE  /\ Len(b) \in Nat /\ Len(t) = Len(b) + 2 /\ t[1] = x /\ t[Len(b) + 2] = y
           /\ \A j \in 1 .. Len(b) : t[1 + j] = b[j]
  <1>1. PICK D : D = {x, y} \cup S
    OBVIOUS
  <1>2. PICK a, c : a = <<x>> /\ c = <<y>>
    OBVIOUS
  <1>3. a \in Seq(D) /\ c \in Seq(D) /\ b \in Seq(D) /\ Len(a) = 1 /\ Len(c) = 1 /\ a[1] = x /\ c[1] = y
    BY <1>1, <1>2
  <1>4. PICK u : u = a \o b
    OBVIOUS
  <1>5. u \in Seq(D) /\ Len(u) = Len(b) + 1 /\ u[1] = x /\ Len(b) \in Nat /\ \A j \in 1 .. Len(b) : u[1 + j] = b[j]
    <2>1. /\ a \o b \in Seq(D) /\ Len(a \o b) = Len(a) + Len(b) /\ Len(b) \in Nat
          /\ \A k \in 1 .. Len(a) : (a \o b)[k] = a[k]
          /\ \A j \in 1 .. Len(b) : (a \o b)[Len(a) + j] = b[j]
      <3>1. a \in Seq(D) /\ b \in Seq(D)
        BY <1>3
      <3> QED BY <3>1, ConcatPlaces
    <2>2. 1 \in 1 .. Len(a)
      BY <1>3
    <2> QED BY <1>3, <1>4, <2>1, <2>2
  <1>6. t = u \o c
    BY <1>2, <1>4
  <1>7. PICK k : k = Len(u)
    OBVIOUS
  <1>8. Len(t) = k + 1 /\ t[k + 1] = y /\ k = Len(b) + 1 /\ \A j \in 1 .. k : t[j] = u[j]
    <2>1. /\ Len(u \o c) = Len(u) + Len(c)
          /\ \A j \in 1 .. Len(u) : (u \o c)[j] = u[j]
          /\ \A j \in 1 .. Len(c) : (u \o c)[Len(u) + j] = c[j]
      <3>1. u \in Seq(D) /\ c \in Seq(D)
        BY <1>3, <1>5
      <3> QED BY <3>1, ConcatPlaces
    <2>2. 1 \in 1 .. Len(c)
      BY <1>3
    <2> QED BY <1>3, <1>5, <1>6, <1>7, <2>1, <2>2
  <1>9. \A j \in 1 .. Len(b) : t[1 + j] = b[j]
    <2> TAKE j \in 1 .. Len(b)
    <2>1. 1 + j \in 1 .. k
      BY <1>5, <1>8
    <2> QED BY <1>5, <1>8, <2>1
  <1>10. t[1] = x
    <2>1. 1 \in 1 .. k
      BY <1>5, <1>8
    <2> QED BY <1>5, <1>8, <2>1
  <1> QED BY <1>5, <1>8, <1>9, <1>10

\* Function m of the generated program begins at line at[m].
Blocks(lines, at, src, fns) ==
    /\ at \in [1 .. Len(fns) -> 1 .. Len(lines)]
    /\ \A m \in 1 .. Len(fns) :
          /\ lines[at[m]] = GeneratedOpening(fns, fns[m])
          /\ at[m] + (Len(GeneratedBody(src, fns, fns[m])) + 1) <= Len(lines)
          /\ lines[at[m] + (Len(GeneratedBody(src, fns, fns[m])) + 1)] = [kind |-> "blank"]
          /\ \A j \in 1 .. Len(GeneratedBody(src, fns, fns[m])) :
                 lines[at[m] + j] = GeneratedBody(src, fns, fns[m])[j]
    /\ \A q \in 1 .. Len(lines) : lines[q].kind \in FnKinds => \E m \in 1 .. Len(fns) : q = at[m]

LEMMA ProgramBlocks ==
    ASSUME NEW s \in Sources, NEW src, src = TextOf(s), NEW fns, fns = ParseLeoFunctions(src),
           NEW lines, lines = GenerateAleo(src, fns)
    PROVE  \E at : Blocks(lines, at, src, fns)
  <1>1. IsText(src)
    BY TextIs
  <1>2. PICK n \in Nat : n = Len(fns)
    BY <1>1, FunctionsAre
  <1>3. PICK seqs : seqs = [k \in 1 .. n |-> GeneratedText(src, fns, fns[k])]
    OBVIOUS
  <1>4. PICK f : f = FlattenSeq(seqs)
    OBVIOUS
  <1>5. lines = GeneratedHead \o f
    BY <1>2, <1>3, <1>4, GenerateIs
  <1>6. PICK body : body = [k \in 1 .. n |-> GeneratedBody(src, fns, fns[k])]
    OBVIOUS
  <1>7. ASSUME NEW k \in 1 .. n
        PROVE  /\ seqs[k] = (<<GeneratedOpening(fns, fns[k])>> \o body[k]) \o <<[kind |-> "blank"]>>
               /\ OfKinds(body[k], BodyKinds) /\ IsLine(GeneratedOpening(fns, fns[k]))
    <2>1. k \in 1 .. Len(fns)
      BY <1>2
    <2>2. PICK g : g = fns[k]
      OBVIOUS
    <2>3. /\ GeneratedText(src, fns, g) =
                  (<<GeneratedOpening(fns, g)>> \o GeneratedBody(src, fns, g)) \o <<[kind |-> "blank"]>>
          /\ OfKinds(GeneratedBody(src, fns, g), BodyKinds)
          /\ IsLine(GeneratedOpening(fns, g))
      BY <2>1, <2>2, GeneratedTextIs
    <2> QED BY <1>3, <1>6, <2>2, <2>3
  <1>8. ASSUME NEW k \in 1 .. n
        PROVE  /\ Len(body[k]) \in Nat /\ Len(seqs[k]) = Len(body[k]) + 2
               /\ seqs[k][1] = GeneratedOpening(fns, fns[k])
               /\ seqs[k][Len(body[k]) + 2] = [kind |-> "blank"]
               /\ \A j \in 1 .. Len(body[k]) : seqs[k][1 + j] = body[k][j] /\ body[k][j].kind \in BodyKinds
    <2>1. body[k] \in Seq(Range(body[k])) /\ \A j \in 1 .. Len(body[k]) : body[k][j].kind \in BodyKinds
      BY <1>7 DEF OfKinds, IsAleoText
    <2>2. PICK b, x, y, t : b = body[k] /\ x = GeneratedOpening(fns, fns[k]) /\ y = [kind |-> "blank"] /\ t = seqs[k]
      OBVIOUS
    <2>3. PICK S : b \in Seq(S)
      BY <2>1, <2>2
    <2>4. t = (<<x>> \o b) \o <<y>>
      BY <1>7, <2>2
    <2>5. /\ Len(b) \in Nat /\ Len(t) = Len(b) + 2 /\ t[1] = x /\ t[Len(b) + 2] = y
          /\ \A j \in 1 .. Len(b) : t[1 + j] = b[j]
      BY <2>3, <2>4, Between
    <2> QED BY <2>1, <2>2, <2>5
  <1>9. ASSUME NEW k \in 1 .. n PROVE IsAleoText(seqs[k])
    <2>1. IsAleoText(<<GeneratedOpening(fns, fns[k])>>) /\ IsAleoText(body[k])
      BY <1>7, OneLineText DEF OfKinds
    <2>2. IsAleoText(<<[kind |-> "blank"]>>)
      BY PlainLines, OneLineText
    <2>3. IsAleoText(<<GeneratedOpening(fns, fns[k])>> \o body[k])
      BY <2>1, TextsJoin
    <2> QED BY <1>7, <2>2, <2>3, TextsJoin
  <1>10. PICK E : E = UNION {Range(seqs[k]) : k \in 1 .. n}
    OBVIOUS
  <1>11. seqs \in Seq(Seq(E)) /\ Len(seqs) = n
    <2>1. ASSUME NEW k \in 1 .. n PROVE seqs[k] \in Seq(E)
      <3>1. PICK S : S = Range(seqs[k])
        OBVIOUS
      <3>2. seqs[k] \in Seq(S)
        BY <1>9, <3>1 DEF IsAleoText
      <3>3. S \subseteq E
        BY <1>10, <3>1
      <3> QED BY <3>2, <3>3
    <2>2. seqs \in [1 .. n -> Seq(E)]
      BY <1>3, <2>1
    <2> QED BY <2>2, SeqDef
  <1>12. PICK off : Placed(f, off, seqs, n)
    BY <1>4, <1>11, FlattenPlaces
  <1>13. /\ off \in [0 .. n -> Nat] /\ off[0] = 0 /\ Len(f) = off[n]
         /\ \A i \in 1 .. n :
               /\ off[i] = off[i - 1] + Len(seqs[i]) /\ off[i] <= off[n]
               /\ \A j \in 1 .. Len(seqs[i]) : f[off[i - 1] + j] = seqs[i][j]
         /\ \A q \in 1 .. Len(f) : \E i \in 1 .. n : \E j \in 1 .. Len(seqs[i]) : q = off[i - 1] + j
    BY <1>12 DEF Placed
  <1>14. /\ Len(f) \in Nat /\ Len(lines) = Len(f) + 2
         /\ lines[1].kind \notin FnKinds /\ lines[2].kind \notin FnKinds
         /\ \A q \in 1 .. Len(f) : lines[2 + q] = f[q]
    <2>1. f \in Seq(E)
      BY <1>4, <1>11, FlattenType
    <2>2. PICK h : h = GeneratedHead
      OBVIOUS
    <2>3. PICK D : D = E \cup {[kind |-> "program"], [kind |-> "blank"]}
      OBVIOUS
    <2>4. h = <<[kind |-> "program"], [kind |-> "blank"]>>
      BY <2>2 DEF GeneratedHead
    <2>5. /\ h \in Seq(D) /\ Len(h) = 2 /\ h[1].kind = "program" /\ h[2].kind = "blank"
          /\ f \in Seq(D) /\ Len(f) \in Nat
      BY <2>1, <2>3, <2>4
    <2>8. /\ Len(h \o f) = Len(h) + Len(f)
          /\ \A k \in 1 .. Len(h) : (h \o f)[k] = h[k]
          /\ \A j \in 1 .. Len(f) : (h \o f)[Len(h) + j] = f[j]
      <3>1. h \in Seq(D) /\ f \in Seq(D)
        BY <2>5
      <3> QED BY <3>1, ConcatPlaces
    <2>9. 1 \in 1 .. Len(h) /\ 2 \in 1 .. Len(h)
      BY <2>5
    <2>6. Len(h \o f) = 2 + Len(f) /\ (h \o f)[1] = h[1] /\ (h \o f)[2] = h[2]
      BY <2>5, <2>8, <2>9
    <2>7. \A q \in 1 .. Len(f) : (h \o f)[2 + q] = f[q]
      BY <2>5, <2>8
    <2> QED BY <1>5, <2>2, <2>5, <2>6, <2>7 DEF FnKinds
  <1>15. PICK at : at = [m \in 1 .. n |-> off[m - 1] + 3]
    OBVIOUS
  <1>16. ASSUME NEW m \in 1 .. n
         PROVE  /\ at[m] \in 1 .. Len(lines)
                /\ lines[at[m]] = GeneratedOpening(fns, fns[m])
                /\ at[m] + (Len(body[m]) + 1) <= Len(lines)
                /\ lines[at[m] + (Len(body[m]) + 1)] = [kind |-> "blank"]
                /\ \A j \in 1 .. Len(body[m]) : lines[at[m] + j] = body[m][j]
    <2>1. PICK o, b : o = off[m - 1] /\ b = Len(body[m])
      OBVIOUS
    <2>2. m - 1 \in 0 .. n /\ m \in 0 .. n
      OBVIOUS
    <2>3. o \in Nat /\ b \in Nat /\ at[m] = o + 3 /\ o + (b + 2) <= Len(f)
      <3>1. o \in Nat /\ b \in Nat /\ Len(seqs[m]) = b + 2
        BY <1>8, <1>13, <2>1, <2>2
      <3>2. off[m] = o + Len(seqs[m]) /\ off[m] <= Len(f)
        BY <1>13, <2>1
      <3> QED BY <1>15, <2>1, <3>1, <3>2
    <2>4. ASSUME NEW j \in 1 .. b + 2 PROVE lines[o + (2 + j)] = seqs[m][j]
      <3>1. o + j \in 1 .. Len(f) /\ 2 + (o + j) = o + (2 + j)
        BY <1>14, <2>3
      <3>2. lines[2 + (o + j)] = f[o + j]
        BY <1>14, <3>1
      <3>3. f[o + j] = seqs[m][j]
        BY <1>8, <1>13, <2>1
      <3> QED BY <3>1, <3>2, <3>3
    <2>5. at[m] \in 1 .. Len(lines) /\ at[m] + (b + 1) <= Len(lines)
      BY <1>14, <2>3
    <2>6. lines[at[m]] = seqs[m][1]
      <3>1. 1 \in 1 .. b + 2 /\ at[m] = o + (2 + 1)
        BY <2>3
      <3> QED BY <2>4, <3>1
    <2>7. lines[at[m] + (b + 1)] = seqs[m][b + 2]
      <3>1. b + 2 \in 1 .. b + 2 /\ at[m] + (b + 1) = o + (2 + (b + 2))
        BY <2>3
      <3> QED BY <2>4, <3>1
    <2>8. ASSUME NEW j \in 1 .. b PROVE lines[at[m] + j] = body[m][j]
      <3>1. 1 + j \in 1 .. b + 2 /\ at[m] + j = o + (2 + (1 + j))
        BY <2>3
      <3>2. lines[at[m] + j] = seqs[m][1 + j]
        BY <2>4, <3>1
      <3> QED BY <1>8, <2>1, <3>2
    <2> QED BY <1>8, <2>1, <2>5, <2>6, <2>7, <2>8
  <1>17. ASSUME NEW q \in 1 .. Len(lines), lines[q].kind \in FnKinds
         PROVE  \E m \in 1 .. n : q = at[m]
    <2>1. q # 1 /\ q # 2
      BY <1>14, <1>17
    <2>2. PICK r : r = q - 2
      OBVIOUS
    <2>3. r \in 1 .. Len(f) /\ q = 2 + r
      BY <1>14, <2>1, <2>2
    <2>13. PICK i \in 1 .. n : \E j \in 1 .. Len(seqs[i]) : r = off[i - 1] + j
      BY <1>13, <2>3
    <2>4. PICK j \in 1 .. Len(seqs[i]) : r = off[i - 1] + j
      BY <2>13
    <2>5. lines[q] = seqs[i][j]
      BY <1>13, <1>14, <2>3, <2>4
    <2>6. PICK b : b = Len(body[i])
      OBVIOUS
    <2>7. b \in Nat /\ j \in 1 .. b + 2
      BY <1>8, <2>6
    <2>8. j # b + 2
      BY <1>8, <1>17, <2>5, <2>6 DEF FnKinds
    <2>9. ~(\E h \in 1 .. b : j = 1 + h)
      <3> SUFFICES ASSUME NEW h \in 1 .. b, j = 1 + h PROVE FALSE
        OBVIOUS
      <3>1. seqs[i][1 + h] = body[i][h] /\ body[i][h].kind \in BodyKinds
        BY <1>8, <2>6
      <3> QED BY <1>17, <2>5, <3>1 DEF FnKinds, BodyKinds
    <2>10. j = 1
      <3> SUFFICES ASSUME j # 1 PROVE FALSE
        OBVIOUS
      <3>1. j - 1 \in 1 .. b /\ j = 1 + (j - 1)
        BY <2>7, <2>8
      <3> QED BY <2>9, <3>1
    <2>11. i - 1 \in 0 .. n
      OBVIOUS
    <2>12. off[i - 1] \in Nat
      BY <1>13, <2>11
    <2> QED BY <1>15, <2>3, <2>4, <2>10, <2>12
  <1>18. at \in [1 .. n -> 1 .. Len(lines)]
    BY <1>15, <1>16
  <1>19. ASSUME NEW m \in 1 .. Len(fns)
         PROVE  /\ lines[at[m]] = GeneratedOpening(fns, fns[m])
                /\ at[m] + (Len(GeneratedBody(src, fns, fns[m])) + 1) <= Len(lines)
                /\ lines[at[m] + (Len(GeneratedBody(src, fns, fns[m])) + 1)] = [kind |-> "blank"]
                /\ \A j \in 1 .. Len(GeneratedBody(src, fns, fns[m])) :
                       lines[at[m] + j] = GeneratedBody(src, fns, fns[m])[j]
    <2>1. m \in 1 .. n
      BY <1>2
    <2>2. body[m] = GeneratedBody(src, fns, fns[m])
      BY <1>6, <2>1
    <2> QED BY <1>16, <2>1, <2>2
  <1>21. \A q \in 1 .. Len(lines) : lines[q].kind \in FnKinds => \E m \in 1 .. Len(fns) : q = at[m]
    BY <1>2, <1>17
  <1>22. at \in [1 .. Len(fns) -> 1 .. Len(lines)]
    BY <1>2, <1>18
  <1>20. Blocks(lines, at, src, fns)
    BY <1>19, <1>21, <1>22, Zenon DEF Blocks
  <1> QED BY <1>20

\* The lines up to the first that ends the block.
LEMMA BlockIs ==
    ASSUME NEW lines, Len(lines) \in Nat, NEW p \in 1 .. Len(lines), NEW b \in Nat,
           p + (b + 1) <= Len(lines), NEW ends, \A j \in 1 .. b : lines[p + j].kind \notin ends,
           lines[p + (b + 1)].kind \in ends
    PROVE  BlockLines(lines, p, ends) = SubSeq(lines, p + 1, p + b)
  <1>1. PICK n \in Nat : n = Len(lines)
    OBVIOUS
  <1> DEFINE P(j) == /\ \A k \in p + 1 .. j : lines[k].kind \notin ends
                     /\ j = Len(lines) \/ lines[j + 1].kind \in ends
  <1>2. p + b \in p .. Len(lines)
    BY <1>1
  <1>3. P(p + b)
    <2>1. ASSUME NEW k \in p + 1 .. p + b PROVE lines[k].kind \notin ends
      <3>1. k - p \in 1 .. b /\ p + (k - p) = k
        BY <1>1
      <3> QED BY <3>1
    <2>2. (p + b) + 1 = p + (b + 1)
      BY <1>1
    <2> QED BY <2>1, <2>2
  <1>4. ASSUME NEW j \in p .. Len(lines), P(j) PROVE j = p + b
    <2>1. CASE j < p + b
      <3>1. (j + 1) - p \in 1 .. b /\ p + ((j + 1) - p) = j + 1 /\ j # Len(lines)
        BY <1>1, <2>1
      <3>2. lines[j + 1].kind \notin ends
        BY <3>1
      <3> QED BY <1>4, <3>1, <3>2
    <2>2. CASE j > p + b
      <3>1. p + (b + 1) \in p + 1 .. j
        BY <1>1, <2>2
      <3> QED BY <1>4, <3>1
    <2> QED BY <1>1, <2>1, <2>2
  <1>5. (CHOOSE j \in p .. Len(lines) : P(j)) = p + b
    <2> HIDE DEF P
    <2> QED BY <1>2, <1>3, <1>4
  <1> QED BY <1>5 DEF BlockLines

\* The block of a generated function is its body.
LEMMA BlockOf ==
    ASSUME NEW s \in Sources, NEW src, src = TextOf(s), NEW fns, fns = ParseLeoFunctions(src),
           NEW lines, lines = GenerateAleo(src, fns), NEW at, Blocks(lines, at, src, fns),
           NEW m \in 1 .. Len(fns), NEW ends, "blank" \in ends, ends \cap BodyKinds = {}
    PROVE  BlockLines(lines, at[m], ends) = GeneratedBody(src, fns, fns[m])
  <1>1. PICK body : body = GeneratedBody(src, fns, fns[m])
    OBVIOUS
  <1>2. PICK f : f = fns[m]
    OBVIOUS
  <1>3. OfKinds(body, BodyKinds)
    BY <1>1, <1>2, GeneratedTextIs
  <1>4. PICK B : body \in Seq(B) /\ Len(body) \in Nat
    BY <1>3 DEF OfKinds, IsAleoText
  <1>5. PICK b \in Nat : b = Len(body)
    BY <1>4
  <1>6. PICK L : lines \in Seq(L) /\ Len(lines) \in Nat
    BY FallbackText DEF IsAleoText
  <1>7. PICK p : p = at[m]
    OBVIOUS
  <1>8. /\ p \in 1 .. Len(lines) /\ p + (b + 1) <= Len(lines)
        /\ lines[p + (b + 1)] = [kind |-> "blank"]
        /\ \A j \in 1 .. b : lines[p + j] = body[j]
    <2>1. /\ at[m] \in 1 .. Len(lines)
          /\ at[m] + (Len(GeneratedBody(src, fns, fns[m])) + 1) <= Len(lines)
          /\ lines[at[m] + (Len(GeneratedBody(src, fns, fns[m])) + 1)] = [kind |-> "blank"]
          /\ \A j \in 1 .. Len(GeneratedBody(src, fns, fns[m])) :
                 lines[at[m] + j] = GeneratedBody(src, fns, fns[m])[j]
      BY DEF Blocks
    <2>2. /\ p \in 1 .. Len(lines) /\ p + (Len(body) + 1) <= Len(lines)
          /\ lines[p + (Len(body) + 1)] = [kind |-> "blank"]
          /\ \A j \in 1 .. Len(body) : lines[p + j] = body[j]
      BY <1>1, <1>7, <2>1
    <2> QED BY <1>5, <2>2
  <1>9. \A j \in 1 .. b : lines[p + j].kind \notin ends
    BY <1>3, <1>5, <1>8 DEF OfKinds
  <1>10. BlockLines(lines, p, ends) = SubSeq(lines, p + 1, p + b)
    <2>1. lines[p + (b + 1)].kind \in ends
      BY <1>8
    <2>2. Len(lines) \in Nat /\ p \in 1 .. Len(lines) /\ p + (b + 1) <= Len(lines)
      BY <1>6, <1>8
    <2>3. Len(lines) \in Nat
      BY <1>6
    <2>4. \A j \in 1 .. b : lines[p + j].kind \notin ends
      BY <1>9
    <2>5. p + (b + 1) <= Len(lines)
      BY <2>2
    <2>6. p \in 1 .. Len(lines)
      BY <2>2
    <2>7. b \in Nat
      OBVIOUS
    <2>8. PICK tail : tail = SubSeq(lines, p + 1, p + b)
      OBVIOUS
    <2>9. ASSUME NEW c, c = lines PROVE BlockLines(c, p, ends) = SubSeq(c, p + 1, p + b)
      <3>1. Len(c) \in Nat /\ p \in 1 .. Len(c) /\ p + (b + 1) <= Len(c)
        BY <2>3, <2>5, <2>6, <2>9
      <3>2. \A j \in 1 .. b : c[p + j].kind \notin ends
        BY <2>4, <2>9
      <3>3. c[p + (b + 1)].kind \in ends
        BY <2>1, <2>9
      <3> QED BY <2>7, <3>1, <3>2, <3>3, BlockIs
    <2> QED BY <2>9
  <1>11. PICK t : t = SubSeq(lines, p + 1, p + b)
    OBVIOUS
  <1>12. PICK D : D = L \cup B
    OBVIOUS
  <1>13. Len(t) = b /\ t \in Seq(D) /\ \A j \in 1 .. b : t[j] = lines[p + j]
    <2>1. lines \in Seq(D) /\ p + 1 \in 1 .. Len(lines) + 1 /\ p + b \in Nat /\ p + b <= Len(lines)
      BY <1>6, <1>8, <1>12
    <2>4. PICK x, y : x = p + 1 /\ y = p + b
      OBVIOUS
    <2>5. x \in Nat /\ y \in Nat /\ x >= 1 /\ y <= Len(lines) /\ x <= y + 1 /\ (y - x) + 1 = b
      BY <1>6, <1>8, <2>4
    <2>6. SubSeq(lines, x, y) \in Seq(D) /\ Len(SubSeq(lines, x, y)) = (y - x) + 1
      <3>1. lines \in Seq(D) /\ x \in 1 .. Len(lines) + 1 /\ y \in x - 1 .. Len(lines)
        BY <1>6, <2>1, <2>5
      <3> QED BY <3>1, SubSeqProperties
    <2>2. t \in Seq(D) /\ Len(t) = b
      BY <1>11, <2>4, <2>5, <2>6
    <2>3. ASSUME NEW j \in 1 .. b PROVE t[j] = lines[p + j]
      <3>1. t[j] = lines[(p + 1) + j - 1]
        BY <1>8, <1>11, <2>1
      <3>2. (p + 1) + j - 1 = p + j
        BY <1>8
      <3> QED BY <3>1, <3>2
    <2> QED BY <2>2, <2>3
  <1>14. body \in Seq(D)
    BY <1>4, <1>12
  <1>15. \A j \in 1 .. Len(t) : t[j] = body[j]
    BY <1>8, <1>13
  <1>16. t = body
    BY <1>5, <1>13, <1>14, <1>15, SameElements
  <1> QED BY <1>1, <1>7, <1>10, <1>11, <1>16

\* Of a beginning that is selected nothing is lost.
LEMMA SelectsBeginning ==
    ASSUME NEW S, NEW s \in Seq(S), NEW T, NEW c \in Nat, c <= Len(s), \A j \in 1 .. c : s[j] \in T
    PROVE  Len(Select(s, T)) >= c /\ Len(Select(s, T)) \in Nat
  <1>1. PICK a, b : a = SubSeq(s, 1, c) /\ b = SubSeq(s, c + 1, Len(s))
    OBVIOUS
  <1>2. a \in Seq(S) /\ b \in Seq(S) /\ Len(a) = c
    BY <1>1
  <1>3. s = a \o b
    <2>1. PICK n : n = Len(s)
      OBVIOUS
    <2>2. n \in Nat /\ c <= n
      BY <2>1
    <2>3. b \in Seq(S) /\ Len(b) = n - c /\ \A j \in 1 .. n - c : b[j] = s[c + j]
      <3>1. Len(b) = n - c
        BY <1>1, <2>1, <2>2
      <3>2. ASSUME NEW j \in 1 .. n - c PROVE b[j] = s[c + j]
        <4>1. b[j] = s[(c + 1) + j - 1]
          BY <1>1, <2>1, <2>2
        <4>2. (c + 1) + j - 1 = c + j
          BY <2>2
        <4> QED BY <4>1, <4>2
      <3> QED BY <1>2, <3>1, <3>2
    <2>4. \A j \in 1 .. c : a[j] = s[j]
      BY <1>1, <2>1, <2>2
    <2>5. /\ a \o b \in Seq(S) /\ Len(a \o b) = Len(a) + Len(b)
          /\ \A k \in 1 .. Len(a) : (a \o b)[k] = a[k]
          /\ \A j \in 1 .. Len(b) : (a \o b)[Len(a) + j] = b[j]
      <3>1. a \in Seq(S) /\ b \in Seq(S)
        BY <1>2
      <3> QED BY <3>1, ConcatPlaces
    <2>6. Len(a \o b) = n
      BY <1>2, <2>2, <2>3, <2>5
    <2>7. ASSUME NEW k \in 1 .. n PROVE s[k] = (a \o b)[k]
      <3>1. CASE k <= c
        <4>1. k \in 1 .. Len(a)
          BY <1>2, <3>1
        <4> QED BY <1>2, <2>4, <2>5, <4>1
      <3>2. CASE ~(k <= c)
        <4>1. k - c \in 1 .. n - c /\ c + (k - c) = k
          BY <2>2, <3>2
        <4> QED BY <1>2, <2>3, <2>5, <4>1
      <3> QED BY <3>1, <3>2
    <2> QED BY <2>1, <2>5, <2>6, <2>7, SameElements
  <1>4. Select(s, T) = Select(a, T) \o Select(b, T)
    BY <1>2, <1>3, SelectConcat
  <1>5. \A j \in 1 .. Len(a) : a[j] \in T
    BY <1>1, <1>2
  <1>6. Select(a, T) = a
    BY <1>2, <1>5, SelectWhole
  <1>7. Select(b, T) \in Seq(S) /\ Len(Select(b, T)) \in Nat
    BY <1>2, SelectType
  <1>8. PICK c2 : c2 = Select(b, T)
    OBVIOUS
  <1>9. Len(a \o c2) = Len(a) + Len(c2)
    BY <1>2, <1>7, <1>8
  <1> QED BY <1>2, <1>4, <1>6, <1>7, <1>8, <1>9

Inline(src, f) == \A k \in 1 .. Len(f.bindings) : src[f.bindings[k].line].expr.form # "none"

\* What n bindings become, each on its line, and the output.
BodyJoined(src, f, n, body, D, t, out) ==
    /\ t \in Seq(D) /\ out \in Seq(D) /\ body = t \o out /\ Len(t) = n
    /\ \A k \in 1 .. n : /\ t[k].kind \in {"comment", "garbled", "code"}
                        /\ t[k] = CompiledBinding(src, f.bindings, k)[1]
    /\ out = IF n = 0 THEN <<>> ELSE <<[kind |-> "output", reg |-> n - 1]>>

LEMMA BodyJoins ==
    ASSUME NEW s \in Sources, NEW src, src = TextOf(s), NEW fns, fns = ParseLeoFunctions(src),
           NEW j \in 1 .. Len(fns), NEW f, f = fns[j], ~HasCall(fns, f), Inline(src, f),
           NEW n \in Nat, n = Len(f.bindings),
           NEW body, body = GeneratedBody(src, fns, f)
    PROVE  \E D, t, out : BodyJoined(src, f, n, body, D, t, out)
  <1>1. f.bindings = LeoBindings(src, Body(src, f.line)) /\ 0 .. Len(f.bindings) \subseteq Reg
    BY FallbackReads
  <1>2. IsText(src)
    BY TextIs
  <1>3. PICK seqs : seqs = [k \in 1 .. n |-> CompiledBinding(src, f.bindings, k)]
    OBVIOUS
  <1>4. PICK out : out = IF n = 0 THEN <<>> ELSE <<[kind |-> "output", reg |-> n - 1]>>
    OBVIOUS
  <1>5. PICK t : t = FlattenSeq(seqs)
    OBVIOUS
  <1>6. body = t \o out
    BY <1>3, <1>4, <1>5, Zenon DEF GeneratedBody
  <1>7. ASSUME NEW k \in 1 .. n
        PROVE  IsAleoText(seqs[k]) /\ Len(seqs[k]) = 1 /\ seqs[k][1].kind \in {"comment", "garbled", "code"}
    <2>1. PICK c : c = CompiledBinding(src, f.bindings, k)
      OBVIOUS
    <2>2. IsAleoText(c) /\ c = <<c[1]>> /\ c[1].kind \in {"comment", "garbled", "code"}
      BY <1>1, <1>2, <2>1, BindingText DEF Inline
    <2>3. Len(c) = 1
      BY <2>2
    <2> QED BY <1>3, <2>1, <2>2, <2>3
  <1>8. PICK E : E = UNION {Range(seqs[k]) : k \in 1 .. n}
    OBVIOUS
  <1>9. seqs \in Seq(Seq(E)) /\ Len(seqs) = n
    <2>1. ASSUME NEW k \in 1 .. n PROVE seqs[k] \in Seq(E)
      <3>1. PICK S : S = Range(seqs[k])
        OBVIOUS
      <3>2. seqs[k] \in Seq(S)
        BY <1>7, <3>1 DEF IsAleoText
      <3>3. S \subseteq E
        BY <1>8, <3>1
      <3> QED BY <3>2, <3>3
    <2>2. seqs \in [1 .. n -> Seq(E)]
      BY <1>3, <2>1
    <2> QED BY <2>2, SeqDef
  <1>10. PICK off : Placed(t, off, seqs, n)
    BY <1>5, <1>9, FlattenPlaces
  <1>11. Len(t) = n /\ \A k \in 1 .. n : t[k] = seqs[k][1]
    BY <1>7, <1>10, FlattenSingles
  <1>12. t \in Seq(E)
    BY <1>5, <1>9, FlattenType
  <1>13. PICK D : D = E \cup {[kind |-> "output", reg |-> n - 1]}
    OBVIOUS
  <1>14. t \in Seq(D) /\ out \in Seq(D)
    <2>1. E \subseteq D
      BY <1>13
    <2>2. t \in Seq(D)
      BY <1>12, <2>1
    <2>3. PICK l : l = [kind |-> "output", reg |-> n - 1]
      OBVIOUS
    <2>4. l \in D /\ out = IF n = 0 THEN <<>> ELSE <<l>>
      BY <1>4, <1>13, <2>3
    <2>5. out \in Seq(D)
      BY <2>4
    <2> QED BY <2>2, <2>5
  <1>15. ASSUME NEW k \in 1 .. n
         PROVE  t[k].kind \in {"comment", "garbled", "code"} /\ t[k] = CompiledBinding(src, f.bindings, k)[1]
    <2>1. t[k] = seqs[k][1]
      BY <1>11
    <2> QED BY <1>3, <1>7, <2>1
  <1>16. BodyJoined(src, f, n, body, D, t, out)
    BY <1>4, <1>6, <1>11, <1>14, <1>15 DEF BodyJoined
  <1> QED BY <1>16

\* Bindings that each are on their line become the first lines of the body.
LEMMA BodyBegins ==
    ASSUME NEW s \in Sources, NEW src, src = TextOf(s), NEW fns, fns = ParseLeoFunctions(src),
           NEW j \in 1 .. Len(fns), NEW f, f = fns[j],
           Inline(src, f),
           NEW body, body = GeneratedBody(src, fns, f)
    PROVE  /\ Len(f.bindings) \in Nat /\ Len(body) \in Nat /\ Len(f.bindings) <= Len(body)
           /\ \A k \in 1 .. Len(f.bindings) :
                  /\ body[k].kind \in {"comment", "garbled", "code"}
                  /\ body[k] = CompiledBinding(src, f.bindings, k)[1]
  <1>1. Len(f.bindings) \in Nat
    BY FallbackReads
  <1>2. OfKinds(body, BodyKinds)
    BY GeneratedTextIs
  <1>3. Len(body) \in Nat
    BY <1>2 DEF OfKinds, IsAleoText
  <1>4. PICK n \in Nat : n = Len(f.bindings)
    BY <1>1
  <1>5. CASE HasCall(fns, f)
    <2>1. f.bindings = <<>>
      BY <1>5 DEF HasCall
    <2>2. n = 0
      BY <1>4, <2>1
    <2> QED BY <1>3, <1>4, <2>2
  <1>6. CASE ~HasCall(fns, f)
    <2>1. PICK D, t, out : BodyJoined(src, f, n, body, D, t, out)
      BY <1>4, <1>6, BodyJoins
    <2>2. Len(t \o out) = Len(t) + Len(out) /\ Len(out) \in Nat /\ \A k \in 1 .. Len(t) : (t \o out)[k] = t[k]
      BY <2>1, ConcatPlaces DEF BodyJoined
    <2>3. ASSUME NEW k \in 1 .. n
          PROVE  body[k].kind \in {"comment", "garbled", "code"} /\ body[k] = CompiledBinding(src, f.bindings, k)[1]
      BY <2>1, <2>2 DEF BodyJoined
    <2>4. n <= Len(body)
      BY <2>1, <2>2 DEF BodyJoined
    <2> QED BY <1>3, <1>4, <2>3, <2>4
  <1> QED BY <1>5, <1>6

AleoOnce(fns, j) == \A m \in 1 .. Len(fns) : fns[m].aleo = fns[j].aleo => m = j

\* Functions that are f's have an instruction for each of its bindings.
CountsBindings(infos, f) ==
    /\ Len(infos) \in Nat
    /\ \E n \in 1 .. Len(infos) : infos[n].name = f.aleo
    /\ \A n \in 1 .. Len(infos) : infos[n].name = f.aleo =>
           Len(infos[n].instructions) \in Nat /\ Len(f.bindings) <= Len(infos[n].instructions)

\* source_map.rs finds a generated function once, with an instruction for
\* every binding.
LEMMA AleoInfoFound ==
    ASSUME NEW s \in Sources, NEW src, src = TextOf(s), NEW fns, fns = ParseLeoFunctions(src),
           NEW lines, lines = GenerateAleo(src, fns), NEW at, Blocks(lines, at, src, fns),
           NEW j \in 1 .. Len(fns), NEW f, f = fns[j],
           Inline(src, f),
           AleoOnce(fns, j),
           NEW infos, infos = ParseAleoFunctionInfo(lines)
    PROVE  CountsBindings(infos, f)
  <1>1. PICK K, ends, opens : /\ K = AleoLineKinds \ {"input", "output"}
                              /\ ends = {"blank", "program", "function", "closure"}
                              /\ opens = {"function", "closure"}
    OBVIOUS
  <1>2. PICK os : os = Openings(lines, opens)
    OBVIOUS
  <1>3. PICK L : lines \in Seq(L)
    BY FallbackText DEF IsAleoText
  <1>4. /\ Len(os) \in Nat
        /\ \A n \in 1 .. Len(os) : os[n] \in 1 .. Len(lines) /\ lines[os[n]].kind \in opens
        /\ \A q \in 1 .. Len(lines) : lines[q].kind \in opens => \E n \in 1 .. Len(os) : os[n] = q
    BY <1>2, <1>3, OpeningsAre
  <1>5. infos = [n \in 1 .. Len(os) |->
                    [name |-> lines[os[n]].name,
                     instructions |-> OfKind(BlockLines(lines, os[n], ends), K)]]
    BY <1>1, <1>2, Zenon DEF ParseAleoFunctionInfo
  <1>6. Len(infos) = Len(os)
    BY <1>4, <1>5
  <1>7. \A m \in 1 .. Len(fns) : /\ at[m] \in 1 .. Len(lines)
                                 /\ lines[at[m]] = GeneratedOpening(fns, fns[m])
    BY DEF Blocks
  <1>8. \A m \in 1 .. Len(fns) : lines[at[m]].kind \in opens /\ lines[at[m]].name = fns[m].aleo
    <2> SUFFICES ASSUME NEW m \in 1 .. Len(fns)
                 PROVE  lines[at[m]].kind \in opens /\ lines[at[m]].name = fns[m].aleo
      OBVIOUS
    <2>1. PICK g, l : g = fns[m] /\ l = lines[at[m]]
      OBVIOUS
    <2>2. l = [kind |-> IF HasCall(fns, g) THEN "function" ELSE "closure", name |-> g.aleo]
      BY <1>7, <2>1 DEF GeneratedOpening
    <2> QED BY <1>1, <2>1, <2>2
  <1>9. \E n \in 1 .. Len(infos) : infos[n].name = f.aleo
    <2>1. PICK n \in 1 .. Len(os) : os[n] = at[j]
      BY <1>4, <1>7, <1>8
    <2>2. infos[n].name = lines[os[n]].name
      BY <1>5
    <2> QED BY <1>6, <1>8, <2>1, <2>2
  <1>10. ASSUME NEW n \in 1 .. Len(infos), infos[n].name = f.aleo
         PROVE  Len(infos[n].instructions) \in Nat /\ Len(f.bindings) <= Len(infos[n].instructions)
    <2>1. PICK q : q = os[n]
      OBVIOUS
    <2>2. /\ q \in 1 .. Len(lines) /\ lines[q].kind \in opens /\ lines[q].name = f.aleo
          /\ infos[n].instructions = OfKind(BlockLines(lines, q, ends), K)
      BY <1>4, <1>5, <1>6, <1>10, <2>1
    <2>3. PICK m \in 1 .. Len(fns) : q = at[m]
      BY <1>1, <2>2 DEF Blocks, FnKinds
    <2>4. m = j
      BY <1>8, <2>2, <2>3 DEF AleoOnce
    <2>5. PICK body : body = GeneratedBody(src, fns, f)
      OBVIOUS
    <2>6. BlockLines(lines, q, ends) = body
      <3>1. "blank" \in ends /\ ends \cap BodyKinds = {}
        BY <1>1 DEF BodyKinds
      <3>2. BlockLines(lines, at[j], ends) = GeneratedBody(src, fns, fns[j])
        BY <3>1, BlockOf
      <3> QED BY <2>3, <2>4, <2>5, <3>2
    <2>7. /\ Len(f.bindings) \in Nat /\ Len(body) \in Nat /\ Len(f.bindings) <= Len(body)
          /\ \A k \in 1 .. Len(f.bindings) : body[k].kind \in {"comment", "garbled", "code"}
      <3>1. /\ Len(f.bindings) \in Nat /\ Len(body) \in Nat /\ Len(f.bindings) <= Len(body)
            /\ \A k \in 1 .. Len(f.bindings) :
                   /\ body[k].kind \in {"comment", "garbled", "code"}
                   /\ body[k] = CompiledBinding(src, f.bindings, k)[1]
        BY <2>5, BodyBegins
      <3> QED BY <3>1
    <2>8. PICK D : D = Range(body)
      OBVIOUS
    <2>9. body \in Seq(D)
      BY <2>5, <2>8, GeneratedTextIs DEF OfKinds, IsAleoText
    <2>10. PICK T : T = {l \in D : l.kind \in K}
      OBVIOUS
    <2>11. \A k \in 1 .. Len(f.bindings) : body[k] \in T
      <3>1. {"comment", "garbled", "code"} \subseteq K
        BY <1>1 DEF AleoLineKinds
      <3>2. \A k \in 1 .. Len(body) : body[k] \in D
        BY <2>9
      <3>3. \A k \in 1 .. Len(f.bindings) : k \in 1 .. Len(body)
        BY <2>7
      <3> QED BY <2>7, <2>10, <3>1, <3>2, <3>3
    <2>12. PICK c \in Nat : c = Len(f.bindings)
      BY <2>7
    <2>13. c <= Len(body) /\ \A k \in 1 .. c : body[k] \in T
      BY <2>7, <2>11, <2>12
    <2>14. Len(Select(body, T)) >= c /\ Len(Select(body, T)) \in Nat
      BY <2>9, <2>13, SelectsBeginning
    <2>15. infos[n].instructions = Select(body, T)
      BY <2>2, <2>6, <2>8, <2>10 DEF OfKind
    <2> QED BY <2>12, <2>14, <2>15
  <1> QED BY <1>4, <1>6, <1>9, <1>10 DEF CountsBindings

\* No other function has f's name, in Leo or in Aleo.
NameOnce(fns, j) == \A m \in 1 .. Len(fns) : fns[j].name \in {fns[m].name, fns[m].aleo} => m = j

MapsToBindings(src, lines, f) ==
    /\ \A k \in 1 .. Len(f.bindings) : ResolveLine(src, lines, f.name, k) = f.bindings[k].line
    /\ ResolveLine(src, lines, f.name, Len(f.bindings) + 1) = 0

\* Instruction k resolves to the line of binding k, and none beyond them.
LEMMA Resolves ==
    ASSUME NEW s \in Sources, NEW src, src = TextOf(s), NEW fns, fns = ParseLeoFunctions(src),
           NEW lines, lines = GenerateAleo(src, fns), WellLaid(src),
           NEW j \in 1 .. Len(fns), NEW f, f = fns[j], f.aleo = f.name,
           src[f.line].kind \in {"function", "transition"},
           Inline(src, f), NameOnce(fns, j)
    PROVE  MapsToBindings(src, lines, f)
  <1>1. PICK at : Blocks(lines, at, src, fns)
    BY ProgramBlocks
  <1>2. PICK as : as = ParseAleoFunctionInfo(lines)
    OBVIOUS
  <1>3. PICK infos : infos = ParseLeoFunctionInfo(src)
    OBVIOUS
  <1>4. PICK named : named = {n \in 1 .. Len(as) : as[n].name = f.name}
    OBVIOUS
  <1>5. PICK found : found = {n \in 1 .. Len(infos) : infos[n].name = f.name}
    OBVIOUS
  <1>6. /\ Len(as) \in Nat /\ named # {}
        /\ \A n \in named : Len(as[n].instructions) \in Nat /\ Len(f.bindings) <= Len(as[n].instructions)
    <2>1. AleoOnce(fns, j)
      BY DEF AleoOnce, NameOnce
    <2>2. CountsBindings(as, f)
      BY <1>1, <1>2, <2>1, AleoInfoFound
    <2> QED BY <1>4, <2>2 DEF CountsBindings
  <1>7. Len(infos) \in Nat /\ found # {} /\ \A n \in found : infos[n].bindings = f.bindings
    <2>1. IsText(src)
      BY TextIs
    <2>2. \A m \in 1 .. Len(fns) : fns[m].name = fns[j].name => m = j
      BY DEF NameOnce
    <2>3. src[fns[j].line].kind \in {"function", "transition"}
      OBVIOUS
    <2>4. /\ Len(infos) \in Nat
          /\ \E m \in 1 .. Len(infos) : infos[m].name = fns[j].name
          /\ \A m \in 1 .. Len(infos) : infos[m].name = fns[j].name => infos[m].bindings = fns[j].bindings
      BY <1>3, <2>1, <2>2, <2>3, InfoFound
    <2> QED BY <1>5, <2>4
  <1>8. PICK fn : fn = as[Max(named)]
    OBVIOUS
  <1>9. Max(named) \in named
    <2>1. named \subseteq 1 .. Len(as)
      BY <1>4
    <2> QED BY <1>6, <2>1, GreatestLine
  <1>10. fn.name = f.name /\ Len(fn.instructions) \in Nat /\ Len(f.bindings) <= Len(fn.instructions)
    BY <1>4, <1>6, <1>8, <1>9
  <1>11. infos[Min(found)].bindings = f.bindings
    <2>1. found \subseteq Nat /\ 0 \in Nat
      BY <1>5
    <2>2. FirstIn(found, 0) \in found
      BY <1>7, <2>1, FirstInIs
    <2>3. FirstIn(found, 0) = Min(found)
      BY <1>7 DEF FirstIn
    <2> QED BY <1>7, <2>2, <2>3
  <1>12. PICK entries : entries = SourceEntries(src, fn)
    OBVIOUS
  <1>13. entries = [k \in 1 .. Len(fn.instructions) |->
                       IF k > Len(f.bindings) THEN 0 ELSE f.bindings[k].line]
    <2>1. entries = [k \in 1 .. Len(fn.instructions) |->
                        IF found = {} \/ k > Len(infos[Min(found)].bindings) THEN 0
                        ELSE infos[Min(found)].bindings[k].line]
      BY <1>3, <1>5, <1>10, <1>12 DEF SourceEntries
    <2> QED BY <1>7, <1>11, <2>1
  <1>14. \A k : ResolveLine(src, lines, f.name, k) = IF k \in 1 .. Len(entries) THEN entries[k] ELSE 0
    BY <1>2, <1>4, <1>6, <1>8, <1>12, Zenon DEF ResolveLine
  <1>15. Len(f.bindings) \in Nat
    BY FallbackReads
  <1>16. Len(entries) = Len(fn.instructions)
    BY <1>10, <1>13
  <1>17. ASSUME NEW k \in 1 .. Len(f.bindings)
         PROVE  ResolveLine(src, lines, f.name, k) = f.bindings[k].line
    <2>1. k \in 1 .. Len(fn.instructions) /\ ~(k > Len(f.bindings))
      BY <1>10, <1>15
    <2>2. entries[k] = f.bindings[k].line
      BY <1>13, <2>1
    <2> QED BY <1>14, <1>16, <2>1, <2>2
  <1>18. ResolveLine(src, lines, f.name, Len(f.bindings) + 1) = 0
    <2>1. PICK k : k = Len(f.bindings) + 1
      OBVIOUS
    <2>2. k > Len(f.bindings)
      BY <1>15, <2>1
    <2>3. k \in 1 .. Len(fn.instructions) => entries[k] = 0
      BY <1>13, <2>2
    <2> QED BY <1>14, <1>16, <2>1, <2>3
  <1> QED BY <1>17, <1>18 DEF MapsToBindings

\* What is compiled is what the leo CLI gives or what the fallback makes of the
\* source, and neither the source nor what was read of it is changed.
CompiledInv ==
    /\ SourceRead
    /\ stage = "parse" => aleo \in {source.cli, GenerateAleo(text, leoFunctions)}

LEMMA SourceStays == [PipelineNext]_allVars => UNCHANGED srcVars
  BY DEF PipelineNext, Pipeline, CompileViaCli, CompileViaFallback, ParseAleo, BeginExecution,
         Execution, Executed, MapVariables, ChooseDialect, ChooseStructured, ChooseLegacy,
         WalkDialectLine, EmitDialectFunction, DialectEmitted, LegacyCall, LegacyReturn,
         LegacyEmitted, Ended, allVars, pipeVars

LEMMA CompiledStep == CompiledInv /\ [PipelineNext]_allVars => CompiledInv'
  <1> SUFFICES ASSUME CompiledInv, [PipelineNext]_allVars PROVE CompiledInv'
    OBVIOUS
  <1>1. PICK fs, src : fs = leoFunctions /\ src = text
    OBVIOUS
  <1>2. UNCHANGED srcVars
    BY SourceStays
  <1>3. SourceRead' /\ source' = source /\ leoFunctions' = fs /\ text' = src
    BY <1>1, <1>2 DEF CompiledInv, SourceRead, srcVars, text
  <1>4. stage' = "parse" => aleo' \in {source.cli, GenerateAleo(src, fs)}
    <2>1. CASE UNCHANGED allVars
      BY <1>1, <2>1 DEF CompiledInv, allVars, pipeVars
    <2>2. CASE CompileViaCli
      BY <2>2 DEF CompileViaCli
    <2>3. CASE CompileViaFallback
      <3>1. stage' = "parse" => aleo' = GenerateAleo(text, leoFunctions)
        BY <2>3, Zenon DEF CompileViaFallback, End
      <3> QED BY <1>1, <3>1
    <2>4. CASE /\ Pipeline
               /\ ~CompileViaCli
               /\ ~CompileViaFallback
      <3>1. stage' # "parse" \/ (stage' = stage /\ aleo' = aleo)
        BY <2>4 DEF Pipeline, ParseAleo, BeginExecution, Execution, Executed, MapVariables,
                    ChooseDialect, ChooseStructured, ChooseLegacy, WalkDialectLine,
                    EmitDialectFunction, DialectEmitted, LegacyCall, LegacyReturn, LegacyEmitted,
                    Goto, End, pipeVars
      <3> QED BY <1>1, <3>1 DEF CompiledInv
    <2> QED BY <2>1, <2>2, <2>3, <2>4 DEF PipelineNext, Ended
  <1> QED BY <1>3, <1>4 DEF CompiledInv

LEMMA CompiledMaps == CompiledInv => SourceMapExact
  <1> SUFFICES ASSUME CompiledInv, ByFallback, stage = "parse", WellLaid(text),
                      NEW n \in 1 .. Len(leoFunctions), NEW f, f = leoFunctions[n],
                      \A k \in 1 .. Len(f.bindings) : text[f.bindings[k].line].expr.form # "none",
                      text[f.line].kind \notin {"async function", "async transition"},
                      ~\E m \in 1 .. Len(leoFunctions) \ {n} :
                          f.name \in {leoFunctions[m].name, leoFunctions[m].aleo},
                      f.aleo = f.name
               PROVE  /\ \A k \in 1 .. Len(f.bindings) :
                             ResolveLine(text, aleo, f.name, k) = f.bindings[k].line
                      /\ ResolveLine(text, aleo, f.name, Len(f.bindings) + 1) = 0
    BY DEF SourceMapExact
  <1>1. PICK s, src, fns, lines : s = source /\ src = text /\ fns = leoFunctions /\ lines = aleo
    OBVIOUS
  <1>2. s \in Sources /\ src = TextOf(s) /\ fns = ParseLeoFunctions(src)
    BY <1>1 DEF CompiledInv, SourceRead, text
  <1>3. lines = GenerateAleo(src, fns)
    BY <1>1 DEF CompiledInv, ByFallback
  <1>4. src[f.line].kind \in {"function", "transition"}
    <2>1. IsText(src)
      BY <1>2, TextIs
    <2>2. src[f.line].kind \in Headers
      BY <1>1, <1>2, <2>1, FunctionsAre
    <2> QED BY <1>1, <2>2 DEF Headers
  <1>5. Inline(src, f)
    BY <1>1 DEF Inline
  <1>6. NameOnce(fns, n)
    BY <1>1 DEF NameOnce
  <1>7. n \in 1 .. Len(fns) /\ f = fns[n] /\ WellLaid(src)
    BY <1>1
  <1>8. MapsToBindings(src, lines, f)
    BY <1>2, <1>3, <1>4, <1>5, <1>6, <1>7, Resolves
  <1> QED BY <1>1, <1>8 DEF MapsToBindings

\* An instruction that the fallback generated resolves to the line of the
\* binding whose register it sets, and what stands behind them to none, in
\* every text that is well laid: each scanner's way through it is the same,
\* and generate_source_map's count of instructions is the bindings'.
THEOREM SourceMapIsExact == PipelineSpec => []SourceMapExact
  <1>1. PipelineInit => CompiledInv
    BY DEF PipelineInit, CompiledInv, SourceRead
  <1>2. CompiledInv /\ [PipelineNext]_allVars => CompiledInv'
    BY CompiledStep
  <1>3. CompiledInv => SourceMapExact
    BY CompiledMaps
  <1> QED BY <1>1, <1>2, <1>3, PTL DEF PipelineSpec

\* To select twice is to select what is in both sets.
LEMMA SelectTwice ==
    ASSUME NEW S, NEW s \in Seq(S), NEW A, NEW B
    PROVE  Select(Select(s, A), B) = Select(s, A \cap B)
  <1>0. PICK C : C = A \cap B
    OBVIOUS
  <1> DEFINE Good == {k \in Nat : \A u \in Seq(S) : Len(u) = k => Select(Select(u, A), B) = Select(u, C)}
  <1>1. 0 \in Good
    <2>1. \A u \in Seq(S) : Len(u) = 0 => u = <<>>
      OBVIOUS
    <2> QED BY <2>1, SelectEmpty
  <1>2. ASSUME NEW k \in Nat, k \in Good PROVE k + 1 \in Good
    <2> SUFFICES ASSUME NEW u \in Seq(S), Len(u) = k + 1 PROVE Select(Select(u, A), B) = Select(u, C)
      OBVIOUS
    <2>1. u # <<>>
      OBVIOUS
    <2>2. PICK w \in Seq(S), x \in S : u = Append(w, x) /\ Len(u) = Len(w) + 1
      BY <2>1, LastElement
    <2>3. Len(w) = k
      BY <2>2
    <2>4. Select(Select(w, A), B) = Select(w, C)
      BY <1>2, <2>3
    <2>5. PICK y : y = Select(w, A)
      OBVIOUS
    <2>6. y \in Seq(S)
      BY <2>5, SelectType
    <2>7. Select(u, A) = IF x \in A THEN Append(y, x) ELSE y
      BY <2>2, <2>5, SelectAppend
    <2>8. Select(Append(y, x), B) = IF x \in B THEN Append(Select(y, B), x) ELSE Select(y, B)
      BY <2>6, SelectAppend
    <2>9. Select(u, C) = IF x \in C THEN Append(Select(w, C), x) ELSE Select(w, C)
      BY <2>2, SelectAppend
    <2>10. CASE x \in A /\ x \in B
      BY <1>0, <2>4, <2>5, <2>7, <2>8, <2>9, <2>10
    <2>11. CASE x \in A /\ x \notin B
      BY <1>0, <2>4, <2>5, <2>7, <2>8, <2>9, <2>11
    <2>12. CASE x \notin A
      BY <1>0, <2>4, <2>5, <2>7, <2>9, <2>12
    <2> QED BY <2>10, <2>11, <2>12
  <1>3. Len(s) \in Good
    <2>1. Len(s) \in Nat
      OBVIOUS
    <2> HIDE DEF Good
    <2> QED BY <1>1, <1>2, <2>1, NatSetInduction
  <1> QED BY <1>0, <1>3

\* Lines that are all reached are found among the reached ones.
LEMMA ReachedSome ==
    ASSUME NEW src, NEW n \in Nat, n = Len(src), NEW at, NEW resume,
           NEW some, some \subseteq at, some \subseteq Visited(src, at, resume)
    PROVE  Select(Reached(src, at, resume), some) = Select(Numbers(src), some)
  <1>1. PICK ns, V : ns = Numbers(src) /\ V = at \cap Visited(src, at, resume)
    OBVIOUS
  <1>2. ns = [k \in 1 .. n |-> k]
    BY <1>1 DEF Numbers
  <1>3. ns \in Seq(1 .. n)
    BY <1>2, SeqDef
  <1>4. PICK D : D = 1 .. n
    OBVIOUS
  <1>5. ns \in Seq(D)
    BY <1>3, <1>4
  <1>6. Select(Select(ns, V), some) = Select(ns, V \cap some)
    BY <1>5, SelectTwice
  <1>7. V \cap some = some
    BY <1>1
  <1> QED BY <1>1, <1>6, <1>7 DEF Reached

\* What line i opens reaches to the line that closes it.
LEMMA ExtentIs ==
    ASSUME NEW src, IsText(src), NEW n \in Nat, n = Len(src), NEW i \in 1 .. n,
           NEW C, C = {j \in i .. n : Closed(src, i, j)}
    PROVE  Extent(src, i) = i .. FirstIn(C, n)
  <1>1. PICK D : D = {j \in i .. n : Net(src, 1, j) <= Depth(src, i) /\ Closed(src, i, j)}
    OBVIOUS
  <1>2. C = D
    <2> SUFFICES ASSUME NEW j \in i .. n, Closed(src, i, j) PROVE Net(src, 1, j) <= Depth(src, i)
      BY <1>1
    <2>1. j \in i - 1 .. Len(src)
      OBVIOUS
    <2>2. /\ Net(src, 1, j) = Net(src, 1, i - 1) + Net(src, i, j)
          /\ Net(src, i, j) \in Int /\ Net(src, 1, i - 1) \in Int
      BY <2>1, NetSplits
    <2>3. Net(src, i, j) <= 0
      BY DEF Closed
    <2> QED BY <2>2, <2>3 DEF Depth
  <1> QED BY <1>1, <1>2 DEF Extent

\* Lines without braces leave nothing open.
LEMMA NetNothing ==
    ASSUME NEW src, IsText(src), NEW i \in 1 .. Len(src), NEW j \in i - 1 .. Len(src),
           \A k \in i .. j : src[k].opens = 0 /\ src[k].closes = 0
    PROVE  Net(src, i, j) = 0
  <1>1. PICK n \in Nat : n = Len(src)
    BY DEF IsText
  <1>2. PICK u : NetUpTo(u, src, i, j) /\ Net(src, i, j) = u[j]
    BY NetDef
  <1>3. \A k \in i - 1 .. j : u[k] = IF k < i THEN 0 ELSE u[k - 1] + src[k].opens - src[k].closes
    BY <1>2 DEF NetUpTo
  <1> DEFINE B == {k \in Nat : i - 1 + k <= j => u[i - 1 + k] = 0}
  <1>4. 0 \in B
    BY <1>1, <1>3
  <1>5. ASSUME NEW k \in Nat, k \in B PROVE k + 1 \in B
    <2> SUFFICES ASSUME i - 1 + (k + 1) <= j PROVE u[i - 1 + (k + 1)] = 0
      OBVIOUS
    <2>1. PICK m : m = i - 1 + (k + 1)
      OBVIOUS
    <2>2. m \in i - 1 .. j /\ ~(m < i) /\ m - 1 = i - 1 + k /\ m \in i .. j /\ i - 1 + k <= j
      BY <1>1, <2>1
    <2>3. u[m - 1] = 0
      BY <1>5, <2>2
    <2>4. u[m] = u[m - 1] + src[m].opens - src[m].closes
      BY <1>3, <2>2
    <2> QED BY <2>1, <2>2, <2>3, <2>4
  <1>6. j - (i - 1) \in Nat /\ i - 1 + (j - (i - 1)) = j
    BY <1>1
  <1>7. j - (i - 1) \in B
    <2> HIDE DEF B
    <2> QED BY <1>4, <1>5, <1>6, NatSetInduction
  <1> QED BY <1>2, <1>6, <1>7

\* What lines i .. j leave open is what those before k and those from k on do.
LEMMA NetBetween ==
    ASSUME NEW src, IsText(src), NEW i \in 1 .. Len(src), NEW k \in i .. Len(src), NEW j \in k - 1 .. Len(src)
    PROVE  /\ Net(src, i, j) = Net(src, i, k - 1) + Net(src, k, j)
           /\ Net(src, i, k - 1) \in Int /\ Net(src, k, j) \in Int /\ Net(src, i, j) \in Int
  <1>1. PICK n \in Nat : n = Len(src)
    BY DEF IsText
  <1>2. j \in i - 1 .. Len(src) /\ k \in 1 .. Len(src) /\ k - 1 \in i - 1 .. Len(src)
    BY <1>1
  <1>3. /\ Net(src, 1, j) = Net(src, 1, i - 1) + Net(src, i, j)
        /\ Net(src, i, j) \in Int /\ Net(src, 1, i - 1) \in Int
    BY <1>2, NetSplits
  <1>4. /\ Net(src, 1, j) = Net(src, 1, k - 1) + Net(src, k, j)
        /\ Net(src, k, j) \in Int /\ Net(src, 1, k - 1) \in Int
    BY <1>2, NetSplits
  <1>5. /\ Net(src, 1, k - 1) = Net(src, 1, i - 1) + Net(src, i, k - 1)
        /\ Net(src, i, k - 1) \in Int
    BY <1>2, NetSplits
  <1> QED BY <1>3, <1>4, <1>5

\* The two scanners of functions, one counting from the header and one from the
\* end of the signature, stop on one line: the last of what the function opens.
LEMMA BodiesAgree ==
    ASSUME NEW src, IsText(src), FunctionsWellLaid(src), NEW n \in Nat, n = Len(src), NEW i \in 1 .. n,
           src[i].kind \in Headers, NEW k, k = SignatureEnd(src, i), NEW e, e = BodyEnd(src, i)
    PROVE  /\ k \in i .. n /\ e \in k + 1 .. n /\ ~Closed(src, i, i) /\ ~Closed(src, k, k)
           /\ BodyEnd(src, k) = e /\ Extent(src, i) = i .. e
  <1>1. k \in Nat /\ k >= i
    BY SignatureEndIs
  <1>2. /\ k <= n /\ \A j \in i .. k : ~Closed(src, i, j)
    BY DEF FunctionsWellLaid, WellLaid
  <1>3. /\ \A j \in i .. k - 1 : src[j].opens = 0 /\ src[j].closes = 0
        /\ \E j \in i .. n : Closed(src, i, j)
    BY DEF FunctionsWellLaid, AtKinds
  <1>4. Net(src, i, k - 1) = 0
    <2>1. i \in 1 .. Len(src) /\ k - 1 \in i - 1 .. Len(src)
      BY <1>1, <1>2
    <2> QED BY <1>3, <2>1, NetNothing
  <1>5. ASSUME NEW j \in k .. n PROVE Closed(src, i, j) <=> Closed(src, k, j)
    <2>1. i \in 1 .. Len(src) /\ k \in i .. Len(src) /\ j \in k - 1 .. Len(src)
      BY <1>1, <1>2
    <2>2. Net(src, i, j) = Net(src, i, k - 1) + Net(src, k, j) /\ Net(src, k, j) \in Int
      BY <2>1, NetBetween
    <2>3. Net(src, i, j) = Net(src, k, j)
      BY <1>4, <2>2
    <2>4. ASSUME NEW h \in i .. j, src[h].opens > 0 PROVE h \in k .. j
      <3>1. h \notin i .. k - 1
        BY <1>3, <2>4
      <3> QED BY <1>1, <3>1
    <2>5. (\E h \in i .. j : src[h].opens > 0) <=> \E h \in k .. j : src[h].opens > 0
      <3>1. \A h \in k .. j : h \in i .. j
        BY <1>1
      <3> QED BY <2>4, <3>1
    <2> QED BY <2>3, <2>5 DEF Closed
  <1>6. PICK C : C = {j \in i .. n : Closed(src, i, j)}
    OBVIOUS
  <1>7. C # {} /\ C \subseteq Nat
    BY <1>3, <1>6
  <1>8. \A j \in C : j > k
    BY <1>1, <1>2, <1>6
  <1>9. C = {j \in i + 1 .. n : Closed(src, i, j)}
    BY <1>1, <1>6, <1>8
  <1>10. C = {j \in k + 1 .. n : Closed(src, k, j)}
    <2>1. ASSUME NEW j PROVE j \in C <=> j \in k + 1 .. n /\ Closed(src, k, j)
      <3>1. CASE j \in k + 1 .. n
        <4>1. j \in k .. n /\ j \in i .. n
          BY <1>1, <3>1
        <4> QED BY <1>5, <1>6, <3>1, <4>1
      <3>2. CASE j \notin k + 1 .. n
        BY <1>1, <1>6, <1>8, <3>2
      <3> QED BY <3>1, <3>2
    <2> QED BY <2>1
  <1>11. ~Closed(src, i, i) /\ ~Closed(src, k, k)
    BY <1>1, <1>2, <1>5
  <1>12. PICK c : c = FirstIn(C, n + 1)
    OBVIOUS
  <1>13. e = c
    BY <1>9, <1>11, <1>12 DEF BodyEnd
  <1>14. BodyEnd(src, k) = c
    <2>1. ~(k > Len(src) \/ Closed(src, k, k))
      BY <1>1, <1>2, <1>11
    <2>2. BodyEnd(src, k) = FirstIn({j \in k + 1 .. n : Closed(src, k, j)}, n + 1)
      BY <2>1 DEF BodyEnd
    <2> QED BY <1>10, <1>12, <2>2
  <1>15. FirstIn(C, n) = c
    BY <1>7, <1>12 DEF FirstIn
  <1>16. c \in C
    <2>1. n + 1 \in Nat
      OBVIOUS
    <2> QED BY <1>7, <1>12, <2>1, FirstInIs
  <1>17. Extent(src, i) = i .. c
    BY <1>6, <1>15, ExtentIs
  <1>18. c \in k + 1 .. n
    BY <1>1, <1>6, <1>8, <1>16
  <1> QED BY <1>1, <1>2, <1>11, <1>13, <1>14, <1>17, <1>18

----------------------------------------------------------------------------
(* parse_block: the statements of a block *)

BlockDomain(src) == [at : 1 .. Len(src) + 2, last : 0 .. Len(src), loop : 0 .. Len(src)]

StatementSet(src) == [kind : LeoLineKinds, line : 1 .. Len(src), loop : 0 .. Len(src)]

\* What ParseBlock makes of block b if g is what it makes of those that remain.
BlockOnce(g, src, b) ==
    LET i == b.at
        kind == src[i].kind
        stmt == <<[kind |-> kind, line |-> i, loop |-> b.loop]>>
        from(k) == g[[at |-> k, last |-> b.last, loop |-> b.loop]]
        inside(e) == g[[at |-> i + 1, last |-> e - 1, loop |-> i]]
    IN  IF i > b.last THEN <<>>
        ELSE CASE kind = "for" ->
                    LET e == ForEnd(src, i, b.last) IN stmt \o inside(e) \o from(e + 1)
               [] kind = "if" -> from(BlockEnd(src, i, b.last) + 1)
               [] kind = "let" ->
                    (IF src[i].typed THEN stmt ELSE <<>>) \o from(LetEnd(src, i, b.last) + 1)
               [] kind \in OneLine \/ (kind \in {"expr", "text"} /\ src[i].semi) ->
                    stmt \o from(i + 1)
               [] OTHER -> from(i + 1)

\* The same by parts: the statement on its first line, if there is one, what is
\* in a loop, and what comes after.
LineAfter(src, i, last) ==
    IF src[i].kind \in {"for", "if"} THEN BlockEnd(src, i, last) + 1
    ELSE IF src[i].kind = "let" THEN LetEnd(src, i, last) + 1 ELSE i + 1

InsideOfLoop(src, b) == [at |-> b.at + 1, last |-> BlockEnd(src, b.at, b.last) - 1, loop |-> b.at]

AfterStatement(src, b) == [at |-> LineAfter(src, b.at, b.last), last |-> b.last, loop |-> b.loop]

StatementOf(src, b) == [kind |-> src[b.at].kind, line |-> b.at, loop |-> b.loop]

OwnStatement(src, b) == IF StatesOne(src, b.at) THEN <<StatementOf(src, b)>> ELSE <<>>

LoopStatements(g, src, b) == IF src[b.at].kind = "for" THEN g[InsideOfLoop(src, b)] ELSE <<>>

StatementsBy(g, src, b) ==
    IF b.at > b.last THEN <<>>
    ELSE (OwnStatement(src, b) \o LoopStatements(g, src, b)) \o g[AfterStatement(src, b)]

\* How many lines a block has.
BlockSize(b) == IF b.at > b.last THEN 0 ELSE (b.last - b.at) + 1

\* What is left of a block is smaller.
LEMMA BlocksShrink ==
    ASSUME NEW src, NEW n \in Nat, n = Len(src), NEW b \in BlockDomain(src), b.at <= b.last
    PROVE  /\ AfterStatement(src, b) \in BlockDomain(src) /\ BlockSize(AfterStatement(src, b)) < BlockSize(b)
           /\ InsideOfLoop(src, b) \in BlockDomain(src) /\ BlockSize(InsideOfLoop(src, b)) < BlockSize(b)
           /\ LineAfter(src, b.at, b.last) \in b.at + 1 .. b.last + 2
           /\ BlockEnd(src, b.at, b.last) \in b.at .. b.last + 1
           /\ b.at \in 1 .. n /\ b.last \in 0 .. n /\ b.loop \in 0 .. n
  <1>1. PICK i, last, loop : i = b.at /\ last = b.last /\ loop = b.loop
    OBVIOUS
  <1>2. i \in 1 .. n /\ last \in 0 .. n /\ loop \in 0 .. n /\ i <= last
    BY <1>1 DEF BlockDomain
  <1>3. BlockEnd(src, i, last) \in i .. last + 1
    <2>1. PICK C : C = {e \in i .. last : Net(src, i, e) <= 0}
      OBVIOUS
    <2>2. C \subseteq Nat /\ last + 1 \in Nat
      BY <1>2, <2>1
    <2>3. /\ C = {} => FirstIn(C, last + 1) = last + 1
          /\ C # {} => FirstIn(C, last + 1) \in C
      BY <2>2, FirstInIs
    <2>4. BlockEnd(src, i, last) = FirstIn(C, last + 1)
      BY <2>1 DEF BlockEnd
    <2> QED BY <1>2, <2>1, <2>3, <2>4
  <1>4. LetEnd(src, i, last) \in i .. last + 1
    <2>1. PICK C : C = {e \in i .. last : Net(src, i, e) <= 0 /\ src[e].semi}
      OBVIOUS
    <2>2. C \subseteq Nat /\ last + 1 \in Nat
      BY <1>2, <2>1
    <2>3. /\ C = {} => FirstIn(C, last + 1) = last + 1
          /\ C # {} => FirstIn(C, last + 1) \in C
      BY <2>2, FirstInIs
    <2>4. LetEnd(src, i, last) = FirstIn(C, last + 1)
      BY <2>1 DEF LetEnd
    <2> QED BY <1>2, <2>1, <2>3, <2>4
  <1>5. LineAfter(src, i, last) \in i + 1 .. last + 2
    BY <1>2, <1>3, <1>4 DEF LineAfter
  <1>6. PICK m, e : m = LineAfter(src, i, last) /\ e = BlockEnd(src, i, last)
    OBVIOUS
  <1>7. m \in i + 1 .. last + 2 /\ e \in i .. last + 1
    BY <1>3, <1>5, <1>6
  <1>8. BlockSize(b) = (last - i) + 1
    BY <1>1, <1>2 DEF BlockSize
  <1>9. PICK a : a = [at |-> m, last |-> last, loop |-> loop]
    OBVIOUS
  <1>10. a \in BlockDomain(src) /\ BlockSize(a) < BlockSize(b)
    BY <1>2, <1>7, <1>8, <1>9 DEF BlockDomain, BlockSize
  <1>11. PICK w : w = [at |-> i + 1, last |-> e - 1, loop |-> i]
    OBVIOUS
  <1>12. w \in BlockDomain(src) /\ BlockSize(w) < BlockSize(b)
    BY <1>2, <1>7, <1>8, <1>11 DEF BlockDomain, BlockSize
  <1>13. AfterStatement(src, b) = a /\ InsideOfLoop(src, b) = w
    BY <1>1, <1>6, <1>9, <1>11 DEF AfterStatement, InsideOfLoop
  <1> QED BY <1>1, <1>2, <1>6, <1>7, <1>10, <1>12, <1>13

\* By the kind of its first line.
BlockByKind(f, src, b, a, w, stmt, kind) ==
    /\ kind = "for" => BlockOnce(f, src, b) = (stmt \o f[w]) \o f[a]
    /\ kind = "if" => BlockOnce(f, src, b) = f[a]
    /\ kind = "let" => BlockOnce(f, src, b) = (IF src[b.at].typed THEN stmt ELSE <<>>) \o f[a]
    /\ kind \notin {"for", "if", "let"} =>
           BlockOnce(f, src, b) = IF StatesOne(src, b.at) THEN stmt \o f[a] ELSE f[a]

LEMMA BlockOnceIs ==
    ASSUME NEW src, NEW b, NEW f, b.at \in Nat, b.last \in Nat, b.at <= b.last,
           NEW a, a = AfterStatement(src, b), NEW w, w = InsideOfLoop(src, b),
           NEW stmt, stmt = <<StatementOf(src, b)>>, NEW kind, kind = src[b.at].kind
    PROVE  BlockByKind(f, src, b, a, w, stmt, kind)
  <1>1. PICK i, last, loop, typed, semi : /\ i = b.at /\ last = b.last /\ loop = b.loop
                                          /\ typed = src[i].typed /\ semi = src[i].semi
    OBVIOUS
  <1>2. PICK e, m, k : /\ e = BlockEnd(src, i, last) /\ m = LetEnd(src, i, last)
                       /\ k = LineAfter(src, i, last)
    OBVIOUS
  <1>3. PICK from : from = [h \in {e + 1, m + 1, i + 1} |-> f[[at |-> h, last |-> last, loop |-> loop]]]
    OBVIOUS
  <1>4. stmt = <<[kind |-> kind, line |-> i, loop |-> loop]>>
    BY <1>1 DEF StatementOf
  <1>5. w = [at |-> i + 1, last |-> e - 1, loop |-> i]
    BY <1>1, <1>2 DEF InsideOfLoop
  <1>6. a = [at |-> k, last |-> last, loop |-> loop]
    BY <1>1, <1>2 DEF AfterStatement
  <1>7. PICK q : q = f[a]
    OBVIOUS
  <1>8. ~(i > last)
    BY <1>1
  <1>14. PICK r1, r2, r3, r4, r5 :
            /\ r1 = stmt \o f[w] \o f[[at |-> e + 1, last |-> last, loop |-> loop]]
            /\ r2 = f[[at |-> e + 1, last |-> last, loop |-> loop]]
            /\ r3 = (IF typed THEN stmt ELSE <<>>) \o f[[at |-> m + 1, last |-> last, loop |-> loop]]
            /\ r4 = stmt \o f[[at |-> i + 1, last |-> last, loop |-> loop]]
            /\ r5 = f[[at |-> i + 1, last |-> last, loop |-> loop]]
    OBVIOUS
  <1>9. BlockOnce(f, src, b) =
            CASE kind = "for" -> r1
              [] kind = "if" -> r2
              [] kind = "let" -> r3
              [] kind \in OneLine \/ (kind \in {"expr", "text"} /\ semi) -> r4
              [] OTHER -> r5
    BY <1>1, <1>2, <1>4, <1>5, <1>8, <1>14, Zenon DEF BlockOnce, ForEnd
  <1>15. "for" \notin OneLine /\ "if" \notin OneLine /\ "let" \notin OneLine
    BY DEF OneLine
  <1>10. CASE kind = "for"
    <2>1. k = e + 1
      BY <1>1, <1>2, <1>10 DEF LineAfter
    <2>2. f[[at |-> e + 1, last |-> last, loop |-> loop]] = q
      BY <1>6, <1>7, <2>1, Zenon
    <2>3. BlockOnce(f, src, b) = r1
      BY <1>9, <1>10, <1>15
    <2> QED BY <1>7, <1>10, <1>14, <2>2, <2>3 DEF BlockByKind
  <1>11. CASE kind = "if"
    <2>1. k = e + 1
      BY <1>1, <1>2, <1>11 DEF LineAfter
    <2>2. f[[at |-> e + 1, last |-> last, loop |-> loop]] = q
      BY <1>6, <1>7, <2>1, Zenon
    <2>3. BlockOnce(f, src, b) = r2
      BY <1>9, <1>11, <1>15
    <2> QED BY <1>7, <1>11, <1>14, <2>2, <2>3 DEF BlockByKind
  <1>12. CASE kind = "let"
    <2>1. k = m + 1
      BY <1>1, <1>2, <1>12 DEF LineAfter
    <2>2. f[[at |-> m + 1, last |-> last, loop |-> loop]] = q
      BY <1>6, <1>7, <2>1, Zenon
    <2>3. BlockOnce(f, src, b) = r3
      BY <1>9, <1>12, <1>15
    <2>4. r3 = (IF src[b.at].typed THEN stmt ELSE <<>>) \o q
      BY <1>1, <1>14, <2>2
    <2> QED BY <1>7, <1>12, <2>3, <2>4 DEF BlockByKind
  <1>13. CASE kind \notin {"for", "if", "let"}
    <2>1. k = i + 1
      BY <1>1, <1>2, <1>13 DEF LineAfter
    <2>2. f[[at |-> i + 1, last |-> last, loop |-> loop]] = q
      BY <1>6, <1>7, <2>1, Zenon
    <2>3. StatesOne(src, b.at) <=> kind \in OneLine \/ (kind \in {"expr", "text"} /\ semi)
      BY <1>1, <1>13 DEF StatesOne
    <2>4. CASE StatesOne(src, b.at)
      <3>1. BlockOnce(f, src, b) = r4
        BY <1>9, <1>13, <2>3, <2>4
      <3> QED BY <1>7, <1>13, <1>14, <2>2, <2>4, <3>1 DEF BlockByKind
    <2>5. CASE ~StatesOne(src, b.at)
      <3>1. BlockOnce(f, src, b) = r5
        BY <1>9, <1>13, <2>3, <2>5
      <3> QED BY <1>7, <1>13, <1>14, <2>2, <2>5, <3>1 DEF BlockByKind
    <2> QED BY <2>4, <2>5
  <1> QED BY <1>10, <1>11, <1>12, <1>13 DEF BlockByKind

\* It depends on these two blocks only.
LEMMA BlockSame ==
    ASSUME NEW src, NEW b, NEW g, NEW h, b.at \in Nat, b.last \in Nat,
           b.at <= b.last => /\ g[InsideOfLoop(src, b)] = h[InsideOfLoop(src, b)]
                             /\ g[AfterStatement(src, b)] = h[AfterStatement(src, b)]
    PROVE  BlockOnce(g, src, b) = BlockOnce(h, src, b)
  <1>1. CASE b.at > b.last
    BY <1>1 DEF BlockOnce
  <1>2. CASE ~(b.at > b.last)
    <2>1. b.at <= b.last
      BY <1>2
    <2>2. PICK a, w : a = AfterStatement(src, b) /\ w = InsideOfLoop(src, b)
      OBVIOUS
    <2>3. PICK stmt, kind : stmt = <<StatementOf(src, b)>> /\ kind = src[b.at].kind
      OBVIOUS
    <2>4. g[w] = h[w] /\ g[a] = h[a]
      BY <2>1, <2>2
    <2>5. \A f : BlockByKind(f, src, b, a, w, stmt, kind)
      BY <2>1, <2>2, <2>3, BlockOnceIs
    <2>6. CASE kind = "for"
      BY <2>4, <2>5, <2>6 DEF BlockByKind
    <2>7. CASE kind = "if"
      BY <2>4, <2>5, <2>7 DEF BlockByKind
    <2>8. CASE kind = "let"
      BY <2>4, <2>5, <2>8 DEF BlockByKind
    <2>9. CASE kind \notin {"for", "if", "let"}
      BY <2>4, <2>5, <2>9 DEF BlockByKind
    <2> QED BY <2>6, <2>7, <2>8, <2>9
  <1> QED BY <1>1, <1>2

\* Nothing in front of a sequence leaves it as it is.
LEMMA NothingBefore == ASSUME NEW S, NEW s \in Seq(S) PROVE <<>> \o s = s
  OBVIOUS

LEMMA BlockIsParts ==
    ASSUME NEW src, NEW n \in Nat, n = Len(src), IsText(src), NEW b \in BlockDomain(src), NEW g,
           NEW S, StatementSet(src) \subseteq S,
           b.at <= b.last => g[InsideOfLoop(src, b)] \in Seq(S) /\ g[AfterStatement(src, b)] \in Seq(S)
    PROVE  BlockOnce(g, src, b) = StatementsBy(g, src, b) /\ StatementsBy(g, src, b) \in Seq(S)
  <1>1. b.at \in Nat /\ b.last \in Nat
    BY DEF BlockDomain
  <1>2. CASE b.at > b.last
    <2>1. <<>> \in Seq(S)
      OBVIOUS
    <2> QED BY <1>2, <2>1 DEF BlockOnce, StatementsBy
  <1>3. CASE ~(b.at > b.last)
    <2>1. b.at <= b.last
      BY <1>1, <1>3
    <2>2. PICK a, w : a = AfterStatement(src, b) /\ w = InsideOfLoop(src, b)
      OBVIOUS
    <2>3. PICK st, kind : st = StatementOf(src, b) /\ kind = src[b.at].kind
      OBVIOUS
    <2>4. PICK stmt, own, within : /\ stmt = <<st>> /\ own = OwnStatement(src, b)
                                   /\ within = LoopStatements(g, src, b)
      OBVIOUS
    <2>5. b.at \in 1 .. n /\ b.loop \in 0 .. n
      BY <2>1, BlocksShrink
    <2>6. IsLeoLine(src[b.at])
      BY <2>5 DEF IsText, IsSourceLine
    <2>7. st \in S
      BY <2>3, <2>5, <2>6 DEF StatementSet, StatementOf, IsLeoLine
    <2>8. stmt \in Seq(S) /\ <<>> \in Seq(S)
      BY <2>4, <2>7
    <2>9. g[w] \in Seq(S) /\ g[a] \in Seq(S)
      BY <2>1, <2>2
    <2>10. own = (IF StatesOne(src, b.at) THEN stmt ELSE <<>>) /\ own \in Seq(S)
      BY <2>3, <2>4, <2>8 DEF OwnStatement
    <2>11. within = (IF kind = "for" THEN g[w] ELSE <<>>) /\ within \in Seq(S)
      BY <2>2, <2>3, <2>4, <2>8, <2>9 DEF LoopStatements
    <2>12. StatementsBy(g, src, b) = (own \o within) \o g[a]
      BY <1>3, <2>2, <2>4 DEF StatementsBy
    <2>13. /\ kind = "for" => BlockOnce(g, src, b) = (stmt \o g[w]) \o g[a]
           /\ kind = "if" => BlockOnce(g, src, b) = g[a]
           /\ kind = "let" => BlockOnce(g, src, b) = (IF src[b.at].typed THEN stmt ELSE <<>>) \o g[a]
           /\ kind \notin {"for", "if", "let"} =>
                  BlockOnce(g, src, b) = IF StatesOne(src, b.at) THEN stmt \o g[a] ELSE g[a]
      <3>1. stmt = <<StatementOf(src, b)>>
        BY <2>3, <2>4
      <3>2. BlockByKind(g, src, b, a, w, stmt, kind)
        BY <1>1, <2>1, <2>2, <2>3, <3>1, BlockOnceIs
      <3> QED BY <3>2 DEF BlockByKind
    <2>14. own \o within \in Seq(S) /\ (own \o within) \o g[a] \in Seq(S)
      BY <2>9, <2>10, <2>11, ConcatPlaces
    <2>15. own \o <<>> = own /\ <<>> \o g[a] = g[a]
      BY <2>9, <2>10, ConcatOne, NothingBefore
    <2>16. StatesOne(src, b.at) <=> \/ kind \in {"for"} \cup OneLine
                                    \/ kind = "let" /\ src[b.at].typed
                                    \/ kind \in {"expr", "text"} /\ src[b.at].semi
      BY <2>3 DEF StatesOne
    <2>17. CASE kind = "for"
      BY <2>10, <2>11, <2>12, <2>13, <2>14, <2>16, <2>17
    <2>18. CASE kind = "if"
      <3>1. ~StatesOne(src, b.at)
        BY <2>16, <2>18 DEF OneLine
      <3>2. own = <<>> /\ within = <<>>
        BY <2>10, <2>11, <2>18, <3>1
      <3> QED BY <2>12, <2>13, <2>14, <2>15, <2>18, <3>2
    <2>19. CASE kind = "let"
      <3>1. StatesOne(src, b.at) <=> src[b.at].typed
        BY <2>16, <2>19 DEF OneLine
      <3>2. within = <<>>
        BY <2>11, <2>19
      <3>3. own = IF src[b.at].typed THEN stmt ELSE <<>>
        BY <2>10, <3>1
      <3> QED BY <2>12, <2>13, <2>14, <2>15, <2>19, <3>2, <3>3
    <2>20. CASE kind \notin {"for", "if", "let"}
      <3>1. within = <<>>
        BY <2>11, <2>20
      <3> QED BY <2>10, <2>12, <2>13, <2>14, <2>15, <2>20, <3>1
    <2> QED BY <2>17, <2>18, <2>19, <2>20
  <1> QED BY <1>2, <1>3


LEMMA SizeIsNat == ASSUME NEW src, NEW b \in BlockDomain(src) PROVE BlockSize(b) \in Nat
  <1>1. PICK i, last : i = b.at /\ last = b.last
    OBVIOUS
  <1>2. i \in Nat /\ last \in 0 .. Len(src)
    BY <1>1 DEF BlockDomain
  <1> QED BY <1>1, <1>2 DEF BlockSize

\* What holds of a block when it holds of all smaller ones holds of every block.
LEMMA BySize ==
    ASSUME NEW src, NEW P,
           \A b \in BlockDomain(src) :
               (\A c \in BlockDomain(src) : BlockSize(c) < BlockSize(b) => c \in P) => b \in P
    PROVE  BlockDomain(src) \subseteq P
  <1>1. PICK D : D = BlockDomain(src)
    OBVIOUS
  <1> DEFINE T == {k \in Nat : \A b \in D : BlockSize(b) <= k => b \in P}
  <1>2. \A b \in D : BlockSize(b) \in Nat
    BY <1>1, SizeIsNat
  <1>3. 0 \in T
    <2> SUFFICES ASSUME NEW b \in D, BlockSize(b) <= 0 PROVE b \in P
      OBVIOUS
    <2>1. \A c \in D : ~(BlockSize(c) < BlockSize(b))
      BY <1>2
    <2> QED BY <1>1, <2>1
  <1>4. ASSUME NEW k \in Nat, k \in T PROVE k + 1 \in T
    <2> SUFFICES ASSUME NEW b \in D, BlockSize(b) <= k + 1 PROVE b \in P
      OBVIOUS
    <2>1. \A c \in D : BlockSize(c) < BlockSize(b) => BlockSize(c) <= k
      BY <1>2
    <2>2. \A c \in D : BlockSize(c) < BlockSize(b) => c \in P
      BY <1>4, <2>1
    <2> QED BY <1>1, <2>2
  <1>5. Nat \subseteq T
    <2> HIDE DEF T
    <2> QED BY <1>3, <1>4, NatSetInduction
  <1> SUFFICES ASSUME NEW b \in D PROVE b \in P
    BY <1>1
  <1>6. BlockSize(b) \in T /\ BlockSize(b) <= BlockSize(b)
    BY <1>2, <1>5
  <1> QED BY <1>6

AgreeBelow(x, y, src, k) == \A b \in BlockDomain(src) : BlockSize(b) <= k => x[b] = y[b]

\* Two tables that agree on the blocks of some size give the same for those one larger.
LEMMA PartsSettle ==
    ASSUME NEW src, NEW n \in Nat, n = Len(src), NEW x, NEW y, NEW k \in Nat, AgreeBelow(x, y, src, k),
           NEW b \in BlockDomain(src), BlockSize(b) <= k + 1
    PROVE  StatementsBy(x, src, b) = StatementsBy(y, src, b)
  <1>1. b.at \in Nat /\ b.last \in Nat
    BY DEF BlockDomain
  <1>2. CASE b.at > b.last
    BY <1>2 DEF StatementsBy
  <1>3. CASE ~(b.at > b.last)
    <2>1. b.at <= b.last
      BY <1>1, <1>3
    <2>2. PICK a, w : a = AfterStatement(src, b) /\ w = InsideOfLoop(src, b)
      OBVIOUS
    <2>3. a \in BlockDomain(src) /\ w \in BlockDomain(src) /\ BlockSize(a) < BlockSize(b) /\ BlockSize(w) < BlockSize(b)
      BY <2>1, <2>2, BlocksShrink
    <2>4. BlockSize(a) \in Nat /\ BlockSize(w) \in Nat /\ BlockSize(b) \in Nat
      BY <2>3, SizeIsNat
    <2>5. BlockSize(a) <= k /\ BlockSize(w) <= k
      BY <2>3, <2>4
    <2>6. x[a] = y[a] /\ x[w] = y[w]
      BY <2>3, <2>5 DEF AgreeBelow
    <2>7. LoopStatements(x, src, b) = LoopStatements(y, src, b)
      BY <2>2, <2>6 DEF LoopStatements
    <2> QED BY <2>2, <2>6, <2>7 DEF StatementsBy
  <1> QED BY <1>2, <1>3

\* What becomes of every block.
BlockTables(src) == [BlockDomain(src) -> Seq(StatementSet(src))]

\* The equations of parse_block have a solution.
LEMMA BlocksExist ==
    ASSUME NEW src, IsText(src)
    PROVE  \E g \in BlockTables(src) : \A b \in BlockDomain(src) : g[b] = StatementsBy(g, src, b)
  <1>1. PICK n \in Nat : n = Len(src)
    BY DEF IsText
  <1>2. PICK D, S : D = BlockDomain(src) /\ S = BlockTables(src)
    OBVIOUS
  <1>3. PICK base : base = [b \in D |-> <<>>]
    OBVIOUS
  <1>4. base \in S
    BY <1>2, <1>3 DEF BlockTables
  <1>5. PICK step : step = [p \in Nat \X S |-> [b \in D |-> StatementsBy(p[2], src, b)]]
    OBVIOUS
  <1>6. \A k \in Nat, x \in S : step[<<k, x>>] = [b \in D |-> StatementsBy(x, src, b)]
    BY <1>5
  <1>7. ASSUME NEW x \in S, NEW b \in D PROVE StatementsBy(x, src, b) \in Seq(StatementSet(src))
    <2>1. PICK Z : Z = StatementSet(src)
      OBVIOUS
    <2>2. b.at <= b.last => x[InsideOfLoop(src, b)] \in Seq(Z) /\ x[AfterStatement(src, b)] \in Seq(Z)
      <3> SUFFICES ASSUME b.at <= b.last
                   PROVE  x[InsideOfLoop(src, b)] \in Seq(Z) /\ x[AfterStatement(src, b)] \in Seq(Z)
        OBVIOUS
      <3>1. b \in BlockDomain(src)
        BY <1>2
      <3>2. AfterStatement(src, b) \in D /\ InsideOfLoop(src, b) \in D
        BY <1>1, <1>2, <3>1, BlocksShrink
      <3>3. x \in [D -> Seq(Z)]
        BY <1>2, <2>1 DEF BlockTables
      <3> QED BY <3>2, <3>3
    <2>3. b \in BlockDomain(src) /\ StatementSet(src) \subseteq Z
      BY <1>2, <2>1
    <2>4. StatementsBy(x, src, b) \in Seq(Z)
      BY <1>1, <2>2, <2>3, BlockIsParts
    <2> QED BY <2>1, <2>4
  <1>8. \A k \in Nat, x \in S : step[<<k, x>>] \in S
    <2> SUFFICES ASSUME NEW k \in Nat, NEW x \in S PROVE step[<<k, x>>] \in S
      OBVIOUS
    <2>1. step[<<k, x>>] = [b \in D |-> StatementsBy(x, src, b)]
      BY <1>6
    <2>2. \A b \in D : StatementsBy(x, src, b) \in Seq(StatementSet(src))
      BY <1>7
    <2>3. PICK Z : Z = Seq(StatementSet(src))
      OBVIOUS
    <2>4. S = [D -> Z]
      BY <1>2, <2>3 DEF BlockTables
    <2> QED BY <2>1, <2>2, <2>3, <2>4
  <1>9. PICK m \in Nat : m = n + 2
    OBVIOUS
  <1>10. PICK u : Recurs(u, S, base, step, m)
    BY <1>4, <1>8, Recursion
  <1>11. u \in [0 .. m -> S] /\ u[0] = base /\ \A k \in 1 .. m : u[k] = step[<<k, u[k - 1]>>]
    BY <1>10 DEF Recurs
  <1>12. \A k \in Nat : k + 1 <= m => /\ u[k] \in S
                                      /\ \A b \in D : u[k + 1][b] = StatementsBy(u[k], src, b)
    <2> SUFFICES ASSUME NEW k \in Nat, k + 1 <= m
                 PROVE  u[k] \in S /\ \A b \in D : u[k + 1][b] = StatementsBy(u[k], src, b)
      OBVIOUS
    <2>1. k \in 0 .. m /\ k + 1 \in 1 .. m /\ (k + 1) - 1 = k /\ k + 1 \in Nat
      OBVIOUS
    <2>2. u[k] \in S /\ u[k + 1] = step[<<k + 1, u[k]>>]
      BY <1>11, <2>1
    <2>3. u[k + 1] = [b \in D |-> StatementsBy(u[k], src, b)]
      BY <1>6, <2>1, <2>2
    <2> QED BY <2>2, <2>3
  <1> DEFINE T == {k \in Nat : k + 1 <= m => \A b \in BlockDomain(src) : BlockSize(b) <= k => u[k + 1][b] = u[k][b]}
  <1>13. 0 \in T
    <2> SUFFICES ASSUME NEW b \in BlockDomain(src), BlockSize(b) <= 0 PROVE u[0 + 1][b] = u[0][b]
      OBVIOUS
    <2>1. b.at > b.last
      BY DEF BlockSize, BlockDomain
    <2>2. StatementsBy(u[0], src, b) = <<>>
      BY <2>1 DEF StatementsBy
    <2>3. u[0 + 1][b] = StatementsBy(u[0], src, b)
      BY <1>2, <1>9, <1>12
    <2>4. u[0][b] = <<>>
      BY <1>2, <1>3, <1>11
    <2> QED BY <2>2, <2>3, <2>4
  <1>14. ASSUME NEW k \in Nat, k \in T PROVE k + 1 \in T
    <2> SUFFICES ASSUME (k + 1) + 1 <= m, NEW b \in BlockDomain(src), BlockSize(b) <= k + 1
                 PROVE  u[(k + 1) + 1][b] = u[k + 1][b]
      OBVIOUS
    <2>1. k + 1 <= m /\ k + 1 \in Nat
      OBVIOUS
    <2>2. PICK x, y : x = u[k + 1] /\ y = u[k]
      OBVIOUS
    <2>3. AgreeBelow(x, y, src, k)
      BY <1>14, <2>1, <2>2 DEF AgreeBelow
    <2>4. StatementsBy(x, src, b) = StatementsBy(y, src, b)
      BY <1>1, <2>3, PartsSettle
    <2>5. u[(k + 1) + 1][b] = StatementsBy(x, src, b)
      BY <1>2, <1>12, <2>1, <2>2
    <2>6. u[k + 1][b] = StatementsBy(y, src, b)
      BY <1>2, <1>12, <2>1, <2>2
    <2> QED BY <2>4, <2>5, <2>6
  <1>15. Nat \subseteq T
    <2> HIDE DEF T
    <2> QED BY <1>13, <1>14, NatSetInduction
  <1>16. PICK g : g = u[n + 1]
    OBVIOUS
  <1>17. n + 1 \in Nat /\ (n + 1) + 1 <= m
    BY <1>9
  <1>18. g \in BlockTables(src)
    BY <1>2, <1>12, <1>16, <1>17
  <1>19. ASSUME NEW b \in BlockDomain(src) PROVE g[b] = StatementsBy(g, src, b)
    <2>1. BlockSize(b) <= n + 1
      BY <1>1 DEF BlockSize, BlockDomain
    <2>2. u[(n + 1) + 1][b] = u[n + 1][b]
      BY <1>15, <1>17, <2>1
    <2>3. u[(n + 1) + 1][b] = StatementsBy(u[n + 1], src, b)
      BY <1>2, <1>12, <1>17
    <2> QED BY <1>16, <2>2, <2>3
  <1> QED BY <1>18, <1>19

\* parse_block solves them.
LEMMA ParseBlockSolves ==
    ASSUME NEW src, NEW first, NEW end, NEW g, g = [b \in BlockDomain(src) |-> BlockOnce(g, src, b)]
    PROVE  \E h : /\ h = [b \in BlockDomain(src) |-> BlockOnce(h, src, b)]
                  /\ ParseBlock(src, first, end) = h[[at |-> first, last |-> end, loop |-> 0]]
  <1> DEFINE h == CHOOSE f : f = [b \in BlockDomain(src) |-> BlockOnce(f, src, b)]
  <1>1. h = [b \in BlockDomain(src) |-> BlockOnce(h, src, b)]
    OBVIOUS
  <1>2. ParseBlock(src, first, end) = h[[at |-> first, last |-> end, loop |-> 0]]
    BY Zenon DEF ParseBlock, BlockOnce, BlockDomain
  <1> QED BY <1>1, <1>2

\* So every block's statements are the sum of its parts.
BlockTable(g, src) ==
    /\ g \in BlockTables(src)
    /\ \A b \in BlockDomain(src) : g[b] = StatementsBy(g, src, b)

LEMMA ParseBlockIs ==
    ASSUME NEW src, IsText(src), NEW first, NEW end, [at |-> first, last |-> end, loop |-> 0] \in BlockDomain(src)
    PROVE  \E g : /\ BlockTable(g, src)
                  /\ ParseBlock(src, first, end) = g[[at |-> first, last |-> end, loop |-> 0]]
  <1>1. PICK n \in Nat : n = Len(src)
    BY DEF IsText
  <1>2. PICK g \in BlockTables(src) : \A b \in BlockDomain(src) : g[b] = StatementsBy(g, src, b)
    BY BlocksExist
  <1>3. PICK D : D = BlockDomain(src)
    OBVIOUS
  <1>4. \A b \in D : BlockOnce(g, src, b) = g[b]
    <2> SUFFICES ASSUME NEW b \in D PROVE BlockOnce(g, src, b) = g[b]
      OBVIOUS
    <2>1. PICK Z : Z = StatementSet(src)
      OBVIOUS
    <2>2. b \in BlockDomain(src) /\ StatementSet(src) \subseteq Z
      BY <1>3, <2>1
    <2>3. g \in [BlockDomain(src) -> Seq(Z)]
      BY <1>2, <2>1 DEF BlockTables
    <2>4. b.at <= b.last => g[InsideOfLoop(src, b)] \in Seq(Z) /\ g[AfterStatement(src, b)] \in Seq(Z)
      <3> SUFFICES ASSUME b.at <= b.last
                   PROVE  g[InsideOfLoop(src, b)] \in Seq(Z) /\ g[AfterStatement(src, b)] \in Seq(Z)
        OBVIOUS
      <3>1. AfterStatement(src, b) \in BlockDomain(src) /\ InsideOfLoop(src, b) \in BlockDomain(src)
        BY <1>1, <2>2, BlocksShrink
      <3> QED BY <2>3, <3>1
    <2>5. BlockOnce(g, src, b) = StatementsBy(g, src, b)
      BY <1>1, <2>2, <2>4, BlockIsParts
    <2> QED BY <1>2, <2>2, <2>5
  <1>5. g = [b \in D |-> BlockOnce(g, src, b)]
    <2>1. g = [b \in D |-> g[b]]
      BY <1>2, <1>3 DEF BlockTables
    <2> QED BY <1>4, <2>1
  <1>6. g = [b \in BlockDomain(src) |-> BlockOnce(g, src, b)]
    BY <1>3, <1>5
  <1>7. PICK h : /\ h = [b \in BlockDomain(src) |-> BlockOnce(h, src, b)]
                 /\ ParseBlock(src, first, end) = h[[at |-> first, last |-> end, loop |-> 0]]
    BY <1>6, ParseBlockSolves
  <1>8. \A b \in BlockDomain(src) : h[b] = BlockOnce(h, src, b) /\ g[b] = BlockOnce(g, src, b)
    BY <1>6, <1>7
  <1>9. ASSUME NEW b \in BlockDomain(src),
               \A c \in BlockDomain(src) : BlockSize(c) < BlockSize(b) => h[c] = g[c]
        PROVE  h[b] = g[b]
    <2>1. b.at \in Nat /\ b.last \in Nat
      BY DEF BlockDomain
    <2>2. b.at <= b.last => /\ h[InsideOfLoop(src, b)] = g[InsideOfLoop(src, b)]
                            /\ h[AfterStatement(src, b)] = g[AfterStatement(src, b)]
      <3> SUFFICES ASSUME b.at <= b.last
                   PROVE  /\ h[InsideOfLoop(src, b)] = g[InsideOfLoop(src, b)]
                          /\ h[AfterStatement(src, b)] = g[AfterStatement(src, b)]
        OBVIOUS
      <3>1. PICK a, w : a = AfterStatement(src, b) /\ w = InsideOfLoop(src, b)
        OBVIOUS
      <3>2. /\ a \in BlockDomain(src) /\ BlockSize(a) < BlockSize(b)
            /\ w \in BlockDomain(src) /\ BlockSize(w) < BlockSize(b)
        BY <1>1, <3>1, BlocksShrink
      <3>3. h[a] = g[a] /\ h[w] = g[w]
        BY <1>9, <3>2
      <3> QED BY <3>1, <3>3
    <2>3. BlockOnce(h, src, b) = BlockOnce(g, src, b)
      BY <2>1, <2>2, BlockSame
    <2> QED BY <1>8, <2>3
  <1>10. PICK P : P = {b \in BlockDomain(src) : h[b] = g[b]}
    OBVIOUS
  <1>11. \A b \in BlockDomain(src) :
            (\A c \in BlockDomain(src) : BlockSize(c) < BlockSize(b) => c \in P) => b \in P
    BY <1>9, <1>10
  <1>12. BlockDomain(src) \subseteq P
    BY <1>11, BySize
  <1>14. \A b \in BlockDomain(src) : h[b] = g[b]
    BY <1>10, <1>12
  <1> QED BY <1>2, <1>7, <1>14 DEF BlockTable


\* Every statement of a block is on a line of it.
OnLinesOf(src, b, s) == \A p \in 1 .. Len(s) : s[p].line \in b.at .. b.last /\ s[p].kind = src[s[p].line].kind

LEMMA ConcatOnLines ==
    ASSUME NEW src, NEW b, NEW S, NEW s \in Seq(S), NEW t \in Seq(S), OnLinesOf(src, b, s), OnLinesOf(src, b, t)
    PROVE  OnLinesOf(src, b, s \o t)
  <1>1. PICK r : r = s \o t
    OBVIOUS
  <1>2. \A k \in 1 .. Len(r) : \/ k \in 1 .. Len(s) /\ r[k] = s[k]
                               \/ k - Len(s) \in 1 .. Len(t) /\ r[k] = t[k - Len(s)]
    BY <1>1, ConcatElement
  <1>3. ASSUME NEW k \in 1 .. Len(r) PROVE r[k].line \in b.at .. b.last /\ r[k].kind = src[r[k].line].kind
    <2>1. CASE k \in 1 .. Len(s) /\ r[k] = s[k]
      BY <2>1 DEF OnLinesOf
    <2>2. CASE k - Len(s) \in 1 .. Len(t) /\ r[k] = t[k - Len(s)]
      BY <2>2 DEF OnLinesOf
    <2> QED BY <1>2, <2>1, <2>2
  <1>4. OnLinesOf(src, b, r)
    BY <1>3 DEF OnLinesOf
  <1> QED BY <1>1, <1>4

InParts(g, src, b, a, w, S) ==
    /\ g[a] \in Seq(S) /\ g[w] \in Seq(S) /\ OwnStatement(src, b) \in Seq(S)
    /\ LoopStatements(g, src, b) \in Seq(S) /\ OwnStatement(src, b) \o LoopStatements(g, src, b) \in Seq(S)
    /\ g[b] = (OwnStatement(src, b) \o LoopStatements(g, src, b)) \o g[a]

LEMMA TableTypes ==
    ASSUME NEW src, NEW n \in Nat, n = Len(src), IsText(src), NEW g, BlockTable(g, src),
           NEW b \in BlockDomain(src), b.at <= b.last,
           NEW S, S = StatementSet(src), NEW a, a = AfterStatement(src, b), NEW w, w = InsideOfLoop(src, b)
    PROVE  InParts(g, src, b, a, w, S)
  <1>1. a \in BlockDomain(src) /\ w \in BlockDomain(src) /\ b.at \in 1 .. n /\ b.last \in 0 .. n /\ b.loop \in 0 .. n
    BY BlocksShrink
  <1>2. g \in [BlockDomain(src) -> Seq(S)] /\ g[b] = StatementsBy(g, src, b)
    BY DEF BlockTable, BlockTables
  <1>3. g[a] \in Seq(S) /\ g[w] \in Seq(S)
    BY <1>1, <1>2
  <1>4. IsLeoLine(src[b.at])
    BY <1>1 DEF IsText, IsSourceLine
  <1>5. PICK st : st = StatementOf(src, b)
    OBVIOUS
  <1>6. st \in S
    BY <1>1, <1>4, <1>5 DEF StatementSet, StatementOf, IsLeoLine
  <1>7. <<st>> \in Seq(S) /\ <<>> \in Seq(S)
    BY <1>6
  <1>8. OwnStatement(src, b) \in Seq(S)
    BY <1>5, <1>7 DEF OwnStatement
  <1>9. LoopStatements(g, src, b) \in Seq(S)
    BY <1>3, <1>7 DEF LoopStatements
  <1>10. OwnStatement(src, b) \o LoopStatements(g, src, b) \in Seq(S)
    BY <1>8, <1>9, ConcatPlaces
  <1>11. ~(b.at > b.last)
    BY <1>1
  <1>12. g[b] = (OwnStatement(src, b) \o LoopStatements(g, src, b)) \o g[a]
    BY <1>2, <1>11 DEF StatementsBy
  <1> QED BY <1>3, <1>8, <1>9, <1>10, <1>12 DEF InParts

LEMMA StatementsOnLines ==
    ASSUME NEW src, IsText(src), NEW g, BlockTable(g, src)
    PROVE  \A b \in BlockDomain(src) : OnLinesOf(src, b, g[b])
  <1>1. PICK n \in Nat : n = Len(src)
    BY DEF IsText
  <1>2. ASSUME NEW b \in BlockDomain(src),
               \A c \in BlockDomain(src) : BlockSize(c) < BlockSize(b) => OnLinesOf(src, c, g[c])
        PROVE  OnLinesOf(src, b, g[b])
    <2>1. b.at \in Nat /\ b.last \in 0 .. n
      BY <1>1 DEF BlockDomain
    <2>2. CASE b.at > b.last
      <3>1. g[b] = <<>>
        BY <2>2 DEF BlockTable, StatementsBy
      <3> QED BY <3>1 DEF OnLinesOf
    <2>3. CASE ~(b.at > b.last)
      <3>1. b.at <= b.last
        BY <2>1, <2>3
      <3>2. PICK a, w, S : a = AfterStatement(src, b) /\ w = InsideOfLoop(src, b) /\ S = StatementSet(src)
        OBVIOUS
      <3>3. PICK own, within : own = OwnStatement(src, b) /\ within = LoopStatements(g, src, b)
        OBVIOUS
      <3>4. /\ g[a] \in Seq(S) /\ g[w] \in Seq(S) /\ own \in Seq(S) /\ within \in Seq(S)
            /\ own \o within \in Seq(S) /\ g[b] = (own \o within) \o g[a]
        <4>1. InParts(g, src, b, a, w, S)
          BY <1>1, <3>1, <3>2, TableTypes
        <4> QED BY <3>3, <4>1 DEF InParts
      <3>5. /\ a \in BlockDomain(src) /\ BlockSize(a) < BlockSize(b)
            /\ w \in BlockDomain(src) /\ BlockSize(w) < BlockSize(b)
            /\ LineAfter(src, b.at, b.last) \in b.at + 1 .. b.last + 2
            /\ BlockEnd(src, b.at, b.last) \in b.at .. b.last + 1
        BY <1>1, <3>1, <3>2, BlocksShrink
      <3>6. OnLinesOf(src, a, g[a]) /\ OnLinesOf(src, w, g[w])
        BY <1>2, <3>5
      <3>7. a.at >= b.at /\ a.last = b.last /\ a.at \in Nat
        BY <2>1, <3>2, <3>5 DEF AfterStatement
      <3>8. w.at >= b.at /\ w.last <= b.last /\ w.at \in Nat /\ w.last \in Int
        BY <2>1, <3>2, <3>5 DEF InsideOfLoop
      <3>9. OnLinesOf(src, b, g[a])
        BY <2>1, <3>6, <3>7 DEF OnLinesOf
      <3>10. OnLinesOf(src, b, g[w])
        BY <2>1, <3>6, <3>8 DEF OnLinesOf
      <3>11. OnLinesOf(src, b, within)
        <4>1. within = g[w] \/ within = <<>>
          BY <3>2, <3>3 DEF LoopStatements
        <4>2. OnLinesOf(src, b, <<>>)
          BY DEF OnLinesOf
        <4> QED BY <3>10, <4>1, <4>2
      <3>12. OnLinesOf(src, b, own)
        <4>1. own = <<StatementOf(src, b)>> \/ own = <<>>
          BY <3>3 DEF OwnStatement
        <4>2. OnLinesOf(src, b, <<>>)
          BY DEF OnLinesOf
        <4>3. PICK st : st = StatementOf(src, b)
          OBVIOUS
        <4>4. st.line = b.at /\ st.kind = src[b.at].kind
          BY <4>3 DEF StatementOf
        <4>5. b.at \in b.at .. b.last
          BY <2>1, <3>1
        <4>6. OnLinesOf(src, b, <<st>>)
          BY <4>4, <4>5 DEF OnLinesOf
        <4> QED BY <4>1, <4>2, <4>3, <4>6
      <3>13. OnLinesOf(src, b, own \o within)
        BY <3>4, <3>11, <3>12, ConcatOnLines
      <3>14. PICK r : r = own \o within
        OBVIOUS
      <3>15. OnLinesOf(src, b, r \o g[a])
        BY <3>4, <3>9, <3>13, <3>14, ConcatOnLines
      <3> QED BY <3>4, <3>14, <3>15
    <2> QED BY <2>2, <2>3
  <1>3. PICK P : P = {b \in BlockDomain(src) : OnLinesOf(src, b, g[b])}
    OBVIOUS
  <1>4. \A b \in BlockDomain(src) :
            (\A c \in BlockDomain(src) : BlockSize(c) < BlockSize(b) => c \in P) => b \in P
    BY <1>2, <1>3
  <1>5. BlockDomain(src) \subseteq P
    BY <1>4, BySize
  <1> QED BY <1>3, <1>5

\* So the return that is stepped to is a line of the function's body.
LEMMA FirstReturnIs ==
    ASSUME NEW src, IsText(src), NEW first, NEW end, NEW b, b = [at |-> first, last |-> end, loop |-> 0],
           b \in BlockDomain(src), NEW r, r = FirstReturn(ParseBlock(src, first, end))
    PROVE  r = 0 \/ (r \in first .. end /\ src[r].kind = "return")
  <1>1. PICK g : BlockTable(g, src) /\ ParseBlock(src, first, end) = g[b]
    BY ParseBlockIs
  <1>2. PICK s : s = g[b]
    OBVIOUS
  <1>3. OnLinesOf(src, b, s)
    BY <1>1, <1>2, StatementsOnLines
  <1>4. g \in [BlockDomain(src) -> Seq(StatementSet(src))]
    BY <1>1 DEF BlockTable, BlockTables
  <1>5. s \in Seq(StatementSet(src)) /\ Len(s) \in Nat
    BY <1>2, <1>4
  <1>6. PICK R : R = {k \in 1 .. Len(s) : s[k].kind = "return"}
    OBVIOUS
  <1>7. r = IF R = {} THEN 0 ELSE s[Min(R)].line
    BY <1>1, <1>2, <1>6 DEF FirstReturn
  <1>8. CASE R = {}
    BY <1>7, <1>8
  <1>9. CASE R # {}
    <2>1. R \subseteq Nat /\ 0 \in Nat
      BY <1>6
    <2>2. FirstIn(R, 0) \in R
      BY <1>9, <2>1, FirstInIs
    <2>3. Min(R) \in R
      BY <1>9, <2>2 DEF FirstIn
    <2>4. PICK m : m = Min(R)
      OBVIOUS
    <2>5. m \in 1 .. Len(s) /\ s[m].kind = "return" /\ r = s[m].line
      BY <1>6, <1>7, <1>9, <2>3, <2>4
    <2>6. r \in b.at .. b.last /\ src[r].kind = "return"
      BY <1>3, <2>5 DEF OnLinesOf
    <2> QED BY <2>6
  <1> QED BY <1>8, <1>9


----------------------------------------------------------------------------
(* parse_leo_program: the items of a source *)

Items(src) == AtKinds(src, Headers \cup {"program", "struct", "record"})

ItemResume(src) ==
    [i \in Items(src) |-> CASE src[i].kind \in Headers -> BodyEnd(src, SignatureEnd(src, i)) + 1
                            [] src[i].kind = "program" -> i + 1
                            [] OTHER -> StructEnd(src, i) + 1]

ItemsAt(src) == Reached(src, Items(src), ItemResume(src))

\* What is behind a struct's extent is behind its end.
LEMMA StructEndIs ==
    ASSUME NEW src, IsText(src), NEW n \in Nat, n = Len(src), NEW i \in 1 .. n
    PROVE  /\ StructEnd(src, i) \in i .. n + 1
           /\ \A h \in 1 .. n : h > i /\ h \notin Extent(src, i) => h > StructEnd(src, i)
  <1>1. PICK C : C = {j \in i .. n : Closed(src, i, j)}
    OBVIOUS
  <1>2. C \subseteq Nat /\ C \subseteq i .. n /\ n + 1 \in Nat
    BY <1>1
  <1>3. Extent(src, i) = i .. FirstIn(C, n)
    BY <1>1, ExtentIs
  <1>4. StructEnd(src, i) = FirstIn(C, n + 1)
    BY <1>1 DEF StructEnd
  <1>5. /\ C = {} => FirstIn(C, n) = n /\ FirstIn(C, n + 1) = n + 1
        /\ C # {} => FirstIn(C, n) = FirstIn(C, n + 1) /\ FirstIn(C, n + 1) \in C
    <2>1. C = {} => FirstIn(C, n) = n
      BY <1>2, FirstInIs
    <2>2. /\ C = {} => FirstIn(C, n + 1) = n + 1
          /\ C # {} => FirstIn(C, n + 1) \in C
      BY <1>2, FirstInIs
    <2>3. C # {} => FirstIn(C, n) = FirstIn(C, n + 1)
      BY DEF FirstIn
    <2> QED BY <2>1, <2>2, <2>3
  <1>6. PICK e, m : e = FirstIn(C, n + 1) /\ m = FirstIn(C, n)
    OBVIOUS
  <1>7. e \in i .. n + 1 /\ m \in i .. n /\ (e = m \/ m = n)
    <2>1. CASE C = {}
      BY <1>5, <1>6, <2>1
    <2>2. CASE C # {}
      <3>1. e \in C /\ e = m
        BY <1>5, <1>6, <2>2
      <3> QED BY <1>2, <3>1
    <2> QED BY <2>1, <2>2
  <1>8. ASSUME NEW h \in 1 .. n, h > i, h \notin i .. m PROVE h > e
    BY <1>7, <1>8
  <1> QED BY <1>3, <1>4, <1>6, <1>7, <1>8

\* What of the items is in no function or struct is looked at.
LEMMA ItemsReach ==
    ASSUME NEW src, IsText(src), FunctionsWellLaid(src), NEW some, some \subseteq Items(src),
           \A i \in AtKinds(src, {"struct", "record"}) \cup AtKinds(src, Headers) :
               some \cap Extent(src, i) \subseteq {i}
    PROVE  Select(ItemsAt(src), some) = Select(Numbers(src), some) /\ some \subseteq Visited(src, Items(src), ItemResume(src))
  <1>1. PICK n \in Nat : n = Len(src)
    BY DEF IsText
  <1>2. PICK at, resume : at = Items(src) /\ resume = ItemResume(src)
    OBVIOUS
  <1>3. at \subseteq 1 .. n /\ some \subseteq 1 .. n
    BY <1>1, <1>2 DEF Items, AtKinds
  <1>4. ASSUME NEW i \in at
        PROVE  /\ resume[i] \in Nat /\ resume[i] > i
               /\ \A h \in some : h > i => h >= resume[i]
    <2>1. i \in 1 .. n /\ src[i].kind \in Headers \cup {"program", "struct", "record"}
      BY <1>1, <1>2, <1>3 DEF Items, AtKinds
    <2>2. CASE src[i].kind \in Headers
      <3>1. PICK k, e : k = SignatureEnd(src, i) /\ e = BodyEnd(src, i)
        OBVIOUS
      <3>2. k \in i .. n /\ e \in k + 1 .. n /\ BodyEnd(src, k) = e /\ Extent(src, i) = i .. e
        BY <1>1, <2>1, <2>2, <3>1, BodiesAgree
      <3>3. resume[i] = e + 1
        BY <1>2, <2>2, <3>1, <3>2 DEF ItemResume, Headers
      <3>4. some \cap (i .. e) \subseteq {i}
        BY <1>1, <2>1, <2>2, <3>2 DEF AtKinds
      <3>5. resume[i] \in Nat /\ resume[i] > i
        BY <2>1, <3>2, <3>3
      <3>6. ASSUME NEW h \in some, h > i PROVE h >= resume[i]
        <4>1. h \in 1 .. n /\ h \notin i .. e
          BY <1>3, <2>1, <3>4, <3>6
        <4> QED BY <2>1, <3>2, <3>3, <3>6, <4>1
      <3> QED BY <3>5, <3>6
    <2>3. CASE src[i].kind = "program"
      <3>1. resume[i] = i + 1
        BY <1>2, <2>3 DEF ItemResume, Headers
      <3> QED BY <1>3, <2>1, <3>1
    <2>4. CASE src[i].kind \in {"struct", "record"}
      <3>1. /\ StructEnd(src, i) \in i .. n + 1
            /\ \A h \in 1 .. n : h > i /\ h \notin Extent(src, i) => h > StructEnd(src, i)
        BY <1>1, <2>1, StructEndIs
      <3>2. PICK e : e = StructEnd(src, i)
        OBVIOUS
      <3>3. resume[i] = e + 1
        BY <1>2, <2>4, <3>2 DEF ItemResume, Headers
      <3>4. some \cap Extent(src, i) \subseteq {i}
        BY <1>1, <2>1, <2>4 DEF AtKinds
      <3>5. resume[i] \in Nat /\ resume[i] > i
        BY <2>1, <3>1, <3>2, <3>3
      <3>6. ASSUME NEW h \in some, h > i PROVE h >= resume[i]
        <4>1. h \in 1 .. n /\ h \notin Extent(src, i)
          BY <1>3, <2>1, <3>4, <3>6
        <4>2. h > e
          BY <3>1, <3>2, <3>6, <4>1
        <4> QED BY <2>1, <3>1, <3>2, <3>3, <4>1, <4>2
      <3> QED BY <3>5, <3>6
    <2> QED BY <2>1, <2>2, <2>3, <2>4
  <1>5. /\ \A i \in at : resume[i] \in Nat /\ resume[i] > i
        /\ \A i \in at, h \in some : h > i => h >= resume[i]
    BY <1>4
  <1>6. some \subseteq Visited(src, at, resume)
    BY <1>1, <1>3, <1>5, VisitedSome
  <1>7. Select(Reached(src, at, resume), some) = Select(Numbers(src), some)
    BY <1>1, <1>2, <1>6, ReachedSome
  <1> QED BY <1>2, <1>6, <1>7 DEF ItemsAt

\* It has the functions that are there.
LEMMA ProgramFunctions ==
    ASSUME NEW src, IsText(src), FunctionsWellLaid(src), NEW hs, hs = Select(Numbers(src), AtKinds(src, Headers))
    PROVE  \E cur : ParseLeoProgram(src).funcs = [m \in 1 .. Len(hs) |-> LeoFunc(src, hs[m], cur[m])]
  <1>1. PICK some : some = AtKinds(src, Headers)
    OBVIOUS
  <1>2. some \subseteq Items(src)
    BY <1>1 DEF Items, AtKinds
  <1>3. \A i \in AtKinds(src, {"struct", "record"}) \cup AtKinds(src, Headers) :
               some \cap Extent(src, i) \subseteq {i}
    <2> SUFFICES ASSUME NEW i \in AtKinds(src, {"struct", "record"}) \cup AtKinds(src, Headers)
                 PROVE  some \cap Extent(src, i) \subseteq {i}
      OBVIOUS
    <2>1. CASE i \in AtKinds(src, {"struct", "record"})
      BY <1>1, <2>1 DEF FunctionsWellLaid
    <2>2. CASE i \in AtKinds(src, Headers)
      BY <1>1, <2>2 DEF FunctionsWellLaid, WellLaid, AtKinds
    <2> QED BY <2>1, <2>2
  <1>4. Select(ItemsAt(src), AtKinds(src, Headers)) = hs
    BY <1>1, <1>2, <1>3, ItemsReach
  <1>5. PICK at : at = ItemsAt(src)
    OBVIOUS
  <1>6. Select(at, AtKinds(src, Headers)) = hs
    BY <1>4, <1>5
  <1>7. PICK programs : programs = {i \in Range(at) : NamesProgram(src[i])}
    OBVIOUS
  <1>8. PICK cur : cur = [m \in 1 .. Len(hs) |->
                              IF \E p \in programs : p < hs[m] THEN src[Max({p \in programs : p < hs[m]})].name
                              ELSE "None"]
    OBVIOUS
  <1>9. ParseLeoProgram(src).funcs
            = [m \in 1 .. Len(hs) |->
                  LeoFunc(src, hs[m], IF \E p \in programs : p < hs[m]
                                      THEN src[Max({p \in programs : p < hs[m]})].name ELSE "None")]
    <2>1. at = Reached(src, AtKinds(src, Headers \cup {"program", "struct", "record"}),
                 [i \in AtKinds(src, Headers \cup {"program", "struct", "record"}) |->
                      CASE src[i].kind \in Headers -> BodyEnd(src, SignatureEnd(src, i)) + 1
                        [] src[i].kind = "program" -> i + 1
                        [] OTHER -> StructEnd(src, i) + 1])
      BY <1>5 DEF ItemsAt, Items, ItemResume
    <2> QED BY <1>6, <1>7, <2>1, Zenon DEF ParseLeoProgram
  <1>10. \A m \in 1 .. Len(hs) :
            LeoFunc(src, hs[m], IF \E p \in programs : p < hs[m]
                                THEN src[Max({p \in programs : p < hs[m]})].name ELSE "None")
                = LeoFunc(src, hs[m], cur[m])
    BY <1>8, Zenon
  <1> QED BY <1>9, <1>10


LEMMA MaxOfInterval ==
    ASSUME NEW n \in Nat, NEW i \in 1 .. n, NEW e \in i .. n
    PROVE  Max(i .. e) = e
  <1>1. i .. e \subseteq 1 .. n /\ e \in i .. e
    OBVIOUS
  <1>2. Max(i .. e) \in i .. e /\ \A y \in i .. e : y <= Max(i .. e)
    BY <1>1, GreatestLine
  <1> QED BY <1>1, <1>2

\* A function is to the two parsers the same lines.
ParsedAlike(src, i, f, d) ==
    /\ d.line = i /\ f.line = i /\ d.body_end_line = Max(Extent(src, i)) /\ f.body_end_line = d.body_end_line
    /\ f.parameters = d.parameters /\ f.is_transition = d.is_transition
    /\ FirstReturn(f.body) <= d.return_line

LEMMA FunctionsAlike ==
    ASSUME NEW src, IsText(src), FunctionsWellLaid(src), NEW i \in 1 .. Len(src), src[i].kind \in Headers,
           NEW c, NEW f, f = LeoFunc(src, i, c), NEW d, d = LeoFunctionDef(src, i)
    PROVE  ParsedAlike(src, i, f, d)
  <1>1. PICK n \in Nat : n = Len(src) /\ i \in 1 .. n
    BY DEF IsText
  <1>2. PICK k, e : k = SignatureEnd(src, i) /\ e = BodyEnd(src, i)
    OBVIOUS
  <1>3. /\ k \in i .. n /\ e \in k + 1 .. n /\ ~Closed(src, i, i) /\ ~Closed(src, k, k)
        /\ BodyEnd(src, k) = e /\ Extent(src, i) = i .. e
    BY <1>1, <1>2, BodiesAgree
  <1>4. Body(src, k) = k + 1 .. e /\ Body(src, i) = i + 1 .. e
    <2>1. ~(k > Len(src) \/ Closed(src, k, k)) /\ ~(i > Len(src) \/ Closed(src, i, i))
      BY <1>1, <1>3
    <2>2. Body(src, k) = {j \in k + 1 .. e : j <= n} /\ Body(src, i) = {j \in i + 1 .. e : j <= n}
      BY <1>1, <1>2, <1>3, <2>1 DEF Body
    <2> QED BY <1>1, <1>3, <2>2
  <1>5. i + 1 \in 1 .. n /\ k + 1 \in 1 .. n /\ e \in i + 1 .. n /\ e \in i .. n
    BY <1>1, <1>3
  <1>6. Max(i .. e) = e /\ Max(k + 1 .. e) = e
    BY <1>1, <1>3, <1>5, MaxOfInterval
  <1>7. Body(src, k) # {} /\ e \in Body(src, i)
    <2>1. e \in k + 1 .. e /\ e \in i + 1 .. e
      BY <1>3, <1>5
    <2> QED BY <1>4, <2>1
  <1>8. /\ f.line = i /\ f.body_end_line = e /\ f.parameters = ParameterList(src, i)
        /\ f.is_transition = IsTransition(src[i]) /\ f.body = ParseBlock(src, k + 1, e)
    <2>1. PICK nm, it, ps, B, bl, bd :
              /\ nm = src[i].name /\ it = IsTransition(src[i]) /\ ps = ParameterList(src, i) /\ B = Body(src, k)
              /\ bl = (IF B = {} THEN k ELSE Max(B)) /\ bd = (IF B = {} THEN <<>> ELSE ParseBlock(src, k + 1, Max(B)))
      OBVIOUS
    <2>2. f = [name |-> nm, is_transition |-> it, line |-> i, body_end_line |-> bl, parameters |-> ps,
               body |-> bd, program_name |-> c]
      BY <1>2, <2>1, Zenon DEF LeoFunc
    <2>3. bl = e /\ bd = ParseBlock(src, k + 1, e)
      BY <1>4, <1>6, <1>7, <2>1
    <2>4. f.line = i /\ f.body_end_line = bl /\ f.parameters = ps /\ f.is_transition = it /\ f.body = bd
      BY <2>2
    <2> QED BY <2>1, <2>3, <2>4, Zenon
  <1>9. PICK body, returns : body = Body(src, i) /\ returns = {j \in body : src[j].kind = "return"}
    OBVIOUS
  <1>10. /\ d.line = i /\ d.body_end_line = e /\ d.parameters = ParameterList(src, i)
         /\ d.is_transition = IsTransition(src[i]) /\ d.return_line = IF returns = {} THEN 0 ELSE Max(returns)
    <2>1. PICK nm, al, it, ps, bs, rl, bl :
              /\ nm = src[i].name /\ al = src[i].trimmed /\ it = IsTransition(src[i]) /\ ps = ParameterList(src, i)
              /\ bs = LeoBindings(src, body) /\ rl = (IF returns = {} THEN 0 ELSE Max(returns))
              /\ bl = (IF BodyEnd(src, i) \in body THEN BodyEnd(src, i) ELSE 0)
      OBVIOUS
    <2>2. d = [name |-> nm, aleo |-> al, is_transition |-> it, line |-> i, parameters |-> ps, bindings |-> bs,
               return_line |-> rl, body_end_line |-> bl]
      BY <1>9, <2>1, Zenon DEF LeoFunctionDef
    <2>3. bl = e
      BY <1>2, <1>7, <1>9, <2>1
    <2>4. d.line = i /\ d.body_end_line = bl /\ d.parameters = ps /\ d.is_transition = it /\ d.return_line = rl
      BY <2>2
    <2> QED BY <2>1, <2>3, <2>4, Zenon
  <1>11. FirstReturn(f.body) <= d.return_line
    <2>1. PICK b : b = [at |-> k + 1, last |-> e, loop |-> 0]
      OBVIOUS
    <2>2. b \in BlockDomain(src)
      BY <1>1, <1>3, <2>1 DEF BlockDomain
    <2>3. PICK r : r = FirstReturn(ParseBlock(src, k + 1, e))
      OBVIOUS
    <2>4. r = 0 \/ (r \in k + 1 .. e /\ src[r].kind = "return")
      BY <2>1, <2>2, <2>3, FirstReturnIs
    <2>5. returns \subseteq 1 .. n
      BY <1>1, <1>3, <1>4, <1>9
    <2>6. returns # {} => Max(returns) \in returns /\ \A y \in returns : y <= Max(returns)
      BY <1>1, <2>5, GreatestLine
    <2>7. d.return_line \in Nat /\ \A y \in returns : y <= d.return_line
      <3>1. CASE returns = {}
        BY <1>10, <3>1
      <3>2. CASE returns # {}
        <4>1. d.return_line = Max(returns)
          BY <1>10, <3>2
        <4>2. PICK m : m = Max(returns)
          OBVIOUS
        <4>3. m \in returns /\ \A y \in returns : y <= m
          BY <2>6, <3>2, <4>2
        <4> QED BY <2>5, <4>1, <4>2, <4>3
      <3> QED BY <3>1, <3>2
    <2>8. r # 0 => r \in returns
      BY <1>1, <1>3, <1>4, <1>9, <2>4
    <2>9. r <= d.return_line
      BY <2>7, <2>8
    <2> QED BY <1>8, <2>3, <2>9
  <1> QED BY <1>3, <1>6, <1>8, <1>10, <1>11 DEF ParsedAlike

\* The lines that the property looks at are those of the headers.
LEMMA HeaderLines ==
    ASSUME NEW src, NEW kinds
    PROVE  LinesOf(src, 1 .. Len(src), kinds) = Select(Numbers(src), AtKinds(src, kinds))
  BY DEF LinesOf, AtKinds

FunctionsFound(src, ls, ps) ==
    LET at == LinesOf(src, 1 .. Len(src), Headers)
        plain == LinesOf(src, 1 .. Len(src), {"function", "transition"})
        infos == ParseLeoFunctionInfo(src)
        ts == ParseTransitions(src)
    IN  /\ Len(ls) = Len(at) /\ Len(ps) = Len(at)
        /\ \A n \in 1 .. Len(at) : ParsedAlike(src, at[n], ps[n], ls[n])
        /\ Len(infos) = Len(plain) /\ Len(ts) = Len(plain)
        /\ \A n \in 1 .. Len(plain) : infos[n].name = src[plain[n]].name /\ ts[n].line = plain[n]

LEMMA AllFound ==
    ASSUME NEW src, IsText(src), FunctionsWellLaid(src),
           NEW ls, ls = ParseLeoFunctions(src), NEW ps, ps = ParseLeoProgram(src).funcs
    PROVE  FunctionsFound(src, ls, ps)
  <1>1. PICK n \in Nat : n = Len(src)
    BY DEF IsText
  <1>2. PICK hs, at : /\ at = LinesOf(src, 1 .. Len(src), Headers)
                      /\ hs = LinesOf(src, 1 .. Len(src), {"function", "transition"})
    OBVIOUS
  <1>3. PICK K, P : K = AtKinds(src, Headers) /\ P = AtKinds(src, {"function", "transition"})
    OBVIOUS
  <1>4. at = Select(Numbers(src), K) /\ hs = Select(Numbers(src), P)
    BY <1>2, <1>3, HeaderLines
  <1>5. /\ at \in Seq(1 .. Len(src)) /\ Len(at) \in Nat /\ hs \in Seq(1 .. Len(src)) /\ Len(hs) \in Nat
        /\ \A m \in 1 .. Len(at) : src[at[m]].kind \in Headers
    BY <1>1, <1>2, LinesOfAre
  <1>6. WellLaid(src)
    BY DEF FunctionsWellLaid
  <1>7. PICK R1 : R1 = [i \in K |-> BodyEnd(src, i) + 1]
    OBVIOUS
  <1>8. PICK R2 : R2 = [i \in P |-> BodyEnd(src, i) + 1]
    OBVIOUS
  <1>9. Reached(src, K, R1) = at
    BY <1>3, <1>4, <1>6, <1>7, ScanFinds
  <1>10. Reached(src, P, R2) = hs
    <2>1. {"function", "transition"} \subseteq Headers
      BY DEF Headers
    <2> QED BY <1>3, <1>4, <1>6, <1>8, <2>1, ScanFinds
  <1>11. ls = [m \in 1 .. Len(at) |-> LeoFunctionDef(src, at[m])]
    BY <1>3, <1>7, <1>9 DEF ParseLeoFunctions
  <1>12. PICK infos : infos = ParseLeoFunctionInfo(src)
    OBVIOUS
  <1>13. infos = [m \in 1 .. Len(hs) |-> [name |-> src[hs[m]].name, bindings |-> LeoBindings(src, Body(src, hs[m]))]]
    BY <1>3, <1>8, <1>10, <1>12 DEF ParseLeoFunctionInfo
  <1>14. PICK ts : ts = ParseTransitions(src)
    OBVIOUS
  <1>15. ts = [m \in 1 .. Len(hs) |->
                  [name |-> DeclaredName(src[hs[m]]), is_transition |-> IsTransition(src[hs[m]]), line |-> hs[m],
                   params |-> IF src[hs[m]].sig = "whole" THEN src[hs[m]].params ELSE <<>>]]
    BY <1>2, <1>14, Zenon DEF ParseTransitions
  <1>16. PICK cur : ps = [m \in 1 .. Len(at) |-> LeoFunc(src, at[m], cur[m])]
    BY <1>3, <1>4, ProgramFunctions
  <1>17. Len(ls) = Len(at) /\ Len(ps) = Len(at) /\ Len(infos) = Len(hs) /\ Len(ts) = Len(hs)
    BY <1>5, <1>11, <1>13, <1>15, <1>16
  <1>18. ASSUME NEW m \in 1 .. Len(at) PROVE ParsedAlike(src, at[m], ps[m], ls[m])
    <2>1. PICK i : i = at[m]
      OBVIOUS
    <2>2. i \in 1 .. Len(src) /\ src[i].kind \in Headers
      BY <1>5, <2>1
    <2>3. ps[m] = LeoFunc(src, i, cur[m]) /\ ls[m] = LeoFunctionDef(src, i)
      BY <1>11, <1>16, <2>1
    <2> QED BY <2>1, <2>2, <2>3, FunctionsAlike
  <1>19. \A m \in 1 .. Len(hs) : infos[m].name = src[hs[m]].name /\ ts[m].line = hs[m]
    BY <1>13, <1>15
  <1> QED BY <1>2, <1>12, <1>14, <1>17, <1>18, <1>19 DEF FunctionsFound

ParsedInv == SourceRead /\ leoProgram = ParseLeoProgram(text)

LEMMA ParsedStays == ParsedInv /\ [PipelineNext]_allVars => ParsedInv'
  <1> SUFFICES ASSUME ParsedInv, [PipelineNext]_allVars PROVE ParsedInv'
    OBVIOUS
  <1>1. UNCHANGED srcVars
    BY SourceStays
  <1>2. source' = source /\ leoFunctions' = leoFunctions /\ leoProgram' = leoProgram /\ text' = text
    BY <1>1 DEF srcVars, text
  <1> QED BY <1>2 DEF ParsedInv, SourceRead

\* The parsers of the recorder find, in every source whose functions are well
\* laid, the functions that are there: the same lines, parameters and ends, and
\* no return before the one that the register mapping knows.
THEOREM ParsersAgreeOnFunctions == PipelineSpec => []ParsersFindTheFunctions
  <1>1. PipelineInit => ParsedInv
    BY DEF PipelineInit, ParsedInv, SourceRead
  <1>2. ParsedInv /\ [PipelineNext]_allVars => ParsedInv'
    BY ParsedStays
  <1>3. ParsedInv => ParsersFindTheFunctions
    <2> SUFFICES ASSUME ParsedInv, FunctionsWellLaid(text) PROVE ParsersFindTheFunctions
      BY DEF ParsersFindTheFunctions
    <2>1. PICK src, ls, ps : src = text /\ ls = leoFunctions /\ ps = leoProgram.funcs
      OBVIOUS
    <2>2. IsText(src) /\ FunctionsWellLaid(src) /\ ls = ParseLeoFunctions(src) /\ ps = ParseLeoProgram(src).funcs
      BY <2>1, TextIs DEF ParsedInv, SourceRead, text
    <2>3. FunctionsFound(src, ls, ps)
      BY <2>2, AllFound
    <2> QED BY <2>1, <2>3 DEF FunctionsFound, ParsedAlike, ParsersFindTheFunctions
  <1> QED BY <1>1, <1>2, <1>3, PTL DEF PipelineSpec


----------------------------------------------------------------------------
(* Records *)

\* What a scanner reaches is what it looks at.
LEMMA ReachedRange ==
    ASSUME NEW src, NEW n \in Nat, n = Len(src), NEW at, at \subseteq 1 .. n, NEW resume
    PROVE  Range(Reached(src, at, resume)) = at \cap Visited(src, at, resume)
  <1>1. PICK ns, V, r : ns = Numbers(src) /\ V = at \cap Visited(src, at, resume) /\ r = Select(ns, V)
    OBVIOUS
  <1>2. ns = [k \in 1 .. n |-> k]
    BY <1>1 DEF Numbers
  <1>3. PICK D : D = 1 .. n
    OBVIOUS
  <1>4. ns \in Seq(D) /\ Len(ns) = n /\ \A k \in 1 .. n : ns[k] = k
    BY <1>2, <1>3, SeqDef
  <1>5. r = Reached(src, at, resume)
    BY <1>1 DEF Reached
  <1>6. /\ r \in Seq(1 .. Len(src)) /\ Len(r) \in Nat
    BY <1>5, ReachedAre
  <1>7. r \in Seq(V)
    BY <1>1, <1>4, SelectType
  <1>8. DOMAIN r = 1 .. Len(r) /\ \A k \in 1 .. Len(r) : r[k] \in V
    BY <1>7
  <1>9. ASSUME NEW h \in V PROVE \E k \in 1 .. Len(r) : r[k] = h
    <2>1. h \in 1 .. Len(ns) /\ ns[h] = h /\ ns[h] \in V
      BY <1>1, <1>4, <1>9
    <2>2. \E k \in 1 .. Len(Select(ns, V)) : Select(ns, V)[k] = ns[h]
      BY <1>4, <2>1, SelectHas
    <2> QED BY <1>1, <2>1, <2>2
  <1>10. Range(r) = V
    BY <1>8, <1>9 DEF Range
  <1> QED BY <1>1, <1>5, <1>10

\* The two parsers end a record at the same line.
LEMMA RecordEnds ==
    ASSUME NEW src, IsText(src), NEW i \in 1 .. Len(src), src[i].opens = src[i].closes + 1
    PROVE  RecordEnd(src, i) = StructEnd(src, i)
  <1>1. PICK n \in Nat : n = Len(src) /\ i \in 1 .. n
    BY DEF IsText
  <1>2. src[i].opens \in Nat /\ src[i].closes \in Nat
    BY DEF IsText, IsSourceLine, IsLeoLine
  <1>3. PICK C : C = {j \in i .. n : Closed(src, i, j)}
    OBVIOUS
  <1>4. Net(src, i, i) = 1
    <2>1. i \in i - 1 .. Len(src) /\ i \in i - 1 .. i /\ i - 1 \in i - 1 .. i /\ (i - 1 < i) /\ ~(i < i)
      BY <1>1
    <2>2. PICK u : NetUpTo(u, src, i, i) /\ Net(src, i, i) = u[i]
      BY NetDef
    <2>3. u[i] = u[i - 1] + src[i].opens - src[i].closes /\ u[i - 1] = 0
      BY <2>1, <2>2 DEF NetUpTo
    <2> QED BY <1>2, <2>2, <2>3
  <1>5. ASSUME NEW j \in i + 1 .. n
        PROVE  /\ Net(src, i, j) = 1 + Net(src, i + 1, j) /\ Net(src, i + 1, j) \in Int
    <2>1. i + 1 \in i .. Len(src) /\ j \in (i + 1) - 1 .. Len(src) /\ (i + 1) - 1 = i
      BY <1>1
    <2>2. /\ Net(src, i, j) = Net(src, i, (i + 1) - 1) + Net(src, i + 1, j)
          /\ Net(src, i + 1, j) \in Int
      BY <2>1, NetBetween
    <2> QED BY <1>4, <2>1, <2>2
  <1>6. C = {j \in i + 1 .. n : 1 + Net(src, i + 1, j) <= 0}
    <2>1. ASSUME NEW j \in i .. n PROVE j \in C <=> j \in i + 1 .. n /\ 1 + Net(src, i + 1, j) <= 0
      <3>1. CASE j = i
        BY <1>1, <1>3, <1>4, <3>1 DEF Closed
      <3>2. CASE j # i
        <4>1. j \in i + 1 .. n /\ i \in i .. j
          BY <1>1, <3>2
        <4>2. src[i].opens > 0
          BY <1>2
        <4>3. Closed(src, i, j) <=> Net(src, i, j) <= 0
          BY <4>1, <4>2 DEF Closed
        <4> QED BY <1>3, <1>5, <4>1, <4>3
      <3> QED BY <3>1, <3>2
    <2>2. C \subseteq i .. n /\ i + 1 .. n \subseteq i .. n
      BY <1>1, <1>3
    <2> QED BY <2>1, <2>2
  <1>7. StructEnd(src, i) = FirstIn(C, n + 1)
    BY <1>1, <1>3 DEF StructEnd
  <1>8. RecordEnd(src, i) = FirstIn({j \in i + 1 .. n : 1 + Net(src, i + 1, j) <= 0}, n + 1)
    <2>1. src[i].opens > 0
      BY <1>2
    <2> QED BY <1>1, <2>1 DEF RecordEnd
  <1> QED BY <1>6, <1>7, <1>8

RecordOf(src, i) == [name |-> src[i].name, fields |-> Fields(src, i + 1 .. StructEnd(src, i) - 1)]

\* parse_record_types finds every record.
LEMMA RecordTypesAre ==
    ASSUME NEW src, IsText(src), RecordsWellLaid(src)
    PROVE  Range(ParseRecordTypes(src)) = {RecordOf(src, i) : i \in AtKinds(src, {"record"})}
  <1>1. PICK n \in Nat : n = Len(src)
    BY DEF IsText
  <1>2. PICK R : R = AtKinds(src, {"record"})
    OBVIOUS
  <1>3. R \subseteq 1 .. n
    BY <1>1, <1>2 DEF AtKinds
  <1>4. /\ \A i \in R : src[i].opens = src[i].closes + 1
        /\ \A i \in R : R \cap Extent(src, i) \subseteq {i}
    BY <1>2 DEF RecordsWellLaid, AtKinds
  <1>5. \A i \in R : RecordEnd(src, i) = StructEnd(src, i)
    BY <1>1, <1>3, <1>4, RecordEnds
  <1>6. PICK resume : resume = [i \in R |-> RecordEnd(src, i) + 1]
    OBVIOUS
  <1>7. ASSUME NEW i \in R PROVE resume[i] \in Nat /\ resume[i] > i /\ \A h \in R : h > i => h >= resume[i]
    <2>1. /\ StructEnd(src, i) \in i .. n + 1
          /\ \A h \in 1 .. n : h > i /\ h \notin Extent(src, i) => h > StructEnd(src, i)
      BY <1>1, <1>3, StructEndIs
    <2>2. PICK e : e = StructEnd(src, i)
      OBVIOUS
    <2>3. resume[i] = e + 1 /\ e \in i .. n + 1 /\ i \in 1 .. n
      BY <1>3, <1>5, <1>6, <2>1, <2>2
    <2>4. ASSUME NEW h \in R, h > i PROVE h >= resume[i]
      <3>1. h \in 1 .. n /\ h \notin Extent(src, i)
        BY <1>3, <1>4, <2>3, <2>4
      <3>2. h > e
        BY <2>1, <2>2, <2>4, <3>1
      <3> QED BY <2>3, <3>1, <3>2
    <2> QED BY <2>3, <2>4
  <1>8. R \subseteq Visited(src, R, resume)
    <2>1. /\ \A i \in R : resume[i] \in Nat /\ resume[i] > i
          /\ \A i \in R, h \in R : h > i => h >= resume[i]
      BY <1>7
    <2> QED BY <1>1, <1>3, <2>1, VisitedSome
  <1>9. PICK at : at = Reached(src, R, resume)
    OBVIOUS
  <1>10. Range(at) = R
    <2>1. Range(at) = R \cap Visited(src, R, resume)
      BY <1>1, <1>3, <1>9, ReachedRange
    <2> QED BY <1>8, <2>1
  <1>11. at \in Seq(1 .. Len(src)) /\ Len(at) \in Nat
    BY <1>1, <1>9, ReachedAre
  <1>12. DOMAIN at = 1 .. Len(at)
    BY <1>11
  <1>13. PICK ts : ts = ParseRecordTypes(src)
    OBVIOUS
  <1>14. ts = [m \in 1 .. Len(at) |->
                 [name |-> src[at[m]].name, fields |-> Fields(src, at[m] + 1 .. RecordEnd(src, at[m]) - 1)]]
    BY <1>2, <1>6, <1>9, <1>13, Zenon DEF ParseRecordTypes
  <1>15. \A m \in 1 .. Len(at) : ts[m] = RecordOf(src, at[m]) /\ at[m] \in R
    <2> SUFFICES ASSUME NEW m \in 1 .. Len(at) PROVE ts[m] = RecordOf(src, at[m]) /\ at[m] \in R
      OBVIOUS
    <2>1. at[m] \in R
      BY <1>10, <1>12 DEF Range
    <2> QED BY <1>5, <1>14, <2>1 DEF RecordOf
  <1>16. \A i \in R : \E m \in 1 .. Len(at) : at[m] = i
    BY <1>10, <1>12 DEF Range
  <1>17. DOMAIN ts = 1 .. Len(at)
    BY <1>14
  <1>18. Range(ts) = {RecordOf(src, i) : i \in R}
    BY <1>15, <1>16, <1>17 DEF Range
  <1> QED BY <1>2, <1>13, <1>18

NamedAmong(ds, names) == {d \in ds : d.name \in names}

\* Of the structs that parse_leo_program keeps, those with a record's name are
\* the records.
LEMMA ProgramRecords ==
    ASSUME NEW src, IsText(src), RecordsWellLaid(src),
           NEW names, names = {src[i].name : i \in AtKinds(src, {"record"})},
           NEW rs, rs = {RecordOf(src, i) : i \in AtKinds(src, {"record"})}
    PROVE  NamedAmong(ParseLeoProgram(src).structs, names) = rs
  <1>1. PICK n \in Nat : n = Len(src)
    BY DEF IsText
  <1>2. PICK R, St : R = AtKinds(src, {"record"}) /\ St = AtKinds(src, {"struct", "record"})
    OBVIOUS
  <1>3. PICK at : at = ItemsAt(src)
    OBVIOUS
  <1>4. PICK structs : structs = {i \in Range(at) : src[i].kind \in {"struct", "record"}}
    OBVIOUS
  <1>5. PICK kept : kept = {i \in structs : \A j \in structs : src[j].name = src[i].name => j <= i}
    OBVIOUS
  <1>6. ParseLeoProgram(src).structs = {RecordOf(src, i) : i \in kept}
    <2>1. at = Reached(src, AtKinds(src, Headers \cup {"program", "struct", "record"}),
                 [i \in AtKinds(src, Headers \cup {"program", "struct", "record"}) |->
                      CASE src[i].kind \in Headers -> BodyEnd(src, SignatureEnd(src, i)) + 1
                        [] src[i].kind = "program" -> i + 1
                        [] OTHER -> StructEnd(src, i) + 1])
      BY <1>3 DEF ItemsAt, Items, ItemResume
    <2>2. ParseLeoProgram(src).structs
              = {[name |-> src[i].name, fields |-> Fields(src, i + 1 .. StructEnd(src, i) - 1)] : i \in kept}
      BY <1>4, <1>5, <2>1, Zenon DEF ParseLeoProgram
    <2> QED BY <2>2 DEF RecordOf
  <1>7. R \subseteq Items(src) /\ Items(src) \subseteq 1 .. n /\ R \subseteq 1 .. n
    BY <1>1, <1>2 DEF Items, AtKinds
  <1>8. \A i \in AtKinds(src, {"struct", "record"}) \cup AtKinds(src, Headers) : R \cap Extent(src, i) \subseteq {i}
    BY <1>2 DEF RecordsWellLaid
  <1>9. FunctionsWellLaid(src)
    BY DEF RecordsWellLaid
  <1>10. R \subseteq Visited(src, Items(src), ItemResume(src))
    BY <1>7, <1>8, <1>9, ItemsReach
  <1>11. Range(at) = Items(src) \cap Visited(src, Items(src), ItemResume(src))
    BY <1>1, <1>3, <1>7, ReachedRange DEF ItemsAt
  <1>12. R \subseteq structs /\ structs \subseteq St
    BY <1>1, <1>2, <1>4, <1>7, <1>10, <1>11 DEF AtKinds
  <1>13. \A i \in R, j \in St : src[i].name = src[j].name => i = j
    BY <1>2 DEF RecordsWellLaid
  <1>14. R \subseteq kept /\ kept \subseteq structs
    <2>1. kept \subseteq structs
      BY <1>5
    <2>2. ASSUME NEW i \in R PROVE i \in kept
      <3>1. i \in structs /\ i \in 1 .. n /\ i <= i
        BY <1>7, <1>12
      <3>2. ASSUME NEW j \in structs, src[j].name = src[i].name PROVE j = i
        BY <1>12, <1>13, <3>2
      <3>3. \A j \in structs : src[j].name = src[i].name => j <= i
        BY <3>1, <3>2
      <3> QED BY <1>5, <3>1, <3>3
    <2> QED BY <2>1, <2>2
  <1>15. \A i : RecordOf(src, i).name = src[i].name
    BY DEF RecordOf
  <1>16. \A i \in kept : src[i].name \in names <=> i \in R
    BY <1>2, <1>12, <1>13, <1>14
  <1>17. PICK ds : ds = ParseLeoProgram(src).structs
    OBVIOUS
  <1>18. {d \in ds : d.name \in names} = {RecordOf(src, i) : i \in R}
    <2> HIDE DEF RecordOf
    <2> QED BY <1>6, <1>14, <1>15, <1>16, <1>17
  <1> QED BY <1>2, <1>17, <1>18 DEF NamedAmong

\* Of a source whose records are well laid, the type that the transition
\* tracer gives a record is the struct that the evaluator builds by its name.
THEOREM RecordsAreParsedAlike == PipelineSpec => []RecordParsersAgree
  <1>1. PipelineInit => ParsedInv
    BY DEF PipelineInit, ParsedInv, SourceRead
  <1>2. ParsedInv /\ [PipelineNext]_allVars => ParsedInv'
    BY ParsedStays
  <1>3. ParsedInv => RecordParsersAgree
    <2> SUFFICES ASSUME ParsedInv, RecordsWellLaid(text) PROVE RecordParsersAgree
      BY DEF RecordParsersAgree
    <2>1. PICK src : src = text
      OBVIOUS
    <2>2. IsText(src) /\ RecordsWellLaid(src) /\ leoProgram = ParseLeoProgram(src)
      BY <2>1, TextIs DEF ParsedInv, SourceRead, text
    <2>3. PICK names : names = {src[i].name : i \in AtKinds(src, {"record"})}
      OBVIOUS
    <2>4. Range(ParseRecordTypes(src)) = {d \in leoProgram.structs : d.name \in names}
      <3>1. PICK ds, rs, os : /\ ds = NamedAmong(ParseLeoProgram(src).structs, names)
                              /\ rs = {RecordOf(src, i) : i \in AtKinds(src, {"record"})}
                              /\ os = Range(ParseRecordTypes(src))
        OBVIOUS
      <3>2. os = rs
        BY <2>2, <3>1, RecordTypesAre
      <3>3. ds = rs
        BY <2>2, <2>3, <3>1, ProgramRecords
      <3> QED BY <2>2, <3>1, <3>2, <3>3 DEF NamedAmong
    <2> QED BY <2>1, <2>3, <2>4 DEF RecordParsersAgree
  <1> QED BY <1>1, <1>2, <1>3, PTL DEF PipelineSpec


----------------------------------------------------------------------------
(* The statements that are written in some lines *)

\* Two sets with the same elements among those of a sequence select the same.
LEMMA SelectAmong ==
    ASSUME NEW D, NEW s \in Seq(D), NEW A, NEW B, D \cap A = D \cap B
    PROVE  Select(s, A) = Select(s, B)
  <1>1. \A j \in 1 .. Len(s) : s[j] \in D
    OBVIOUS
  <1>2. Select(s, D) = s
    BY <1>1, SelectWhole
  <1>3. Select(Select(s, D), A) = Select(s, D \cap A) /\ Select(Select(s, D), B) = Select(s, D \cap B)
    BY SelectTwice
  <1> QED BY <1>2, <1>3

LEMMA SelectNone ==
    ASSUME NEW D, NEW s \in Seq(D), NEW A, D \cap A = {}
    PROVE  Select(s, A) = <<>>
  <1>1. PICK r : r = Select(s, A)
    OBVIOUS
  <1>2. /\ r \in Seq(D) /\ Len(r) \in Nat
        /\ \A k \in 1 .. Len(r) : \E j \in 1 .. Len(s) : s[j] = r[k] /\ s[j] \in A
    BY <1>1, SelectType
  <1>3. \A j \in 1 .. Len(s) : s[j] \in D
    OBVIOUS
  <1>4. ~(1 \in 1 .. Len(r))
    BY <1>2, <1>3
  <1>5. Len(r) = 0
    BY <1>2, <1>4
  <1> QED BY <1>1, <1>2, <1>5

\* Lines before a line, then lines behind it.
Behind(src, A, B) == \E t \in 0 .. Len(src) : A \subseteq 1 .. t /\ B \subseteq t + 1 .. Len(src)

LEMMA SelectSplit ==
    ASSUME NEW src, Len(src) \in Nat, NEW A, NEW B, Behind(src, A, B), NEW C, C = A \cup B
    PROVE  Select(Numbers(src), C) = Select(Numbers(src), A) \o Select(Numbers(src), B)
  <1>a. PICK n : n = Len(src) /\ n \in Nat
    OBVIOUS
  <1>b. PICK t \in 0 .. n : A \subseteq 1 .. t /\ B \subseteq t + 1 .. n
    BY <1>a DEF Behind
  <1>1. PICK ns, D, L, R : ns = Numbers(src) /\ D = 1 .. n /\ L = 1 .. t /\ R = t + 1 .. n
    OBVIOUS
  <1>2. ns = [k \in 1 .. n |-> k]
    BY <1>1, <1>a DEF Numbers
  <1>3. ns \in Seq(D) /\ Len(ns) = n /\ \A k \in 1 .. n : ns[k] = k
    BY <1>1, <1>2, <1>a, SeqDef
  <1>4. PICK d : d = n - t /\ d \in Nat
    BY <1>a, <1>b
  <1>5. PICK u, v : u = [k \in 1 .. t |-> k] /\ v = [k \in 1 .. d |-> t + k]
    OBVIOUS
  <1>6. t \in Nat /\ \A k \in 1 .. d : t + k \in R
    BY <1>1, <1>4, <1>a, <1>b
  <1>7. u \in Seq(L) /\ Len(u) = t /\ v \in Seq(R) /\ Len(v) = d
    <2>1. u \in [1 .. t -> L] /\ v \in [1 .. d -> R]
      BY <1>1, <1>5, <1>6, <1>a, <1>b
    <2> QED BY <1>4, <1>6, <2>1, SeqDef
  <1>8. L \subseteq D /\ R \subseteq D /\ L \cap R = {}
    BY <1>1, <1>a, <1>b
  <1>9. u \in Seq(D) /\ v \in Seq(D)
    BY <1>7, <1>8
  <1>10. ns = u \o v
    <2>1. /\ u \o v \in Seq(D) /\ Len(u \o v) = t + d
          /\ \A k \in 1 .. t : (u \o v)[k] = u[k]
          /\ \A j \in 1 .. d : (u \o v)[t + j] = v[j]
      <3>1. /\ u \o v \in Seq(D) /\ Len(u \o v) = Len(u) + Len(v)
            /\ \A k \in 1 .. Len(u) : (u \o v)[k] = u[k]
            /\ \A j \in 1 .. Len(v) : (u \o v)[Len(u) + j] = v[j]
        BY <1>9, ConcatPlaces
      <3> QED BY <1>7, <3>1
    <2>2. PICK r : r = u \o v
      OBVIOUS
    <2>3. ASSUME NEW k \in 1 .. n PROVE ns[k] = r[k]
      <3>1. CASE k <= t
        BY <1>3, <1>5, <1>6, <2>1, <2>2, <3>1, <1>a, <1>b
      <3>2. CASE ~(k <= t)
        <4>1. PICK j : j = k - t
          OBVIOUS
        <4>2. j \in 1 .. d /\ t + j = k
          BY <1>4, <1>6, <3>2, <4>1, <1>a, <1>b
        <4> QED BY <1>3, <1>5, <2>1, <2>2, <4>2
      <3> QED BY <3>1, <3>2
    <2>4. Len(ns) = Len(r) /\ r \in Seq(D) /\ \A k \in 1 .. Len(ns) : ns[k] = r[k]
      BY <1>3, <1>4, <1>6, <2>1, <2>2, <2>3, <1>a, <1>b
    <2>5. ns = r
      BY <1>3, <2>4, SameElements
    <2> QED BY <2>2, <2>5
  <1>12. L \cap C = L \cap A /\ R \cap C = R \cap B /\ R \cap A = {} /\ L \cap B = {}
    BY <1>1, <1>8, <1>b
  <1>13. Select(u, C) = Select(u, A) /\ Select(v, C) = Select(v, B) /\ Select(v, A) = <<>> /\ Select(u, B) = <<>>
    <2>1. Select(u, C) = Select(u, A)
      BY <1>7, <1>12, SelectAmong
    <2>2. Select(v, C) = Select(v, B)
      BY <1>7, <1>12, SelectAmong
    <2>3. Select(v, A) = <<>>
      BY <1>7, <1>12, SelectNone
    <2>4. Select(u, B) = <<>>
      BY <1>7, <1>12, SelectNone
    <2> QED BY <2>1, <2>2, <2>3, <2>4
  <1>14. \A X : Select(ns, X) = Select(u, X) \o Select(v, X)
    BY <1>9, <1>10, SelectConcat
  <1>15. Select(u, A) \in Seq(D) /\ Select(v, B) \in Seq(D)
    BY <1>9, SelectType
  <1>16. Select(u, A) \o <<>> = Select(u, A) /\ <<>> \o Select(v, B) = Select(v, B)
    BY <1>15, ConcatOne, NothingBefore
  <1>17. /\ Select(ns, C) = Select(u, C) \o Select(v, C)
         /\ Select(ns, A) = Select(u, A) \o Select(v, A)
         /\ Select(ns, B) = Select(u, B) \o Select(v, B)
    BY <1>14
  <1> QED BY <1>1, <1>13, <1>16, <1>17

\* A function of every line of a set, in the order of the lines.
InOrder(src, A, h) ==
    LET at == Select(Numbers(src), A) IN [m \in 1 .. Len(at) |-> h[at[m]]]

ByLine(r, at, A, h, S) ==
    /\ r \in Seq(S) /\ Len(r) = Len(at) /\ Len(at) \in Nat
    /\ \A m \in 1 .. Len(at) : at[m] \in A /\ r[m] = h[at[m]]

LEMMA InOrderType ==
    ASSUME NEW src, NEW n \in Nat, n = Len(src), NEW A, NEW h, NEW S, \A j \in A : h[j] \in S,
           NEW r, r = InOrder(src, A, h), NEW at, at = Select(Numbers(src), A)
    PROVE  ByLine(r, at, A, h, S)
  <1>1. PICK ns : ns = Numbers(src) /\ at = Select(ns, A)
    OBVIOUS
  <1>2. ns = [k \in 1 .. n |-> k]
    BY <1>1 DEF Numbers
  <1>3. PICK D : D = 1 .. n
    OBVIOUS
  <1>4. ns \in Seq(D)
    BY <1>2, <1>3, SeqDef
  <1>5. Len(at) \in Nat /\ \A k \in 1 .. Len(at) : \E j \in 1 .. Len(ns) : ns[j] = at[k] /\ ns[j] \in A
    BY <1>1, <1>4, SelectType
  <1>6. \A k \in 1 .. Len(at) : at[k] \in A
    BY <1>5
  <1>7. PICK m : m = Len(at) /\ m \in Nat
    BY <1>5
  <1>8. r = [k \in 1 .. m |-> h[at[k]]]
    BY <1>1, <1>7 DEF InOrder
  <1>9. r \in [1 .. m -> S]
    BY <1>6, <1>7, <1>8
  <1>10. r \in Seq(S) /\ Len(r) = m
    BY <1>7, <1>9, SeqDef
  <1> QED BY <1>6, <1>7, <1>8, <1>10 DEF ByLine

\* It depends on the lines of the set only.
SameOn(A, g, h) == \A j \in A : g[j] = h[j]

LEMMA InOrderSame ==
    ASSUME NEW src, NEW n \in Nat, n = Len(src), NEW A, NEW g, NEW h, SameOn(A, g, h)
    PROVE  InOrder(src, A, g) = InOrder(src, A, h)
  <1>1. PICK at : at = Select(Numbers(src), A)
    OBVIOUS
  <1>2. PICK S : S = {h[j] : j \in A}
    OBVIOUS
  <1>3. \A j \in A : h[j] \in S
    BY <1>2
  <1>4. \A m \in 1 .. Len(at) : at[m] \in A
    <2>1. PICK r : r = InOrder(src, A, h)
      OBVIOUS
    <2>2. ByLine(r, at, A, h, S)
      BY <1>1, <1>3, <2>1, InOrderType
    <2> QED BY <2>2 DEF ByLine
  <1>5. \A m \in 1 .. Len(at) : g[at[m]] = h[at[m]]
    BY <1>4 DEF SameOn
  <1> QED BY <1>1, <1>5 DEF InOrder

SplitInOrder(src, C, A, B, h) == InOrder(src, C, h) = InOrder(src, A, h) \o InOrder(src, B, h)

LEMMA InOrderSplit ==
    ASSUME NEW src, NEW n \in Nat, n = Len(src), NEW A, NEW B, Behind(src, A, B), NEW C, C = A \cup B, NEW h
    PROVE  SplitInOrder(src, C, A, B, h)
  <1>0. PICK p, q : p = InOrder(src, A, h) /\ q = InOrder(src, B, h)
    OBVIOUS
  <1>2. PICK a, b, c : a = Select(Numbers(src), A) /\ b = Select(Numbers(src), B) /\ c = Select(Numbers(src), C)
    OBVIOUS
  <1>3. c = a \o b
    <2>1. Len(src) \in Nat
      OBVIOUS
    <2>2. Select(Numbers(src), C) = Select(Numbers(src), A) \o Select(Numbers(src), B)
      BY <2>1, SelectSplit
    <2> QED BY <1>2, <2>2
  <1>4. PICK S : S = {h[j] : j \in C}
    OBVIOUS
  <1>5. (\A j \in A : h[j] \in S) /\ (\A j \in B : h[j] \in S) /\ (\A j \in C : h[j] \in S)
    BY <1>4
  <1>6. PICK r : r = InOrder(src, C, h)
    OBVIOUS
  <1>7. p \in Seq(S) /\ Len(p) = Len(a) /\ Len(a) \in Nat /\ \A m \in 1 .. Len(a) : p[m] = h[a[m]]
    <2>1. ByLine(p, a, A, h, S)
      BY <1>0, <1>2, <1>5, <1>6, InOrderType
    <2> QED BY <2>1 DEF ByLine
  <1>8. q \in Seq(S) /\ Len(q) = Len(b) /\ Len(b) \in Nat /\ \A m \in 1 .. Len(b) : q[m] = h[b[m]]
    <2>1. ByLine(q, b, B, h, S)
      BY <1>0, <1>2, <1>5, <1>6, InOrderType
    <2> QED BY <2>1 DEF ByLine
  <1>9. r \in Seq(S) /\ Len(r) = Len(c) /\ Len(c) \in Nat /\ \A m \in 1 .. Len(c) : r[m] = h[c[m]]
    <2>1. ByLine(r, c, C, h, S)
      BY <1>0, <1>2, <1>5, <1>6, InOrderType
    <2> QED BY <2>1 DEF ByLine
  <1>10. PICK D : D = A \cup B
    OBVIOUS
  <1>11. a \in Seq(D) /\ b \in Seq(D)
    <2>1. PICK ns, E : ns = Numbers(src) /\ E = 1 .. n
      OBVIOUS
    <2>2. ns = [k \in 1 .. n |-> k]
      BY <2>1 DEF Numbers
    <2>3. ns \in Seq(E)
      BY <2>1, <2>2, SeqDef
    <2>4. a \in Seq(E) /\ b \in Seq(E)
      BY <1>2, <2>1, <2>3, SelectType
    <2>5. (\A m \in 1 .. Len(a) : a[m] \in A) /\ (\A m \in 1 .. Len(b) : b[m] \in B)
      <3>1. ByLine(p, a, A, h, S) /\ ByLine(q, b, B, h, S)
        BY <1>0, <1>2, <1>5, <1>6, InOrderType
      <3> QED BY <3>1 DEF ByLine
    <2>6. a \in [1 .. Len(a) -> D] /\ b \in [1 .. Len(b) -> D]
      BY <1>10, <2>4, <2>5
    <2>7. PICK la, lb : la = Len(a) /\ lb = Len(b) /\ la \in Nat /\ lb \in Nat
      BY <1>7, <1>8
    <2>8. a \in [1 .. la -> D] /\ b \in [1 .. lb -> D]
      BY <2>6, <2>7
    <2> QED BY <2>7, <2>8, SeqDef
  <1>12. /\ Len(c) = Len(a) + Len(b) /\ \A k \in 1 .. Len(a) : c[k] = a[k]
         /\ \A j \in 1 .. Len(b) : c[Len(a) + j] = b[j]
    BY <1>3, <1>11, ConcatPlaces
  <1>13. /\ p \o q \in Seq(S) /\ Len(p \o q) = Len(p) + Len(q)
         /\ \A k \in 1 .. Len(p) : (p \o q)[k] = p[k]
         /\ \A j \in 1 .. Len(q) : (p \o q)[Len(p) + j] = q[j]
    <2>1. p \in Seq(S) /\ q \in Seq(S)
      BY <1>7, <1>8
    <2> QED BY <2>1, ConcatPlaces
  <1>14. PICK w, la, lb : w = p \o q /\ la = Len(a) /\ lb = Len(b)
    OBVIOUS
  <1>15. ASSUME NEW k \in 1 .. la + lb PROVE r[k] = w[k]
    <2>1. CASE k <= la
      <3>1. k \in 1 .. la
        BY <1>7, <1>14, <2>1
      <3>2. k \in 1 .. Len(c)
        BY <1>12, <1>14
      <3> QED BY <1>7, <1>9, <1>12, <1>13, <1>14, <3>1, <3>2
    <2>2. CASE ~(k <= la)
      <3>1. PICK j : j = k - la
        OBVIOUS
      <3>2. j \in 1 .. lb /\ la + j = k
        BY <1>7, <1>8, <1>14, <2>2, <3>1
      <3>3. k \in 1 .. Len(c)
        BY <1>12, <1>14
      <3>4. c[k] = b[j] /\ w[k] = q[j] /\ q[j] = h[b[j]] /\ r[k] = h[c[k]]
        BY <1>7, <1>8, <1>9, <1>12, <1>13, <1>14, <3>2, <3>3
      <3> QED BY <3>4
    <2> QED BY <2>1, <2>2
  <1>16. r = w
    <2>1. r \in Seq(S) /\ w \in Seq(S) /\ Len(r) = Len(w) /\ Len(r) = la + lb
      BY <1>7, <1>8, <1>9, <1>12, <1>13, <1>14
    <2>2. \A k \in 1 .. Len(r) : r[k] = w[k]
      BY <1>15, <2>1
    <2> QED BY <2>1, <2>2, SameElements
  <1> QED BY <1>0, <1>6, <1>14, <1>16 DEF SplitInOrder

\* One line, and none.
LEMMA InOrderOne ==
    ASSUME NEW src, NEW n \in Nat, n = Len(src), NEW i \in 1 .. n, NEW h
    PROVE  InOrder(src, {i}, h) = <<h[i]>> /\ InOrder(src, {}, h) = <<>>
  <1>1. PICK ns, D : ns = Numbers(src) /\ D = 1 .. n
    OBVIOUS
  <1>2. ns = [k \in 1 .. n |-> k]
    BY <1>1 DEF Numbers
  <1>3. ns \in Seq(D)
    BY <1>1, <1>2, SeqDef
  <1>4. Select(ns, {}) = <<>>
    BY <1>3, SelectNone
  <1>5. InOrder(src, {}, h) = <<>>
    BY <1>1, <1>4 DEF InOrder
  <1>6. Select(ns, {i}) = <<i>>
    <2>1. PICK L, R, u, w : /\ L = 1 .. i - 1 /\ R = i + 1 .. n
                            /\ u = [k \in 1 .. i |-> k] /\ w = [k \in 1 .. i - 1 |-> k]
      OBVIOUS
    <2>2. u \in Seq(D) /\ w \in Seq(L) /\ w \in Seq(D) /\ Len(u) = i /\ Len(w) = i - 1
      <3>1. i - 1 \in Nat /\ i \in Nat
        OBVIOUS
      <3>2. u \in [1 .. i -> D] /\ w \in [1 .. i - 1 -> L] /\ w \in [1 .. i - 1 -> D]
        BY <1>1, <2>1
      <3> QED BY <3>1, <3>2, SeqDef
    <2>3. PICK d : d = n - i /\ d \in Nat
      OBVIOUS
    <2>4. PICK v : v = [k \in 1 .. d |-> i + k]
      OBVIOUS
    <2>5. v \in Seq(R) /\ v \in Seq(D) /\ Len(v) = d
      <3>1. v \in [1 .. d -> R] /\ v \in [1 .. d -> D]
        BY <1>1, <2>1, <2>3, <2>4
      <3> QED BY <2>3, <3>1, SeqDef
    <2>6. i \in D /\ <<i>> \in Seq(D)
      BY <1>1
    <2>7. PICK wi : wi = w \o <<i>>
      OBVIOUS
    <2>8. /\ wi \in Seq(D) /\ Len(wi) = (i - 1) + 1
          /\ \A k \in 1 .. i - 1 : wi[k] = w[k]
          /\ \A j \in 1 .. 1 : wi[(i - 1) + j] = <<i>>[j]
      <3>1. Len(<<i>>) = 1
        OBVIOUS
      <3> QED BY <2>2, <2>6, <2>7, <3>1, ConcatPlaces
    <2>9. wi = u
      <3>1. ASSUME NEW k \in 1 .. i PROVE wi[k] = u[k]
        <4>1. CASE k = i
          <5>1. (i - 1) + 1 = i /\ 1 \in 1 .. 1 /\ <<i>>[1] = i
            OBVIOUS
          <5> QED BY <2>1, <2>8, <4>1, <5>1
        <4>2. CASE k # i
          <5>1. k \in 1 .. i - 1
            BY <4>2
          <5> QED BY <2>1, <2>8, <5>1
        <4> QED BY <4>1, <4>2
      <3> QED BY <2>2, <2>8, <3>1, SameElements
    <2>10. PICK uv : uv = u \o v
      OBVIOUS
    <2>11. /\ uv \in Seq(D) /\ Len(uv) = i + d
           /\ \A k \in 1 .. i : uv[k] = u[k]
           /\ \A j \in 1 .. d : uv[i + j] = v[j]
      <3>1. u \in Seq(D) /\ v \in Seq(D)
        BY <2>2, <2>5
      <3>2. /\ u \o v \in Seq(D) /\ Len(u \o v) = Len(u) + Len(v)
            /\ \A k \in 1 .. Len(u) : (u \o v)[k] = u[k]
            /\ \A j \in 1 .. Len(v) : (u \o v)[Len(u) + j] = v[j]
        BY <3>1, ConcatPlaces
      <3> QED BY <2>2, <2>5, <2>10, <3>2
    <2>12. uv = ns
      <3>1. ASSUME NEW k \in 1 .. n PROVE uv[k] = ns[k]
        <4>1. CASE k <= i
          BY <1>2, <2>1, <2>11, <4>1
        <4>2. CASE ~(k <= i)
          <5>1. PICK j : j = k - i
            OBVIOUS
          <5>2. j \in 1 .. d /\ i + j = k
            BY <2>3, <4>2, <5>1
          <5> QED BY <1>2, <2>4, <2>11, <5>2
        <4> QED BY <4>1, <4>2
      <3>2. Len(uv) = n /\ Len(ns) = n
        BY <1>2, <2>3, <2>11
      <3> QED BY <1>3, <2>11, <3>1, <3>2, SameElements
    <2>13. Select(v, {i}) = <<>> /\ Select(w, {i}) = <<>>
      <3>1. L \cap {i} = {} /\ R \cap {i} = {}
        BY <2>1
      <3> QED BY <2>2, <2>5, <3>1, SelectNone
    <2>14. Select(ns, {i}) = Select(u, {i}) \o Select(v, {i})
      <3>1. u \in Seq(D) /\ v \in Seq(D)
        BY <2>2, <2>5
      <3>2. Select(u \o v, {i}) = Select(u, {i}) \o Select(v, {i})
        BY <3>1, SelectConcat
      <3> QED BY <2>10, <2>12, <3>2
    <2>15. Select(u, {i}) = Select(w, {i}) \o Select(<<i>>, {i})
      <3>1. PICK one : one = <<i>>
        OBVIOUS
      <3>2. w \in Seq(D) /\ one \in Seq(D)
        BY <2>2, <2>6, <3>1
      <3>3. Select(w \o one, {i}) = Select(w, {i}) \o Select(one, {i})
        BY <3>2, SelectConcat
      <3> QED BY <2>7, <2>9, <3>1, <3>3
    <2>16. Select(<<i>>, {i}) = <<i>>
      <3>1. \A j \in 1 .. Len(<<i>>) : <<i>>[j] \in {i}
        OBVIOUS
      <3> QED BY <2>6, <3>1, SelectWhole
    <2>17. <<>> \o <<i>> = <<i>> /\ <<i>> \o <<>> = <<i>>
      BY <2>6, ConcatOne, NothingBefore
    <2> QED BY <2>13, <2>14, <2>15, <2>16, <2>17
  <1>7. InOrder(src, {i}, h) = <<h[i]>>
    <2>1. PICK at : at = Select(Numbers(src), {i})
      OBVIOUS
    <2>2. at = <<i>> /\ Len(at) = 1 /\ at[1] = i
      BY <1>1, <1>6, <2>1
    <2>3. InOrder(src, {i}, h) = [m \in 1 .. 1 |-> h[at[m]]]
      BY <2>1, <2>2 DEF InOrder
    <2>4. \A m \in 1 .. 1 : h[at[m]] = h[i]
      BY <2>2
    <2>5. [m \in 1 .. 1 |-> h[at[m]]] = [m \in 1 .. 1 |-> h[i]]
      BY <2>4
    <2> QED BY <2>3, <2>5
  <1> QED BY <1>5, <1>7


----------------------------------------------------------------------------
(* Where statements end *)

\* A line that opens more than it closes extends to the line that makes up for
\* it, or to the last one.
LEMMA OpenedExtent ==
    ASSUME NEW src, IsText(src), NEW n \in Nat, n = Len(src), NEW i \in 1 .. n, src[i].opens > src[i].closes,
           NEW x, x = Max(Extent(src, i))
    PROVE  /\ x \in i .. n /\ Extent(src, i) = i .. x
           /\ \A j \in i .. n : Net(src, i, j) <= 0 => j >= x
           /\ Net(src, i, x) <= 0 \/ x = n
  <1>1. PICK C : C = {j \in i .. n : Closed(src, i, j)}
    OBVIOUS
  <1>2. PICK y : y = FirstIn(C, n)
    OBVIOUS
  <1>3. Extent(src, i) = i .. y
    BY <1>1, <1>2, ExtentIs
  <1>4. C \subseteq Nat /\ C \subseteq i .. n
    BY <1>1
  <1>5. /\ C = {} => y = n
        /\ C # {} => y \in C /\ \A j \in C : y <= j
    BY <1>2, <1>4, FirstInIs
  <1>6. y \in i .. n
    <2>1. n \in i .. n
      OBVIOUS
    <2> QED BY <1>4, <1>5, <2>1
  <1>7. x = y
    BY <1>3, <1>6, MaxOfInterval
  <1>8. src[i].opens \in Nat /\ src[i].closes \in Nat
    BY DEF IsText, IsSourceLine, IsLeoLine
  <1>9. \A j \in i .. n : Net(src, i, j) <= 0 <=> j \in C
    <2> SUFFICES ASSUME NEW j \in i .. n PROVE Net(src, i, j) <= 0 <=> j \in C
      OBVIOUS
    <2>1. i \in i .. j /\ src[i].opens > 0
      BY <1>8
    <2>2. Closed(src, i, j) <=> Net(src, i, j) <= 0
      BY <2>1 DEF Closed
    <2> QED BY <1>1, <2>2
  <1>10. \A j \in i .. n : Net(src, i, j) <= 0 => j >= x
    <2> SUFFICES ASSUME NEW j \in i .. n, Net(src, i, j) <= 0 PROVE j >= x
      OBVIOUS
    <2>1. j \in C
      BY <1>9
    <2>2. y <= j
      BY <1>5, <2>1
    <2> QED BY <1>6, <1>7, <2>2
  <1>11. Net(src, i, x) <= 0 \/ x = n
    <2>1. CASE C = {}
      BY <1>5, <1>7, <2>1
    <2>2. CASE C # {}
      BY <1>5, <1>6, <1>7, <1>9, <2>2
    <2> QED BY <2>1, <2>2
  <1> QED BY <1>3, <1>6, <1>7, <1>10, <1>11

StatementEnd(src, k) ==
    IF src[k].kind \in {"for", "if"} THEN Max(Extent(src, k))
    ELSE IF src[k].kind = "let" THEN Max(LetExtent(src, k)) ELSE k

\* The statement on a line: it either has all of its braces there or extends.
EndsAt(src, n, k, x) ==
    /\ x \in k .. n
    /\ src[k].kind \in {"for", "if"} => Extent(src, k) = k .. x
    /\ src[k].kind = "let" => LetExtent(src, k) = k .. x /\ src[x].semi
    /\ \/ x = k /\ src[k].kind \notin {"for", "if"} /\ (src[k].kind = "let" => src[k].opens <= src[k].closes)
       \/ /\ src[k].kind \in {"for", "if", "let"} /\ src[k].opens > src[k].closes
          /\ \A j \in k .. n : Net(src, k, j) <= 0 => j >= x
          /\ Net(src, k, x) <= 0 \/ x = n

LEMMA StatementEnds ==
    ASSUME NEW src, IsText(src), StatementsWellLaid(src), NEW n \in Nat, n = Len(src), NEW k \in 1 .. n,
           NEW x, x = StatementEnd(src, k)
    PROVE  EndsAt(src, n, k, x)
  <1>1. src[k].opens \in Nat /\ src[k].closes \in Nat
    BY DEF IsText, IsSourceLine, IsLeoLine
  <1>2. /\ src[k].kind \in {"for", "if"} => src[k].opens > src[k].closes
        /\ src[k].kind = "let" => src[Max(LetExtent(src, k))].semi
    BY DEF StatementsWellLaid
  <1>3. CASE src[k].kind \in {"for", "if"}
    <2>1. x = Max(Extent(src, k))
      BY <1>3 DEF StatementEnd
    <2>2. src[k].opens > src[k].closes
      BY <1>2, <1>3
    <2>3. /\ x \in k .. n /\ Extent(src, k) = k .. x
          /\ \A j \in k .. n : Net(src, k, j) <= 0 => j >= x
          /\ Net(src, k, x) <= 0 \/ x = n
      BY <2>1, <2>2, OpenedExtent
    <2> QED BY <1>3, <2>2, <2>3 DEF EndsAt
  <1>4. CASE src[k].kind = "let" /\ src[k].opens > src[k].closes
    <2>1. LetExtent(src, k) = Extent(src, k)
      BY <1>4 DEF LetExtent
    <2>2. x = Max(Extent(src, k)) /\ src[x].semi
      BY <1>2, <1>4, <2>1 DEF StatementEnd
    <2>3. /\ x \in k .. n /\ Extent(src, k) = k .. x
          /\ \A j \in k .. n : Net(src, k, j) <= 0 => j >= x
          /\ Net(src, k, x) <= 0 \/ x = n
      BY <1>4, <2>2, OpenedExtent
    <2> QED BY <1>4, <2>1, <2>2, <2>3 DEF EndsAt
  <1>5. CASE src[k].kind = "let" /\ ~(src[k].opens > src[k].closes)
    <2>1. LetExtent(src, k) = {k} /\ {k} = k .. k
      BY <1>5 DEF LetExtent
    <2>2. Max(k .. k) = k
      <3>1. k \in k .. n
        OBVIOUS
      <3> QED BY <3>1, MaxOfInterval
    <2>3. x = k /\ src[x].semi
      BY <1>2, <1>5, <2>1, <2>2 DEF StatementEnd
    <2> QED BY <1>1, <1>5, <2>1, <2>3 DEF EndsAt
  <1>6. CASE src[k].kind \notin {"for", "if", "let"}
    <2>1. x = k
      BY <1>6 DEF StatementEnd
    <2> QED BY <1>6, <2>1 DEF EndsAt
  <1> QED BY <1>3, <1>4, <1>5, <1>6

\* What begins in a statement ends in it.
LEMMA StatementsNest ==
    ASSUME NEW src, IsText(src), NEW n \in Nat, n = Len(src), NEW i \in 1 .. n, NEW x, EndsAt(src, n, i, x),
           NEW k \in i .. x, NEW y, EndsAt(src, n, k, y)
    PROVE  y <= x
  <1>1. x \in i .. n /\ y \in k .. n
    BY DEF EndsAt
  <1>2. CASE k = i \/ y = k
    <2>1. CASE y = k
      BY <1>1, <2>1
    <2>2. CASE k = i /\ y # k
      <3>1. /\ src[i].opens > src[i].closes /\ src[i].kind \in {"for", "if", "let"}
            /\ \A j \in i .. n : Net(src, i, j) <= 0 => j >= y
        BY <2>2 DEF EndsAt
      <3>2. src[i].opens \in Nat /\ src[i].closes \in Nat
        BY DEF IsText, IsSourceLine, IsLeoLine
      <3>3. Net(src, i, x) <= 0 \/ x = n
        BY <3>1, <3>2 DEF EndsAt
      <3> QED BY <1>1, <2>2, <3>1, <3>3
    <2> QED BY <1>2, <2>1, <2>2
  <1>3. CASE k # i /\ y # k
    <2>1. k \in i + 1 .. x /\ x # i
      BY <1>1, <1>3
    <2>2. /\ \A j \in i .. n : Net(src, i, j) <= 0 => j >= x
          /\ Net(src, i, x) <= 0 \/ x = n
      BY <2>1 DEF EndsAt
    <2>3. \A j \in k .. n : Net(src, k, j) <= 0 => j >= y
      BY <1>3 DEF EndsAt
    <2>4. SUFFICES ASSUME Net(src, i, x) <= 0 PROVE y <= x
      BY <1>1, <2>2
    <2>5. k \in i .. Len(src) /\ x \in k - 1 .. Len(src) /\ k - 1 \in i .. n /\ ~(k - 1 >= x) /\ x \in k .. n
      BY <1>1, <2>1
    <2>6. /\ Net(src, i, x) = Net(src, i, k - 1) + Net(src, k, x)
          /\ Net(src, i, k - 1) \in Int /\ Net(src, k, x) \in Int
      BY <2>5, NetBetween
    <2>7. ~(Net(src, i, k - 1) <= 0)
      BY <2>2, <2>5
    <2>8. Net(src, k, x) <= 0
      BY <2>4, <2>6, <2>7
    <2>9. x >= y
      BY <2>3, <2>5, <2>8
    <2> QED BY <1>1, <2>9
  <1> QED BY <1>2, <1>3

LEMMA NetOfOne ==
    ASSUME NEW src, IsText(src), NEW i \in 1 .. Len(src)
    PROVE  Net(src, i, i) = src[i].opens - src[i].closes
  <1>1. PICK n \in Nat : n = Len(src) /\ i \in 1 .. n
    BY DEF IsText
  <1>2. src[i].opens \in Nat /\ src[i].closes \in Nat
    BY DEF IsText, IsSourceLine, IsLeoLine
  <1>3. i \in i - 1 .. Len(src) /\ i \in i - 1 .. i /\ i - 1 \in i - 1 .. i /\ (i - 1 < i) /\ ~(i < i)
    BY <1>1
  <1>4. PICK u : NetUpTo(u, src, i, i) /\ Net(src, i, i) = u[i]
    BY <1>3, NetDef
  <1>5. u[i] = u[i - 1] + src[i].opens - src[i].closes /\ u[i - 1] = 0
    BY <1>3, <1>4 DEF NetUpTo
  <1> QED BY <1>2, <1>4, <1>5

\* The parser goes on behind it, or has nothing left of the block.
GoesOn(src, i, last, x) ==
    LET m == LineAfter(src, i, last)
        e == BlockEnd(src, i, last)
    IN  /\ (m = x + 1 /\ x <= last) \/ (m = last + 2 /\ x >= last)
        /\ src[i].kind = "for" => (e = x /\ x <= last) \/ (e = last + 1 /\ x >= last)

LEMMA ParserGoesOn ==
    ASSUME NEW src, IsText(src), NEW n \in Nat, n = Len(src), NEW last \in 0 .. n, NEW i \in 1 .. last,
           NEW x, EndsAt(src, n, i, x)
    PROVE  GoesOn(src, i, last, x)
  <1>1. x \in i .. n /\ i \in 1 .. n /\ last + 1 \in Nat
    BY DEF EndsAt
  <1>2. src[i].opens \in Nat /\ src[i].closes \in Nat
    BY DEF IsText, IsSourceLine, IsLeoLine
  <1>3. CASE src[i].kind \in {"for", "if"}
    <2>1. PICK e : e = BlockEnd(src, i, last)
      OBVIOUS
    <2>2. PICK B : B = {j \in i .. last : Net(src, i, j) <= 0}
      OBVIOUS
    <2>3. e = FirstIn(B, last + 1) /\ B \subseteq Nat
      BY <1>1, <2>1, <2>2 DEF BlockEnd
    <2>4. /\ B = {} => e = last + 1
          /\ B # {} => e \in B /\ \A j \in B : e <= j
      BY <1>1, <2>3, FirstInIs
    <2>5. /\ \A j \in i .. n : Net(src, i, j) <= 0 => j >= x
          /\ Net(src, i, x) <= 0 \/ x = n
      BY <1>3 DEF EndsAt
    <2>6. (e = x /\ x <= last) \/ (e = last + 1 /\ x >= last)
      <3>1. CASE B = {}
        <4>1. x <= last => ~(Net(src, i, x) <= 0)
          BY <1>1, <2>2, <3>1
        <4> QED BY <1>1, <2>4, <2>5, <3>1, <4>1
      <3>2. CASE B # {}
        <4>1. e \in i .. last /\ Net(src, i, e) <= 0
          BY <2>2, <2>4, <3>2
        <4>2. e \in i .. n /\ e >= x
          BY <1>1, <2>5, <4>1
        <4>3. CASE e = x
          BY <4>1, <4>3
        <4>4. CASE e # x
          <5>1. x <= last /\ x # n
            BY <1>1, <4>1, <4>2, <4>4
          <5>2. x \in B
            BY <1>1, <2>2, <2>5, <5>1
          <5> QED BY <1>1, <2>4, <3>2, <4>2, <4>4, <5>2
        <4> QED BY <4>3, <4>4
      <3> QED BY <3>1, <3>2
    <2>7. LineAfter(src, i, last) = e + 1
      BY <1>3, <2>1 DEF LineAfter
    <2> QED BY <1>1, <2>1, <2>6, <2>7 DEF GoesOn
  <1>4. CASE src[i].kind = "let"
    <2>1. PICK e : e = LetEnd(src, i, last)
      OBVIOUS
    <2>2. PICK B : B = {j \in i .. last : Net(src, i, j) <= 0 /\ src[j].semi}
      OBVIOUS
    <2>3. e = FirstIn(B, last + 1) /\ B \subseteq Nat
      BY <1>1, <2>1, <2>2 DEF LetEnd
    <2>4. /\ B = {} => e = last + 1
          /\ B # {} => e \in B /\ \A j \in B : e <= j
      BY <1>1, <2>3, FirstInIs
    <2>5. /\ \A j \in i .. n : Net(src, i, j) <= 0 => j >= x
          /\ Net(src, i, x) <= 0 \/ x = n
          /\ src[x].semi
      <3>1. CASE src[i].opens > src[i].closes
        BY <1>2, <1>4, <3>1 DEF EndsAt
      <3>2. CASE ~(src[i].opens > src[i].closes)
        <4>1. x = i /\ src[x].semi
          BY <1>4, <3>2 DEF EndsAt
        <4>2. Net(src, i, i) = src[i].opens - src[i].closes
          BY <1>1, NetOfOne
        <4> QED BY <1>1, <1>2, <3>2, <4>1, <4>2
      <3> QED BY <3>1, <3>2
    <2>6. (e = x /\ x <= last) \/ (e = last + 1 /\ x >= last)
      <3>1. CASE B = {}
        <4>1. x <= last => ~(Net(src, i, x) <= 0)
          BY <1>1, <2>2, <2>5, <3>1
        <4> QED BY <1>1, <2>4, <2>5, <3>1, <4>1
      <3>2. CASE B # {}
        <4>1. e \in i .. last /\ Net(src, i, e) <= 0
          BY <2>2, <2>4, <3>2
        <4>2. e \in i .. n /\ e >= x
          BY <1>1, <2>5, <4>1
        <4>3. CASE e = x
          BY <4>1, <4>3
        <4>4. CASE e # x
          <5>1. x <= last /\ x # n
            BY <1>1, <4>1, <4>2, <4>4
          <5>2. x \in B
            BY <1>1, <2>2, <2>5, <5>1
          <5> QED BY <1>1, <2>4, <3>2, <4>2, <4>4, <5>2
        <4> QED BY <4>3, <4>4
      <3> QED BY <3>1, <3>2
    <2>7. LineAfter(src, i, last) = e + 1
      BY <1>4, <2>1 DEF LineAfter
    <2> QED BY <1>1, <1>4, <2>6, <2>7 DEF GoesOn
  <1>5. CASE src[i].kind \notin {"for", "if", "let"}
    <2>1. x = i /\ LineAfter(src, i, last) = i + 1
      BY <1>5 DEF EndsAt, LineAfter
    <2> QED BY <1>1, <1>5, <2>1 DEF GoesOn
  <1> QED BY <1>3, <1>4, <1>5


----------------------------------------------------------------------------
(* The statements of a block and of its parts *)

\* In the order of the lines.
AtEach(src, S, loop) == [j \in 1 .. Len(src) |-> StatementAt(src, S, loop, j)]

LEMMA StatementsInOrder ==
    ASSUME NEW src, Len(src) \in Nat, NEW S, S \subseteq 1 .. Len(src), NEW loop
    PROVE  StatementsIn(src, S, loop) = InOrder(src, StatementLines(src, S), AtEach(src, S, loop))
  <1>a. PICK n, h, A : n = Len(src) /\ A = StatementLines(src, S) /\ h = AtEach(src, S, loop)
    OBVIOUS
  <1>1. PICK at : at = Select(Numbers(src), A)
    OBVIOUS
  <1>2. \A m \in 1 .. Len(at) : at[m] \in 1 .. n
    <2>1. PICK r : r = InOrder(src, A, h)
      OBVIOUS
    <2>2. PICK Z : Z = {h[j] : j \in A}
      OBVIOUS
    <2>3. \A j \in A : h[j] \in Z
      BY <2>2
    <2>4. ByLine(r, at, A, h, Z)
      BY <1>1, <1>a, <2>1, <2>3, InOrderType
    <2>5. A \subseteq 1 .. n
      BY <1>a DEF StatementLines
    <2> QED BY <2>4, <2>5 DEF ByLine
  <1>3. \A m \in 1 .. Len(at) : h[at[m]] = StatementAt(src, S, loop, at[m])
    BY <1>2, <1>a DEF AtEach
  <1>4. InOrder(src, A, h) = [m \in 1 .. Len(at) |-> h[at[m]]]
    BY <1>1 DEF InOrder
  <1>5. StatementsIn(src, S, loop) = [m \in 1 .. Len(at) |-> StatementAt(src, S, loop, at[m])]
    BY <1>1, <1>a DEF StatementsIn
  <1> QED BY <1>3, <1>4, <1>5, <1>a

\* By where statements end.
Ends(src, n, E) == \A k \in 1 .. n : EndsAt(src, n, k, E[k])

CoveredBy(src, E, k, j) ==
    k <= j /\ j <= E[k] /\ (src[k].kind = "if" \/ (src[k].kind = "let" /\ j # k))

Covered(src, n, E, S) ==
    /\ \A j \in S : j \in InnerLines(src, S) <=> \E k \in S : CoveredBy(src, E, k, j)
    /\ \A j \in 1 .. n : LoopsAround(src, S, j) = {k \in S : src[k].kind = "for" /\ k < j /\ j <= E[k]}

LEMMA CoveredIs ==
    ASSUME NEW src, NEW n \in Nat, n = Len(src), NEW E, Ends(src, n, E), NEW S, S \subseteq 1 .. n
    PROVE  Covered(src, n, E, S)
  <1>1. ASSUME NEW k \in S
        PROVE  /\ E[k] \in k .. n
               /\ src[k].kind \in {"for", "if"} => Extent(src, k) = k .. E[k]
               /\ src[k].kind = "let" => LetExtent(src, k) = k .. E[k]
    BY DEF Ends, EndsAt
  <1>2. ASSUME NEW j \in S, NEW k \in S
        PROVE  (\/ src[k].kind = "if" /\ j \in Extent(src, k)
                \/ src[k].kind = "let" /\ j \in LetExtent(src, k) \ {k}) <=> CoveredBy(src, E, k, j)
    <2>a. j \in 1 .. n /\ k \in 1 .. n
      OBVIOUS
    <2>b. E[k] \in k .. n
      BY <1>1
    <2>1. j \in Nat /\ k \in Nat /\ E[k] \in k .. n
      BY <2>a, <2>b
    <2>2. CASE src[k].kind = "if"
      BY <1>1, <2>1, <2>2 DEF CoveredBy
    <2>3. CASE src[k].kind = "let"
      BY <1>1, <2>1, <2>3 DEF CoveredBy
    <2> QED BY <2>2, <2>3 DEF CoveredBy
  <1>3. ASSUME NEW j \in 1 .. n, NEW k \in S
        PROVE  (src[k].kind = "for" /\ k < j /\ j \in Extent(src, k)) <=> (src[k].kind = "for" /\ k < j /\ j <= E[k])
    <2>1. CASE src[k].kind = "for"
      <3>1. Extent(src, k) = k .. E[k] /\ E[k] \in k .. n /\ k \in 1 .. n
        BY <1>1, <2>1
      <3>2. PICK x, A : x = E[k] /\ A = Extent(src, k)
        OBVIOUS
      <3>3. A = k .. x /\ x \in k .. n
        BY <3>1, <3>2
      <3>4. k < j => (j \in A <=> j <= x)
        BY <3>1, <3>3
      <3> QED BY <2>1, <3>2, <3>4
    <2> QED BY <2>1
  <1>4. \A j \in S : j \in InnerLines(src, S) <=> \E k \in S : CoveredBy(src, E, k, j)
    BY <1>2 DEF InnerLines
  <1>5. \A j \in 1 .. n : LoopsAround(src, S, j) = {k \in S : src[k].kind = "for" /\ k < j /\ j <= E[k]}
    BY <1>3 DEF LoopsAround
  <1> QED BY <1>4, <1>5 DEF Covered

\* The statements behind the first are those of the lines behind it.
IsBehind(n, A, S, x) == A \subseteq 1 .. n /\ \A j \in 1 .. n : j \in A <=> j \in S /\ j > x

SameBehind(src, A, S, x) ==
    /\ StatementLines(src, A) = {j \in StatementLines(src, S) : j > x}
    /\ \A j \in A : LoopsAround(src, A, j) = LoopsAround(src, S, j)

LEMMA LinesBehind ==
    ASSUME NEW src, NEW n \in Nat, n = Len(src), IsText(src), NEW E, Ends(src, n, E),
           NEW last \in 0 .. n, NEW i \in 1 .. last, NEW x, x = E[i],
           NEW S, S = i .. last, NEW A, IsBehind(n, A, S, x)
    PROVE  SameBehind(src, A, S, x)
  <1>a. A \subseteq 1 .. n /\ \A j \in 1 .. n : j \in A <=> j \in S /\ j > x
    BY DEF IsBehind
  <1>1. i \in 1 .. n /\ S \subseteq 1 .. n /\ A \subseteq S
    BY <1>a
  <1>2. ASSUME NEW k \in S, NEW j \in A, k <= j, j <= E[k] PROVE k \in A
    <2>1. k \in 1 .. n /\ j \in 1 .. n /\ j > x /\ k >= i
      BY <1>1, <1>a
    <2>2. SUFFICES ASSUME ~(k > x) PROVE FALSE
      BY <1>a, <2>1
    <2>3. EndsAt(src, n, i, x) /\ EndsAt(src, n, k, E[k])
      BY <1>1, <2>1 DEF Ends
    <2>4. x \in i .. n /\ E[k] \in k .. n
      BY <2>3 DEF EndsAt
    <2>5. k \in i .. x
      BY <2>1, <2>2, <2>4
    <2>6. E[k] <= x
      BY <1>1, <2>3, <2>5, StatementsNest
    <2> QED BY <1>2, <2>1, <2>4, <2>6
  <1>3. /\ \A j \in S : j \in InnerLines(src, S) <=> \E k \in S : CoveredBy(src, E, k, j)
        /\ \A j \in 1 .. n : LoopsAround(src, S, j) = {k \in S : src[k].kind = "for" /\ k < j /\ j <= E[k]}
    <2>1. Covered(src, n, E, S)
      BY <1>1, CoveredIs
    <2> QED BY <2>1 DEF Covered
  <1>4. /\ \A j \in A : j \in InnerLines(src, A) <=> \E k \in A : CoveredBy(src, E, k, j)
        /\ \A j \in 1 .. n : LoopsAround(src, A, j) = {k \in A : src[k].kind = "for" /\ k < j /\ j <= E[k]}
    <2>1. Covered(src, n, E, A)
      BY <1>a, CoveredIs
    <2> QED BY <2>1 DEF Covered
  <1>5. \A j \in A : j \in InnerLines(src, A) <=> j \in InnerLines(src, S)
    <2> SUFFICES ASSUME NEW j \in A PROVE j \in InnerLines(src, A) <=> j \in InnerLines(src, S)
      OBVIOUS
    <2>1. ASSUME NEW k \in S, CoveredBy(src, E, k, j) PROVE k \in A
      BY <1>2, <2>1 DEF CoveredBy
    <2> QED BY <1>1, <1>3, <1>4, <2>1
  <1>6. StatementLines(src, A) = {j \in StatementLines(src, S) : j > x}
    BY <1>1, <1>5, <1>a DEF StatementLines
  <1>7. \A j \in A : LoopsAround(src, A, j) = LoopsAround(src, S, j)
    <2> SUFFICES ASSUME NEW j \in A PROVE LoopsAround(src, A, j) = LoopsAround(src, S, j)
      OBVIOUS
    <2>1. j \in 1 .. n
      BY <1>1
    <2>2. ASSUME NEW k \in S, k < j, j <= E[k] PROVE k \in A
      <3>1. k <= j
        BY <1>1, <2>1, <2>2
      <3> QED BY <1>2, <2>2, <3>1
    <2> QED BY <1>1, <1>3, <1>4, <2>1, <2>2
  <1> QED BY <1>6, <1>7 DEF SameBehind

\* Those in a loop are those of the lines before its last.
SameWithin(src, W, S, i, x) ==
    /\ W \subseteq S /\ W \subseteq i + 1 .. x
    /\ StatementLines(src, W) = {j \in StatementLines(src, S) : i < j /\ j <= x}
    /\ \A j \in W : LoopsAround(src, S, j) = LoopsAround(src, W, j) \cup {i}

LEMMA LinesWithin ==
    ASSUME NEW src, NEW n \in Nat, n = Len(src), IsText(src), NEW E, Ends(src, n, E),
           NEW last \in 0 .. n, NEW i \in 1 .. last, src[i].kind = "for", NEW x, x = E[i], ~StatesOne(src, x),
           NEW e, (e = x /\ x <= last) \/ (e = last + 1 /\ x >= last),
           NEW S, S = i .. last, NEW W, W = i + 1 .. e - 1
    PROVE  SameWithin(src, W, S, i, x)
  <1>1. i \in 1 .. n /\ S \subseteq 1 .. n /\ x \in i .. n
    BY DEF Ends, EndsAt
  <1>2. W \subseteq S /\ W \subseteq i + 1 .. x /\ W \subseteq 1 .. n /\ i \in S
    BY <1>1
  <1>3. ASSUME NEW k \in S, NEW j \in W, k <= j, k # i PROVE k \in W
    BY <1>1, <1>2, <1>3
  <1>4. /\ \A j \in S : j \in InnerLines(src, S) <=> \E k \in S : CoveredBy(src, E, k, j)
        /\ \A j \in 1 .. n : LoopsAround(src, S, j) = {k \in S : src[k].kind = "for" /\ k < j /\ j <= E[k]}
    <2>1. Covered(src, n, E, S)
      BY <1>1, CoveredIs
    <2> QED BY <2>1 DEF Covered
  <1>5. /\ \A j \in W : j \in InnerLines(src, W) <=> \E k \in W : CoveredBy(src, E, k, j)
        /\ \A j \in 1 .. n : LoopsAround(src, W, j) = {k \in W : src[k].kind = "for" /\ k < j /\ j <= E[k]}
    <2>1. Covered(src, n, E, W)
      BY <1>2, CoveredIs
    <2> QED BY <2>1 DEF Covered
  <1>6. \A j \in W : j \in InnerLines(src, W) <=> j \in InnerLines(src, S)
    <2> SUFFICES ASSUME NEW j \in W PROVE j \in InnerLines(src, W) <=> j \in InnerLines(src, S)
      OBVIOUS
    <2>1. ASSUME NEW k \in S, CoveredBy(src, E, k, j) PROVE k \in W
      BY <1>3, <2>1 DEF CoveredBy
    <2> QED BY <1>2, <1>4, <1>5, <2>1
  <1>7. ASSUME NEW j \in S, StatesOne(src, j), i < j, j <= x PROVE j \in W
    <2>1. j # x
      BY <1>7
    <2> QED BY <1>1, <1>7, <2>1
  <1>8. StatementLines(src, W) = {j \in StatementLines(src, S) : i < j /\ j <= x}
    <2>1. \A j \in W : i < j /\ j <= x
      BY <1>1, <1>2
    <2> QED BY <1>2, <1>6, <1>7, <2>1 DEF StatementLines
  <1>9. \A j \in W : LoopsAround(src, S, j) = LoopsAround(src, W, j) \cup {i}
    <2> SUFFICES ASSUME NEW j \in W PROVE LoopsAround(src, S, j) = LoopsAround(src, W, j) \cup {i}
      OBVIOUS
    <2>1. j \in 1 .. n /\ i < j /\ j <= E[i]
      BY <1>1, <1>2
    <2>2. ASSUME NEW k \in S, k < j, k # i PROVE k \in W
      <3>1. k <= j
        BY <1>1, <2>1, <2>2
      <3> QED BY <1>3, <2>2, <3>1
    <2> QED BY <1>2, <1>4, <1>5, <2>1, <2>2
  <1> QED BY <1>2, <1>8, <1>9 DEF SameWithin

\* And the first line has its own, in no loop of the block.
OwnLine(src, S, i, x) ==
    /\ LoopsAround(src, S, i) = {}
    /\ i \in StatementLines(src, S) <=> StatesOne(src, i)
    /\ src[i].kind # "for" => {j \in StatementLines(src, S) : i < j /\ j <= x} = {}

LEMMA FirstLine ==
    ASSUME NEW src, NEW n \in Nat, n = Len(src), IsText(src), NEW E, Ends(src, n, E),
           NEW last \in 0 .. n, NEW i \in 1 .. last, NEW x, x = E[i], NEW S, S = i .. last
    PROVE  OwnLine(src, S, i, x)
  <1>1. i \in 1 .. n /\ S \subseteq 1 .. n /\ x \in i .. n /\ i \in S
    BY DEF Ends, EndsAt
  <1>2. /\ \A j \in S : j \in InnerLines(src, S) <=> \E k \in S : CoveredBy(src, E, k, j)
        /\ \A j \in 1 .. n : LoopsAround(src, S, j) = {k \in S : src[k].kind = "for" /\ k < j /\ j <= E[k]}
    <2>1. Covered(src, n, E, S)
      BY <1>1, CoveredIs
    <2> QED BY <2>1 DEF Covered
  <1>3. LoopsAround(src, S, i) = {}
    BY <1>1, <1>2
  <1>4. i \in StatementLines(src, S) <=> StatesOne(src, i)
    <2>1. ASSUME NEW k \in S, CoveredBy(src, E, k, i) PROVE src[i].kind = "if"
      BY <1>1, <2>1 DEF CoveredBy
    <2>2. src[i].kind = "if" => ~StatesOne(src, i)
      BY DEF StatesOne, OneLine
    <2> QED BY <1>1, <1>2, <2>1, <2>2 DEF StatementLines
  <1>5. ASSUME src[i].kind # "for", NEW j \in StatementLines(src, S), i < j, j <= x PROVE FALSE
    <2>1. j \in S /\ j \notin InnerLines(src, S)
      BY DEF StatementLines
    <2>2. x # i
      BY <1>1, <1>5, <2>1
    <2>3. src[i].kind \in {"if", "let"}
      BY <1>1, <1>5, <2>2 DEF Ends, EndsAt
    <2>4. CoveredBy(src, E, i, j)
      BY <1>1, <1>5, <2>1, <2>3 DEF CoveredBy
    <2> QED BY <1>1, <1>2, <2>1, <2>4
  <1> QED BY <1>3, <1>4, <1>5 DEF OwnLine


LEMMA InOrderNone ==
    ASSUME NEW src, NEW n \in Nat, n = Len(src), NEW h
    PROVE  InOrder(src, {}, h) = <<>>
  <1>1. PICK r, at : r = InOrder(src, {}, h) /\ at = Select(Numbers(src), {})
    OBVIOUS
  <1>2. ByLine(r, at, {}, h, {})
    BY <1>1, InOrderType
  <1>3. Len(r) = 0
    <2>1. Len(at) \in Nat /\ ~(1 \in 1 .. Len(at))
      BY <1>2 DEF ByLine
    <2> QED BY <1>2, <2>1 DEF ByLine
  <1> QED BY <1>1, <1>2, <1>3 DEF ByLine

\* The innermost loop around a line that is in loop i.
Innermost(K, L, i) == K # {} /\ Max(K) = IF L = {} THEN i ELSE Max(L)

LEMMA InnermostLoop ==
    ASSUME NEW n \in Nat, NEW i \in 1 .. n, NEW L, L \subseteq i + 1 .. n, NEW K, K = L \cup {i}
    PROVE  Innermost(K, L, i)
  <1>1. K \subseteq 1 .. n /\ K # {} /\ L \subseteq 1 .. n /\ i \in Nat
    OBVIOUS
  <1>2. PICK m : m = Max(K)
    OBVIOUS
  <1>3. m \in K /\ \A y \in K : y <= m
    BY <1>1, <1>2, GreatestLine
  <1>4. CASE L = {}
    BY <1>1, <1>2, <1>3, <1>4 DEF Innermost
  <1>5. CASE L # {}
    <2>1. PICK l : l = Max(L)
      OBVIOUS
    <2>2. l \in L /\ \A y \in L : y <= l
      BY <1>1, <1>5, <2>1, GreatestLine
    <2>3. l > i /\ l \in Nat /\ m \in Nat /\ l <= m
      BY <1>1, <1>3, <2>2
    <2>4. m \in L
      BY <1>1, <1>3, <2>3
    <2>5. m = l
      BY <1>1, <2>2, <2>3, <2>4
    <2> QED BY <1>1, <1>2, <1>5, <2>1, <2>5 DEF Innermost
  <1> QED BY <1>1, <1>4, <1>5 DEF Innermost

\* The lines from i on: its own, those that its statement extends to, and those
\* behind; and the statement that is written on each.
PartsOfBlock(src, n, S, i, loop, x, h, O, I, B) ==
    /\ h = AtEach(src, S, loop)
    /\ O = IF StatesOne(src, i) THEN {i} ELSE {}
    /\ I = {j \in StatementLines(src, S) : i < j /\ j <= x}
    /\ B = {j \in StatementLines(src, S) : j > x}

DividedAt(src, n, E, last, i, x, S, loop, h, O, I, B) ==
    /\ Ends(src, n, E) /\ last \in 0 .. n /\ i \in 1 .. last /\ x = E[i] /\ S = i .. last
    /\ PartsOfBlock(src, n, S, i, loop, x, h, O, I, B)

\* The lines of a loop's body, and those behind a statement.
LoopLines(W, i, last, x) ==
    \E e \in Nat : W = i + 1 .. e - 1 /\ ((e = x /\ x <= last) \/ (e = last + 1 /\ x >= last))

LaterLines(A, last, x) ==
    \E m \in Nat : A = m .. last /\ ((m = x + 1 /\ x <= last) \/ (m = last + 2 /\ x >= last))

\* What the statements in a loop are to the block that the loop is in.
LEMMA StatementsInLoop ==
    ASSUME NEW src, NEW n \in Nat, n = Len(src), IsText(src), NEW E, NEW last, NEW i, NEW x, NEW S, NEW loop,
           NEW h, NEW O, NEW I, NEW B, DividedAt(src, n, E, last, i, x, S, loop, h, O, I, B),
           src[i].kind = "for", ~StatesOne(src, x), NEW W, LoopLines(W, i, last, x)
    PROVE  StatementsIn(src, W, i) = InOrder(src, I, h)
  <1>a. Ends(src, n, E) /\ last \in 0 .. n /\ i \in 1 .. last /\ x = E[i] /\ S = i .. last
    BY DEF DividedAt
  <1>b. PartsOfBlock(src, n, S, i, loop, x, h, O, I, B)
    BY DEF DividedAt
  <1>1. PICK e \in Nat : W = i + 1 .. e - 1 /\ ((e = x /\ x <= last) \/ (e = last + 1 /\ x >= last))
    BY DEF LoopLines
  <1>2. /\ W \subseteq S /\ W \subseteq i + 1 .. x
        /\ StatementLines(src, W) = {j \in StatementLines(src, S) : i < j /\ j <= x}
        /\ \A j \in W : LoopsAround(src, S, j) = LoopsAround(src, W, j) \cup {i}
    <2>1. SameWithin(src, W, S, i, x)
      BY <1>a, <1>1, LinesWithin
    <2> QED BY <2>1 DEF SameWithin
  <1>3. i \in 1 .. n /\ x \in i .. n
    BY <1>a DEF Ends, EndsAt
  <1>4. I = StatementLines(src, W) /\ I \subseteq W /\ W \subseteq 1 .. n
    <2>1. I = StatementLines(src, W)
      BY <1>b, <1>2 DEF PartsOfBlock
    <2> QED BY <1>2, <1>3, <2>1 DEF StatementLines
  <1>5. PICK g : g = AtEach(src, W, i)
    OBVIOUS
  <1>6. \A j \in I : g[j] = h[j]
    <2> SUFFICES ASSUME NEW j \in I PROVE g[j] = h[j]
      OBVIOUS
    <2>1. PICK L, K : L = LoopsAround(src, W, j) /\ K = LoopsAround(src, S, j)
      OBVIOUS
    <2>2. K = L \cup {i} /\ L \subseteq W
      BY <1>2, <1>4, <2>1 DEF LoopsAround
    <2>3. L \subseteq i + 1 .. n
      BY <1>2, <1>3, <2>2
    <2>a. K = L \cup {i}
      BY <2>2
    <2>b. Innermost(K, L, i)
      BY <1>3, <2>a, <2>3, InnermostLoop
    <2>4. K # {} /\ Max(K) = IF L = {} THEN i ELSE Max(L)
      BY <2>b DEF Innermost
    <2>5. StatementAt(src, W, i, j) = StatementAt(src, S, loop, j)
      BY <2>1, <2>4 DEF StatementAt
    <2>6. j \in 1 .. n
      BY <1>4
    <2> QED BY <1>b, <1>5, <2>5, <2>6 DEF PartsOfBlock, AtEach
  <1>7. StatementsIn(src, W, i) = InOrder(src, I, g)
    BY <1>4, <1>5, StatementsInOrder
  <1>8. InOrder(src, I, g) = InOrder(src, I, h)
    <2>1. SameOn(I, g, h)
      BY <1>6 DEF SameOn
    <2> QED BY <2>1, InOrderSame
  <1> QED BY <1>7, <1>8

\* And what those behind its first line are.
LEMMA StatementsBehind ==
    ASSUME NEW src, NEW n \in Nat, n = Len(src), IsText(src), NEW E, NEW last, NEW i, NEW x, NEW S, NEW loop,
           NEW h, NEW O, NEW I, NEW B, DividedAt(src, n, E, last, i, x, S, loop, h, O, I, B),
           NEW A, LaterLines(A, last, x)
    PROVE  StatementsIn(src, A, loop) = InOrder(src, B, h)
  <1>a. Ends(src, n, E) /\ last \in 0 .. n /\ i \in 1 .. last /\ x = E[i] /\ S = i .. last
    BY DEF DividedAt
  <1>b. PartsOfBlock(src, n, S, i, loop, x, h, O, I, B)
    BY DEF DividedAt
  <1>1. PICK m \in Nat : A = m .. last /\ ((m = x + 1 /\ x <= last) \/ (m = last + 2 /\ x >= last))
    BY DEF LaterLines
  <1>2. i \in 1 .. n /\ x \in i .. n
    BY <1>a DEF Ends, EndsAt
  <1>3. A \subseteq 1 .. n /\ \A j \in 1 .. n : j \in A <=> j \in S /\ j > x
    BY <1>a, <1>1, <1>2
  <1>4. /\ StatementLines(src, A) = {j \in StatementLines(src, S) : j > x}
        /\ \A j \in A : LoopsAround(src, A, j) = LoopsAround(src, S, j)
    <2>1. IsBehind(n, A, S, x)
      BY <1>3 DEF IsBehind
    <2>2. SameBehind(src, A, S, x)
      BY <1>a, <2>1, LinesBehind
    <2> QED BY <2>2 DEF SameBehind
  <1>5. B = StatementLines(src, A) /\ B \subseteq A
    <2>1. B = StatementLines(src, A)
      BY <1>b, <1>4 DEF PartsOfBlock
    <2> QED BY <2>1 DEF StatementLines
  <1>6. PICK g : g = AtEach(src, A, loop)
    OBVIOUS
  <1>7. \A j \in B : g[j] = h[j]
    <2> SUFFICES ASSUME NEW j \in B PROVE g[j] = h[j]
      OBVIOUS
    <2>1. LoopsAround(src, A, j) = LoopsAround(src, S, j) /\ j \in 1 .. n
      BY <1>3, <1>4, <1>5
    <2>2. StatementAt(src, A, loop, j) = StatementAt(src, S, loop, j)
      BY <2>1 DEF StatementAt
    <2> QED BY <1>b, <1>6, <2>1, <2>2 DEF PartsOfBlock, AtEach
  <1>8. StatementsIn(src, A, loop) = InOrder(src, B, g)
    BY <1>3, <1>5, <1>6, StatementsInOrder
  <1>9. InOrder(src, B, g) = InOrder(src, B, h)
    <2>1. SameOn(B, g, h)
      BY <1>7 DEF SameOn
    <2> QED BY <2>1, InOrderSame
  <1> QED BY <1>8, <1>9


IsEnds(src, n, E) == E = [k \in 1 .. n |-> StatementEnd(src, k)]

LEMMA AllEnd ==
    ASSUME NEW src, IsText(src), StatementsWellLaid(src), NEW n \in Nat, n = Len(src), NEW E, IsEnds(src, n, E)
    PROVE  Ends(src, n, E) /\ \A k \in 1 .. n : src[k].kind = "for" => ~StatesOne(src, E[k])
  <1>1. \A k \in 1 .. n : E[k] = StatementEnd(src, k)
    BY DEF IsEnds
  <1>2. ASSUME NEW k \in 1 .. n PROVE EndsAt(src, n, k, E[k])
    BY <1>1, StatementEnds
  <1>3. ASSUME NEW k \in 1 .. n, src[k].kind = "for" PROVE ~StatesOne(src, E[k])
    <2>1. E[k] = Max(Extent(src, k))
      BY <1>1, <1>3 DEF StatementEnd
    <2>2. src[E[k]].kind = "brace"
      BY <1>3, <2>1 DEF StatementsWellLaid
    <2> QED BY <2>2 DEF StatesOne, OneLine
  <1> QED BY <1>2, <1>3 DEF Ends

\* A block's statements: the one on its first line, those of a loop there, and
\* those behind.
DivisionOf(src, S, loop, h, O, I, B) ==
    StatementsIn(src, S, loop) = (InOrder(src, O, h) \o InOrder(src, I, h)) \o InOrder(src, B, h)

LEMMA BlockSplits ==
    ASSUME NEW src, NEW n \in Nat, n = Len(src), IsText(src), NEW E, NEW last, NEW i, NEW x, NEW S, NEW loop,
           NEW h, NEW O, NEW I, NEW B, DividedAt(src, n, E, last, i, x, S, loop, h, O, I, B)
    PROVE  DivisionOf(src, S, loop, h, O, I, B)
  <1>b. Ends(src, n, E) /\ last \in 0 .. n /\ i \in 1 .. last /\ x = E[i] /\ S = i .. last
    BY DEF DividedAt
  <1>c. PartsOfBlock(src, n, S, i, loop, x, h, O, I, B)
    BY DEF DividedAt
  <1>1. i \in 1 .. n /\ S \subseteq 1 .. n /\ x \in i .. n
    BY <1>b DEF Ends, EndsAt
  <1>2. OwnLine(src, S, i, x)
    BY <1>b, FirstLine
  <1>3. PICK T, C : T = StatementLines(src, S) /\ C = O \cup I
    OBVIOUS
  <1>a. /\ O = IF StatesOne(src, i) THEN {i} ELSE {}
        /\ I = {j \in T : i < j /\ j <= x} /\ B = {j \in T : j > x}
    BY <1>3, <1>c DEF PartsOfBlock
  <1>4. T \subseteq S /\ O \subseteq T
    BY <1>2, <1>3, <1>a DEF StatementLines, OwnLine
  <1>5. T = C \cup B
    <2>1. ASSUME NEW j \in T PROVE j \in C \cup B
      <3>1. j \in 1 .. n /\ j >= i
        BY <1>1, <1>4, <1>b, <2>1
      <3>2. CASE j = i
        <4>1. StatesOne(src, i)
          BY <1>2, <1>3, <2>1, <3>2 DEF OwnLine
        <4> QED BY <1>3, <1>a, <3>2, <4>1
      <3>3. CASE j # i
        BY <1>1, <1>3, <1>a, <2>1, <3>1, <3>3
      <3> QED BY <3>2, <3>3
    <2> QED BY <1>3, <1>4, <1>a, <2>1
  <1>6. Behind(src, O, I)
    <2>1. O \subseteq 1 .. i /\ I \subseteq i + 1 .. Len(src) /\ i \in 0 .. Len(src)
      BY <1>1, <1>3, <1>4, <1>a, <1>b
    <2> QED BY <2>1 DEF Behind
  <1>7. Behind(src, C, B)
    <2>1. C \subseteq 1 .. x /\ B \subseteq x + 1 .. Len(src) /\ x \in 0 .. Len(src)
      BY <1>1, <1>3, <1>4, <1>a, <1>b
    <2> QED BY <2>1 DEF Behind
  <1>8. SplitInOrder(src, C, O, I, h)
    BY <1>3, <1>6, InOrderSplit
  <1>9. SplitInOrder(src, T, C, B, h)
    BY <1>5, <1>7, InOrderSplit
  <1>10. StatementsIn(src, S, loop) = InOrder(src, T, h)
    <2>1. h = AtEach(src, S, loop)
      BY <1>c DEF PartsOfBlock
    <2> QED BY <1>1, <1>3, <2>1, StatementsInOrder
  <1> QED BY <1>8, <1>9, <1>10 DEF SplitInOrder, DivisionOf

BlockStatements(src, b) == StatementsIn(src, b.at .. b.last, b.loop)

LEMMA BlockIsWritten ==
    ASSUME NEW src, NEW n \in Nat, n = Len(src), IsText(src), StatementsWellLaid(src),
           NEW g, NEW b \in BlockDomain(src), g[b] = StatementsBy(g, src, b),
           b.at <= b.last => /\ g[InsideOfLoop(src, b)] = BlockStatements(src, InsideOfLoop(src, b))
                             /\ g[AfterStatement(src, b)] = BlockStatements(src, AfterStatement(src, b))
    PROVE  g[b] = BlockStatements(src, b)
  <1>1. PICK i, last, loop, S : i = b.at /\ last = b.last /\ loop = b.loop /\ S = i .. last
    OBVIOUS
  <1>2. i \in 1 .. n + 2 /\ last \in 0 .. n
    BY <1>1 DEF BlockDomain
  <1>3. CASE i > last
    <2>1. StatementLines(src, S) = {}
      BY <1>1, <1>2, <1>3 DEF StatementLines
    <2>2. BlockStatements(src, b) = <<>>
      <3>1. PICK h : h = AtEach(src, S, loop)
        OBVIOUS
      <3>2. S \subseteq 1 .. n
        BY <1>1, <1>2, <1>3
      <3>3. StatementsIn(src, S, loop) = InOrder(src, StatementLines(src, S), h)
        BY <3>1, <3>2, StatementsInOrder
      <3>4. InOrder(src, {}, h) = <<>>
        BY InOrderNone
      <3> QED BY <1>1, <2>1, <3>1, <3>3, <3>4 DEF BlockStatements
    <2> QED BY <1>1, <1>3, <2>2 DEF StatementsBy
  <1>4. CASE i <= last
    <2>1. PICK E : IsEnds(src, n, E)
      BY DEF IsEnds
    <2>2. Ends(src, n, E) /\ \A k \in 1 .. n : src[k].kind = "for" => ~StatesOne(src, E[k])
      BY <2>1, AllEnd
    <2>a. Ends(src, n, E)
      BY <2>2
    <2>3. i \in 1 .. last /\ i \in 1 .. n
      BY <1>2, <1>4
    <2>4. PICK x : x = E[i]
      OBVIOUS
    <2>5. EndsAt(src, n, i, x)
      BY <2>2, <2>3, <2>4 DEF Ends
    <2>6. GoesOn(src, i, last, x)
      BY <1>2, <2>3, <2>5, ParserGoesOn
    <2>7. PICK m, e : m = LineAfter(src, i, last) /\ e = BlockEnd(src, i, last)
      OBVIOUS
    <2>8. /\ (m = x + 1 /\ x <= last) \/ (m = last + 2 /\ x >= last)
          /\ src[i].kind = "for" => (e = x /\ x <= last) \/ (e = last + 1 /\ x >= last)
      BY <2>6, <2>7 DEF GoesOn
    <2>10. PICK h, O, I, B : PartsOfBlock(src, n, S, i, loop, x, h, O, I, B)
      BY DEF PartsOfBlock
    <2>9. DividedAt(src, n, E, last, i, x, S, loop, h, O, I, B)
      BY <1>1, <1>2, <2>a, <2>3, <2>4, <2>10 DEF DividedAt
    <2>11. StatementsIn(src, S, loop) = (InOrder(src, O, h) \o InOrder(src, I, h)) \o InOrder(src, B, h)
      <3>1. DivisionOf(src, S, loop, h, O, I, B)
        BY <2>9, BlockSplits
      <3> QED BY <3>1 DEF DivisionOf
    <2>12. OwnLine(src, S, i, x)
      BY <1>1, <1>2, <2>2, <2>3, <2>4, FirstLine
    <2>13. InOrder(src, O, h) = OwnStatement(src, b)
      <3>1. h[i] = StatementOf(src, b)
        BY <1>1, <2>3, <2>10, <2>12 DEF StatementAt, StatementOf, OwnLine, PartsOfBlock, AtEach
      <3>2. InOrder(src, {i}, h) = <<h[i]>> /\ InOrder(src, {}, h) = <<>>
        BY <2>3, InOrderOne
      <3> QED BY <1>1, <2>10, <3>1, <3>2 DEF OwnStatement, PartsOfBlock
    <2>14. InOrder(src, I, h) = LoopStatements(g, src, b)
      <3>1. CASE src[i].kind = "for"
        <4>1. ~StatesOne(src, x)
          BY <2>2, <2>3, <2>4, <3>1
        <4>2. (e = x /\ x <= last) \/ (e = last + 1 /\ x >= last)
          BY <2>8, <3>1
        <4>a. PICK W : W = i + 1 .. e - 1
          OBVIOUS
        <4>b. LoopLines(W, i, last, x)
          <5>1. e \in Nat
            BY <1>2, <2>5, <4>2 DEF EndsAt
          <5> QED BY <4>2, <4>a, <5>1 DEF LoopLines
        <4>3. StatementsIn(src, W, i) = InOrder(src, I, h)
          BY <2>9, <3>1, <4>1, <4>b, StatementsInLoop
        <4>4. PICK w : w = InsideOfLoop(src, b)
          OBVIOUS
        <4>5. g[w] = BlockStatements(src, w) /\ w = [at |-> i + 1, last |-> e - 1, loop |-> i]
          BY <1>1, <1>4, <2>7, <4>4 DEF InsideOfLoop
        <4>6. BlockStatements(src, w) = StatementsIn(src, W, i)
          BY <4>5, <4>a DEF BlockStatements
        <4> QED BY <1>1, <3>1, <4>3, <4>4, <4>5, <4>6 DEF LoopStatements
      <3>2. CASE src[i].kind # "for"
        <4>1. I = {}
          BY <2>10, <2>12, <3>2 DEF OwnLine, PartsOfBlock
        <4>2. InOrder(src, {}, h) = <<>>
          BY InOrderNone
        <4> QED BY <1>1, <3>2, <4>1, <4>2 DEF LoopStatements
      <3> QED BY <3>1, <3>2
    <2>15. InOrder(src, B, h) = g[AfterStatement(src, b)]
      <3>1. m \in Nat
        BY <1>2, <2>5, <2>8 DEF EndsAt
      <3>a. PICK A : A = m .. last
        OBVIOUS
      <3>b. (m = x + 1 /\ x <= last) \/ (m = last + 2 /\ x >= last)
        BY <2>8
      <3>2. StatementsIn(src, A, loop) = InOrder(src, B, h)
        <4>1. LaterLines(A, last, x)
          BY <3>1, <3>a, <3>b DEF LaterLines
        <4> QED BY <2>9, <4>1, StatementsBehind
      <3>3. PICK a : a = AfterStatement(src, b)
        OBVIOUS
      <3>4. g[a] = BlockStatements(src, a) /\ a = [at |-> m, last |-> last, loop |-> loop]
        BY <1>1, <1>4, <2>7, <3>3 DEF AfterStatement
      <3>5. BlockStatements(src, a) = StatementsIn(src, A, loop)
        BY <3>4, <3>a DEF BlockStatements
      <3> QED BY <3>2, <3>3, <3>4, <3>5
    <2>16. BlockStatements(src, b) = StatementsIn(src, S, loop)
      BY <1>1 DEF BlockStatements
    <2>17. g[b] = (OwnStatement(src, b) \o LoopStatements(g, src, b)) \o g[AfterStatement(src, b)]
      <3>1. ~(b.at > b.last)
        BY <1>1, <1>2, <1>4
      <3> QED BY <3>1 DEF StatementsBy
    <2> QED BY <2>11, <2>13, <2>14, <2>15, <2>16, <2>17
  <1> QED BY <1>2, <1>3, <1>4

\* parse_block finds the statements that are written in its lines.
LEMMA BlocksAreWritten ==
    ASSUME NEW src, NEW n \in Nat, n = Len(src), IsText(src), StatementsWellLaid(src), NEW g, BlockTable(g, src),
           NEW b \in BlockDomain(src)
    PROVE  g[b] = BlockStatements(src, b)
  <1>1. PICK P : P = {c \in BlockDomain(src) : g[c] = BlockStatements(src, c)}
    OBVIOUS
  <1>2. ASSUME NEW c \in BlockDomain(src), \A d \in BlockDomain(src) : BlockSize(d) < BlockSize(c) => d \in P
        PROVE  c \in P
    <2>1. g[c] = StatementsBy(g, src, c)
      BY DEF BlockTable
    <2>2. ASSUME c.at <= c.last
          PROVE  /\ g[InsideOfLoop(src, c)] = BlockStatements(src, InsideOfLoop(src, c))
                 /\ g[AfterStatement(src, c)] = BlockStatements(src, AfterStatement(src, c))
      <3>1. PICK a, w : a = AfterStatement(src, c) /\ w = InsideOfLoop(src, c)
        OBVIOUS
      <3>2. a \in BlockDomain(src) /\ w \in BlockDomain(src) /\ BlockSize(a) < BlockSize(c) /\ BlockSize(w) < BlockSize(c)
        BY <2>2, <3>1, BlocksShrink
      <3> QED BY <1>1, <1>2, <3>1, <3>2
    <2>3. g[c] = BlockStatements(src, c)
      BY <2>1, <2>2, BlockIsWritten
    <2> QED BY <1>1, <2>3
  <1>3. BlockDomain(src) \subseteq P
    BY <1>2, BySize
  <1> QED BY <1>1, <1>3


\* A function's body is the block of the lines behind its signature.
LEMMA FunctionIsWritten ==
    ASSUME NEW src, IsText(src), StatementsWellLaid(src), NEW i \in 1 .. Len(src), src[i].kind \in Headers,
           NEW c, NEW f, f = LeoFunc(src, i, c)
    PROVE  f.body = Written(src, f)
  <1>1. PICK n \in Nat : n = Len(src) /\ i \in 1 .. n
    BY DEF IsText
  <1>2. FunctionsWellLaid(src)
    BY DEF StatementsWellLaid
  <1>3. PICK k, e : k = SignatureEnd(src, i) /\ e = BodyEnd(src, i)
    OBVIOUS
  <1>4. /\ k \in i .. n /\ e \in k + 1 .. n /\ ~Closed(src, k, k)
        /\ BodyEnd(src, k) = e /\ Extent(src, i) = i .. e
    BY <1>1, <1>2, <1>3, BodiesAgree
  <1>5. PICK S : S = k + 1 .. e
    OBVIOUS
  <1>6. Body(src, k) = S
    <2>1. ~(k > Len(src) \/ Closed(src, k, k))
      BY <1>1, <1>4
    <2>2. Body(src, k) = {j \in k + 1 .. e : j <= n}
      BY <1>1, <1>4, <2>1 DEF Body
    <2> QED BY <1>1, <1>4, <1>5, <2>2
  <1>7. k + 1 \in 1 .. n /\ e \in k + 1 .. n
    BY <1>1, <1>4
  <1>8. Max(S) = e /\ S # {}
    <2>1. e \in S
      BY <1>5, <1>7
    <2> QED BY <1>1, <1>5, <1>7, <2>1, MaxOfInterval
  <1>9. f.line = i /\ f.body = ParseBlock(src, k + 1, e)
    <2>1. PICK nm, it, ps, B, bl, bd :
              /\ nm = src[i].name /\ it = IsTransition(src[i]) /\ ps = ParameterList(src, i) /\ B = Body(src, k)
              /\ bl = (IF B = {} THEN k ELSE Max(B)) /\ bd = (IF B = {} THEN <<>> ELSE ParseBlock(src, k + 1, Max(B)))
      OBVIOUS
    <2>2. f = [name |-> nm, is_transition |-> it, line |-> i, body_end_line |-> bl, parameters |-> ps,
               body |-> bd, program_name |-> c]
      BY <1>3, <2>1, Zenon DEF LeoFunc
    <2>3. bd = ParseBlock(src, k + 1, e)
      BY <1>6, <1>8, <2>1
    <2>4. f.line = i /\ f.body = bd
      BY <2>2
    <2> QED BY <2>3, <2>4
  <1>10. f.body = StatementsIn(src, S, 0)
    <2>1. PICK b : b = [at |-> k + 1, last |-> e, loop |-> 0]
      OBVIOUS
    <2>2. b \in BlockDomain(src)
      BY <1>1, <1>4, <2>1 DEF BlockDomain
    <2>3. PICK g : BlockTable(g, src) /\ ParseBlock(src, k + 1, e) = g[b]
      BY <2>1, <2>2, ParseBlockIs
    <2>4. g[b] = BlockStatements(src, b)
      BY <1>1, <2>2, <2>3, BlocksAreWritten
    <2>5. BlockStatements(src, b) = StatementsIn(src, S, 0)
      BY <1>5, <2>1 DEF BlockStatements
    <2> QED BY <1>9, <2>3, <2>4, <2>5
  <1>11. {j \in Extent(src, f.line) : j > SignatureEnd(src, f.line)} = S
    <2>1. {j \in i .. e : j > k} = S
      BY <1>1, <1>4, <1>5
    <2> QED BY <1>3, <1>4, <1>9, <2>1
  <1>12. Written(src, f) = StatementsIn(src, S, 0)
    BY <1>11 DEF Written
  <1> QED BY <1>10, <1>12

\* parse_block, behind parse_functions, finds in every source whose statements
\* are well laid the statements that are written in it, each once, in order,
\* and in the loop that it is in.
THEOREM StatementsAreWritten == PipelineSpec => []StatementsWhereWritten
  <1>1. PipelineInit => ParsedInv
    BY DEF PipelineInit, ParsedInv, SourceRead
  <1>2. ParsedInv /\ [PipelineNext]_allVars => ParsedInv'
    BY ParsedStays
  <1>3. ParsedInv => StatementsWhereWritten
    <2> SUFFICES ASSUME ParsedInv, StatementsWellLaid(text) PROVE StatementsWhereWritten
      BY DEF StatementsWhereWritten
    <2>1. PICK src, ps : src = text /\ ps = leoProgram.funcs
      OBVIOUS
    <2>2. IsText(src) /\ StatementsWellLaid(src) /\ FunctionsWellLaid(src) /\ ps = ParseLeoProgram(src).funcs
      BY <2>1, TextIs DEF ParsedInv, SourceRead, StatementsWellLaid, text
    <2>3. PICK some, hs : some = AtKinds(src, Headers) /\ hs = Select(Numbers(src), some)
      OBVIOUS
    <2>4. PICK cur : ps = [m \in 1 .. Len(hs) |-> LeoFunc(src, hs[m], cur[m])]
      BY <2>2, <2>3, ProgramFunctions
    <2>5. \A m \in 1 .. Len(hs) : hs[m] \in some
      <3>1. PICK n \in Nat : n = Len(src)
        BY <2>2 DEF IsText
      <3>2. PICK h : h = [j \in some |-> j]
        OBVIOUS
      <3>3. PICK r : r = InOrder(src, some, h)
        OBVIOUS
      <3>4. \A j \in some : h[j] \in some
        BY <3>2
      <3>5. ByLine(r, hs, some, h, some)
        BY <2>3, <3>1, <3>3, <3>4, InOrderType
      <3> QED BY <3>5 DEF ByLine
    <2>6. Len(hs) \in Nat
      <3>1. PICK n \in Nat : n = Len(src)
        BY <2>2 DEF IsText
      <3>2. PICK ns : ns = Numbers(src)
        OBVIOUS
      <3>3. ns = [k \in 1 .. n |-> k]
        BY <3>1, <3>2 DEF Numbers
      <3>4. ns \in Seq(1 .. n)
        BY <3>1, <3>3, SeqDef
      <3> QED BY <2>3, <3>2, <3>4, SelectType
    <2>7. \A m \in 1 .. Len(ps) : ps[m].body = Written(src, ps[m])
      <3> SUFFICES ASSUME NEW m \in 1 .. Len(ps) PROVE ps[m].body = Written(src, ps[m])
        OBVIOUS
      <3>1. m \in 1 .. Len(hs)
        BY <2>4, <2>6
      <3>2. PICK i : i = hs[m]
        OBVIOUS
      <3>3. i \in 1 .. Len(src) /\ src[i].kind \in Headers
        BY <2>3, <2>5, <3>1, <3>2 DEF AtKinds
      <3>4. ps[m] = LeoFunc(src, i, cur[m])
        BY <2>4, <3>1, <3>2
      <3> QED BY <2>2, <3>3, <3>4, FunctionIsWritten
    <2> QED BY <2>1, <2>7 DEF StatementsWhereWritten
  <1> QED BY <1>1, <1>2, <1>3, PTL DEF PipelineSpec

=============================================================================
