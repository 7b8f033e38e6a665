-------------------------- MODULE SelectionProofs --------------------------
(***************************************************************************)
(* What Select returns, by induction over the sequence.  The library's     *)
(* induction theorems take an operator; induction over a set of numbers    *)
(* follows from the well-foundedness of < without one.                     *)
(***************************************************************************)
EXTENDS Selection, WellFoundedInduction, TLAPS

\* A set that has 0 and, with a number, the next one has every number.
LEMMA NatSetInduction ==
    ASSUME NEW S, 0 \in S, \A n \in Nat : n \in S => n + 1 \in S
    PROVE  Nat \subseteq S
  <1> DEFINE T == Nat \ S
  <1> SUFFICES ASSUME T # {} PROVE FALSE
    OBVIOUS
  <1>1. PICK x \in T : \A y \in T : ~ (<<y, x>> \in OpToRel(<, Nat))
    BY NatLessThanWellFounded, WFMin, Zenon
  <1>2. x - 1 \in Nat /\ x - 1 \notin S
    BY SMT
  <1>3. <<x - 1, x>> \in OpToRel(<, Nat)
    BY <1>2, SMT DEF OpToRel
  <1> QED BY <1>1, <1>2, <1>3

\* A set of numbers that is not empty has a least one.
LEMMA LeastNat ==
    ASSUME NEW S, S \subseteq Nat, S # {}
    PROVE  \E n \in S : \A m \in S : n <= m
  <1> DEFINE Below == {n \in Nat : \A m \in S : n <= m}
  <1> SUFFICES ASSUME \A n \in S : \E m \in S : ~(n <= m) PROVE FALSE
    OBVIOUS
  <1>1. 0 \in Below
    OBVIOUS
  <1>2. ASSUME NEW n \in Nat, n \in Below PROVE n + 1 \in Below
    <2>1. n \notin S
      BY <1>2
    <2> QED BY <1>2, <2>1
  <1>3. Nat \subseteq Below
    <2> HIDE DEF Below
    <2> QED BY <1>1, <1>2, NatSetInduction
  <1>4. PICK n \in S : TRUE
    OBVIOUS
  <1>5. n + 1 \in Below
    BY <1>3, <1>4
  <1> QED BY <1>4, <1>5

\* A set of positions that is not empty has a last one.
LEMMA GreatestIndex ==
    ASSUME NEW len \in Nat, NEW S, S \subseteq 1 .. len, S # {}
    PROVE  \E n \in S : \A m \in S : m <= n
  <1> DEFINE D == {n \in 0 .. len : len - n \in S}
  <1>1. D \subseteq Nat
    OBVIOUS
  <1>2. D # {}
    <2>1. PICK m \in S : TRUE
      OBVIOUS
    <2>2. len - m \in 0 .. len /\ len - (len - m) = m
      BY <2>1
    <2> QED BY <2>1, <2>2
  <1>3. PICK d \in D : \A e \in D : d <= e
    <2> HIDE DEF D
    <2> QED BY <1>1, <1>2, LeastNat
  <1>4. ASSUME NEW m \in S PROVE m <= len - d
    <2>1. len - m \in D /\ m \in 1 .. len
      BY <1>4
    <2>2. d <= len - m /\ d \in 0 .. len
      BY <1>3, <2>1
    <2> QED BY <2>1, <2>2
  <1> QED BY <1>3, <1>4

\* The library states this of one index at a time.
LEMMA ElementType ==
    ASSUME NEW S, NEW s \in Seq(S)
    PROVE  Len(s) \in Nat /\ \A k \in 1 .. Len(s) : s[k] \in S
  OBVIOUS

\* An element of a concatenation comes from the one or the other.
LEMMA ConcatElement ==
    ASSUME NEW S, NEW s \in Seq(S), NEW t \in Seq(S)
    PROVE  /\ s \o t \in Seq(S) /\ Len(s \o t) = Len(s) + Len(t)
           /\ Len(s) \in Nat /\ Len(t) \in Nat
           /\ \A k \in 1 .. Len(s \o t) :
                  \/ k \in 1 .. Len(s) /\ (s \o t)[k] = s[k]
                  \/ k - Len(s) \in 1 .. Len(t) /\ (s \o t)[k] = t[k - Len(s)]
           /\ \A k \in 1 .. Len(s) : (s \o t)[k] = s[k]
           /\ \A k \in 1 .. Len(t) : (s \o t)[Len(s) + k] = t[k]
  OBVIOUS

----------------------------------------------------------------------------
(* Select *)

\* One step of the selection.
Chosen(s, T, n, sofar) == IF s[n] \in T THEN Append(sofar, s[n]) ELSE sofar

\* u holds the selections of the first 0 .. n elements of s.
SelectsUpTo(u, s, T, n) ==
    u = [k \in 0 .. n |-> IF k = 0 THEN <<>> ELSE Chosen(s, T, k, u[k - 1])]

LEMMA SelectionExists ==
    ASSUME NEW s, NEW T, NEW n \in Nat
    PROVE  \E u : SelectsUpTo(u, s, T, n)
  <1> DEFINE S == {k \in Nat : \E u : SelectsUpTo(u, s, T, k)}
  <1>1. 0 \in S
    <2> DEFINE u == [k \in 0 .. 0 |-> <<>>]
    <2>1. SelectsUpTo(u, s, T, 0)
      BY DEF SelectsUpTo
    <2> QED BY <2>1
  <1>2. ASSUME NEW k \in Nat, k \in S PROVE k + 1 \in S
    <2>1. PICK u : SelectsUpTo(u, s, T, k)
      BY <1>2
    <2> DEFINE v == [j \in 0 .. k + 1 |-> IF j = k + 1 THEN Chosen(s, T, j, u[k]) ELSE u[j]]
    <2>2. \A j \in 0 .. k : u[j] = IF j = 0 THEN <<>> ELSE Chosen(s, T, j, u[j - 1])
      BY <2>1 DEF SelectsUpTo
    <2>3. \A j \in 0 .. k + 1 : v[j] = IF j = 0 THEN <<>> ELSE Chosen(s, T, j, v[j - 1])
      <3> TAKE j \in 0 .. k + 1
      <3>1. CASE j = k + 1
        <4>1. j # 0 /\ j - 1 = k /\ k \in 0 .. k + 1 /\ k # k + 1
          BY <3>1
        <4>2. v[j - 1] = u[k]
          BY <4>1
        <4> QED BY <3>1, <4>1, <4>2
      <3>2. CASE j # k + 1
        <4>1. j \in 0 .. k
          BY <3>2
        <4>2. CASE j = 0
          BY <2>2, <4>1, <4>2
        <4>3. CASE j # 0
          <5>1. j - 1 \in 0 .. k + 1 /\ j - 1 # k + 1
            BY <4>1, <4>3
          <5>2. v[j - 1] = u[j - 1] /\ v[j] = u[j]
            BY <3>2, <5>1
          <5> QED BY <2>2, <4>1, <4>3, <5>2
        <4> QED BY <4>2, <4>3
      <3> QED BY <3>1, <3>2
    <2>4. SelectsUpTo(v, s, T, k + 1)
      <3>1. v = [j \in 0 .. k + 1 |-> v[j]]
        OBVIOUS
      <3> HIDE DEF v
      <3> QED BY <2>3, <3>1 DEF SelectsUpTo
    <2> QED BY <2>4
  <1> HIDE DEF S
  <1>3. n \in S
    BY <1>1, <1>2, NatSetInduction
  <1> QED BY <1>3 DEF S

\* Selections of the same elements are the same.
LEMMA SelectionUnique ==
    ASSUME NEW s, NEW t, NEW T, NEW U, NEW n \in Nat, NEW m \in Nat, n <= m, NEW u, NEW v,
           SelectsUpTo(u, s, T, n), SelectsUpTo(v, t, U, m),
           \A j \in 1 .. n : s[j] = t[j] /\ (s[j] \in T <=> t[j] \in U)
    PROVE  u[n] = v[n]
  <1> DEFINE S == {k \in Nat : k <= n => u[k] = v[k]}
  <1>1. /\ \A j \in 0 .. n : u[j] = IF j = 0 THEN <<>> ELSE Chosen(s, T, j, u[j - 1])
        /\ \A j \in 0 .. m : v[j] = IF j = 0 THEN <<>> ELSE Chosen(t, U, j, v[j - 1])
    BY DEF SelectsUpTo
  <1>2. 0 \in S
    BY <1>1
  <1>3. ASSUME NEW k \in Nat, k \in S PROVE k + 1 \in S
    <2> SUFFICES ASSUME k + 1 <= n PROVE u[k + 1] = v[k + 1]
      OBVIOUS
    <2>1. /\ k + 1 \in 0 .. n /\ k + 1 \in 0 .. m /\ k + 1 # 0 /\ k <= n /\ (k + 1) - 1 = k
          /\ k + 1 \in 1 .. n
      OBVIOUS
    <2>2. u[k] = v[k]
      BY <1>3, <2>1
    <2>3. Chosen(s, T, k + 1, u[k]) = Chosen(t, U, k + 1, v[k])
      BY <2>1, <2>2 DEF Chosen
    <2> QED BY <1>1, <2>1, <2>3
  <1> HIDE DEF S
  <1>4. n \in S
    BY <1>2, <1>3, NatSetInduction
  <1> QED BY <1>4 DEF S

\* Select is the last of the selections.
LEMMA SelectDef ==
    ASSUME NEW s, NEW T, Len(s) \in Nat
    PROVE  \E u : SelectsUpTo(u, s, T, Len(s)) /\ Select(s, T) = u[Len(s)]
  <1> DEFINE P(u) == u = [n \in 0 .. Len(s) |->
                            IF n = 0 THEN <<>>
                            ELSE IF s[n] \in T THEN Append(u[n - 1], s[n]) ELSE u[n - 1]]
  <1>1. \A u : P(u) <=> SelectsUpTo(u, s, T, Len(s))
    BY DEF SelectsUpTo, Chosen
  <1>2. \E u : P(u)
    BY <1>1, SelectionExists
  <1>3. Select(s, T) = (CHOOSE u : P(u))[Len(s)]
    BY DEF Select
  <1>4. P(CHOOSE u : P(u))
    <2> HIDE DEF P
    <2> QED BY <1>2
  <1> HIDE DEF P
  <1> QED BY <1>1, <1>3, <1>4

LEMMA SelectEmpty == ASSUME NEW T PROVE Select(<<>>, T) = <<>>
  <1>1. Len(<<>>) = 0
    OBVIOUS
  <1>2. PICK u : SelectsUpTo(u, <<>>, T, 0) /\ Select(<<>>, T) = u[0]
    BY <1>1, SelectDef
  <1> QED BY <1>2 DEF SelectsUpTo

\* What is selected depends on the elements' membership alone.
LEMMA SelectSame ==
    ASSUME NEW s, NEW T, NEW U, Len(s) \in Nat, \A j \in 1 .. Len(s) : s[j] \in T <=> s[j] \in U
    PROVE  Select(s, T) = Select(s, U)
  <1>1. PICK u : SelectsUpTo(u, s, T, Len(s)) /\ Select(s, T) = u[Len(s)]
    BY SelectDef
  <1>2. PICK v : SelectsUpTo(v, s, U, Len(s)) /\ Select(s, U) = v[Len(s)]
    BY SelectDef
  <1> QED BY <1>1, <1>2, SelectionUnique

\* One more element.
LEMMA SelectAppend ==
    ASSUME NEW S, NEW s \in Seq(S), NEW x \in S, NEW T
    PROVE  Select(Append(s, x), T) = IF x \in T THEN Append(Select(s, T), x) ELSE Select(s, T)
  <1> DEFINE n == Len(s)
             t == Append(s, x)
  <1>1. n \in Nat /\ Len(t) = n + 1 /\ t[n + 1] = x /\ \A j \in 1 .. n : t[j] = s[j]
    OBVIOUS
  <1>2. PICK u : SelectsUpTo(u, s, T, n) /\ Select(s, T) = u[n]
    BY <1>1, SelectDef
  <1>3. PICK v : SelectsUpTo(v, t, T, n + 1) /\ Select(t, T) = v[n + 1]
    <2>1. Len(t) \in Nat
      BY <1>1
    <2> QED BY <1>1, <2>1, SelectDef
  <1> HIDE DEF n, t
  <1>4. u[n] = v[n]
    <2>1. n + 1 \in Nat /\ n <= n + 1
      BY <1>1
    <2>2. \A j \in 1 .. n : s[j] = t[j] /\ (s[j] \in T <=> t[j] \in T)
      BY <1>1
    <2> QED BY <1>1, <1>2, <1>3, <2>1, <2>2, SelectionUnique
  <1>5. v[n + 1] = Chosen(t, T, n + 1, v[n])
    <2>1. n + 1 \in 0 .. n + 1 /\ n + 1 # 0 /\ (n + 1) - 1 = n
      BY <1>1
    <2> QED BY <1>3, <2>1 DEF SelectsUpTo
  <1> QED BY <1>1, <1>2, <1>3, <1>4, <1>5 DEF Chosen, t

\* The selection is a sequence of elements of s that are in T.
LEMMA SelectType ==
    ASSUME NEW S, NEW s \in Seq(S), NEW T
    PROVE  /\ Select(s, T) \in Seq(S) /\ Len(Select(s, T)) \in Nat
           /\ \A k \in 1 .. Len(Select(s, T)) :
                  \E j \in 1 .. Len(s) : s[j] = Select(s, T)[k] /\ s[j] \in T
  <1> DEFINE n == Len(s)
             Of(w) == /\ w \in Seq(S)
                      /\ \A k \in 1 .. Len(w) : \E j \in 1 .. n : s[j] = w[k] /\ s[j] \in T
  <1>1. PICK u : SelectsUpTo(u, s, T, n) /\ Select(s, T) = u[n]
    BY SelectDef
  <1>2. n \in Nat /\ \A j \in 0 .. n : u[j] = IF j = 0 THEN <<>> ELSE Chosen(s, T, j, u[j - 1])
    <2>1. n \in Nat
      OBVIOUS
    <2> HIDE DEF n
    <2> QED BY <1>1, <2>1 DEF SelectsUpTo
  <1> DEFINE Good == {k \in Nat : k <= n => Of(u[k])}
  <1>3. 0 \in Good
    <2>1. u[0] = <<>>
      BY <1>2
    <2>2. <<>> \in Seq(S) /\ Len(<<>>) = 0
      OBVIOUS
    <2>3. Of(<<>>)
      BY <2>2
    <2> HIDE DEF Of
    <2> QED BY <2>1, <2>3
  <1>4. ASSUME NEW k \in Nat, k \in Good PROVE k + 1 \in Good
    <2> SUFFICES ASSUME k + 1 <= n PROVE Of(u[k + 1])
      OBVIOUS
    <2>1. /\ k + 1 \in 0 .. n /\ k + 1 # 0 /\ (k + 1) - 1 = k /\ k + 1 \in 1 .. n
          /\ Of(u[k]) /\ s[k + 1] \in S
      BY <1>2, <1>4
    <2>2. u[k + 1] = Chosen(s, T, k + 1, u[k])
      BY <1>2, <2>1
    <2> DEFINE w == u[k]
               x == s[k + 1]
    <2>3. CASE x \notin T
      BY <2>1, <2>2, <2>3 DEF Chosen
    <2>4. CASE x \in T
      <3>1. u[k + 1] = Append(w, x)
        BY <2>2, <2>4 DEF Chosen
      <3> HIDE DEF w, x
      <3>2. w \in Seq(S) /\ x \in S
        BY <2>1 DEF w, x
      <3>3. /\ Append(w, x) \in Seq(S) /\ Len(Append(w, x)) = Len(w) + 1
            /\ \A i \in 1 .. Len(w) + 1 : Append(w, x)[i] = IF i = Len(w) + 1 THEN x ELSE w[i]
        BY <3>2
      <3>4. ASSUME NEW i \in 1 .. Len(w) + 1
            PROVE  \E j \in 1 .. n : s[j] = Append(w, x)[i] /\ s[j] \in T
        <4>1. CASE i = Len(w) + 1
          BY <2>1, <2>4, <3>3, <4>1 DEF x
        <4>2. CASE i # Len(w) + 1
          <5>1. i \in 1 .. Len(w)
            BY <3>2, <4>2
          <5>2. \E j \in 1 .. n : s[j] = w[i] /\ s[j] \in T
            BY <2>1, <5>1 DEF w
          <5> QED BY <3>3, <4>2, <5>2
        <4> QED BY <4>1, <4>2
      <3> QED BY <3>1, <3>3, <3>4
    <2> QED BY <2>3, <2>4
  <1>5. n \in Good
    <2> HIDE DEF Good, n
    <2> QED BY <1>2, <1>3, <1>4, NatSetInduction
  <1>6. Of(u[n])
    BY <1>2, <1>5
  <1> QED BY <1>1, <1>6

\* A sequence that is not empty has a last element.
LEMMA LastElement ==
    ASSUME NEW S, NEW t \in Seq(S), t # <<>>
    PROVE  \E w \in Seq(S), x \in S : t = Append(w, x) /\ Len(t) = Len(w) + 1
  <1>1. PICK n : n = Len(t) - 1
    OBVIOUS
  <1>2. n \in Nat /\ n + 1 = Len(t) /\ t[n + 1] \in S /\ \A j \in 1 .. n : t[j] \in S
    BY <1>1
  <1>3. PICK w : w = [j \in 1 .. n |-> t[j]]
    OBVIOUS
  <1>4. w \in Seq(S) /\ Len(w) = n /\ \A j \in 1 .. n : w[j] = t[j]
    BY <1>2, <1>3
  <1>5. PICK x \in S : x = t[n + 1]
    BY <1>2
  <1>6. PICK v : v = Append(w, x)
    OBVIOUS
  <1>7. /\ v \in Seq(S) /\ Len(v) = n + 1
        /\ \A j \in 1 .. n + 1 : v[j] = IF j = n + 1 THEN x ELSE w[j]
    BY <1>2, <1>4, <1>6
  <1>8. \A j \in 1 .. n + 1 : v[j] = t[j]
    <2> TAKE j \in 1 .. n + 1
    <2>1. j = n + 1 \/ j \in 1 .. n
      BY <1>2
    <2> QED BY <1>4, <1>5, <1>7, <2>1
  <1>9. t = v
    BY <1>2, <1>7, <1>8
  <1> QED BY <1>2, <1>4, <1>5, <1>6, <1>9

\* Two sequences, one after the other.
LEMMA SelectConcat ==
    ASSUME NEW S, NEW s \in Seq(S), NEW t \in Seq(S), NEW T
    PROVE  Select(s \o t, T) = Select(s, T) \o Select(t, T)
  <1> DEFINE Good == {k \in Nat : \A u \in Seq(S) :
                          Len(u) = k => Select(s \o u, T) = Select(s, T) \o Select(u, T)}
  <1>1. 0 \in Good
    <2> SUFFICES ASSUME NEW u \in Seq(S), Len(u) = 0
                 PROVE  Select(s \o u, T) = Select(s, T) \o Select(u, T)
      OBVIOUS
    <2>1. u = <<>> /\ s \o u = s
      OBVIOUS
    <2>2. Select(s, T) \in Seq(S)
      BY SelectType
    <2> QED BY <2>1, <2>2, SelectEmpty
  <1>2. ASSUME NEW k \in Nat, k \in Good PROVE k + 1 \in Good
    <2> SUFFICES ASSUME NEW u \in Seq(S), Len(u) = k + 1
                 PROVE  Select(s \o u, T) = Select(s, T) \o Select(u, T)
      OBVIOUS
    <2>1. u # <<>>
      OBVIOUS
    <2>2. PICK w \in Seq(S), x \in S : u = Append(w, x) /\ Len(u) = Len(w) + 1
      BY <2>1, LastElement
    <2>3. Select(s \o w, T) = Select(s, T) \o Select(w, T)
      BY <1>2, <2>2
    <2>4. s \o w \in Seq(S) /\ s \o u = Append(s \o w, x)
      BY <2>2
    <2>8. Select(s \o u, T) = IF x \in T THEN Append(Select(s \o w, T), x) ELSE Select(s \o w, T)
      <3> DEFINE v == s \o w
      <3>1. v \in Seq(S)
        BY <2>4
      <3> HIDE DEF v
      <3>2. Select(Append(v, x), T) = IF x \in T THEN Append(Select(v, T), x) ELSE Select(v, T)
        BY <3>1, SelectAppend
      <3> QED BY <2>4, <3>2 DEF v
    <2>9. Select(Append(w, x), T) = IF x \in T THEN Append(Select(w, T), x) ELSE Select(w, T)
      BY SelectAppend
    <2>5. Select(u, T) = IF x \in T THEN Append(Select(w, T), x) ELSE Select(w, T)
      BY <2>2, <2>9
    <2>6. Select(s, T) \in Seq(S) /\ Select(w, T) \in Seq(S)
      BY SelectType
    <2>7. (Select(s, T) \o Append(Select(w, T), x)) = Append(Select(s, T) \o Select(w, T), x)
      BY <2>6
    <2> QED BY <2>3, <2>5, <2>7, <2>8
  <1>3. Len(t) \in Good
    <2>1. Len(t) \in Nat
      OBVIOUS
    <2> HIDE DEF Good
    <2> QED BY <1>1, <1>2, <2>1, NatSetInduction
  <1> QED BY <1>3

\* Everything is selected, or nothing.
LEMMA SelectWhole ==
    ASSUME NEW S, NEW s \in Seq(S), NEW T, \A j \in 1 .. Len(s) : s[j] \in T
    PROVE  Select(s, T) = s
  <1>5. PICK U : U = S \cap T
    OBVIOUS
  <1> DEFINE Good == {k \in Nat : \A u \in Seq(U) : Len(u) = k => Select(u, T) = u}
  <1>1. 0 \in Good
    <2>1. \A u \in Seq(U) : Len(u) = 0 => u = <<>>
      OBVIOUS
    <2> QED BY <2>1, SelectEmpty
  <1>2. ASSUME NEW k \in Nat, k \in Good PROVE k + 1 \in Good
    <2> SUFFICES ASSUME NEW u \in Seq(U), Len(u) = k + 1 PROVE Select(u, T) = u
      OBVIOUS
    <2>1. u # <<>>
      OBVIOUS
    <2>2. PICK w \in Seq(U), x \in U : u = Append(w, x) /\ Len(u) = Len(w) + 1
      BY <2>1, LastElement
    <2>3. Select(w, T) = w
      BY <1>2, <2>2
    <2>4. Select(Append(w, x), T) = IF x \in T THEN Append(Select(w, T), x) ELSE Select(w, T)
      BY SelectAppend
    <2> QED BY <1>5, <2>2, <2>3, <2>4
  <1>3. Len(s) \in Good
    <2>1. Len(s) \in Nat
      OBVIOUS
    <2> HIDE DEF Good
    <2> QED BY <1>1, <1>2, <2>1, NatSetInduction
  <1>4. s \in Seq(U)
    BY <1>5
  <1> QED BY <1>3, <1>4

LEMMA SelectNothing ==
    ASSUME NEW S, NEW s \in Seq(S), NEW T, \A j \in 1 .. Len(s) : s[j] \notin T
    PROVE  Select(s, T) = <<>>
  <1>1. /\ Select(s, T) \in Seq(S) /\ Len(Select(s, T)) \in Nat
        /\ \A k \in 1 .. Len(Select(s, T)) : \E j \in 1 .. Len(s) : s[j] \in T
    BY SelectType
  <1>2. Len(Select(s, T)) = 0
    <2> SUFFICES ASSUME Len(Select(s, T)) # 0 PROVE FALSE
      OBVIOUS
    <2>1. 1 \in 1 .. Len(Select(s, T))
      BY <1>1
    <2> QED BY <1>1, <2>1
  <1> QED BY <1>1, <1>2

\* A sequence followed by nothing, or by one element.
LEMMA ConcatOne ==
    ASSUME NEW S, NEW s \in Seq(S)
    PROVE  s \o <<>> = s /\ \A x \in S : s \o <<x>> = Append(s, x)
  OBVIOUS

\* Elements and length of a sequence with one more element.
LEMMA AppendElement ==
    ASSUME NEW S, NEW s \in Seq(S), NEW x \in S
    PROVE  /\ Append(s, x) \in Seq(S) /\ Len(Append(s, x)) = Len(s) + 1 /\ Len(s) \in Nat
           /\ \A k \in 1 .. Len(s) : Append(s, x)[k] = s[k]
           /\ Append(s, x)[Len(s) + 1] = x
  OBVIOUS

\* Sequences with the same elements are the same.
LEMMA SameElements ==
    ASSUME NEW S, NEW s \in Seq(S), NEW t \in Seq(S), Len(s) = Len(t),
           \A k \in 1 .. Len(s) : s[k] = t[k]
    PROVE  s = t
  <1>1. s = [k \in 1 .. Len(s) |-> s[k]] /\ t = [k \in 1 .. Len(t) |-> t[k]]
    OBVIOUS
  <1> QED BY <1>1

\* Every element that is in T is selected.
LEMMA SelectHas ==
    ASSUME NEW S, NEW s \in Seq(S), NEW T, NEW j \in 1 .. Len(s), s[j] \in T
    PROVE  \E k \in 1 .. Len(Select(s, T)) : Select(s, T)[k] = s[j]
  <1> DEFINE All(u) == \A i \in 1 .. Len(u) : u[i] \in T =>
                           \E k \in 1 .. Len(Select(u, T)) : Select(u, T)[k] = u[i]
             Good == {n \in Nat : \A u \in Seq(S) : Len(u) = n => All(u)}
  <1>1. 0 \in Good
    OBVIOUS
  <1>2. ASSUME NEW n \in Nat, n \in Good PROVE n + 1 \in Good
    <2> SUFFICES ASSUME NEW u \in Seq(S), Len(u) = n + 1, NEW i \in 1 .. Len(u), u[i] \in T
                 PROVE  \E k \in 1 .. Len(Select(u, T)) : Select(u, T)[k] = u[i]
      OBVIOUS
    <2>1. u # <<>>
      OBVIOUS
    <2>2. PICK w \in Seq(S), x \in S : u = Append(w, x) /\ Len(u) = Len(w) + 1
      BY <2>1, LastElement
    <2>3. Len(w) = n
      BY <2>2
    <2>4. All(w)
      BY <1>2, <2>3
    <2> HIDE DEF Good
    <2>5. Select(Append(w, x), T) = IF x \in T THEN Append(Select(w, T), x) ELSE Select(w, T)
      BY SelectAppend
    <2>6. Select(w, T) \in Seq(S)
      BY SelectType
    <2>7. PICK v \in Seq(S) : v = Select(w, T)
      BY <2>6
    <2>8. /\ Append(v, x) \in Seq(S) /\ Len(Append(v, x)) = Len(v) + 1 /\ Len(v) \in Nat
          /\ \A k \in 1 .. Len(v) : Append(v, x)[k] = v[k]
          /\ Append(v, x)[Len(v) + 1] = x
      BY AppendElement
    <2>9. u[n + 1] = x /\ \A k \in 1 .. n : u[k] = w[k]
      BY <2>2, <2>3
    <2>10. CASE i \in 1 .. n
      <3>1. PICK k \in 1 .. Len(v) : v[k] = w[i]
        BY <2>3, <2>4, <2>7, <2>9, <2>10
      <3>2. k \in 1 .. Len(Append(v, x))
        BY <2>8
      <3> QED BY <2>2, <2>5, <2>7, <2>8, <2>9, <2>10, <3>1, <3>2
    <2>11. CASE i = n + 1
      <3>1. x \in T
        BY <2>9, <2>11
      <3>2. Len(v) + 1 \in 1 .. Len(Append(v, x))
        BY <2>8
      <3> QED BY <2>2, <2>5, <2>7, <2>8, <2>9, <2>11, <3>1, <3>2
    <2>12. i \in 1 .. n \/ i = n + 1
      OBVIOUS
    <2> QED BY <2>10, <2>11, <2>12
  <1>3. Len(s) \in Good
    <2>1. Len(s) \in Nat
      OBVIOUS
    <2> HIDE DEF Good
    <2> QED BY <1>1, <1>2, <2>1, NatSetInduction
  <1> QED BY <1>3

\* What is chosen is not longer.
LEMMA SelectLength ==
    ASSUME NEW S, NEW s \in Seq(S), NEW T
    PROVE  Len(Select(s, T)) <= Len(s)
  <1> DEFINE Good == {n \in Nat : \A u \in Seq(S) : Len(u) = n => Len(Select(u, T)) <= n}
  <1>1. 0 \in Good
    <2> SUFFICES ASSUME NEW u \in Seq(S), Len(u) = 0 PROVE Len(Select(u, T)) <= 0
      OBVIOUS
    <2>1. u = <<>>
      OBVIOUS
    <2>2. Select(<<>>, T) = <<>>
      BY SelectEmpty
    <2> QED BY <2>1, <2>2
  <1>2. ASSUME NEW n \in Nat, n \in Good PROVE n + 1 \in Good
    <2> SUFFICES ASSUME NEW u \in Seq(S), Len(u) = n + 1
                 PROVE  Len(Select(u, T)) <= n + 1
      OBVIOUS
    <2>1. u # <<>>
      OBVIOUS
    <2>2. PICK w \in Seq(S), x \in S : u = Append(w, x) /\ Len(u) = Len(w) + 1
      BY <2>1, LastElement
    <2>3. Len(w) = n
      BY <2>2
    <2>4. Len(Select(w, T)) <= n
      BY <1>2, <2>3
    <2> HIDE DEF Good
    <2>5. Select(u, T) = IF x \in T THEN Append(Select(w, T), x) ELSE Select(w, T)
      BY <2>2, SelectAppend
    <2>6. PICK v \in Seq(S) : v = Select(w, T)
      BY SelectType
    <2>7. Len(Append(v, x)) = Len(v) + 1 /\ Len(v) \in Nat
      BY AppendElement
    <2> QED BY <2>4, <2>5, <2>6, <2>7
  <1>3. Len(s) \in Good
    <2> HIDE DEF Good
    <2>1. Nat \subseteq Good
      BY <1>1, <1>2, NatSetInduction
    <2> QED BY <2>1
  <1> QED BY <1>3

=============================================================================
