------------------------------ MODULE MCAleoVM ------------------------------
(***************************************************************************)
(* Small Aleo programs for TLC: an entry function of up to three           *)
(* instructions of a menu, a callee (called twice, so that its results are *)
(* replaced) that works on the same mapping, a function only the callee    *)
(* calls, and programs with a finalize block of a function's name.         *)
(* Registers are three bits wide.                                          *)
(***************************************************************************)
EXTENDS AleoVM

MCFnName == {"main", "sub", "leaf", "absent"}
MCMapping == {"m", "n"}
MCReg == 0 .. 4

\* One mapping with a value at the key 1.
MCPrePopulated == {[m \in {"m"} |-> [k \in {1} |-> 3]]}

R(r) == [reg |-> r]
L(n) == [literal |-> n]
Bin(op, a, b, dest) == [op |-> op, src1 |-> a, src2 |-> b, dest |-> dest]
CallTo(f, args, dests) == [op |-> "call", callee |-> f, args |-> args, dests |-> dests]
Get(m, key, dest) == [op |-> "get", mapping |-> m, key |-> key, dest |-> dest]
GetOrUse(m, key, default, dest) ==
    [op |-> "get.or_use", mapping |-> m, key |-> key, default |-> default, dest |-> dest]
SetTo(m, key, value) == [op |-> "set", mapping |-> m, key |-> key, value |-> value]
RemoveFrom(m, key) == [op |-> "remove", mapping |-> m, key |-> key]
Has(m, key, dest) == [op |-> "contains", mapping |-> m, key |-> key, dest |-> dest]

Fn(name, kind, inputs, body, outputs) ==
    [name |-> name, kind |-> kind, inputs |-> inputs, code |-> body, outputs |-> outputs]

Menu ==
    { Bin("sub", L(-4), R(0), 1), Bin("div", R(1), R(0), 2), Bin("mod", R(1), L(-1), 2),
      Bin("lt", R(0), R(1), 3), CallTo("sub", <<R(0), R(1)>>, <<1, 2, 3>>),
      CallTo("sub", <<R(2)>>, <<>>), CallTo("absent", <<R(0)>>, <<1>>),
      SetTo("m", 0, 1), SetTo("n", 1, 0), Get("m", 0, 2), GetOrUse("m", 1, 0, 3),
      RemoveFrom("m", 0), Has("n", 1, 3), [op |-> "unknown"] }

SubBodies ==
    { <<Bin("add", R(0), R(1), 2), SetTo("m", 0, 2)>>,
      <<Get("m", 0, 2), Bin("div", L(3), R(2), 2)>>,
      <<CallTo("leaf", <<R(0)>>, <<2>>), RemoveFrom("m", 1), Has("m", 0, 3)>> }

Leaf == Fn("leaf", "closure", <<0>>, <<SetTo("m", 1, 0), Bin("mul", R(0), L(2), 4)>>, <<4>>)

\* The finalize block of sub takes sub's place.
FinalizeSub == Fn("sub", "finalize", <<0>>, <<GetOrUse("m", 0, 1, 2), SetTo("m", 0, 2)>>, <<>>)

Bodies == {<<i, j>> : i, j \in Menu} \cup {<<i, CallTo("sub", <<R(0)>>, <<1>>), j>> : i, j \in Menu}

Fns(body, sub) ==
    <<Fn("main", "function", <<0, 1>>, body, <<2, 3>>), Fn("sub", "closure", <<0, 1>>, sub, <<2, 1>>), Leaf>>

Run(mode, entry, inputs, fns) == [mode |-> mode, fns |-> fns, entry |-> entry, inputs |-> inputs]

\* record runs main without inputs, so its registers start at 0.
MCPrograms ==
    { Run("record", "main", <<>>, Fns(b, s)) : b \in Bodies, s \in SubBodies }
    \cup { Run(mode, "main", <<1, -4>>, Fns(b, s)) : mode \in {"replay", "finalize"}, b \in Bodies, s \in SubBodies }
    \cup { Run("replay", "sub", <<2>>, Append(Fns(<<>>, s), FinalizeSub)) : s \in SubBodies }
    \cup { Run(mode, "absent", <<>>, Fns(<<>>, <<>>)) : mode \in {"record", "replay"} }

\* A deployed program with a transition and its finalize block.
MCDeployed ==
    { Run("replay", "sub", <<2>>,
          <<Fn("sub", "function", <<0, 1>>, s, <<2>>), Leaf, FinalizeSub>>) : s \in SubBodies }

=============================================================================
