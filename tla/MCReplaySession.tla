--------------------------- MODULE MCReplaySession ---------------------------
(***************************************************************************)
(* Small deployed programs for TLC: functions whose every line sets the    *)
(* next register, a call that sets four registers at the end of the file,  *)
(* a callee that has the entry's register numbers, a closure as the entry, *)
(* a finalize block or a second function of the entry's name, divisions    *)
(* that fail and panic, and command lines with too few or bad inputs.      *)
(***************************************************************************)
EXTENDS ReplaySession

MCFnName == {"main", "sub", "absent"}
MCMapping == {"m"}
MCReg == 0 .. 4
MCPrePopulated == {}

Head_(kind, name) == [kind |-> kind, name |-> name]
In(r) == [kind |-> "input", reg |-> r]
Out(r) == [kind |-> "output", reg |-> r]
Code(instr_) == [kind |-> "code", instr |-> instr_]
Blank == [kind |-> "blank"]
Garbled == [kind |-> "garbled"]
Comment == [kind |-> "comment"]

R(r) == [reg |-> r]
L(n) == [literal |-> n]
Bin(op, a, b, dest) == Code([op |-> op, src1 |-> a, src2 |-> b, dest |-> dest])
CallTo(f, args, dests) == Code([op |-> "call", callee |-> f, args |-> args, dests |-> dests])
Get(key, dest) == Code([op |-> "get", mapping |-> "m", key |-> key, dest |-> dest])
SetTo(key, value) == Code([op |-> "set", mapping |-> "m", key |-> key, value |-> value])

Header == <<[kind |-> "program"], Blank>>

\* A callee of one input and four outputs, and the same function with a
\* finalize block.
Sub == <<Head_("closure", "sub"), In(0), Bin("add", R(0), L(1), 1), SetTo(0, 1), Get(0, 2),
         Out(0), Out(1), Out(2), Out(2), Blank>>

SubFinalize == <<Head_("function", "sub"), In(0), Bin("mul", R(0), L(2), 1), Out(1), Blank,
                 Head_("finalize", "sub"), In(0), Bin("div", L(1), R(0), 2), Blank>>

Calls == <<Head_("function", "main"), CallTo("sub", <<L(2)>>, <<0, 1, 2, 3>>), Out(3)>>

Bodies ==
    { <<In(0), In(1), Bin(op, R(0), R(1), 2), Out(2)>> : op \in {"add", "div", "lt"} }
    \cup { <<In(0), CallTo("sub", <<R(0)>>, <<1>>), Bin("sub", R(1), R(0), 2), Out(2)>>,
           <<In(0), Garbled, Comment, CallTo("absent", <<>>, <<2>>), SetTo(0, 0), Out(1)>> }

Main(body) == <<Head_("function", "main")>> \o body

Texts == { Header \o Sub \o Main(b) : b \in Bodies }
         \cup { Header \o Main(b) \o <<Blank>> \o SubFinalize : b \in Bodies }
         \cup { Header \o Sub \o Calls, Header \o Calls \o <<Blank>> \o Sub,
                <<[kind |-> "mapping"], Comment>> \o Calls \o SubFinalize,
                Header \o Main(<<In(0), Out(0)>>)
                    \o Main(<<In(0), In(1), Bin("add", R(0), R(1), 2), Out(2)>>) }

Config(text, entry, inputs) ==
    [disabled |-> FALSE, fetched |-> TRUE, terminated |-> TRUE, badInput |-> FALSE,
     text |-> text, entry |-> entry, inputs |-> inputs]

Straight_ == Config(Header \o Main(<<In(0), In(1), Bin("add", R(0), R(1), 2), Out(2)>>), "main", <<1, 2>>)

MCConfigs ==
    { Config(t, e, i) : t \in Texts, e \in {"main", "sub"}, i \in {<<>>, <<1>>, <<-4, -1>>, <<3, 2>>} }
    \cup { [Config(t, "main", <<1>>) EXCEPT !.terminated = FALSE] : t \in Texts }
    \cup { [Straight_ EXCEPT !.disabled = TRUE], [Straight_ EXCEPT !.fetched = FALSE],
           [Straight_ EXCEPT !.badInput = TRUE], [Straight_ EXCEPT !.entry = "absent"] }

MCPrograms == {Parsed(c) : c \in MCConfigs}

=============================================================================
