------------------------------ MODULE AleoLines ------------------------------
(***************************************************************************)
(* The lines of an Aleo program whose parts the interpreter knows: what    *)
(* ReplaySession takes from the node, and what TracePipeline takes from    *)
(* the leo CLI or generates itself.                                        *)
(***************************************************************************)
EXTENDS AleoVM, AleoText

\* What the parsers make of a line.
IsLine(l) ==
    /\ l.kind \in AleoLineKinds
    /\ l.kind \in FnKinds => l.name \in FnName
    /\ l.kind \in {"input", "output"} => l.reg \in Reg
    /\ l.kind = "code" => l.instr \in Instruction

IsAleoText(lines) ==
    /\ lines \in Seq(Range(lines))
    /\ \A k \in 1 .. Len(lines) : IsLine(lines[k])

=============================================================================
