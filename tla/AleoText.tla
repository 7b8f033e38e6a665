------------------------------ MODULE AleoText ------------------------------
(***************************************************************************)
(* An Aleo program as its lines, and the functions that three places of    *)
(* the code find in them: parse_aleo_program (tracer.rs),                  *)
(* parse_aleo_function_info (source_map.rs) and, in AleoDialect,           *)
(* emit_aleo_dialect_trace (tracer.rs).                                    *)
(*                                                                         *)
(* A line is what these parsers tell apart.  "code" holds an instruction   *)
(* that parses; "garbled" is one whose operands do not, and "comment" and  *)
(* "cast" are other text, which the instruction parser calls unknown.      *)
(***************************************************************************)
EXTENDS Integers, Sequences, SequencesExt, Selection

FnKinds == {"function", "closure", "finalize"}

AleoLineKinds ==
    FnKinds \cup {"blank", "program", "mapping", "input", "output", "code", "cast", "garbled",
                        "comment"}

\* The lines that open a block of one of the kinds.  The parsers look at every
\* one of them, since each also ends the block before it.
Openings(lines, kinds) ==
    Select(Numbers(lines), {k \in 1 .. Len(lines) : lines[k].kind \in kinds})

\* The lines after line i up to the first that ends the block.
BlockLines(lines, i, ends) ==
    LET last == CHOOSE j \in i .. Len(lines) :
                    /\ \A k \in i + 1 .. j : lines[k].kind \notin ends
                    /\ j = Len(lines) \/ lines[j + 1].kind \in ends
    IN  SubSeq(lines, i + 1, last)

OfKind(lines, kinds) == Select(lines, {l \in Range(lines) : l.kind \in kinds})

\* An instruction whose operands do not parse is left out, one that is not
\* known is kept.
Instructions(block) ==
    LET kept == OfKind(block, {"code", "cast", "comment"})
    IN  [k \in 1 .. Len(kept) |->
            IF kept[k].kind = "code" THEN kept[k].instr ELSE [op |-> "unknown"]]

Registers(block, kind) ==
    LET ls == OfKind(block, {kind}) IN [k \in 1 .. Len(ls) |-> ls[k].reg]

BlockEnds == {"blank", "program", "mapping"} \cup FnKinds

ParseAleoProgram(lines) ==
    LET at == Openings(lines, FnKinds)
    IN  [n \in 1 .. Len(at) |->
            LET block == BlockLines(lines, at[n], BlockEnds)
            IN  [name |-> lines[at[n]].name, kind |-> lines[at[n]].kind,
                 inputs |-> Registers(block, "input"), code |-> Instructions(block),
                 outputs |-> Registers(block, "output")]]

\* source_map.rs knows neither finalize blocks nor mappings and counts every
\* line that is not an input or an output.
ParseAleoFunctionInfo(lines) ==
    LET at == Openings(lines, {"function", "closure"})
    IN  [n \in 1 .. Len(at) |->
            LET block == BlockLines(lines, at[n], {"blank", "program", "function", "closure"})
            IN  [name |-> lines[at[n]].name,
                 instructions |-> OfKind(block, AleoLineKinds \ {"input", "output"})]]

=============================================================================
