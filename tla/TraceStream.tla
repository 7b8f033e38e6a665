---------------------------- MODULE TraceStream ----------------------------
(***************************************************************************)
(* What the trace writer makes of the records it is given: the abstract    *)
(* specification of a recording's call structure.                          *)
(*                                                                         *)
(* The writer (codetracer_trace_writer_nim, outside this repository) keeps *)
(* a stack of open calls.  register_call opens one, register_return closes *)
(* the innermost, and a step, a value or a special event belongs to the    *)
(* innermost open call or, outside any, to <toplevel>: the records name no *)
(* call.  A recording is right when each record is written while the call  *)
(* it comes from (its ghost field `id`) is the innermost.                  *)
(***************************************************************************)
EXTENDS Integers, Sequences, SequencesExt

VARIABLES
    top,     \* the call whose records belong to <toplevel>, or 0
    open,    \* the ids of the open calls, innermost last
    written  \* the records so far

streamVars == <<top, open, written>>

Innermost(o) == IF o = <<>> THEN top ELSE Last(o)

\* Is r written where it belongs, when the calls o are open?
Belongs(o, r) == IF r.rec = "call" THEN r.id \notin Range(o) \cup {top}
                 ELSE r.id = Innermost(o) /\ (r.rec = "return" => o # <<>>)

OpenAfter(o, r) == CASE r.rec = "call"   -> Append(o, r.id)
                     [] r.rec = "return" -> Front(o)
                     [] OTHER            -> o

\* The open calls after each prefix of records.
OpenAlong(o, records) ==
    LET along[k \in 0 .. Len(records)] ==
            IF k = 0 THEN o ELSE OpenAfter(along[k - 1], records[k])
    IN  along

Init == open = <<>> /\ written = <<>> /\ top \in {0, 1}

\* One or more records are written, each where it belongs.
Deliver ==
    LET records == SubSeq(written', Len(written) + 1, Len(written'))
        along == OpenAlong(open, records)
    IN  /\ IsStrictPrefix(written, written')
        /\ \A k \in 1 .. Len(records) : Belongs(along[k - 1], records[k])
        /\ open' = along[Len(records)]
        /\ UNCHANGED top

Spec == Init /\ [][Deliver]_streamVars

=============================================================================
