--------------------------- MODULE RecordOutcome ---------------------------
(***************************************************************************)
(* What a `record` command promises whoever looks at its exit status and   *)
(* at its output directory: a bundle is built once and never revised, a    *)
(* clean exit means that it is the trace of the program (or that recording *)
(* was disabled and there is none), and a failure never leaves one behind. *)
(***************************************************************************)

VARIABLES
    skip,    \* recording is disabled
    bundle,  \* "absent", "partial", "program" or "error"
    status   \* "running", "ok" or "err"

outcomeVars == <<skip, bundle, status>>

Init == skip \in BOOLEAN /\ bundle = "absent" /\ status = "running"

Begin ==
    /\ status = "running" /\ bundle = "absent" /\ ~skip
    /\ bundle' = "partial"
    /\ UNCHANGED <<skip, status>>

\* The program's trace is complete at the moment the command succeeds.
Succeed ==
    /\ status = "running"
    /\ status' = "ok"
    /\ \/ skip /\ bundle = "absent" /\ UNCHANGED bundle
       \/ bundle = "partial" /\ bundle' = "program"
    /\ UNCHANGED skip

\* A failure leaves nothing, an unfinished bundle or a complete error trace.
Fail ==
    /\ status = "running"
    /\ status' = "err"
    /\ \/ UNCHANGED bundle
       \/ bundle = "partial" /\ bundle' = "error"
    /\ UNCHANGED skip

Next == Begin \/ Succeed \/ Fail

Spec == Init /\ [][Next]_outcomeVars

=============================================================================
