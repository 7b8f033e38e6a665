-------------------------- MODULE StructuredTrace --------------------------
(***************************************************************************)
(* The source-level recording of a Leo program: emit_trace_events picks    *)
(* the entry points, runs each one in the evaluator (LeoEval) and hands    *)
(* the resulting CallTrace to emit_call_trace, which walks it and writes   *)
(* the call, step, value, event and return records.                        *)
(*                                                                         *)
(* The evaluator has finished an entry point before anything of it is      *)
(* written, so the order of the records is not the order of execution by   *)
(* construction: the walk rebuilds it from after_binding.  The properties  *)
(* at the end compare the stream written with the history `log`.           *)
(*                                                                         *)
(* The recursion of emit_call_trace is the variable `walk`.  The records   *)
(* carry, besides what is written, the ghost field `id` of their call.     *)
(***************************************************************************)
EXTENDS LeoEval, Selection

CONSTANT Main   \* the function name "main"

ASSUME MainAssumption == Main \in FnName

VARIABLES
    entries,  \* the positions in decls of the entry points still to record
    mode,     \* "idle", "running" (evaluator) or "emitting"
    walk,     \* the activations of emit_call_trace, innermost last
    out       \* the records written to the trace

vars == <<evalVars, entries, mode, walk, out>>

emitVars == <<entries, mode, walk, out>>

----------------------------------------------------------------------------
(* emit_call_trace *)

\* at: before the call record, in the binding loop, or past it; bi and si are
\* binding_idx and sub_idx, both counted from 0.
Activation == [trace : Nat, args : Seq(Value), entry : BOOLEAN,
               at : {"open", "bindings", "trailing"}, bi : Nat, si : Nat]

Opening(trace, args, entry) ==
    [trace |-> trace, args |-> args, entry |-> entry, at |-> "open", bi |-> 0, si |-> 0]

act == walk[Len(walk)]
emitted == done[act.trace]
nextSub == emitted.subs[act.si + 1]

At(place) == mode = "emitting" /\ walk # <<>> /\ act.at = place

SetAct(a) == walk' = [walk EXCEPT ![Len(walk)] = a]

Write(records) == out' = out \o records

\* Every activation but main's opens with the call and a step at its signature.
OpenCall ==
    /\ At("open")
    /\ SetAct([act EXCEPT !.at = "bindings"])
    /\ Write(IF act.entry THEN <<>>
             ELSE <<[rec |-> "call", id |-> emitted.id, fn |-> emitted.fn, args |-> act.args],
                    [rec |-> "entry_step", id |-> emitted.id]>>)
    /\ UNCHANGED <<evalVars, entries, mode>>

\* Write the next sub-call; one whose callee is not in by_name is passed over.
Descend ==
    /\ walk' = LET passed == [walk EXCEPT ![Len(walk)].si = @ + 1]
               IN  IF nextSub.callee \in prog.known
                   THEN Append(passed, Opening(nextSub.trace, nextSub.args, FALSE))
                   ELSE passed
    /\ UNCHANGED <<evalVars, entries, mode, out>>

\* Mutant: off by one.
SubIsHereLate == act.si < Len(emitted.subs) /\ nextSub.after = act.bi + 1

\* Mutant: a sub-call is written once its binding has been.
SubIsHereAfter == act.si < Len(emitted.subs) /\ nextSub.after < act.bi

\* The while loop at the head of the binding loop: the sub-calls captured at
\* this very binding index.
SubIsHere == act.si < Len(emitted.subs) /\ nextSub.after = act.bi

EmitSubCall ==
    /\ At("bindings")
    /\ act.bi < Len(emitted.bindings)
    /\ SubIsHere
    /\ Descend

EmitBinding ==
    /\ At("bindings")
    /\ act.bi < Len(emitted.bindings)
    /\ ~SubIsHere
    /\ LET b == emitted.bindings[act.bi + 1]
       IN  Write(<<[rec |-> "bind", id |-> emitted.id, name |-> b.name, line |-> b.line,
                    mutable |-> b.mutable, value |-> b.value]>>)
    /\ SetAct([act EXCEPT !.bi = @ + 1])
    /\ UNCHANGED <<evalVars, entries, mode>>

EndBindings ==
    /\ At("bindings")
    /\ act.bi = Len(emitted.bindings)
    /\ SetAct([act EXCEPT !.at = "trailing"])
    /\ UNCHANGED <<evalVars, entries, mode, out>>

EmitTrailingSubCall ==
    /\ At("trailing")
    /\ act.si < Len(emitted.subs)
    /\ Descend

\* EventLogKind of an io event: only the finalize abort is an Error.
EventKind(tag) == CASE tag = "LeoFinalizeAbort" -> "Error"
                    [] tag \in {"LeoMappingSet", "LeoMappingRemove"} -> "Write"
                    [] OTHER -> "Read"

\* Mutant: a call surfaces one failed assert at most.
AssertEventOnce(t) ==
    IF t.asserts = 0 THEN <<>>
    ELSE <<[rec |-> "event", id |-> t.id, kind |-> "Error", tag |-> "LeoAssert"]>>

AssertEvents(t) ==
    [k \in 1 .. t.asserts |-> [rec |-> "event", id |-> t.id, kind |-> "Error", tag |-> "LeoAssert"]]

IoEvents(t) ==
    [k \in 1 .. Len(t.ios) |->
        [rec |-> "event", id |-> t.id, kind |-> EventKind(t.ios[k]), tag |-> t.ios[k]]]

ReturnRecords(t, entry) ==
    IF entry THEN <<>> ELSE <<[rec |-> "return", id |-> t.id, rv |-> t.rv]>>

\* Mutant: the return is registered before the events.
CloseReturnFirst(t, entry) ==
    ReturnRecords(t, entry) \o AssertEvents(t) \o IoEvents(t)
    \o <<[rec |-> "return_step", id |-> t.id]>>

\* All asserts, then all io events, the step of the return line, the return.
CloseRecords(t, entry) ==
    AssertEvents(t) \o IoEvents(t)
    \o <<[rec |-> "return_step", id |-> t.id]>> \o ReturnRecords(t, entry)

CloseCall ==
    /\ At("trailing")
    /\ act.si = Len(emitted.subs)
    /\ Write(CloseRecords(emitted, act.entry))
    /\ walk' = Front(walk)
    /\ UNCHANGED <<evalVars, entries, mode>>

EmitCallTrace ==
    OpenCall \/ EmitSubCall \/ EmitBinding \/ EndBindings \/ EmitTrailingSubCall \/ CloseCall

----------------------------------------------------------------------------
(* emit_trace_events: main alone, or else every transition in order *)

MainOnly == Main \in prog.known

\* Mutant: every function is an entry point.
EntriesUnfiltered(p) == 1 .. Len(p.decls)

\* main is looked up in by_name, so it runs once; the transitions are taken from
\* funcs, imported ones included.
Entries(p) ==
    LET positions == 1 .. Len(p.decls)
    IN  IF Main \in p.known
        THEN {k \in positions : p.decls[k] = Main /\ \A j \in 1 .. k - 1 : p.decls[j] # Main}
        ELSE {k \in positions : p.fns[p.decls[k]].transition}

\* The next entry point, in declaration order, and its arguments.
position == CHOOSE k \in entries : \A j \in entries : k <= j
entryFn == prog.decls[position]

EntryArgs(f) == IF MainOnly THEN <<>> ELSE ZeroArgs(f)

DispatchEntry ==
    /\ mode = "idle"
    /\ entries # {}
    /\ StartEntry(entryFn, EntryArgs(entryFn))
    /\ mode' = "running"
    /\ UNCHANGED <<entries, walk, out>>

Evaluate ==
    /\ mode = "running"
    /\ EvalStep
    /\ UNCHANGED emitVars

BeginEmission ==
    /\ mode = "running"
    /\ stack = <<>>
    /\ walk' = <<Opening(Len(done), EntryArgs(entryFn), MainOnly)>>
    /\ mode' = "emitting"
    /\ UNCHANGED <<evalVars, entries, out>>

EndEmission ==
    /\ mode = "emitting"
    /\ walk = <<>>
    /\ mode' = "idle"
    /\ entries' = entries \ {position}
    /\ UNCHANGED <<evalVars, walk, out>>

Finished == mode = "idle" /\ entries = {}

Stutter == Finished /\ UNCHANGED vars

Init ==
    /\ EvalInit
    /\ entries = Entries(prog)
    /\ mode = "idle"
    /\ walk = <<>>
    /\ out = <<>>

Next ==
    \/ DispatchEntry \/ Evaluate \/ BeginEmission \/ EmitCallTrace \/ EndEmission
    \/ Stutter

\* The recorder is one thread that runs until it is done.
Fairness == WF_vars(Next)

Spec == Init /\ [][Next]_vars /\ Fairness

----------------------------------------------------------------------------
(* Properties *)

\* The variables hold what the code's types allow.
TypeOK ==
    /\ EvalTypeOK
    /\ entries \subseteq 1 .. Len(prog.decls)
    /\ mode \in {"idle", "running", "emitting"}
    /\ walk \in Seq(Activation)

\* The walk never passes a binding that a pending sub-call precedes (the inner
\* loop tests for equality, so a sub-call left behind would wait until the end).
NoSubCallLeftBehind ==
    \A k \in 1 .. Len(walk) :
        LET a == walk[k]
            t == done[a.trace]
        IN  \A j \in (a.si + 1) .. Len(t.subs) : t.subs[j].after >= a.bi

\* Calls, bindings and returns are written in the order in which they were
\* executed, each exactly once, the walk having only CallTraces to go by.
CallId == Nat \ (IF MainOnly THEN {1} ELSE {})

\* Of the history: the bindings, and the calls but for main's.
Shown == [ev : {"bind"}, id : Nat, name : Name, line : Line, value : Value]
         \cup [ev : {"enter"}, id : CallId, fn : FnName]
         \cup [ev : {"exit"}, id : CallId, rv : Value]

Executed ==
    LET view(e) == CASE e.ev = "bind"  -> <<"bind", e.id, e.line>>
                     [] e.ev = "enter" -> <<"call", e.id, e.fn>>
                     [] e.ev = "exit"  -> <<"return", e.id, e.rv>>
        shown == Select(log, Shown)
    IN  [k \in 1 .. Len(shown) |-> view(shown[k])]

Recorded ==
    LET view(r) == CASE r.rec = "bind"   -> <<"bind", r.id, r.line>>
                     [] r.rec = "call"   -> <<"call", r.id, r.fn>>
                     [] r.rec = "return" -> <<"return", r.id, r.rv>>
        written == Select(out, {r \in Range(out) : r.rec \in {"bind", "call", "return"}})
    IN  [k \in 1 .. Len(written) |-> view(written[k])]

EmissionFollowsExecution ==
    /\ IsPrefix(Recorded, Executed)
    /\ Finished => Recorded = Executed

\* A binding is written with the value that was last stored under its name in
\* that call, by whatever statement or loop (the post-execution sync).
LastWritten(id, x) ==
    LET writes == {k \in 1 .. Len(log) : /\ log[k].ev \in {"bind", "write"}
                                         /\ log[k].id = id /\ log[k].name = x}
    IN  log[CHOOSE k \in writes : \A j \in writes : j <= k].value

BindingsCarryFinalValue ==
    \A k \in 1 .. Len(out) :
        out[k].rec = "bind" => out[k].value = LastWritten(out[k].id, out[k].name)

\* When the last step of a call is written, its special events have been, one
\* for each assert and io event it executed and no other: asserts, then io
\* events in the order of execution.
EventsOf(id) ==
    LET events == Select(out, {r \in Range(out) : r.rec = "event" /\ r.id = id})
    IN  [k \in 1 .. Len(events) |-> events[k].tag]

ExecutedEventsOf(id) ==
    LET asserts == Select(log, [ev : {"assert"}, id : {id}])
        ios == Select(log, [ev : {"io"}, id : {id}, tag : IoTag])
    IN  [k \in 1 .. Len(asserts) |-> "LeoAssert"] \o [k \in 1 .. Len(ios) |-> ios[k].tag]

EventsExactlyOnce ==
    \A k \in 1 .. Len(out) :
        out[k].rec = "return_step" => EventsOf(out[k].id) = ExecutedEventsOf(out[k].id)

\* A call that was found aborted stores and asserts nothing after the abort but
\* the binding whose expression aborted, and returns Unknown.
HasAbort(ios) == \E k \in 1 .. Len(ios) : ios[k] = "LeoFinalizeAbort"

EffectsAfterAbort(id) ==
    LET of(tag) == {k \in 1 .. Len(log) : /\ log[k].ev = "io" /\ log[k].id = id
                                          /\ log[k].tag = tag}
    IN  {j \in 1 .. Len(log) : /\ log[j].ev \in {"bind", "write", "assert"}
                               /\ log[j].id = id
                               /\ \A k \in of("LeoFinalizeAbort") : k < j}

AbortHaltsCall ==
    \A k \in 1 .. Len(done) :
        done[k].aborted => /\ HasAbort(done[k].ios)
                           /\ done[k].rv = Unknown
                           /\ Cardinality(EffectsAfterAbort(done[k].id)) <= 1

\* tracer.rs:4571-4575 says that execute_block answers the abort of a
\* Mapping::get by halting the rest of the function and forcing the return
\* value to Unknown.  It looks for the abort after a `let` and an expression
\* statement, not after an assignment or a `return`.
FinalizeAbortForcesUnknown ==
    \A k \in 1 .. Len(done) : HasAbort(done[k].ios) => done[k].rv = Unknown

\* tracer.rs:3815-3818 says that immutable bindings are unaffected by the sync,
\* their value being final already.  A `let` in a loop body binds its name once
\* in every iteration, and all its bindings get the value of the last.
Evaluations == SelectSeq(log, LAMBDA e : e.ev = "bind")

Bindings == SelectSeq(out, LAMBDA r : r.rec = "bind")

ImmutableBindingsUnaffected ==
    \A k \in 1 .. Len(Bindings) :
        ~Bindings[k].mutable => Bindings[k].value = Evaluations[k].value

\* How deep in calls the records lead, and the functions of the outermost ones.
Counted(outline, r) ==
    CASE r.rec = "call" ->
           [depth |-> outline.depth + 1,
            fns |-> IF outline.depth = 0 THEN Append(outline.fns, r.fn) ELSE outline.fns]
      [] r.rec = "return" -> [depth |-> outline.depth - 1, fns |-> outline.fns]
      [] OTHER -> outline

Outline(records) ==
    LET upTo[n \in 0 .. Len(records)] ==
            IF n = 0 THEN [depth |-> 0, fns |-> <<>>] ELSE Counted(upTo[n - 1], records[n])
    IN  upTo[Len(records)]

\* Without a main every transition surfaces as one outermost call, in
\* declaration order, and is closed again; with one, main itself is no call.
Transitions == {f \in FnName : prog.fns[f].transition}

EntryPointsRecorded ==
    Finished =>
        IF MainOnly THEN \A k \in 1 .. Len(out) : out[k].rec \in {"call", "return"} => out[k].id # 1
        ELSE Outline(out) = [depth |-> 0, fns |-> Select(prog.decls, Transitions)]

\* Every record is written while the call it comes from is the innermost open one.
OpenCalls ==
    LET open == Select(walk, {a \in Activation : ~a.entry /\ a.at # "open"})
    IN  [k \in 1 .. Len(open) |-> done[open[k].trace].id]

Stream == INSTANCE TraceStream
            WITH top <- IF MainOnly THEN 1 ELSE 0, open <- OpenCalls, written <- out

ImplementsStream == Stream!Spec

\* The recording of a program whose calls do not recurse comes to an end.
Terminates == <>Finished

=============================================================================
