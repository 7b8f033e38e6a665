------------------------------- MODULE AleoVM -------------------------------
(***************************************************************************)
(* The interpreter of parsed Aleo instructions, which the code has three   *)
(* times with the same instructions: execute_function (tracer.rs),         *)
(* execute_function_for_replay (replay.rs) and FinalizeTracer::            *)
(* trace_function (finalize.rs).  The first two record a FunctionResult    *)
(* for every call that returns, the third a Step before and the registers  *)
(* after every instruction; `mode` says which one runs.                    *)
(*                                                                         *)
(* Registers and mappings hold i64; here they hold -Half .. Half - 1 and   *)
(* wrap likewise.  The recursion is the variable `stack`.  `hist` is a     *)
(* history variable.                                                       *)
(***************************************************************************)
EXTENDS Integers, Sequences, SequencesExt

CONSTANTS
    Programs,  \* parsed programs, entry functions and inputs
    FnName,    \* function names
    Mapping,   \* mapping names
    Reg,       \* register indices
    PrePopulated,  \* the stores a FinalizeTracer may be given
    Half       \* 2^(w-1) for registers of w bits

\* A flag, 0 or 1, fits into a register.
ASSUME HalfAssumption == Half \in Nat \ {0, 1}

Int64 == -Half .. Half - 1

Operand == [reg : Reg] \cup [literal : Int64]

BinaryOp == {"add", "sub", "mul", "div", "mod", "is.eq", "is.neq", "lt", "lte", "gt", "gte"}

Instruction ==
    [op : BinaryOp, src1 : Operand, src2 : Operand, dest : Reg]
    \cup [op : {"call"}, callee : FnName, args : Seq(Operand), dests : Seq(Reg)]
    \cup [op : {"get"}, mapping : Mapping, key : Reg, dest : Reg]
    \cup [op : {"get.or_use"}, mapping : Mapping, key : Reg, default : Reg, dest : Reg]
    \cup [op : {"set"}, mapping : Mapping, key : Reg, value : Reg]
    \cup [op : {"remove"}, mapping : Mapping, key : Reg]
    \cup [op : {"contains"}, mapping : Mapping, key : Reg, dest : Reg]
    \cup [op : {"unknown"}]

AleoFunction == [name : FnName, kind : {"function", "closure", "finalize"}, inputs : Seq(Reg),
                 code : Seq(Instruction), outputs : Seq(Reg)]

Program == [mode : {"record", "replay", "finalize"}, fns : Seq(AleoFunction),
            entry : FnName, inputs : Seq(Int64)]

ASSUME ProgramsAssumption == \A p \in Programs : p \in Program

\* Mapping contents: from a mapping's keys to values.
IsStore(s) == /\ DOMAIN s \subseteq Mapping
              /\ \A m \in DOMAIN s : DOMAIN s[m] \subseteq Int64 /\ Range(s[m]) \subseteq Int64

ASSUME PrePopulatedAssumption == \A s \in PrePopulated : IsStore(s)

VARIABLES
    prog,     \* the parsed functions, the mode, the entry function, its inputs
    stack,    \* the activations, innermost last
    given,    \* history: the store at the start
    store,    \* MappingStore: mapping -> key -> value
    results,  \* FunctionResult by function name
    events,   \* FinalizeTracer.events
    status,   \* "running", "failing" (an error on its way out), "ok", "err", "panic"
    hist      \* history: calls returned, mapping reads and writes

vars == <<prog, given, stack, store, results, events, status, hist>>

----------------------------------------------------------------------------
(* Values and registers *)

\* Mutant: the operation does not wrap.
Unbounded(n) == n

\* wrapping_add, wrapping_sub, wrapping_mul
Wrapping(n) == ((n + Half) % (2 * Half)) - Half

\* Rust divides towards zero.
Quotient(a, b) ==
    LET abs(n) == IF n < 0 THEN -n ELSE n
        q == abs(a) \div abs(b)
    IN  IF (a < 0) # (b < 0) THEN -q ELSE q

Flag(b) == IF b THEN 1 ELSE 0

Binary(op, a, b) ==
    CASE op = "add"    -> Wrapping(a + b)
      [] op = "sub"    -> Wrapping(a - b)
      [] op = "mul"    -> Wrapping(a * b)
      [] op = "div"    -> Quotient(a, b)
      [] op = "mod"    -> a - b * Quotient(a, b)
      [] op = "is.eq"  -> Flag(a = b)
      [] op = "is.neq" -> Flag(a # b)
      [] op = "lt"     -> Flag(a < b)
      [] op = "lte"    -> Flag(a <= b)
      [] op = "gt"     -> Flag(a > b)
      [] op = "gte"    -> Flag(a >= b)

\* An unset register reads as 0.
Read(regs, r) == IF r \in DOMAIN regs THEN regs[r] ELSE 0

Resolve(regs, o) == IF "reg" \in DOMAIN o THEN Read(regs, o.reg) ELSE o.literal

Insert(f, x, v) == [y \in DOMAIN f \cup {x} |-> IF y = x THEN v ELSE f[y]]

\* The registers with vs stored into dests: what is missing on either side is
\* left alone.
WithOutputs(regs, dests, vs) ==
    LET n == IF Len(dests) < Len(vs) THEN Len(dests) ELSE Len(vs)
        last(r) == CHOOSE k \in 1 .. n : dests[k] = r /\ \A j \in k + 1 .. n : dests[j] # r
        set == {dests[k] : k \in 1 .. n}
    IN  [r \in DOMAIN regs \cup set |-> IF r \in set THEN vs[last(r)] ELSE regs[r]]

----------------------------------------------------------------------------
(* MappingStore *)

HasKey(m, k) == m \in DOMAIN store /\ k \in DOMAIN store[m]

Lookup(m, k, default) == IF HasKey(m, k) THEN store[m][k] ELSE default

\* Mutant: the mapping is created anew for every key.
StoredAlone(m, k, v) == Insert(store, m, Insert(<<>>, k, v))

Stored(m, k, v) == Insert(store, m, Insert(IF m \in DOMAIN store THEN store[m] ELSE <<>>, k, v))

Removed(m, k) ==
    IF m \notin DOMAIN store THEN store
    ELSE [store EXCEPT ![m] = [j \in DOMAIN store[m] \ {k} |-> store[m][j]]]

----------------------------------------------------------------------------
(* Activations *)

\* func_map: of functions with one name the last is kept.
Known == {prog.fns[k].name : k \in 1 .. Len(prog.fns)}

FuncMap(n) == CHOOSE k \in 1 .. Len(prog.fns) :
                 prog.fns[k].name = n /\ \A j \in k + 1 .. Len(prog.fns) : prog.fns[j].name # n

\* Inputs that were not given are 0.
InputRegisters(f, vs) ==
    LET value(k) == IF k <= Len(vs) THEN vs[k] ELSE 0
        ins == f.inputs
        at(r) == CHOOSE k \in 1 .. Len(ins) : ins[k] = r /\ \A j \in k + 1 .. Len(ins) : ins[j] # r
    IN  [r \in Range(ins) |-> value(at(r))]

Activate(id, k, vs) == [id |-> id, fn |-> k, regs |-> InputRegisters(prog.fns[k], vs), pc |-> 1]

top == stack[Len(stack)]
code == prog.fns[top.fn].code
instr == code[top.pc]

Running == status = "running" /\ stack # <<>>
AtInstruction(ops) == Running /\ top.pc <= Len(code) /\ instr.op \in ops

StepEvent(a) == [ev |-> "step", id |-> a.id, pc |-> a.pc]
VarsEvent(a) == [ev |-> "vars", id |-> a.id, regs |-> a.regs]

\* Only FinalizeTracer keeps events, only the other two keep results.
Emit(es) == events' = IF prog.mode = "finalize" THEN events \o es ELSE events

\* An instruction other than a call: the Step, its effect, the registers.
Complete(regs) ==
    LET after == [top EXCEPT !.regs = regs, !.pc = @ + 1]
    IN  /\ stack' = [stack EXCEPT ![Len(stack)] = after]
        /\ Emit(<<StepEvent(top), VarsEvent(after)>>)
        /\ UNCHANGED <<prog, given, status, results>>

Remember(e) == hist' = Append(hist, e)

Key == Read(top.regs, instr.key)

----------------------------------------------------------------------------
(* Instructions *)

left == Resolve(top.regs, instr.src1)
right == Resolve(top.regs, instr.src2)

DividesByZero == instr.op \in {"div", "mod"} /\ right = 0

\* i64::MIN / -1 and i64::MIN % -1 have no i64 result.
DivisionOverflows == instr.op \in {"div", "mod"} /\ left = -Half /\ right = -1

ExecBinary ==
    /\ AtInstruction(BinaryOp)
    /\ ~DividesByZero /\ ~DivisionOverflows
    /\ Complete(Insert(top.regs, instr.dest, Binary(instr.op, left, right)))
    /\ UNCHANGED <<store, hist>>

\* The instruction's Step has been emitted when it fails.
FailDivision ==
    /\ AtInstruction(BinaryOp)
    /\ DividesByZero
    /\ status' = "failing"
    /\ Emit(<<StepEvent(top)>>)
    /\ UNCHANGED <<prog, given, stack, store, results, hist>>

\* Rust panics on a division that overflows: nothing is returned.
PanicDivision ==
    /\ AtInstruction(BinaryOp)
    /\ DivisionOverflows
    /\ status' = "panic"
    /\ stack' = <<>>
    /\ Emit(<<StepEvent(top)>>)
    /\ UNCHANGED <<prog, given, store, results, hist>>

\* Mutant: the registers are listed although the instruction failed.
UnwindListing ==
    /\ status = "failing"
    /\ stack' = Front(stack)
    /\ status' = IF Len(stack) = 1 THEN "err" ELSE "failing"
    /\ Emit(<<VarsEvent(top)>>)
    /\ UNCHANGED <<prog, given, store, results, hist>>

\* `?` in every caller: no Variable events, no results.
Unwind ==
    /\ status = "failing"
    /\ stack' = Front(stack)
    /\ status' = IF Len(stack) = 1 THEN "err" ELSE "failing"
    /\ UNCHANGED <<prog, given, store, results, events, hist>>

ExecCall ==
    /\ AtInstruction({"call"})
    /\ instr.callee \in Known
    /\ LET vs == [k \in 1 .. Len(instr.args) |-> Resolve(top.regs, instr.args[k])]
       IN  stack' = Append(stack, Activate(Len(hist) + 1, FuncMap(instr.callee), vs))
    /\ Remember([did |-> "enter", id |-> Len(hist) + 1])
    /\ Emit(<<StepEvent(top)>>)
    /\ UNCHANGED <<prog, given, store, results, status>>

\* A call of a function that is not there sets nothing.
ExecUnknownCall ==
    /\ AtInstruction({"call"})
    /\ instr.callee \notin Known
    /\ Complete(top.regs)
    /\ UNCHANGED <<store, hist>>

ExecGet ==
    LET v == Lookup(instr.mapping, Key, 0)
    IN  /\ AtInstruction({"get"})
        /\ Complete(Insert(top.regs, instr.dest, v))
        /\ Remember([did |-> "get", mapping |-> instr.mapping, key |-> Key, default |-> 0, value |-> v])
        /\ UNCHANGED store

ExecGetOrUse ==
    LET d == Read(top.regs, instr.default)
        v == Lookup(instr.mapping, Key, d)
    IN  /\ AtInstruction({"get.or_use"})
        /\ Complete(Insert(top.regs, instr.dest, v))
        /\ Remember([did |-> "get", mapping |-> instr.mapping, key |-> Key, default |-> d, value |-> v])
        /\ UNCHANGED store

ExecSet ==
    LET v == Read(top.regs, instr.value)
    IN  /\ AtInstruction({"set"})
        /\ store' = Stored(instr.mapping, Key, v)
        /\ Complete(top.regs)
        /\ Remember([did |-> "set", mapping |-> instr.mapping, key |-> Key, value |-> v])

ExecRemove ==
    /\ AtInstruction({"remove"})
    /\ store' = Removed(instr.mapping, Key)
    /\ Complete(top.regs)
    /\ Remember([did |-> "remove", mapping |-> instr.mapping, key |-> Key])

ExecContains ==
    LET b == HasKey(instr.mapping, Key)
    IN  /\ AtInstruction({"contains"})
        /\ Complete(Insert(top.regs, instr.dest, Flag(b)))
        /\ Remember([did |-> "contains", mapping |-> instr.mapping, key |-> Key, value |-> b])
        /\ UNCHANGED store

\* Mutant: the instruction is not skipped.
UnknownRetried == AtInstruction({"unknown"}) /\ UNCHANGED vars

ExecUnknown ==
    /\ AtInstruction({"unknown"})
    /\ Complete(top.regs)
    /\ UNCHANGED <<store, hist>>

----------------------------------------------------------------------------
(* Returning *)

Outputs(a) == [k \in 1 .. Len(prog.fns[a.fn].outputs) |-> Read(a.regs, prog.fns[a.fn].outputs[k])]

\* Mutant: the first call's result stays.
ResultKept(n, r) == IF n \in DOMAIN results THEN results ELSE Insert(results, n, r)

ResultInserted(n, r) == Insert(results, n, r)

\* Mutant: the caller's registers are listed before the outputs arrive.
ListedEarly(caller, resumed) == VarsEvent(caller)

Listed(caller, resumed) == VarsEvent(resumed)

Return ==
    LET f == prog.fns[top.fn]
        result == [registers |-> top.regs, outputs |-> Outputs(top)]
        caller == stack[Len(stack) - 1]
        call == prog.fns[caller.fn].code[caller.pc]
        resumed == [caller EXCEPT !.regs = WithOutputs(@, call.dests, result.outputs), !.pc = @ + 1]
    IN  /\ Running
        /\ top.pc > Len(code)
        /\ results' = IF prog.mode = "finalize" THEN results ELSE ResultInserted(f.name, result)
        /\ IF Len(stack) = 1
           THEN stack' = <<>> /\ status' = "ok" /\ UNCHANGED events
           ELSE /\ stack' = [Front(stack) EXCEPT ![Len(stack) - 1] = resumed]
                /\ Emit(<<Listed(caller, resumed)>>)
                /\ UNCHANGED status
        /\ Remember([did |-> "return", fn |-> f.name, result |-> result])
        /\ UNCHANGED <<prog, given, store>>

----------------------------------------------------------------------------

\* execute_aleo_program runs main, if there is one, without inputs; replay
\* refuses a function that is not there; FinalizeTracer is given one.
Init ==
    /\ prog \in Programs
    /\ given \in (IF prog.mode = "finalize" THEN PrePopulated ELSE {}) \cup {<<>>}
    /\ store = given /\ results = <<>> /\ events = <<>> /\ hist = <<>>
    /\ IF prog.entry \in Known
       THEN status = "running" /\ stack = <<Activate(0, FuncMap(prog.entry), prog.inputs)>>
       ELSE status = (IF prog.mode = "record" THEN "ok" ELSE "err") /\ stack = <<>>

Execute ==
    \/ ExecBinary \/ FailDivision \/ PanicDivision \/ Unwind
    \/ ExecCall \/ ExecUnknownCall \/ ExecUnknown \/ Return
    \/ ExecGet \/ ExecGetOrUse \/ ExecSet \/ ExecRemove \/ ExecContains

Stopped == status \in {"ok", "err", "panic"} /\ UNCHANGED vars

Next == Execute \/ Stopped

Fairness == WF_vars(Next)

Spec == Init /\ [][Next]_vars /\ Fairness

----------------------------------------------------------------------------
(* Properties *)

\* The variables hold what the code's types allow.
RegistersOK(regs) == DOMAIN regs \subseteq Reg /\ \A r \in DOMAIN regs : regs[r] \in Int64

TypeOK ==
    /\ \A k \in 1 .. Len(stack) : /\ stack[k].fn \in 1 .. Len(prog.fns)
                                  /\ RegistersOK(stack[k].regs)
                                  /\ stack[k].pc \in 1 .. Len(prog.fns[stack[k].fn].code) + 1
    /\ IsStore(store)
    /\ \A n \in DOMAIN results : n \in FnName /\ RegistersOK(results[n].registers)
    /\ status \in {"running", "failing", "ok", "err", "panic"}

\* A mapping read, in whatever function, sees the last write of its key by
\* whatever function (the store is lent to the callees), or the default.
Touches(e, m, k) == e.did \in {"set", "remove"} /\ e.mapping = m /\ e.key = k

ReadsSeeLastWrite ==
    \A i \in 1 .. Len(hist) : hist[i].did \in {"get", "contains"} =>
        LET writes == {j \in 1 .. i - 1 : Touches(hist[j], hist[i].mapping, hist[i].key)}
            newest == CHOOSE j \in writes : \A l \in writes : l <= j
            m == hist[i].mapping
            k == hist[i].key
            atStart == m \in DOMAIN given /\ k \in DOMAIN given[m]
            present == IF writes = {} THEN atStart ELSE hist[newest].did = "set"
            stored == IF writes = {} THEN given[m][k] ELSE hist[newest].value
        IN  hist[i].value = IF hist[i].did = "contains" THEN present
                            ELSE IF present THEN stored ELSE hist[i].default

\* A function's result is that of its call which returned last, and a call cut
\* short by an error leaves none.
ResultsAreLastReturns ==
    prog.mode # "finalize" =>
        LET returns(n) == {i \in 1 .. Len(hist) : hist[i].did = "return" /\ hist[i].fn = n}
        IN  /\ \A n \in DOMAIN results :
                  /\ returns(n) # {}
                  /\ results[n] = hist[CHOOSE i \in returns(n) : \A j \in returns(n) : j <= i].result
            /\ \A i \in 1 .. Len(hist) : hist[i].did = "return" => hist[i].fn \in DOMAIN results

\* Reading the events from left to right, the registers listed always belong to
\* the innermost open Step, and the Steps left open are the calls in progress
\* or, after an error, the chain of calls that failed.
Nested(open, e) ==
    IF e.ev = "step" THEN Append(open, e)
    ELSE IF open # <<>> /\ Last(open).id = e.id THEN Front(open)
    ELSE <<[ev |-> "mismatch"]>>

OpenAfter(es) ==
    LET upTo[n \in 0 .. Len(es)] == IF n = 0 THEN <<>> ELSE Nested(upTo[n - 1], es[n])
    IN  upTo[Len(es)]

OpenSteps == OpenAfter(events)

FinalizeEventsNest ==
    prog.mode = "finalize" =>
        LET calls == IF status = "failing" THEN Len(stack) ELSE Len(stack) - 1
        IN  /\ \A k \in 1 .. calls : k <= Len(OpenSteps) /\ OpenSteps[k] = StepEvent(stack[k])
            /\ status = "running" => Len(OpenSteps) = calls
            /\ status = "ok" => OpenSteps = <<>>
            /\ status \in {"failing", "err", "panic"} /\ events # <<>> => OpenSteps # <<>>

\* Between instructions the registers last listed for a call are its registers.
FinalizeListsRegisters ==
    prog.mode = "finalize" =>
        \A k \in 1 .. Len(stack) :
            LET listed == {i \in 1 .. Len(events) : events[i].ev = "vars" /\ events[i].id = stack[k].id}
            IN  stack[k].pc > 1 =>
                    /\ listed # {}
                    /\ events[CHOOSE i \in listed : \A j \in listed : j <= i].regs = stack[k].regs

\* The execution of functions that do not call themselves comes to an end.
Terminates == <>(status \in {"ok", "err", "panic"})

\* tests/test_ctfs_audit.rs:256-258 wants a failure of the interpreter to be an
\* error that can be traced and returned.  A division that overflows is not.
FailuresAreErrors == status # "panic"

\* replay.rs:233 says that the specified function is executed.  A program with
\* a finalize block has two functions of that name, and func_map keeps the
\* finalize block.
ExecutesTheFunction ==
    prog.mode = "replay" /\ stack # <<>> =>
        ((\E k \in 1 .. Len(prog.fns) : prog.fns[k].name = prog.entry /\ prog.fns[k].kind = "function")
            => prog.fns[stack[1].fn].kind = "function")

=============================================================================
