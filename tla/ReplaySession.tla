---------------------------- MODULE ReplaySession ----------------------------
(***************************************************************************)
(* One run of `codetracer-leo-recorder replay`: main.rs replay,            *)
(* fetch_program, the execution by AleoVM (execute_function_for_replay)    *)
(* and replay_deployed_program's emission, up to the exit status.          *)
(*                                                                         *)
(* Unlike record it leaves no error trace: every failure is a `?`.  The    *)
(* trace writer is the external one of RecordingSession.                   *)
(***************************************************************************)
EXTENDS AleoLines, FiniteSetsExt

CONSTANT Configs  \* the command lines and deployed programs under consideration

\* terminated: the text ends with a newline.  badInput: an input does not parse.
IsConfig(c) ==
    /\ c.disabled \in BOOLEAN /\ c.fetched \in BOOLEAN
    /\ c.terminated \in BOOLEAN /\ c.badInput \in BOOLEAN
    /\ c.entry \in FnName /\ c.inputs \in Seq(Int64)
    /\ IsAleoText(c.text) /\ c.text # <<>>

\* Register indices are usize, and sorted.
ASSUME RegAssumption == Reg \subseteq Nat /\ IsFiniteSet(Reg)

ASSUME ConfigsAssumption == \A c \in Configs : IsConfig(c)

VARIABLES
    config,   \* the command line and what the node answers
    stage,    \* where replay is
    emitted,  \* how many registers have been shown
    writer,   \* the external trace writer
    exit,     \* the exit status: "running", "ok", "err" or "panic"
    ioFailed  \* history: an operation on the file system failed

vmVars == <<prog, given, stack, store, results, events, status, hist>>

replayVars == <<config, stage, emitted, writer, exit, ioFailed>>

allVars == <<vmVars, replayVars>>

----------------------------------------------------------------------------
(* The trace writer *)

\* lines: the size stated for the source, 0 before; open: the calls in progress.
NoWriter == [state |-> "none", lines |-> 0, open |-> <<>>, args |-> <<>>, log |-> <<>>,
             refused |-> FALSE]

\* source_line_count: the newlines and one more.
SourceLineCount == IF config.terminated THEN Len(config.text) + 1 ELSE Len(config.text)

\* A step past the stated size is refused.
WithStep(w, line, shows) ==
    [w EXCEPT !.log = Append(@, [line |-> line, shows |-> shows]),
              !.refused = @ \/ line > w.lines]

----------------------------------------------------------------------------
(* The function and its registers *)

\* The line that says `function <entry>`, or 1: a closure or a finalize block
\* of the name is not looked for.
FunctionLine ==
    LET declared(k) == config.text[k].kind = "function" /\ config.text[k].name = config.entry
    IN  IF \E k \in 1 .. Len(config.text) : declared(k)
        THEN CHOOSE k \in 1 .. Len(config.text) : declared(k) /\ \A j \in 1 .. k - 1 : ~declared(j)
        ELSE 1

target == prog.fns[FuncMap(prog.entry)]

\* Inputs that were not given have no value, although they run as 0.
ArgValue(k) == IF k <= Len(prog.inputs) THEN [value |-> prog.inputs[k]] ELSE [none |-> "NONE_VALUE"]

Args == [k \in 1 .. Len(target.inputs) |-> [reg |-> target.inputs[k], val |-> ArgValue(k)]]

shown == results[prog.entry].registers

\* The numbers of a set in their order.
Ascending(S) == Select([k \in 1 .. Max(S \cup {0}) + 1 |-> k - 1], S)

\* Mutant: the registers in the order of the hash map.
UnsortedRegisters == Reverse(Ascending(DOMAIN shown))

SortedRegisters == Ascending(DOMAIN shown)

\* Mutant: the step is on the line before.
StepLineEarly(i) == FunctionLine - 1 + i

StepLine(i) == FunctionLine + i

----------------------------------------------------------------------------
(* The stages *)

Exit(s) == stage' = "exited" /\ exit' = s

Goto(s) == stage' = s /\ UNCHANGED exit

Still == UNCHANGED <<config, emitted, ioFailed>>

Check ==
    /\ stage = "check"
    /\ IF config.disabled THEN Exit("ok") ELSE Goto("create_out_dir")
    /\ Still /\ UNCHANGED <<vmVars, writer>>

CreateOutDir ==
    /\ stage = "create_out_dir"
    /\ Goto("fetch")
    /\ Still /\ UNCHANGED <<vmVars, writer>>

\* Mutant: the node is asked until it answers.
FetchRetried ==
    /\ stage = "fetch"
    /\ Goto(IF config.fetched THEN "find" ELSE "fetch")
    /\ Still /\ UNCHANGED <<vmVars, writer>>

\* curl fails, or its output is empty or not UTF-8.
Fetch ==
    /\ stage = "fetch"
    /\ IF config.fetched THEN Goto("find") ELSE Exit("err")
    /\ Still /\ UNCHANGED <<vmVars, writer>>

\* Mutant: the writer is opened before anything is known to run.
FindWithWriter ==
    /\ stage = "find"
    /\ IF prog.entry \in Known THEN Goto("inputs") ELSE Exit("err")
    /\ writer' = [NoWriter EXCEPT !.state = "open"]
    /\ Still /\ UNCHANGED vmVars

FindFunction ==
    /\ stage = "find"
    /\ IF prog.entry \in Known THEN Goto("inputs") ELSE Exit("err")
    /\ Still /\ UNCHANGED <<vmVars, writer>>

ParseInputs ==
    /\ stage = "inputs"
    /\ IF config.badInput THEN Exit("err") /\ UNCHANGED stack
       ELSE /\ Goto("execute")
            /\ stack' = <<Activate(0, FuncMap(prog.entry), prog.inputs)>>
    /\ Still /\ UNCHANGED <<prog, given, store, results, events, status, hist, writer>>

Execution ==
    /\ stage = "execute"
    /\ Execute
    /\ UNCHANGED replayVars

Executed ==
    /\ stage = "execute"
    /\ status \in {"ok", "err", "panic"}
    /\ IF status = "ok" THEN Goto("prepare") ELSE Exit(status)
    /\ Still /\ UNCHANGED <<vmVars, writer>>

\* create_dir_all, once more.
Prepare ==
    /\ stage = "prepare"
    /\ Goto("write_source")
    /\ Still /\ UNCHANGED <<vmVars, writer>>

\* The deployed text becomes the trace's source file.
WriteSource ==
    /\ stage = "write_source"
    /\ Goto("open")
    /\ Still /\ UNCHANGED <<vmVars, writer>>

OpenWriter ==
    /\ stage = "open"
    /\ writer' = [NoWriter EXCEPT !.state = "open"]
    /\ Goto("register")
    /\ Still /\ UNCHANGED vmVars

RegisterSource ==
    /\ stage = "register"
    /\ writer' = [writer EXCEPT !.lines = SourceLineCount]
    /\ Goto("start")
    /\ Still /\ UNCHANGED vmVars

\* Mutant: lines are counted from 0.
StartAtZero ==
    /\ stage = "start"
    /\ writer' = [WithStep(writer, 0, <<>>) EXCEPT !.open = <<"<toplevel>">>]
    /\ Goto("enter")
    /\ Still /\ UNCHANGED vmVars

\* start opens <toplevel> with a step at line 1.
Start ==
    /\ stage = "start"
    /\ writer' = [WithStep(writer, 1, <<>>) EXCEPT !.open = <<"<toplevel>">>]
    /\ Goto("enter")
    /\ Still /\ UNCHANGED vmVars

EnterFunction ==
    /\ stage = "enter"
    /\ writer' = [writer EXCEPT !.args = Args, !.open = Append(@, prog.entry)]
    /\ Goto("registers")
    /\ Still /\ UNCHANGED vmVars

\* The i-th register is shown on the i-th line after the function's.
ShowRegister ==
    /\ stage = "registers"
    /\ emitted < Len(SortedRegisters)
    /\ LET r == SortedRegisters[emitted + 1]
       IN  writer' = WithStep(writer, StepLine(emitted + 1), [x \in {r} |-> shown[r]])
    /\ emitted' = emitted + 1
    /\ Goto("registers")
    /\ UNCHANGED <<vmVars, config, ioFailed>>

\* The only register_return: <toplevel> stays open.
LeaveFunction ==
    /\ stage = "registers"
    /\ emitted = Len(SortedRegisters)
    /\ writer' = [writer EXCEPT !.open = Front(@)]
    /\ Goto("finish")
    /\ Still /\ UNCHANGED vmVars

\* Mutant: what finishing says is not looked at.
FinishUnchecked ==
    /\ stage = "finish"
    /\ Goto("write_meta") /\ writer' = [writer EXCEPT !.state = "finished"]
    /\ Still /\ UNCHANGED vmVars

\* A refused step surfaces here.
Finish ==
    /\ stage = "finish"
    /\ IF writer.refused THEN Exit("err") /\ UNCHANGED writer
       ELSE Goto("write_meta") /\ writer' = [writer EXCEPT !.state = "finished"]
    /\ Still /\ UNCHANGED vmVars

\* Mutant: writing the metadata is the last thing done.
MetaEnds ==
    /\ stage = "write_meta"
    /\ writer' = [writer EXCEPT !.state = "described"]
    /\ Exit("ok")
    /\ Still /\ UNCHANGED vmVars

WriteMeta ==
    /\ stage = "write_meta"
    /\ writer' = [writer EXCEPT !.state = "described"]
    /\ Goto("close")
    /\ Still /\ UNCHANGED vmVars

Close ==
    /\ stage = "close"
    /\ writer' = [writer EXCEPT !.state = "closed"]
    /\ Exit("ok")
    /\ Still /\ UNCHANGED vmVars

IoStages == {"create_out_dir", "prepare", "write_source", "open", "register", "finish",
             "write_meta", "close"}

\* `?` after an operation on the file system.
IoFails ==
    /\ stage \in IoStages
    /\ ioFailed' = TRUE
    /\ Exit("err")
    /\ UNCHANGED <<vmVars, config, emitted, writer>>

ReplayExited == stage = "exited" /\ UNCHANGED allVars

\* The program is what parse_aleo_program makes of the text.
Parsed(c) == [mode |-> "replay", fns |-> ParseAleoProgram(c.text), entry |-> c.entry,
              inputs |-> c.inputs]

ReplayInit ==
    /\ config \in Configs
    /\ stage = "check" /\ exit = "running" /\ emitted = 0 /\ ioFailed = FALSE
    /\ writer = NoWriter
    /\ prog = Parsed(config)
    /\ given = <<>> /\ store = <<>> /\ results = <<>> /\ events = <<>> /\ hist = <<>>
    /\ stack = <<>> /\ status = "running"

Replay ==
    \/ Check \/ CreateOutDir \/ Fetch \/ FindFunction \/ ParseInputs
    \/ Execution \/ Executed
    \/ Prepare \/ WriteSource \/ OpenWriter \/ RegisterSource \/ Start
    \/ EnterFunction \/ ShowRegister \/ LeaveFunction
    \/ Finish \/ WriteMeta \/ Close

ReplayNext == Replay \/ IoFails \/ ReplayExited

\* One thread; whether an operation fails is left open.
ReplayFairness == WF_allVars(ReplayNext)

ReplaySpec == ReplayInit /\ [][ReplayNext]_allVars /\ ReplayFairness

----------------------------------------------------------------------------
(* Properties *)

\* The variables hold what the code's types allow.
ReplayTypeOK ==
    /\ TypeOK
    /\ exit \in {"running", "ok", "err", "panic"}
    /\ emitted \in Nat
    /\ writer.state \in {"none", "open", "finished", "described", "closed"}
    /\ \A k \in 1 .. Len(writer.log) : writer.log[k].line \in Nat \ {0}
    /\ \A k \in 1 .. Len(writer.open) : writer.open[k] \in FnName \cup {"<toplevel>"}

Bundle == CASE writer.state = "none"   -> "absent"
            [] writer.state = "closed" -> "program"
            [] OTHER                   -> "partial"

\* What a record promises about its exit status and its bundle (RecordOutcome)
\* a replay keeps too, although it fails without an error trace and may panic.
Outcome == INSTANCE RecordOutcome
             WITH skip <- config.disabled, bundle <- Bundle,
                  status <- IF exit = "panic" THEN "err" ELSE exit

ReplayImplementsOutcome == Outcome!Spec

\* A complete bundle shows every register of the outermost call as it was when
\* that call returned, in the order of their numbers, and the inputs it was
\* given: not those of an inner call, which returned earlier.
TraceShowsTheExecution ==
    Bundle = "program" =>
        LET last == hist[Len(hist)]
            steps == Tail(writer.log)
            numbers == [k \in 1 .. Len(steps) |-> Max(DOMAIN steps[k].shows)]
        IN  /\ last.did = "return" /\ last.fn = config.entry
            /\ \A k \in 1 .. Len(steps) : \A r \in DOMAIN steps[k].shows :
                   steps[k].shows[r] = last.result.registers[r]
            /\ Range(numbers) = DOMAIN last.result.registers
            /\ \A j, k \in 1 .. Len(numbers) : j < k => numbers[j] < numbers[k]
            /\ \A k \in 1 .. Len(writer.args) :
                   k <= Len(config.inputs) => writer.args[k].val = [value |-> config.inputs[k]]

\* A complete bundle has no step outside the file, and the function's call is
\* closed: only <toplevel> is open, which nothing closes.
CompleteReplayReadable ==
    Bundle = "program" =>
        /\ \A k \in 1 .. Len(writer.log) : writer.log[k].line \in 1 .. SourceLineCount
        /\ writer.open = <<"<toplevel>">>

\* A replay that does not come to its trace, because of the node, of the
\* command line or of the execution, writes no bundle at all.
EarlyFailureLeavesNothing ==
    (exit \in {"err", "panic"} /\ ~ioFailed /\ ~writer.refused) => Bundle = "absent"

\* The registers a line sets by itself.
SetBy(l) ==
    CASE l.kind = "input" -> {l.reg}
      [] l.kind = "code" /\ "dest" \in DOMAIN l.instr -> {l.instr.dest}
      [] OTHER -> {}

\* One function has the entry's name, it is what runs, and each line of its
\* block before the outputs sets a register, in the order of their numbers.
Straight ==
    LET at == FunctionLine
        block == BlockLines(config.text, at, BlockEnds)
        body == OfKind(block, AleoLineKinds \ {"output"})
    IN  /\ \A k \in 1 .. Len(config.text) :
               (config.text[k].kind = "function" /\ config.text[k].name = config.entry) <=> k = at
        /\ target.kind = "function"
        /\ \A k \in 1 .. Len(body) : block[k] = body[k] /\ SetBy(body[k]) = {k - 1}

\* Where every line sets the next register its value is shown on that line.
RegistersShownWhereSet ==
    Straight => \A k \in 2 .. Len(writer.log) : \A r \in DOMAIN writer.log[k].shows :
                    LET l == config.text[writer.log[k].line]
                    IN  (l.kind = "input" /\ l.reg = r) \/ (l.kind = "code" /\ l.instr.dest = r)

\* The command comes to an end, one way or the other.
ReplayExits == <>(stage = "exited")

=============================================================================
