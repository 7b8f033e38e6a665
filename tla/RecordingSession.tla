-------------------------- MODULE RecordingSession --------------------------
(***************************************************************************)
(* One run of `codetracer-leo-recorder record`: main.rs record,            *)
(* recorder::record, LeoTracer::trace_program with its import merge, and   *)
(* write_error_trace, up to the exit status.                               *)
(*                                                                         *)
(* Every operation that the code follows with `?` may fail, and the        *)
(* command then leaves at once, its bundle as it is; so it does when a     *)
(* division has no i64 for a result and panics.  The writer                *)
(* (codetracer_trace_writer_nim, external) is modelled by what the code    *)
(* and tests/test_line_count_table.rs rely on: with the line-count table   *)
(* on it refuses a step in an unregistered file or past a file's last      *)
(* line, and a refusal makes finishing fail.                               *)
(*                                                                         *)
(* What the evaluator does inside a call is the subject of LeoEval and     *)
(* StructuredTrace; here a function only has the calls it makes.           *)
(***************************************************************************)
EXTENDS Integers, Sequences, SequencesExt, Selection

CONSTANTS
    File,    \* source paths
    FnName,  \* function names
    Main,    \* the function name "main"
    Inputs   \* the command lines and directories under consideration

\* line and last are the lines of the signature and of the return step.
Decl == [name : FnName, line : Nat, last : Nat, transition : BOOLEAN, calls : Seq(FnName)]

\* legacy: parse_leo_functions finds a function, so the fallback can compile.
Text == [status : {"readable", "unreadable", "missing"}, newlines : Nat, legacy : BOOLEAN,
         decls : Seq(Decl), imports : Seq(File)]

Input == [source : File, disabled : BOOLEAN, text : [File -> Text]]

\* Of a file that cannot be read nothing is known.
Parsed(t) == t.status # "readable" => t.decls = <<>>

ASSUME InputsAssumption == \A i \in Inputs : i \in Input /\ \A p \in File : Parsed(i.text[p])

VARIABLES
    input,    \* the source path, the environment and the files
    stage,    \* where trace_program is
    kind,     \* the trace being written: "program" or "error"
    tag,      \* the metadata of the error trace
    next,     \* how many imports have been looked at
    merged,   \* prog.funcs, prog.by_name and func_source_files
    todo,     \* what emit_call_trace has still to write
    paths,    \* LineCountedPaths.registered
    writer,   \* the external trace writer
    exit,     \* the exit status: "running", "ok", "err" or "panic"
    ioFailed  \* history: an operation on the file system failed

vars == <<input, stage, kind, tag, next, merged, todo, paths, writer, exit, ioFailed>>

Source == input.text[input.source]

----------------------------------------------------------------------------
(* The trace writer *)

\* table: its registrations in order; log: the steps it was asked to write.
NoWriter == [state |-> "none", table |-> <<>>, depth |-> 0, log |-> <<>>, events |-> <<>>,
             refused |-> FALSE]

\* Mutant: the newlines alone are counted.
NewlineCount(text) == text.newlines

SourceLineCount(text) == text.newlines + 1

WithPath(w, p, text) ==
    [w EXCEPT !.table = Append(@, [path |-> p, lines |-> SourceLineCount(text)])]

Resolves(table, s) == \E k \in 1 .. Len(table) : table[k].path = s.path /\ s.line <= table[k].lines

\* A step that does not resolve is refused.
WithSteps(w, steps) ==
    [w EXCEPT !.log = @ \o steps,
              !.refused = @ \/ \E k \in 1 .. Len(steps) : ~Resolves(w.table, steps[k])]

----------------------------------------------------------------------------
(* Merging the imports into the program *)

Declared(p) ==
    {input.text[p].decls[k].name : k \in 1 .. Len(input.text[p].decls)}

FromFile(p) ==
    [k \in 1 .. Len(input.text[p].decls) |-> [decl |-> input.text[p].decls[k], file |-> p]]

FirstNamed(fns, n) ==
    fns[CHOOSE k \in 1 .. Len(fns) : fns[k].decl.name = n /\ \A j \in 1 .. k - 1 : fns[j].decl.name # n]

LastNamed(fns, n) ==
    fns[CHOOSE k \in 1 .. Len(fns) : /\ fns[k].decl.name = n
                                     /\ \A j \in k + 1 .. Len(fns) : fns[j].decl.name # n]

\* Mutant: the functions of an import are not tagged.
TaggedNever(p, old) == old

Tagged(p, old) == [n \in DOMAIN old \cup Declared(p) |-> IF n \in Declared(p) THEN p ELSE old[n]]

\* parse_leo_program of the source itself: by_name keeps the last of a name.
OwnProgram ==
    LET p == input.source
    IN  [funcs |-> FromFile(p),
         byName |-> [n \in Declared(p) |-> LastNamed(FromFile(p), n)],
         fileOf |-> [n \in Declared(p) |-> p]]

\* Mutant: an import replaces what has its name.
MergeReplacing(m, p) ==
    [funcs |-> m.funcs \o FromFile(p),
     byName |-> [n \in DOMAIN m.byName \cup Declared(p) |->
                    IF n \in Declared(p) THEN LastNamed(FromFile(p), n) ELSE m.byName[n]],
     fileOf |-> Tagged(p, m.fileOf)]

\* by_name keeps what it has; func_source_files takes the newest file.
Merge(m, p) ==
    [funcs |-> m.funcs \o FromFile(p),
     byName |-> [n \in DOMAIN m.byName \cup Declared(p) |->
                    IF n \in DOMAIN m.byName THEN m.byName[n] ELSE FirstNamed(FromFile(p), n)],
     fileOf |-> Tagged(p, m.fileOf)]

----------------------------------------------------------------------------
(* The stages *)

Exit(s) == stage' = "exited" /\ exit' = s

Goto(s) == stage' = s /\ UNCHANGED exit

Untouched(vs) == UNCHANGED <<input, ioFailed>> /\ UNCHANGED vs

\* main.rs record: the source must exist even when recording is disabled.
Canonicalize ==
    /\ stage = "canonicalize"
    /\ CASE Source.status = "missing" -> Exit("err")
         [] Source.status # "missing" /\ input.disabled -> Exit("ok")
         [] OTHER -> Goto("create_out_dir")
    /\ Untouched(<<kind, tag, next, merged, todo, paths, writer>>)

CreateOutDir ==
    /\ stage = "create_out_dir"
    /\ Goto("read")
    /\ Untouched(<<kind, tag, next, merged, todo, paths, writer>>)

ReadSource ==
    /\ stage = "read"
    /\ IF Source.status = "readable" THEN Goto("compile") ELSE Exit("err")
    /\ Untouched(<<kind, tag, next, merged, todo, paths, writer>>)

\* compile_leo_to_aleo: the leo CLI, whatever its outcome, or the generator.
Compile ==
    /\ stage = "compile"
    /\ Goto("execute")
    /\ Untouched(<<kind, tag, next, merged, todo, paths, writer>>)

\* Mutant: the command fails without an error trace.
NoErrorTrace(t) ==
    /\ Exit("err")
    /\ Untouched(<<kind, tag, next, merged, todo, paths, writer>>)

\* write_error_trace
BeginErrorTrace(t) ==
    /\ kind' = "error" /\ tag' = t
    /\ Goto("prepare")
    /\ Untouched(<<next, merged, todo, paths, writer>>)

\* The CLI has failed and the generator has found no function.
CompileFails ==
    /\ stage = "compile"
    /\ ~Source.legacy
    /\ BeginErrorTrace("leo_compile_error")

ExecuteAleo ==
    /\ stage = "execute"
    /\ Goto("prepare")
    /\ Untouched(<<kind, tag, next, merged, todo, paths, writer>>)

ExecuteFails ==
    /\ stage = "execute"
    /\ BeginErrorTrace("avm_runtime_error")

\* create_dir_all, once more.
Prepare ==
    /\ stage = "prepare"
    /\ Goto("open")
    /\ Untouched(<<kind, tag, next, merged, todo, paths, writer>>)

\* line_counted_writer
OpenWriter ==
    /\ stage = "open"
    /\ writer' = [NoWriter EXCEPT !.state = "open"]
    /\ Goto("register")
    /\ Untouched(<<kind, tag, next, merged, todo, paths>>)

\* Mutant: the set of registered paths is not consulted.
RegisterAgain(p) ==
    /\ paths' = paths \cup {p}
    /\ writer' = WithPath(writer, p, input.text[p])

\* LineCountedPaths::register
Register(p) ==
    /\ paths' = paths \cup {p}
    /\ writer' = IF p \in paths THEN writer ELSE WithPath(writer, p, input.text[p])

RegisterSource ==
    /\ stage = "register"
    /\ Register(input.source)
    /\ Goto("start")
    /\ Untouched(<<kind, tag, next, merged, todo>>)

\* start opens <toplevel> with a step at line 1.
Start ==
    /\ stage = "start"
    /\ LET first == [path |-> input.source, line |-> 1, from |-> input.source]
       IN  writer' = [WithSteps(writer, <<first>>) EXCEPT !.depth = 1]
    /\ Goto(IF kind = "error" THEN "error_event" ELSE "parse")
    /\ Untouched(<<kind, tag, next, merged, todo, paths>>)

WriteErrorEvent ==
    /\ stage = "error_event"
    /\ writer' = [writer EXCEPT !.events = Append(@, tag)]
    /\ Goto("close_toplevel")
    /\ Untouched(<<kind, tag, next, merged, todo, paths>>)

ParseProgram ==
    /\ stage = "parse"
    /\ merged' = OwnProgram
    /\ Goto("imports")
    /\ Untouched(<<kind, tag, next, todo, paths, writer>>)

imported == Source.imports[next + 1]

\* An import that is not there, or cannot be read, is skipped.
SkipImport ==
    /\ stage = "imports"
    /\ next < Len(Source.imports)
    /\ input.text[imported].status # "readable"
    /\ next' = next + 1
    /\ Goto("imports")
    /\ Untouched(<<kind, tag, merged, todo, paths, writer>>)

LoadImport ==
    /\ stage = "imports"
    /\ next < Len(Source.imports)
    /\ input.text[imported].status = "readable"
    /\ Register(imported)
    /\ merged' = Merge(merged, imported)
    /\ next' = next + 1
    /\ Goto("imports")
    /\ Untouched(<<kind, tag, todo>>)

\* main, or else every transition of funcs, imported ones included.  A program
\* with neither goes to the legacy walk, which is not modelled.
Entries ==
    IF Main \in DOMAIN merged.byName
    THEN <<[do |-> "call", fn |-> merged.byName[Main], entry |-> TRUE]>>
    ELSE LET ts == Select(merged.funcs, {f \in Range(merged.funcs) : f.decl.transition})
         IN  [k \in 1 .. Len(ts) |-> [do |-> "call", fn |-> ts[k], entry |-> FALSE]]

BeginEmission ==
    /\ stage = "imports"
    /\ next = Len(Source.imports)
    /\ todo' = Entries
    /\ Goto("emit")
    /\ Untouched(<<kind, tag, next, merged, paths, writer>>)

\* emit_call_trace: func_path is looked up by the function's bare name.
StepIn(f, line) == [path |-> merged.fileOf[f.decl.name], line |-> line, from |-> f.file]

EmitCall ==
    LET item == Head(todo)
        f == item.fn
        known == Select(f.decl.calls, DOMAIN merged.byName)
        inner == [k \in 1 .. Len(known) |->
                    [do |-> "call", fn |-> merged.byName[known[k]], entry |-> FALSE]]
    IN  /\ stage = "emit"
        /\ todo # <<>> /\ item.do = "call"
        /\ writer' = IF item.entry THEN writer
                     ELSE [WithSteps(writer, <<StepIn(f, f.decl.line)>>) EXCEPT !.depth = @ + 1]
        /\ todo' = inner \o <<[item EXCEPT !.do = "return"]>> \o Tail(todo)
        /\ Goto("emit")
        /\ Untouched(<<kind, tag, next, merged, paths>>)

EmitReturn ==
    LET item == Head(todo)
    IN  /\ stage = "emit"
        /\ todo # <<>> /\ item.do = "return"
        /\ writer' = [WithSteps(writer, <<StepIn(item.fn, item.fn.decl.last)>>)
                         EXCEPT !.depth = IF item.entry THEN @ ELSE @ - 1]
        /\ todo' = Tail(todo)
        /\ Goto("emit")
        /\ Untouched(<<kind, tag, next, merged, paths>>)

EndEmission ==
    /\ stage = "emit"
    /\ todo = <<>>
    /\ Goto("close_toplevel")
    /\ Untouched(<<kind, tag, next, merged, todo, paths, writer>>)

CloseToplevel ==
    /\ stage = "close_toplevel"
    /\ writer' = [writer EXCEPT !.depth = @ - 1]
    /\ Goto("finish")
    /\ Untouched(<<kind, tag, next, merged, todo, paths>>)

\* A refused step surfaces here.
Finish ==
    /\ stage = "finish"
    /\ IF writer.refused THEN Exit("err") /\ UNCHANGED writer
       ELSE Goto("write_meta") /\ writer' = [writer EXCEPT !.state = "finished"]
    /\ Untouched(<<kind, tag, next, merged, todo, paths>>)

WriteMeta ==
    /\ stage = "write_meta"
    /\ writer' = [writer EXCEPT !.state = "described"]
    /\ Goto("close")
    /\ Untouched(<<kind, tag, next, merged, todo, paths>>)

\* Mutant: the error that was traced is not returned.
StatusSwallowed(k) == "ok"

\* After the error trace the error itself is returned.
Status(k) == IF k = "error" THEN "err" ELSE "ok"

Close ==
    /\ stage = "close"
    /\ writer' = [writer EXCEPT !.state = "closed"]
    /\ Exit(Status(kind))
    /\ Untouched(<<kind, tag, next, merged, todo, paths>>)

IoStages == {"create_out_dir", "read", "prepare", "open", "register", "imports",
             "finish", "write_meta", "close"}

\* Mutant: a failure is traced, that of the error trace itself too.
IoFailsTraced ==
    /\ stage \in IoStages
    /\ stage = "imports" => /\ next < Len(Source.imports)
                            /\ input.text[imported].status = "readable"
                            /\ imported \notin paths
    /\ ioFailed' = TRUE
    /\ kind' = "error" /\ tag' = "avm_runtime_error"
    /\ paths' = {}
    /\ Goto("prepare")
    /\ UNCHANGED <<input, next, merged, todo, writer>>

\* `?` after an operation on the file system.  Among the imports only the
\* registration of one is.
IoFails ==
    /\ stage \in IoStages
    /\ stage = "imports" => /\ next < Len(Source.imports)
                            /\ input.text[imported].status = "readable"
                            /\ imported \notin paths
    /\ ioFailed' = TRUE
    /\ Exit("err")
    /\ UNCHANGED <<input, kind, tag, next, merged, todo, paths, writer>>

\* execute_leo_function has still to run for the entry point that comes next.
EvaluatesEntry ==
    /\ todo # <<>> /\ Head(todo).do = "call"
    /\ IF Main \in DOMAIN merged.byName THEN Head(todo).entry ELSE writer.depth = 1

\* The least i64 is divided by -1, in the interpreter or in the evaluator.
Panics ==
    /\ stage = "execute" \/ (stage = "emit" /\ EvaluatesEntry)
    /\ Exit("panic")
    /\ Untouched(<<kind, tag, next, merged, todo, paths, writer>>)

Exited == stage = "exited" /\ UNCHANGED vars

Init ==
    /\ input \in Inputs
    /\ stage = "canonicalize" /\ exit = "running" /\ ioFailed = FALSE
    /\ kind = "program" /\ tag = "none"
    /\ next = 0 /\ todo = <<>> /\ paths = {}
    /\ merged = [funcs |-> <<>>, byName |-> <<>>, fileOf |-> <<>>]
    /\ writer = NoWriter

Trace ==
    \/ Canonicalize \/ CreateOutDir \/ ReadSource
    \/ Compile \/ CompileFails \/ ExecuteAleo \/ ExecuteFails
    \/ Prepare \/ OpenWriter \/ RegisterSource \/ Start \/ WriteErrorEvent
    \/ ParseProgram \/ SkipImport \/ LoadImport \/ BeginEmission
    \/ EmitCall \/ EmitReturn \/ EndEmission
    \/ CloseToplevel \/ Finish \/ WriteMeta \/ Close

Next == Trace \/ IoFails \/ Panics \/ Exited

\* One thread; whether an operation fails is left open.
Fairness == WF_vars(Next)

Spec == Init /\ [][Next]_vars /\ Fairness

----------------------------------------------------------------------------
(* Properties *)

\* The variables hold what the code's types allow.
Function == [decl : Decl, file : File]

Step == [path : File, line : Nat, from : File]

Writer == [state : {"none", "open", "finished", "described", "closed"},
           table : Seq([path : File, lines : Nat]), depth : Nat, log : Seq(Step),
           events : Seq({"leo_compile_error", "avm_runtime_error"}), refused : BOOLEAN]

TypeOK ==
    /\ kind \in {"program", "error"}
    /\ tag \in {"none", "leo_compile_error", "avm_runtime_error"}
    /\ next \in 0 .. Len(Source.imports)
    /\ merged.funcs \in Seq(Function)
    /\ DOMAIN merged.fileOf = DOMAIN merged.byName
    /\ \A n \in DOMAIN merged.byName : merged.byName[n] \in Function /\ merged.fileOf[n] \in File
    /\ todo \in Seq([do : {"call", "return"}, fn : Function, entry : BOOLEAN])
    /\ paths \subseteq File
    /\ writer \in Writer
    /\ exit \in {"running", "ok", "err", "panic"}
    /\ ioFailed \in BOOLEAN

Bundle == CASE writer.state = "none"   -> "absent"
            [] writer.state = "closed" -> kind
            [] OTHER                   -> "partial"

\* A clean exit means a complete trace of the program, or none on request; a
\* failing command never leaves one.
Outcome == INSTANCE RecordOutcome
             WITH skip <- input.disabled, bundle <- Bundle,
                  status <- IF exit = "panic" THEN "err" ELSE exit

ImplementsOutcome == Outcome!Spec

\* A program that does not compile, or fails in the AVM, is a failed command
\* with a complete trace of one error event, whatever the imports are, unless
\* the file system fails too.
FailureLeavesErrorTrace ==
    (exit = "err" /\ Source.status = "readable" /\ ~ioFailed /\ ~writer.refused)
        => Bundle = "error" /\ writer.events = <<tag>> /\ tag # "none"

\* A complete bundle has every call closed, states each file's size once and
\* holds no step outside them.
CompleteBundlesReadable ==
    Bundle \in {"program", "error"} =>
        /\ writer.depth = 0
        /\ \A i, j \in 1 .. Len(writer.table) :
               writer.table[i].path = writer.table[j].path => i = j
        /\ \A k \in 1 .. Len(writer.log) : Resolves(writer.table, writer.log[k])

\* Two files that are merged declare one name.
Collision ==
    LET loaded == {input.source} \cup Range(SubSeq(Source.imports, 1, next))
    IN  \E p, q \in loaded : p # q /\ Declared(p) \cap Declared(q) # {}

\* The functions' lines are lines of the text.  Those of a parameter list that is
\* not closed are not: it is followed to the line after the last.
Closed(t) ==
    \A k \in 1 .. Len(t.decls) : {t.decls[k].line, t.decls[k].last} \subseteq 0 .. t.newlines + 1

\* Where the files declare different names every step is recorded in the file
\* that declares its function, and where they are closed the writer refuses none.
StepsKeepTheirFile ==
    ~Collision =>
        /\ \A k \in 1 .. Len(writer.log) : writer.log[k].path = writer.log[k].from
        /\ (\A p \in {input.source} \cup Range(SubSeq(Source.imports, 1, next)) :
               Closed(input.text[p])) => ~writer.refused

\* A name means what the source declares or, failing that, the import read
\* first: no later import displaces it.
EarlierFilesWin ==
    LET files == <<input.source>> \o SubSeq(Source.imports, 1, next)
    IN  \A n \in DOMAIN merged.byName :
            \E k \in 1 .. Len(files) : /\ merged.byName[n].file = files[k]
                                       /\ \A j \in 1 .. k - 1 : n \notin Declared(files[j])

\* tracer.rs:449-451 gives every function declared in the main file the
\* caller's source path.  An import that declares the name too takes it over.
LocalFunctionsKeepSource ==
    \A k \in 1 .. Len(writer.log) :
        writer.log[k].from = input.source => writer.log[k].path = input.source

\* The command comes to an end.
Exits == <>(stage = "exited")

=============================================================================
