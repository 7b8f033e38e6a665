# A TLA+ model of codetracer-leo-recorder

`codetracer-leo-recorder` records the execution of a Leo program as a CodeTracer
trace bundle. It does not instrument a running program: it parses the Leo source,
evaluates it itself and writes down, through an external writer, what the
evaluation did. These modules model that program. TLC checks them on small
instances, and TLAPS proves the safety of the evaluator, the emissions, the sessions,
the interpreter and nearly all of the pipeline for every value of the constants.
Paths below are relative to the repository; `tracer.rs` is `src/tracer.rs`.

## 1. The system

| Part | Where | State | Operations |
|---|---|---|---|
| Command | `main.rs` record/replay, `recorder.rs` | exit status, output directory | canonicalize, create the directory, read, trace |
| Recording session | `tracer.rs` `trace_program`, `write_error_trace` | the stage, the writer | compile, execute, open, register, start, emit, close, finish |
| Import merge | `tracer.rs` `emit_trace_events` | `prog.funcs`, `by_name`, `func_source_files` | load, skip, merge |
| Line counts | `line_counts.rs` | registered paths | `register` |
| Structured evaluator | `tracer.rs` `execute_leo_function`, `execute_block`, `eval_expr` | environments, bindings, sub-calls, asserts, io events | one per statement and expression form |
| Call-trace emission | `tracer.rs` `emit_call_trace` | position in a `CallTrace`, the records written | call, step, binding, sub-call, event, return |
| Aleo interpreter | `tracer.rs` `execute_function`, `replay.rs` `execute_function_for_replay` | registers, mapping store, results | one per instruction |
| Finalize tracer | `finalize.rs` | the same and an event list | the same, with Step and Variable events |
| Replay | `replay.rs`, `main.rs` replay | the stage, the writer, the registers shown | fetch, find, parse inputs, execute, write |
| Leo and Aleo parsers | `tracer.rs`, `source_map.rs`, `transition.rs` | the line they are at | nine line scanners, six of Leo and three of Aleo |
| Expressions | `tracer.rs` `eval_expr` and its `find_top_level_*` | none | split at an operator, evaluate the sides |
| Typed arithmetic | `tracer.rs` `wrapping_*_in_type`, `type_bounds`, `detect_checked_overflow` | none | by operation and type name |
| Fallback generator | `tracer.rs` `generate_aleo_from_leo_source` | names to registers | one text per function |
| Source map | `source_map.rs` | instruction to line | generate, resolve |
| Bare Aleo dialect | `tracer.rs` `emit_aleo_dialect_trace` | typed registers, inputs and outputs seen | one per line kind |
| Legacy walk | `tracer.rs` `emit_function_trace` | the function it is in | step, call, return |
| Transition tracer | `transition.rs` | records in scope, events | enter, resolve, access, output |
| Trace writer | `codetracer_trace_writer_nim` (a dependency) | streams, tables, open calls | register\_\*, finish, close |

How they interact: `record` reads the source and gives it to `trace_program`. That
compiles it to Aleo (the `leo` CLI, or a generator in the same file) and executes
the result in the Aleo interpreter; of this execution only its *failure* matters
afterwards, because the values in the trace come from the structured evaluator.
If either step fails an error trace is written and the error returned. Otherwise
the writer is opened, the imports merged, each entry point evaluated completely
into a nested `CallTrace`, and that walked by `emit_call_trace`. That is the
structured emission. There are two more: a source that is itself an Aleo program
is shown line by line with made-up inputs (`emit_aleo_dialect_trace`), and a
source with neither `main` nor a transition is walked along its return calls
(`emit_function_trace`). `replay` fetches
a deployed program, executes one function in its own copy of the interpreter and
writes the registers; `finalize.rs` is a third copy that keeps events.

All of it is one thread. There is no concurrency, no timer and no persisted state
besides the bundle, so what is hard here is

* **order**: effects are collected while a call is evaluated and written when
  its trace is walked; the walk has only indices (`after_binding`) to go by;
* **late values**: bindings are recorded when made, and rewritten by name when the
  call ends;
* **partial failure**: every stage may fail, and what is left behind must be
  told apart from a finished recording; an abort in a finalize block must stop a
  call in the middle of nested statements;
* **names**: functions, imports, results and finalize blocks meet in maps
  keyed by bare names, some first-wins and some last-wins;
* **text**: nothing has a grammar. The source is read twice and more, line by
  line, by scanners that count braces differently, and expressions are split
  at whichever operator is looked for first; what one reader found is used
  with what another found;
* **positions**: registers, bindings, instructions and lines are matched by rank;
* **numbers**: wrapping, division, last lines without a newline.

`PROJECT.json` lists these hazards at their lines with the properties that cover them.

### What makes each part correct

* Evaluator: sub-calls carry binding indices that are monotone and in range; an
  abort it notices halts the call; every call comes to an end.
* Emission: the records follow the execution, each call, binding and event once,
  every record inside the innermost open call, each binding with its final value.
* Session: the exit status and the bundle agree; failures leave an error trace.
* Imports and line counts: every step is in a registered file, within its lines,
  and in the file that declares its function.
* Interpreter: mapping reads see the last write of any function, a result is that
  of the last call, and no failure escapes as something other than an error.
* Parsers: they find the functions, statements and records that are there, and
  agree with each other.
* Expressions and types: the recorded value is the mathematical one, or an event
  says that it is not.
* Fallback and source map: what the generated program computes in its registers is
  what the source says, and its instructions lead back to the source's lines.
* The other emissions: calls nest and end; the values shown on the lines of an
  Aleo source follow from those shown before.
* Replay: a complete trace shows the execution of the function that was asked for.
* Finalize tracer: its flat event list can be read back as nested calls.

## 2. The modules

| Module | Models |
|---|---|
| `LeoEval` | the structured evaluator |
| `StructuredTrace` | EXTENDS `LeoEval`: entry points, emission, the composition |
| `TraceStream` | abstract: a well-formed stream of records |
| `RecordingSession` | a `record` command with imports, line counts and the writer |
| `RecordOutcome` | abstract: what exit status and bundle promise |
| `AleoVM` | the interpreter in its three copies, mapping store, finalize events |
| `AleoLines`, `AleoText` | an Aleo program as its lines, and its parsers |
| `ReplaySession` | EXTENDS `AleoVM`, `AleoText`: a `replay` command |
| `LeoText` | a Leo source as its lines, and the six scanners |
| `TypedArith` | arithmetic in a named type |
| `LeoExpr` | EXTENDS `TypedArith`: expressions from tokens to a value |
| `LeoReference` | the reference: how a term is printed, and what it means |
| `FallbackAleo` | EXTENDS `LeoText`, `AleoText`, `LeoExpr`: generator, source map, registers to variables |
| `AleoDialect` | EXTENDS `AleoText`, `TypedArith`: the registers of a bare Aleo source |
| `TracePipeline` | EXTENDS `AleoVM`, `FallbackAleo`, `AleoDialect`: `trace_program` from the text to its emission, with its properties |
| `PipelineValues` | EXTENDS `TracePipeline`, `LeoReference`: the properties of the recorded values |
| `Selection` | the elements of a sequence that are in a set, as a recursive function |
| `MCStructuredTrace`, `MCRecordingSession`, `MCAleoVM`, `MCReplaySession`, `MCTracePipeline` | programs, directories and texts for TLC |
| `StructuredTraceProofs`, `HistoryProofs`, `RecordingSessionProofs`, `AleoVMProofs`, `ReplaySessionProofs`, `SelectionProofs`, `TracePipelineProofs`, `AleoValueProofs` | theorems |

### LeoEval

The recursion of the Rust interpreter is the variable `stack`, a sequence of
frames. A frame holds the environment (`env`), the operand stack of the
expression under evaluation, the cursors into nested statement blocks (`code`)
and the vectors the code fills: `bindings`, `subs`, `ios`, asserts. A finished
call appends a `CallTrace` to `done`; a `SubCall` refers to it by index where the
code nests it by value. An expression is the postfix sequence of the operations
that `eval_expr` performs, in its order, with relative jumps for the arms it may
leave out (ternary, `if`), so interleavings of nested calls, events and
aborts are those of the code; which operations a text is read as is an input here,
and for arithmetic the subject of `LeoExpr`.
A qualified call that does not resolve evaluates its arguments and then again in
a later arm, as the code does. Values are one unsigned type `0..MaxInt` and
`Unknown`; sums, differences and products wrap and report the overflow, and the
wrapping and saturating methods do not report it (`EvalBinary`, `EvalMethod`). One action per statement form
(`CommitLet`, `CommitAssign`, `CommitReturn`, `CommitExprStmt`, `ExecAssert`,
`EnterFor`, `NextIteration`, ...), per kind of operation, and `FinishCall`, which
also does the post-execution sync. `calls` and `log` are history variables: how many
calls began, and what each did in the order in which it happened.

### StructuredTrace and TraceStream

`DispatchEntry` takes the next entry point (`main`, or else every transition),
`Evaluate` steps the evaluator, and when its stack is empty `emit_call_trace` runs:
`walk` is its recursion, one activation per level with `bi` and `si` the indices
of its two loops. `out` is what the writer was given. `TraceStream` states what a
reader may rely on: calls nest, a record belongs to the innermost open call, and
nothing is revised. `StructuredTrace` is shown to implement it (`ImplementsStream`)
with `open` refined by the activations that have written their call.

### RecordingSession and RecordOutcome

One action per stage of `record`, `trace_program` and `write_error_trace`, in their
order; `IoFails` is the `?` after each file operation and may happen at every stage
that has one, also where the error trace is written, and `Panics` a division without an i64
quotient, in the interpreter or when an entry point is evaluated: the process ends where it is,
with whatever the writer has, and without an error trace. A function only has the calls it makes; `todo` is the rest of
`emit_call_trace`. The writer is external: its table of registered paths, the
refusal of a step that does not resolve, and the failing finish after a refusal
are taken from `line_counts.rs` and `tests/test_line_count_table.rs`. `RecordOutcome`
is the promise to whoever sees the exit status: success means a complete trace
of the program (or recording disabled and none), failure (a panic is one) never leaves one, and
a bundle is never revised. `ImplementsOutcome` is the refinement, with `bundle`
computed from the writer's state. A function's lines may be any: those of a parameter list
that is never closed go beyond the file (`Closed`), and the writer refuses its steps.

### AleoText and ReplaySession

A line of an Aleo program is its kind and what the parsers take from it.
`ParseAleoProgram` and `ParseAleoFunctionInfo` find the blocks of functions,
closures and finalize blocks. `ReplaySession` has one action per stage of `replay`
and `replay_deployed_program`; the execution between them is `AleoVM`'s, run on what
`ParseAleoProgram` makes of the fetched text. `fetched`, `badInput` and `disabled`
say what the node and the command line are; every stage that touches the
file system may fail (`IoFails`). It implements the same `RecordOutcome` as the
record command, by another mapping: replay leaves no error trace, and the call
of the function is the only one it closes.

### LeoText

A line of a Leo source is its first word, the braces it opens and closes, whether it
ends with a semicolon, and its expression. A header has its name as the scanners of functions read
it, up to the parenthesis or to the end, and `trimmed`, without the colon of an Aleo header, as
`parse_transitions` does. Each scanner is an operator named for its
function. They differ where the code differs: where a body begins, whether a signature
may go on below, which returns count, when a record ends.

### TypedArith and LeoExpr

`TypedArith` is arithmetic on i64 payloads by type name: the narrow types have a
`Size` each, u64, u128, i64 and i128 share i64's payload, other names are unbounded to
the wrapping operations and have u32's bounds. `LeoExpr` makes the postfix operations from
tokens: `TopLevel` is `find_top_level_operator_excluding_unary` with its rule for unary
minus (`tight` says that a character stands directly behind another operator's),
`Split` the order in which `eval_expr` tries operators, `Evaluate` the value with
the overflow event. `LeoReference` is what it is compared with: `Printed` writes a term with the
parentheses that Leo's precedence needs, `Meant` is its value among the integers. Its operators
are recursive, so it is a module of its own, which only the runs reach.

### FallbackAleo

`GenerateAleo` is `generate_aleo_from_leo_source`, from the functions one scanner
found: callers and closures, one instruction per binding, and where an expression is
not understood a line that parses to nothing or, if the expression has several words, to an
unknown instruction. Its operators are split by another
function than `eval_expr`'s (`FallbackSplit`). `SourceEntries`
and `ResolveLine` are the source map, `MapRegisters` the way back from registers to
variables.

### TracePipeline

`trace_program` as a state machine: compile (the CLI's answer is part of the source's
record, the fallback otherwise), parse, execute by `AleoVM`, map the variables, and
choose one of the three emissions: the imports are merged before (`MergedFunctions`), so a
library without `main` or a transition is not walked if a file it imports has one, while the
legacy walk knows the functions of the source alone. The structured one is `StructuredTrace`'s and
ends here; the legacy walk emits one call, step or return at a time, and the dialect
one line at a time. Files, writer and exit status are `RecordingSession`'s.
`AleoDialect` has the registers the dialect makes up: it executes nothing, but
takes 5, 6, ... for the inputs.

### AleoVM

`prog.mode` says which of the three copies runs. The recursion is `stack`, errors
unwind it with `Unwind` as `?` does, and a call sets its destination registers
when the callee returns. Instructions are records; text is not modelled.
Registers are `-Half .. Half-1`. `FuncMap` is the map collected from the parsed
functions, last-wins. A `FinalizeTracer` may be given a store. The Variable
events after an instruction are one record here, tagged with the number of the
call they come from, which the code's events do not have; the property that reads
them uses it to say which call they belong to.

## 3. The checks

| Run | Question | Result |
|---|---|---|
| `structured` | Does the trace say what the evaluation did? | holds, 83630 states |
| `record_session` | Do exit status, bundle and files agree whatever fails? | holds, 52488 states |
| `aleo_vm` | Mappings, results, finalize events | holds, 34095 states |
| `replay` | Does a replay show the execution, whatever fails? | holds, 3286 states |
| `pipeline` | Do parsers, fallback, expressions, source map and the other emissions agree with the source? | holds, 4494 states |
| `abort_unnoticed` | Does every `Mapping::get` abort halt its call? | violated |
| `immutable_let` | Are immutable bindings untouched by the sync? | violated |
| `import_collision` | Do local functions keep their source path? | violated |
| `division_panic` | Is every interpreter failure an error? | violated |
| `finalize_shadows` | Does replay execute the named function? | violated |
| `if_bodies` | Are the bodies of `if` skipped? | violated |
| `operator_order` | Do operators associate to the left? | violated |

The properties, by what they need to break:

* `SubCallsPlaced`, `NoSubCallLeftBehind`, `EmissionFollowsExecution`: the index
  a sub-call was given, statements before and the two loops of the walk.
* `BindingsCarryFinalValue`: a binding and all later stores of its name.
* `EventsExactlyOnce`: events collected through nested calls and written late.
* `AbortHaltsCall`: an abort in an inner block and everything after it.
* `EntryPointsRecorded`, `ImplementsStream`: calls and returns of a whole run.
* `FailureLeavesErrorTrace`, `ImplementsOutcome`: a stage's failure and the bundle.
* `CompleteBundlesReadable`, `StepsKeepTheirFile`, `EarlierFilesWin`: imports that
  repeat, collide, are missing, and the steps written much later. That no step is refused
  needs closed parameter lists: where one is not closed in a text without a last newline,
  `parse_leo_program` has the function end on a line after the last.
* `ReadsSeeLastWrite`, `ResultsAreLastReturns`: several activations, one store.
* `FinalizeEventsNest`, `FinalizeListsRegisters`: failing and nested calls and the
  flat list of events.
* `TraceShowsTheExecution`, `RegistersShownWhereSet`: results by name, registers by rank,
  steps by line, over nested calls of one name and closures. The second is about programs with
  one function of the entry's name whose every line sets the next register (`Straight`).
* `CompleteReplayReadable`, `EarlyFailureLeavesNothing`, `ReplayImplementsOutcome`: every `?`
  of the replay, and the refused step that shows when the trace is finished.
* `ParsersFindTheFunctions`, `StatementsWhereWritten`, `RecordParsersAgree`: several
  scanners over one text, against the extents of the blocks. They hold for texts that
  are laid out as the definitions say (`FunctionsWellLaid`, `StatementsWellLaid`,
  `RecordsWellLaid`): what these exclude is what the scanners do not understand, a function
  on one line, an `else` on its own, a statement behind the brace that ends a loop or a line
  that ends two loops among them.
* `FallbackAgreesWithSource`: generator, parser, interpreter, results and the map back to
  variables, against the values of the bindings; and that it fails only where a
  binding divides by zero. It is about bindings of one operation (`Simple`) whose numbers are
  i64s, written in the tokens of their term, and about functions whose name no other function has or is
  generated under: results are kept by name, and a number beyond i64 is an operand that parses to nothing.
* `SourceMapExact`: the rank of an instruction and the line of its binding.
* `UnreportedValuesExact`: unless there was an overflow event the values of all bindings,
  through shadowing and earlier bindings, are the mathematical ones. It says nothing of a
  division by zero, which is 0 for the evaluator and taken as 0 in `Meant`, and nothing of a
  recording that a quotient without an i64 value ends (`panics`). It needs that a
  product's operators come in the order in which they are tried (see disagreement 6) and
  that a minus is next to the operator it follows: `a * -3` is split at the minus,
  because the character before it is a blank.
* `LegacyWalkNests`: a step lies in the function whose call is open, whatever function the
  hash map yields first.
* `DialectSelfConsistent`: the arguments are read after the walk. It is about functions that are
  `Regular`, with their inputs first and set once: an input line behind an instruction that reads its
  register shows an argument which that instruction did not have.
* `Terminates`, `Exits`, `ReplayExits`, `Finishes`: liveness. Most loops of this code are over
  finite lists and end by themselves; what the properties add is that the stages do not wait for
  each other or go back: a failure to write the error trace is not traced in turn, a fetch that
  fails is not tried again, and the walk over a bare program, whose index is kept by hand, gets
  past every line.

### Bounds

* `structured`: `main` has up to two statements from a menu of thirteen which
  holds each statement kind and each form of call, besides `let mut x`; four
  bodies of `f`, three of a loop, including nested loops and a return in a loop;
  without `main`, a transition between other functions. Calls nest three deep.
  `MaxInt = 3` makes sums and products overflow. Every ordering question is between at most two
  statements of one call and the calls inside them, so pairs suffice.
* `record_session`: a source and up to two imports out of three files, which are
  readable, missing or unreadable, the source itself, the same one twice, with
  equal and with distinct names, with and without `main`. Files end on lines
  their functions use, so an off-by-one shows, and one source leaves a parameter list open.
* `aleo_vm`: an entry function of two or three menu instructions, a callee called
  once or twice that works on the same mapping and calls another; registers of
  three bits (`Half = 4`), so that overflow and the overflowing division occur.
* `replay`: texts whose every line sets the next register, with a call that sets four
  registers in the file's last line, a callee with the entry's register numbers,
  a closure as the entry, a finalize block of its name, divisions that fail and panic;
  command lines with too few and with bad inputs, two entries; `Half = 4`.
* `pipeline`: 385 sources. Expressions: every grouping of two of `+ - * / %` in u32, every
  chain of three, comparisons, signed operands with the minus apart and next to the
  operator (types of 8 or 4 values, `Half64 = 8`). Statements: loops in loops, `if` in
  loops, `else`, bindings over several lines (among the statements of a function, a loop and an `if`,
  and in a layout that `StatementsWellLaid` admits), braces below, comments. Libraries of
  three functions that return each other's calls, one of an absent function, one of itself. Libraries that import files with `main`, with a transition, with a
  function and with none. Calls of several words and of one.
  Bare programs with casts, closures, finalize blocks, mistaken lines. Programs of the CLI.
  The scanners look at one line at a time and at their own count of braces, so
  sources of up to twenty lines with nesting of three show what they confuse.
  `ASSUME TypedArithmetic` in `MCTracePipeline` makes TLC evaluate the two theorems about typed
  arithmetic of `TracePipelineProofs` for all types and operands of these widths.
* Programs are taken without recursion: Leo and Aleo reject it, and the code does
  not end on it either.

### Fairness

`WF_vars(Next)` in all five: the recorder is one thread that runs until it is
done. Nothing is assumed about *which* step happens: whether an operation of the
file system, the compiler or the program fails is left open.

### Disagreements found

1. `tracer.rs:4571-4573` promises that a `Mapping::get` abort halts the function
   and forces `Unknown`. After an assignment or in a `return` it does not
   (`FinalizeAbortForcesUnknown`).
2. `tracer.rs:3817-3818` says immutable bindings are unaffected by the sync. A
   `let` in a loop body is affected (`ImmutableBindingsUnaffected`).
3. `tracer.rs:449-451` gives local functions the local path. An import that
   declares the name takes it (`LocalFunctionsKeepSource`).
4. `tests/test_ctfs_audit.rs:256-258` wants interpreter failures traced and
   returned. `i64::MIN / -1` panics (`FailuresAreErrors`).
5. `replay.rs:233` executes "the specified function". With a finalize block of
   the name it executes that (`ExecutesTheFunction`).
6. `tracer.rs:5030-5031` says that the rightmost operator wins, left-associative.
   `eval_expr` looks for one operator after the other, so all `*` are split off
   before `/`, and these before `%`: with `x = 3`, `6 * 2 / x + 1` is recorded as 1
   instead of 5, and `1 + 2 - x` reports overflows of `1 + (2 - x)`
   (`OperatorsLeftAssociative`).
7. `tracer.rs:3555` skips the body of an `if`. An `else` on a line of its own, or an `if`
   whose brace is below, is not skipped (`IfBodiesSkipped`).

Two more are remarks, without a run. `replay.rs:393-394` speaks of finding the lines that hold
instructions; the i-th register, inputs included, is shown on the i-th line after
the function's. And `eval_expr` brings sums and products into their type, but
not quotients: the least i8 divided by -1 is recorded as 128.

## 4. The proofs

| Theorem | Says |
|---|---|
| `EvalTypeCorrect` | `EvalSpec => []EvalTypeOK` |
| `SubCallPlacement` | `EvalSpec => []SubCallsPlaced` |
| `TypeCorrect` | `Spec => []TypeOK` of `StructuredTrace` |
| `RecordedSubCallPlacement` | `Spec => []SubCallsPlaced` |
| `WalkComplete` | `Spec => []NoSubCallLeftBehind` |
| `ImplementsTraceStream` | `Spec => ImplementsStream`: it implements `TraceStream` |
| `EmissionFollows` | `Spec => []EmissionFollowsExecution` |
| `BindingsCarryFinal` | `Spec => []BindingsCarryFinalValue` |
| `EventsOnce` | `Spec => []EventsExactlyOnce` |
| `AbortHalts` | `Spec => []AbortHaltsCall` |
| `EntryPoints` | `Spec => []EntryPointsRecorded` |
| `SessionTypeCorrect` | `Spec => []TypeOK` of `RecordingSession` |
| `FailureTraced` | `Spec => []FailureLeavesErrorTrace` |
| `OutcomeImplemented` | `Spec => ImplementsOutcome`: it implements `RecordOutcome` |
| `BundlesReadable` | `Spec => []CompleteBundlesReadable` |
| `StepsFiled` | `Spec => []StepsKeepTheirFile` |
| `ImportsNeverDisplace` | `Spec => []EarlierFilesWin` |
| `OverflowReported` | what no overflow event is reported for is exact, in every type |
| `SaturationInType` | saturating values are in their type, and exact unless an overflow would be reported |
| `VMTypeCorrect` | `Spec => []TypeOK` of `AleoVM` |
| `MappingReads` | `Spec => []ReadsSeeLastWrite` |
| `ResultsOfLastCalls` | `Spec => []ResultsAreLastReturns` |
| `EventsNest` | `Spec => []FinalizeEventsNest` |
| `RegistersAreListed` | `Spec => []FinalizeListsRegisters` |
| `ReplayTypeCorrect` | `ReplaySpec => []ReplayTypeOK` |
| `FailsWithoutBundle` | `ReplaySpec => []EarlyFailureLeavesNothing` |
| `CompleteIsReadable` | `ReplaySpec => []CompleteReplayReadable` |
| `TraceOfTheExecution` | `ReplaySpec => []TraceShowsTheExecution` |
| `RegistersWhereSet` | `ReplaySpec => []RegistersShownWhereSet` |
| `ReplayOutcomeImplemented` | `ReplaySpec => ReplayImplementsOutcome` |
| `PipelineTypeCorrect` | `PipelineSpec => []PipelineTypeOK` |
| `ParsersAgreeOnFunctions` | `PipelineSpec => []ParsersFindTheFunctions` |
| `StatementsAreWritten` | `PipelineSpec => []StatementsWhereWritten` |
| `RecordsAreParsedAlike` | `PipelineSpec => []RecordParsersAgree` |
| `SourceMapIsExact` | `PipelineSpec => []SourceMapExact` |
| `LegacyWalkIsNested` | `PipelineSpec => []LegacyWalkNests` |
| `DialectIsConsistent` | `PipelineSpec => []DialectSelfConsistent` |
| `FallbackAgrees` | `PipelineSpec => []FallbackAgreesWithSource` |

So every safety property that the runs `structured`, `record_session`, `aleo_vm` and `replay`
check is also proved, and of the run `pipeline` all but `UnreportedValuesExact`.

The assumptions are those the modules name. Of the evaluator and the emission (the first eleven
theorems): programs are well typed and their blocks exist, and the type holds a truth value
(`LeoEval`). Of the record command `InputsAssumption`: the inputs have their types, and of a file
that cannot be read no function is known. Of `TypedArith`: the narrow types have an
even number of values, no more than i64 has of one sign. Of the interpreter `ProgramsAssumption` and
`HalfAssumption`: instructions have the fields their opcodes need, for every register
width, mapping and store. Of the replay `ConfigsAssumption`, that the lines of a text are what
the parsers make of them, and `RegAssumption`: register indices are numbers and there are
finitely many, as in any text. Of the pipeline `SourcesAssumption`: the lines of a source have the
fields of their kind, the CLI's answer is lines of Aleo, and calls between functions do not run in
a circle; `MainAssumption`, that "main" is a name; and `PayloadAssumption`: the interpreter and the typed arithmetic
speak of one i64.

*Placement.* `SubCallsPlaced` is about the vectors of a running frame and of finished
calls. It is not inductive: a sub-call gets the number of bindings at the time the
*statement's expression began* (`after`), so one needs that a caller that waits is
inside an expression, and that no binding is added meanwhile. `EvalInv` adds just
that: `FrameShape` (a frame with `ep > 0` is at a statement with an expression and
`after = Len(bindings)`, and every outer cursor of it is at a `for`), that callers below
the top have `ep > 0`, and that traces
named by sub-calls are finished ones. The proof has one lemma per action; most
actions replace the top frame by a well-formed one (`ReplaceTop`).

*Completeness of the walk.* The inner loop of `emit_call_trace` tests for equality,
so a sub-call with a smaller index would be left until the end. `WalkInv` extends
`EvalInv` with `ActOK`: an activation is within its trace and every pending sub-call
has `after >= bi`. Its step needs the placement theorem's monotonicity: when the
next sub-call is not at `bi`, it and all later ones are beyond it.

*The recording against the history.* `HistoryProofs` classifies what a step of the evaluator does
to the running call (it goes on silently, binds, reports, calls, returns), so that each invariant
is proved once per class and not once per action. All of them rest on `HistoryInv`: calls are
numbered as they begin and no two that are open or finished share a number, the log speaks of calls
that have begun, main is the first, and the walk leads from a CallTrace to later ones.

* `ImplementsTraceStream`: `OpenOf(walk)`, the activations that have written their call, is what
  `TraceStream` keeps in `open`; each step of the walk writes what the innermost of them may.
* `AbortHalts`, `BindingsCarryFinal` and half of `EventsOnce`: `CallHistory` says of each open
  and each finished call what its part of the log is: the last write to each name is its
  environment's, the asserts and io events are its vectors, and after an abort there is
  at most the binding in progress. That needs that numbers are not shared.
* `EmissionFollows`: the walk reads nested CallTraces, the log is flat. The strengthening says *where* in
  the history each call's steps are: there are positions `P` (an existential of the
  invariant) such that a call's n-th step, binding or sub-call, lies at `P[id][n]`, a sub-call from
  its first position to its last with nothing in between (`Located`), and what has been recorded is the
  history up to the position of the innermost activation (`Followed`, with `WalkSits` on where
  activations wait).
* `EventsOnce`: a return occurs once in the history (`EndsOnce`), by `EmissionFollows` once in the records,
  so a call's events are written once (`EventsInv`).
* `EntryPoints`: `Surfaces`, the outermost calls so far are the first n declared transitions, one
  more while its call is open.

*The record command.* `FailureLeavesErrorTrace` speaks of the last state only, so
`SessionInv` adds how it gets there: `WriterOK` (the writer's state follows the
stage), `ExitOK` (the command runs until it exits, and a disabled recording never
passes the first check) and `ErrorTraceOK` (an error trace has its tag from the
moment it begins, skips the stages that emit, and holds exactly its one event from
`write_error_event` on). For the refinement most stages are stutters of
`RecordOutcome`; `OpenWriter` is its `Begin`, `Close` its `Succeed` or `Fail`, a
disabled recording its `Succeed`, and every other way out its `Fail`. `RecordInv` adds what is
recorded: `MergedOK` (every name leads to a function of a file that was loaded and registered, the first of
those that declare it), `TableOK` (the table holds exactly the registered files, once and with their sizes),
`LogOK` (a step that was not refused is within its file; where no two files collide it is in
the file its function is from) and `DepthOK` (as many calls are open as have their return still to write).

*Typed arithmetic.* `WrappingInType` casts operands and result, `DetectCheckedOverflow`
compares with bounds: the proof is that a cast changes exactly what is out of bounds
(`SignedCast`, `NarrowCast`), which remainders give for every width.

*The interpreter.* `TypeOK` alone is not inductive: `VMInv` adds that every activation
below the top waits at a call (so that its return has destinations), that
functions' instructions are those of the program, and that a failing machine has a
stack. The values stay in i64 because a quotient is no larger than its dividend
(`QuotientInt64`) except for the one that panics. `ReadsSeeLastWrite` is about the
history `hist`; it follows from `StoreAgrees` (the store holds the value of the newest
write to each key in the history) and `ReadsSeen` (which each read satisfies when it is
appended, and later entries do not disturb: `PastStays`). `ResultsAreLastReturns` is proved
likewise, from what the last return of each function left. `FinalizeEventsNest` reads the
flat events from left to right (`OpenAfter`): `Nesting` says that the open Steps are those of the calls on the
stack, at the instructions they wait at. For `FinalizeListsRegisters` one needs that numbers identify calls
(`Identified`), so that what a callee lists is not taken for its caller's.

*The replay command.* `ReplayInv` is `StageOK` (the writer's state follows the stage),
`CommandOK` (it runs until it exits) and `ContentOK` (the calls open at each stage, and
that steps lie within the stated number of lines unless one was refused; what is past
the finish is `Whole`). `Whole` is why a bundle that was closed is readable. What the trace shows needs the
execution before it (`ExecutionInv`): until it begins the machine waits, while it runs the outermost
activation is that of the function asked for, and it ends with that activation's return (`Returned`), which no
call of the same name can follow. `Traced` says that the steps written show the first registers of that result in
their order. Where each line sets the next register (`Straight`), the result's registers are 0 to n - 1 for the n lines of
the body, because every instruction before the outputs has run, so the i-th register is on the i-th line. `Straight`
asks that only one line declare a function of the entry's name: with two, the steps are on the lines
of the first and the values of the last.

*The pipeline.* `PipeInv` is its types, with what each stage still needs: the machine is idle until the program is
parsed and runs well-typed instructions from then on, and every step logged is on a line of the text. `WalkInv`
relates the legacy walk to its log: the calls open are the activations of the walk, each at a line of its
function. For `SourceMapExact` one needs the generated text as a whole: `CompiledInv` says which text
it is, and the lemmas above it where in it each function's block lies, that its instructions are as many and in
the order of the bindings, and that no other block has its name.

*The scanners.* They are recursive functions over the lines, some of them over lines and braces at once. Each is
related to the text by a lemma of its own, proved by induction on lengths: `ParsedInv` says that what was read is
what the parsers make of the text; `FunctionsAre` and `ProgramFunctions` that they find one function at each line where one
begins, in their order (`ItemsReach`);
`RecordEnds` that both readers of records stop at the brace that balances the first. For the statements the parser goes into
loops, and its recursion (`ParseBlock`) goes by the number of lines a block has; that such a function exists and
satisfies its equation is itself proved (`BlocksExist`, `BySize`). Then `BlockIsWritten`: by the size of the block, parsing
it yields `Written` of its lines, because a loop's statements are those between its braces (`EndsAt`,
`StatementsNest`), the parser goes on behind the brace that ends it (`ParserGoesOn`), and a sequence ordered by lines
is that of its parts (`InOrderSplit`).

*The dialect.* `WalkRight` says of the walk over a function's lines that each register holds the value
last shown of it, and that of inputs not yet read the register holds what the arguments will show, which no line
in between sets if the function is regular. `EntriesLaid` says where in the log of the function the
entries of each line lie, and `DialectLogsJoin` puts functions together: what was last shown is not looked for beyond the call
(`ShowsMoves`).

*The fallback.* `Environment` is a recursive function over the bindings; `LastBindingHolds` says that a name has
the value of the last binding by that name. A simple binding, read back from its tokens, compiles to one instruction whose
operands are the last registers of the names in it (`Computes`): executing it yields the binding's
value, and it divides by zero where the source does. A function that only returns a call has no bindings and compiles
to at most a call. Every function of the parsed program is made from one of the source in one of these
ways (`AllMade`). `FallbackInv` then says that the program simulates the source (`Simulates`): in every activation of a function of
simple bindings register `k - 1` holds the value of binding `k`, every result by its name holds all of them, and an error is a
division by zero in some binding. `MapAgrees` reads the results back: `map_registers_to_variables` enters
functions and bindings in their order, so a name ends with its last binding's value unless another function that ran binds it too.

*Induction over data.* The library's induction theorems take an operator as a parameter, which the
provers cannot instantiate. Where a theorem needs what a recursive *function* computes from a sequence
(`Select`, `Outline`, `OpenAfter`), it is had without: the set of the lengths for
which the claim holds contains 0 and with n also n + 1, and such a set contains all numbers
because < is well-founded (`NatSetInduction` in `SelectionProofs`).

Only model-checked:

* liveness, and everything with `ENABLED` (out of TLAPS' reach here);
* `UnreportedValuesExact`: it compares with the recursive operators of `LeoReference`, over which no theorem can be stated
  here, and its claim is an induction over terms.

What the proofs found: `SourceMapExact`, `StatementsWhereWritten`, `DialectSelfConsistent` and
`FallbackAgreesWithSource` had been stated for more texts than they hold for, where no source of the runs showed it: a
line that ends two loops, an input below an instruction that reads it, a namesake, a number beyond i64. Their
hypotheses now say so.

## 5. Not modelled

* Text below the tokens: literals, type names, identifiers, and of expressions calls,
  ternaries, indices and literals of structures; `LeoEval` takes these as operations.
  `eval_expr` knows no `&&`, `||` and `!`.
* Struct, tuple and array values, casts and context builtins in the evaluator.
* `TransitionTracer`, which only tests call: each of its methods appends one event to a list.
* Formatting of values into the writer's records, type registration, `SourceMap`'s
  byte offsets.
* Recursion of the traced programs through several calls: neither the code nor the
  models end on it. (The legacy walk passes over a call of the function itself.)
* The `leo` CLI and `curl` (their answers are left open), the argument parser,
  packaging, CI.

## 6. Plan

Done: `LeoEval`, `StructuredTrace`, `TraceStream`, `RecordingSession`, `RecordOutcome`, `AleoVM` and
`ReplaySession` with proofs of all their safety properties; the text
modules, `TypedArith`, `LeoExpr`, `FallbackAleo`, `AleoDialect` and `TracePipeline` with proofs of all but
what §4 names.

Left, in this order:

1. Structured values and casts in `LeoEval`, with `value_to_record`.
2. `TransitionTracing`: records in scope and the events of `TransitionTracer`.
