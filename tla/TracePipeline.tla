---------------------------- MODULE TracePipeline ----------------------------
(***************************************************************************)
(* trace_program (tracer.rs) from the source text to its trace: the two    *)
(* parsers of Leo, the compilation by the leo CLI or by the fallback, the  *)
(* execution of the result by AleoVM, the mapping of registers back to     *)
(* variables, and which of its three emissions emit_trace_events takes.    *)
(* The structured one is StructuredTrace's; a bare .aleo source and the    *)
(* legacy walk are emitted here.  Files, the writer and the exit status    *)
(* are RecordingSession's.                                                 *)
(***************************************************************************)
EXTENDS AleoLines, FallbackAleo, AleoDialect

CONSTANT Sources  \* the source files under consideration

IsExpr(e) ==
    /\ e.form \in {"arith", "call", "opaque", "none"}
    /\ e.form = "arith" => e.tokens \in Seq(Range(e.tokens))
    /\ e.form = "call" => e.callee \in FnName
    /\ e.form \in {"call", "opaque"} => e.spaced \in BOOLEAN

\* A Leo line with the parts that its kind has.
IsSourceLine(l) ==
    /\ IsLeoLine(l)
    /\ l.kind \in Headers => l.trimmed \in FnName
    /\ l.kind = "let" => l.typed \in BOOLEAN
    /\ l.kind \in {"let", "return"} => IsExpr(l.expr)

IsLeoSource(src) == src \in Seq(Range(src)) /\ \A k \in 1 .. Len(src) : IsSourceLine(src[k])

\* imports: the files it imports that can be read; bare: the lines if it is an
\* Aleo program, else <<>>; cli: what the leo CLI answers, <<>> if it is not
\* installed or fails.  The fallback numbers its registers from 0, at most one
\* for a line.
IsSource(s) ==
    /\ IsLeoSource(s.leo)
    /\ s.imports \in Seq(Range(s.imports)) /\ Len(s.imports) <= Len(CollectImports(s.leo))
    /\ \A k \in 1 .. Len(s.imports) : IsLeoSource(s.imports[k])
    /\ IsAleoText(s.bare) /\ IsAleoText(s.cli)
    /\ s.bare # <<>> => s.leo = <<>>
    /\ 0 .. Len(s.leo) \subseteq Reg

ASSUME SourcesAssumption == \A s \in Sources : IsSource(s)

ASSUME MainAssumption == "main" \in FnName

\* The interpreter and the evaluator compute in i64.
ASSUME PayloadAssumption == Half = Half64

VARIABLES
    source,   \* the source file
    leoFunctions, \* leo_functions
    leoProgram,   \* the LeoProgram of the structured evaluator
    imported,     \* the functions of the files it imports
    stage,    \* where trace_program is
    aleo,     \* the compiled Aleo text
    values,   \* variable_values
    walk,     \* dialect: the functions to come; legacy: the calls in progress
    walker,   \* dialect: the registers of the function walked, and the next line
    log,      \* the calls, steps, values and returns written
    outcome   \* "running", "recorded", "panic" or the error

srcVars == <<source, leoFunctions, leoProgram, imported>>

pipeVars == <<srcVars, stage, aleo, values, walk, walker, log, outcome>>

vmVars == <<prog, given, stack, store, results, events, status, hist>>

allVars == <<pipeVars, vmVars>>

----------------------------------------------------------------------------
(* The source as Leo *)

\* An Aleo line as the Leo scanners see it: a `function NAME:` is a header
\* whose name ends with the colon and whose signature never does.
AsLeoLine(l) ==
    LET line(kind, semi) == [kind |-> kind, opens |-> 0, closes |-> 0, semi |-> semi]
        header == [kind |-> "function", opens |-> 0, closes |-> 0, semi |-> FALSE,
                   name |-> l.name \o ":", trimmed |-> l.name, sig |-> "open", colon |-> TRUE,
                   params |-> <<>>]
    IN  CASE l.kind = "function" -> header
          [] l.kind = "program"  -> line("program", TRUE)
          [] l.kind = "blank"    -> line("blank", FALSE)
          [] OTHER               -> line("text", TRUE)

TextOf(s) == IF s.bare = <<>> THEN s.leo ELSE [k \in 1 .. Len(s.bare) |-> AsLeoLine(s.bare[k])]

text == TextOf(source)

\* What is in prog.funcs when the imports are merged, and the names of by_name.
MergedFunctions == Range(leoProgram.funcs) \cup imported

ByName == {f.name : f \in MergedFunctions}

HasTransition == \E f \in MergedFunctions : f.is_transition

----------------------------------------------------------------------------
(* Compilation and execution *)

Goto(s) == stage' = s /\ UNCHANGED outcome

End(o) == stage' = "end" /\ outcome' = o

CompileViaCli ==
    /\ stage = "compile"
    /\ source.cli # <<>>
    /\ aleo' = source.cli
    /\ Goto("parse")
    /\ UNCHANGED <<srcVars, values, walk, walker, log, vmVars>>

\* Whatever the reason is why the CLI gave nothing.
CompileViaFallback ==
    /\ stage = "compile"
    /\ IF leoFunctions = <<>> THEN End("leo_compile_error") /\ UNCHANGED aleo
       ELSE Goto("parse") /\ aleo' = GenerateAleo(text, leoFunctions)
    /\ UNCHANGED <<srcVars, values, walk, walker, log, vmVars>>

Recorded(fns) == [mode |-> "record", fns |-> fns, entry |-> "main", inputs |-> <<>>]

ParseAleo ==
    /\ stage = "parse"
    /\ prog' = Recorded(ParseAleoProgram(aleo))
    /\ Goto("begin")
    /\ UNCHANGED <<srcVars, aleo, values, walk, walker, log, given, stack, store, results, events, status, hist>>

\* A program without main is executed without doing anything.
BeginExecution ==
    /\ stage = "begin"
    /\ IF "main" \in Known
       THEN stack' = <<Activate(0, FuncMap("main"), <<>>)>> /\ UNCHANGED status
       ELSE status' = "ok" /\ UNCHANGED stack
    /\ Goto("execute")
    /\ UNCHANGED <<srcVars, aleo, values, walk, walker, log, prog, given, store, results, events, hist>>

Execution == stage = "execute" /\ Execute /\ UNCHANGED pipeVars

Executed ==
    /\ stage = "execute"
    /\ status \in {"ok", "err", "panic"}
    /\ CASE status = "ok"    -> Goto("map")
         [] status = "err"   -> End("avm_runtime_error")
         [] status = "panic" -> End("panic")
    /\ UNCHANGED <<srcVars, aleo, values, walk, walker, log, vmVars>>

MapVariables ==
    /\ stage = "map"
    /\ values' = MapRegisters(leoFunctions, prog.fns, results)
    /\ Goto("emit")
    /\ UNCHANGED <<srcVars, aleo, walk, walker, log, vmVars>>

----------------------------------------------------------------------------
(* The choice of the emission *)

Step(k) == [ev |-> "step", line |-> k]
Shown(r, v) == [ev |-> "var", reg |-> r, val |-> v]
CallOf(name, k, args) == [ev |-> "call", fn |-> name, line |-> k, args |-> args]
Returns(v) == [ev |-> "return", val |-> v]

StartAt(todo) == [NoRegisters EXCEPT !.next = IF todo = <<>> THEN 0 ELSE Head(todo) + 1]

ChooseDialect ==
    /\ stage = "emit"
    /\ IsBareAleoDialect(text)
    /\ walk' = DialectFunctions(source.bare)
    /\ Goto("dialect")
    /\ walker' = StartAt(DialectFunctions(source.bare))
    /\ UNCHANGED <<srcVars, aleo, values, log, vmVars>>

\* StructuredTrace takes over.
ChooseStructured ==
    /\ stage = "emit"
    /\ ~IsBareAleoDialect(text)
    /\ "main" \in ByName \/ HasTransition
    /\ End("recorded")
    /\ UNCHANGED <<srcVars, aleo, values, walk, walker, log, vmVars>>

----------------------------------------------------------------------------
(* Bare .aleo sources *)

\* Mutant: a variable's value is taken after the last instruction.
LatestOf(w, s) == w.regs[s.reg]

ShownOf(w, s) == s.val

\* The arguments are the inputs' registers as the walk leaves them, and so is
\* what is returned: an unset register counts 0.
DialectEvents(lines, i, w) ==
    LET final(r) == IF r \in DOMAIN w.regs THEN w.regs[r].value ELSE 0
        args == [k \in 1 .. Len(w.inputs) |->
                    [reg |-> w.inputs[k].reg, val |-> [value |-> final(w.inputs[k].reg),
                                                       type |-> w.inputs[k].type]]]
        steps == [k \in 1 .. Len(w.shown) |->
                    <<Step(w.shown[k].line), Shown(w.shown[k].reg, ShownOf(w, w.shown[k]))>>]
        out == [value |-> final(w.output.reg), type |-> lines[w.output.line].type]
    IN  <<CallOf(lines[i].name, i, args), Step(i)>>
        \o [k \in 1 .. Len(args) |-> Shown(args[k].reg, args[k].val)]
        \o FlattenSeq(steps)
        \o (IF w.output = <<>> THEN <<Returns("NONE_VALUE")>>
            ELSE <<Step(w.output.line), Shown(w.output.reg, out), Returns(out)>>)

\* Mutant: a line that says nothing is passed over without going on.
WalkDialectLineStuck ==
    /\ stage = "dialect"
    /\ walk # <<>> /\ walker.next <= DialectLast(source.bare, Head(walk))
    /\ walker' = [Walked(walker, source.bare, walker.next)
                     EXCEPT !.next = IF source.bare[@].kind \in {"blank", "comment"} THEN @ ELSE @ + 1]
    /\ IF walker'.panics THEN End("panic") ELSE Goto("dialect")
    /\ UNCHANGED <<srcVars, aleo, values, walk, log, vmVars>>

WalkDialectLine ==
    /\ stage = "dialect"
    /\ walk # <<>> /\ walker.next <= DialectLast(source.bare, Head(walk))
    /\ walker' = [Walked(walker, source.bare, walker.next) EXCEPT !.next = @ + 1]
    /\ IF walker'.panics THEN End("panic") ELSE Goto("dialect")
    /\ UNCHANGED <<srcVars, aleo, values, walk, log, vmVars>>

EmitDialectFunction ==
    /\ stage = "dialect"
    /\ walk # <<>> /\ walker.next > DialectLast(source.bare, Head(walk))
    /\ log' = log \o DialectEvents(source.bare, Head(walk), walker)
    /\ walk' = Tail(walk)
    /\ walker' = StartAt(walk')
    /\ UNCHANGED <<srcVars, stage, aleo, values, outcome, vmVars>>

DialectEmitted ==
    /\ stage = "dialect"
    /\ walk = <<>>
    /\ End("recorded")
    /\ UNCHANGED <<srcVars, aleo, values, walk, walker, log, vmVars>>

----------------------------------------------------------------------------
(* The legacy walk *)

\* func_map: of functions with one name the last is kept.
LegacyFunctions ==
    {n \in 1 .. Len(leoFunctions) : \A j \in n + 1 .. Len(leoFunctions) :
        leoFunctions[j].name # leoFunctions[n].name}

\* find_return_call_target: a call, with or without arguments, of another
\* function.
ReturnCalls(n) ==
    LET f == leoFunctions[n]
    IN  IF f.return_line = 0 \/ text[f.return_line].expr.form # "call" THEN {}
        ELSE {m \in LegacyFunctions : /\ leoFunctions[m].name = text[f.return_line].expr.callee
                                      /\ leoFunctions[m].name # f.name}

\* Mutant: a function without a return has a step for it.
LegacyStepsUnguarded(n) ==
    LET f == leoFunctions[n]
    IN  [k \in 1 .. Len(f.bindings) |-> Step(f.bindings[k].line)] \o <<Step(f.return_line)>>

\* A step for every binding and for the return, without values: neither the
\* variables nor the source map are passed on.
LegacySteps(n) ==
    LET f == leoFunctions[n]
    IN  [k \in 1 .. Len(f.bindings) |-> Step(f.bindings[k].line)]
        \o (IF f.return_line = 0 THEN <<>> ELSE <<Step(f.return_line)>>)

Begun(n) == [fn |-> n, entered |-> ReturnCalls(n) = {}]

\* Whichever function the hash map yields first, if there is one.
ChooseLegacy ==
    /\ stage = "emit"
    /\ ~IsBareAleoDialect(text)
    /\ "main" \notin ByName /\ ~HasTransition
    /\ IF LegacyFunctions = {} THEN End("recorded") /\ UNCHANGED <<walk, log>>
       ELSE /\ Goto("legacy")
            /\ \E n \in LegacyFunctions : walk' = <<Begun(n)>> /\ log' = LegacySteps(n)
    /\ UNCHANGED <<srcVars, aleo, values, walker, vmVars>>

LegacyCall ==
    /\ stage = "legacy"
    /\ walk # <<>> /\ ~Last(walk).entered
    /\ \E m \in ReturnCalls(Last(walk).fn) :
        LET f == leoFunctions[m]
            args == [k \in 1 .. Len(f.parameters) |-> [reg |-> f.parameters[k], val |-> "NONE_VALUE"]]
        IN  /\ walk' = Append([walk EXCEPT ![Len(walk)].entered = TRUE], Begun(m))
            /\ log' = log \o <<CallOf(f.name, f.line, args)>> \o LegacySteps(m)
    /\ UNCHANGED <<srcVars, stage, aleo, values, walker, outcome, vmVars>>

\* Mutant: the return is left out when the callee has no return line.
LegacyReturnEvent(n) ==
    IF leoFunctions[n].return_line = 0 THEN <<>> ELSE <<Returns("NONE_VALUE")>>

LegacyReturned(n) == <<Returns("NONE_VALUE")>>

\* The entry has neither call nor return.
LegacyReturn ==
    /\ stage = "legacy"
    /\ walk # <<>> /\ Last(walk).entered
    /\ log' = IF Len(walk) = 1 THEN log ELSE log \o LegacyReturned(Last(walk).fn)
    /\ walk' = Front(walk)
    /\ UNCHANGED <<srcVars, stage, aleo, values, walker, outcome, vmVars>>

LegacyEmitted ==
    /\ stage = "legacy"
    /\ walk = <<>>
    /\ End("recorded")
    /\ UNCHANGED <<srcVars, aleo, values, walk, walker, log, vmVars>>

----------------------------------------------------------------------------

\* trace_program begins with parse_leo_functions; parse_leo_program reads the
\* same text again, and the imports, when the emission begins.
PipelineInit ==
    /\ source \in Sources
    /\ leoFunctions = ParseLeoFunctions(text)
    /\ leoProgram = ParseLeoProgram(text)
    /\ imported = UNION {Range(ParseLeoProgram(src).funcs) : src \in Range(source.imports)}
    /\ stage = "compile" /\ outcome = "running"
    /\ aleo = <<>> /\ values = <<>> /\ walk = <<>> /\ walker = StartAt(<<>>) /\ log = <<>>
    /\ prog = Recorded(<<>>)
    /\ given = <<>> /\ store = <<>> /\ results = <<>> /\ events = <<>> /\ hist = <<>>
    /\ stack = <<>> /\ status = "running"

Pipeline ==
    \/ CompileViaCli \/ CompileViaFallback \/ ParseAleo \/ BeginExecution
    \/ Execution \/ Executed \/ MapVariables
    \/ ChooseDialect \/ ChooseStructured \/ ChooseLegacy
    \/ WalkDialectLine \/ EmitDialectFunction \/ DialectEmitted
    \/ LegacyCall \/ LegacyReturn \/ LegacyEmitted

Ended == stage = "end" /\ UNCHANGED allVars

PipelineNext == Pipeline \/ Ended

\* One thread.
PipelineFairness == WF_allVars(PipelineNext)

PipelineSpec == PipelineInit /\ [][PipelineNext]_allVars /\ PipelineFairness


----------------------------------------------------------------------------
(* What a source declares, by its braces alone *)

Depth(src, i) == Net(src, 1, i - 1)

\* The lines from i to the one that closes what i opens.
Extent(src, i) ==
    i .. FirstIn({j \in i .. Len(src) : Net(src, 1, j) <= Depth(src, i) /\ Closed(src, i, j)}, Len(src))

LetExtent(src, i) == IF src[i].opens > src[i].closes THEN Extent(src, i) ELSE {i}

\* No function is on one line or in another one, and no brace in a comment.
WellLaid(src) ==
    \A i \in 1 .. Len(src) :
        /\ src[i].kind = "comment" => src[i].opens = 0 /\ src[i].closes = 0
        /\ src[i].kind \in Headers => /\ SignatureEnd(src, i) <= Len(src)
                                      /\ \A k \in i .. SignatureEnd(src, i) : ~Closed(src, i, k)
                                      /\ AtKinds(src, Headers) \cap Extent(src, i) = {i}

\* And every function ends, without a brace before its signature does, and
\* none is in a struct.
FunctionsWellLaid(src) ==
    /\ WellLaid(src)
    /\ \A i \in AtKinds(src, Headers) :
          /\ \A k \in i .. SignatureEnd(src, i) - 1 : src[k].opens = 0 /\ src[k].closes = 0
          /\ \E j \in i .. Len(src) : Closed(src, i, j)
    /\ \A i \in AtKinds(src, {"struct", "record"}) : AtKinds(src, Headers) \cap Extent(src, i) = {}

\* And every record has a name of its own and its brace on its first line, and
\* none is in a function or in another one.
RecordsWellLaid(src) ==
    LET records == AtKinds(src, {"record"})
        structs == AtKinds(src, {"struct", "record"})
    IN  /\ FunctionsWellLaid(src)
        /\ \A i \in records : src[i].opens = src[i].closes + 1
        /\ \A i \in records, j \in structs : src[i].name = src[j].name => i = j
        /\ \A i \in structs \cup AtKinds(src, Headers) : records \cap Extent(src, i) \subseteq {i}

\* And a statement's brace is on its line, a loop's last one stands alone, and
\* a let ends with its semicolon.
StatementsWellLaid(src) ==
    /\ FunctionsWellLaid(src)
    /\ \A i \in 1 .. Len(src) :
          /\ src[i].kind \in {"for", "if"} => src[i].opens > src[i].closes
          /\ src[i].kind = "for" => src[Max(Extent(src, i))].kind = "brace"
          /\ src[i].kind = "else" => src[i].closes > 0
          /\ src[i].kind = "let" => src[Max(LetExtent(src, i))].semi

\* The lines of S that are in an if of S or continue a let of S, and the loops
\* of S around line j.
InnerLines(src, S) ==
    {j \in S : \E k \in S : \/ src[k].kind = "if" /\ j \in Extent(src, k)
                            \/ src[k].kind = "let" /\ j \in LetExtent(src, k) \ {k}}

LoopsAround(src, S, j) == {k \in S : src[k].kind = "for" /\ k < j /\ j \in Extent(src, k)}

StatesOne(src, i) ==
    \/ src[i].kind \in {"for"} \cup OneLine
    \/ src[i].kind = "let" /\ src[i].typed
    \/ src[i].kind \in {"expr", "text"} /\ src[i].semi

StatementLines(src, S) == {j \in S \ InnerLines(src, S) : StatesOne(src, j)}

\* The statements written in lines S, of a block in loop `loop`.
StatementAt(src, S, loop, j) ==
    [kind |-> src[j].kind, line |-> j,
     loop |-> IF LoopsAround(src, S, j) = {} THEN loop ELSE Max(LoopsAround(src, S, j))]

StatementsIn(src, S, loop) ==
    LET at == Select(Numbers(src), StatementLines(src, S))
    IN  [n \in 1 .. Len(at) |-> StatementAt(src, S, loop, at[n])]

\* And in function f.
Written(src, f) == StatementsIn(src, {i \in Extent(src, f.line) : i > SignatureEnd(src, f.line)}, 0)

----------------------------------------------------------------------------
(* Properties of the text *)

\* Two parsers read every source, and the emission mixes what they find.  Both,
\* and the two of the other modules, find the functions that are there, with
\* their lines and parameters.
ParsersFindTheFunctions ==
    stage = "compile" /\ FunctionsWellLaid(text) =>
        LET at == LinesOf(text, 1 .. Len(text), Headers)
            plain == LinesOf(text, 1 .. Len(text), {"function", "transition"})
            ls == leoFunctions
            ps == leoProgram.funcs
            infos == ParseLeoFunctionInfo(text)
            ts == ParseTransitions(text)
        IN  /\ Len(ls) = Len(at) /\ Len(ps) = Len(at)
            /\ \A n \in 1 .. Len(at) :
                  /\ ls[n].line = at[n] /\ ps[n].line = at[n]
                  /\ ls[n].body_end_line = Max(Extent(text, at[n]))
                  /\ ps[n].body_end_line = ls[n].body_end_line
                  /\ ps[n].parameters = ls[n].parameters
                  /\ ps[n].is_transition = ls[n].is_transition
                  /\ FirstReturn(ps[n].body) <= ls[n].return_line
            /\ Len(infos) = Len(plain) /\ Len(ts) = Len(plain)
            /\ \A n \in 1 .. Len(plain) : infos[n].name = text[plain[n]].name /\ ts[n].line = plain[n]

\* Every statement outside an if is there once, in order, and in the body of
\* the loop it is written in.
StatementsWhereWritten ==
    stage = "compile" /\ StatementsWellLaid(text) =>
        \A n \in 1 .. Len(leoProgram.funcs) :
            leoProgram.funcs[n].body = Written(text, leoProgram.funcs[n])

\* The two parsers of records agree: what the one finds is what the other
\* knows by a record's name.
RecordParsersAgree ==
    stage = "compile" /\ RecordsWellLaid(text) =>
        LET names == {text[i].name : i \in AtKinds(text, {"record"})}
        IN  Range(ParseRecordTypes(text)) = {d \in leoProgram.structs : d.name \in names}

\* tracer.rs:3555 skips the body of an if so that its contents are not
\* parsed as statements of the function.
IfBodiesSkipped ==
    stage = "compile" =>
        \A n \in 1 .. Len(leoProgram.funcs) :
            LET body == leoProgram.funcs[n].body
            IN  \A k \in 1 .. Len(body) :
                    ~\E i \in AtKinds(text, {"if", "else"}) : body[k].line \in Extent(text, i) \ {i}

----------------------------------------------------------------------------
(* Properties of the fallback and of the source map *)

ByFallback == aleo # <<>> /\ aleo # source.cli

\* How a leaf is written: a minus stands before a negative number.
WritesLeaf(tokens, a) ==
    IF "literal" \in DOMAIN a /\ a.literal < 0
    THEN Len(tokens) = 2 /\ IsOperator(tokens[1]) /\ tokens[1].op = "sub" /\ tokens[2] = [literal |-> -a.literal]
    ELSE tokens = <<a>>

\* What an operand of binding k may be: an i64 number or an earlier binding.
LeavesAt(f, k) == [literal : Payload] \cup [name : {f.bindings[j].name : j \in 1 .. k - 1}]

IsLeaf(e, leaves) == e.term \in leaves /\ WritesLeaf(e.tokens, e.term)

IsOperation(e, leaves) ==
    LET n == Len(e.tokens)
    IN  /\ "op" \in DOMAIN e.term /\ e.term.op \in Operators
        /\ e.term.left \in leaves /\ e.term.right \in leaves
        /\ n > 2 /\ IsOperator(e.tokens[n - 1]) /\ e.tokens[n - 1].op = e.term.op
        /\ WritesLeaf(SubSeq(e.tokens, 1, n - 2), e.term.left)
        /\ WritesLeaf(SubSeq(e.tokens, n, n), e.term.right)

\* Every binding is a leaf or one operation on leaves, written as it is meant,
\* with no sign behind the operator.
Simple(src, f) ==
    \A k \in 1 .. Len(f.bindings) :
        LET e == src[f.bindings[k].line].expr
        IN  e.form = "arith" /\ (IsLeaf(e, LeavesAt(f, k)) \/ IsOperation(e, LeavesAt(f, k)))

LeafValue(env, a) == IF "literal" \in DOMAIN a THEN a.literal ELSE env[a.name]

FailsAt(env, e) == "op" \in DOMAIN e /\ e.op = "div" /\ LeafValue(env, e.right) = 0

ExprValue(env, e) ==
    IF "op" \notin DOMAIN e THEN LeafValue(env, e)
    ELSE IF FailsAt(env, e) THEN 0
    ELSE Binary(e.op, LeafValue(env, e.left), LeafValue(env, e.right))

\* The variables after the first k bindings of f, without registers.
Environment(src, f, k) ==
    LET env[n \in 0 .. k] ==
            IF n = 0 THEN <<>>
            ELSE Insert(env[n - 1], f.bindings[n].name,
                        ExprValue(env[n - 1], src[f.bindings[n].line].expr.term))
    IN  env[k]

\* Binding k of f divides by zero.
FailsIn(src, f, k) == FailsAt(Environment(src, f, k - 1), src[f.bindings[k].line].expr.term)

\* What the fallback's program computes, read back from its registers, are the
\* values of the source's bindings, where no other function has the name of the
\* function or of the variable; and it fails only where a binding divides by
\* zero.
FallbackAgreesWithSource ==
    ByFallback =>
        LET ran == {n \in 1 .. Len(leoFunctions) : leoFunctions[n].name \in DOMAIN results}
            binds(n, x) == \E k \in 1 .. Len(leoFunctions[n].bindings) :
                               leoFunctions[n].bindings[k].name = x
            alone(n, x) == \A m \in ran \ {n} : ~binds(m, x)
            namesake(n) == \E m \in 1 .. Len(leoFunctions) \ {n} :
                               leoFunctions[n].name \in {leoFunctions[m].name, leoFunctions[m].aleo}
        IN  /\ stage = "emit" =>
                  \A n \in ran :
                      LET f == leoFunctions[n]
                          env == Environment(text, f, Len(f.bindings))
                      IN  Simple(text, f) /\ ~namesake(n) => \A x \in DOMAIN env :
                              alone(n, x) => x \in DOMAIN values /\ values[x] = env[x]
            /\ outcome = "avm_runtime_error" /\ (\A n \in 1 .. Len(leoFunctions) : Simple(text, leoFunctions[n]))
                   => \E n \in 1 .. Len(leoFunctions) :
                          \E k \in 1 .. Len(leoFunctions[n].bindings) : FailsIn(text, leoFunctions[n], k)

\* An instruction the fallback generated resolves to the line of the binding
\* whose register it sets.
SourceMapExact ==
    ByFallback /\ stage = "parse" =>
        \A n \in 1 .. Len(leoFunctions) :
            LET f == leoFunctions[n]
                inline == \A k \in 1 .. Len(f.bindings) : text[f.bindings[k].line].expr.form # "none"
                async == text[f.line].kind \in {"async function", "async transition"}
                namesake == \E m \in 1 .. Len(leoFunctions) \ {n} :
                                f.name \in {leoFunctions[m].name, leoFunctions[m].aleo}
            IN  WellLaid(text) /\ inline /\ ~async /\ ~namesake /\ f.aleo = f.name =>
                    /\ \A k \in 1 .. Len(f.bindings) :
                           ResolveLine(text, aleo, f.name, k) = f.bindings[k].line
                    /\ ResolveLine(text, aleo, f.name, Len(f.bindings) + 1) = 0

----------------------------------------------------------------------------
(* Properties of the emissions *)

CallsAfter(open, e) ==
    CASE e.ev = "call"   -> Append(open, e)
      [] e.ev = "return" -> IF open = <<>> THEN <<[ev |-> "none"]>> ELSE Front(open)
      [] OTHER -> open

\* The calls in progress after the first k entries of a log, innermost last.
OpenCalls(es, k) ==
    LET upTo[n \in 0 .. k] == IF n = 0 THEN <<>> ELSE CallsAfter(upTo[n - 1], es[n])
    IN  upTo[k]

\* In the legacy walk a step lies in the function whose call is open, a call is
\* made by the return of the function it is nested in, and at the end all
\* calls are closed.
LegacyWalkNests ==
    stage = "legacy" \/ (stage = "end" /\ ~IsBareAleoDialect(text)) =>
        LET named(x) == {n \in LegacyFunctions : leoFunctions[n].name = x}
            opened(k) == OpenCalls(log, k)
            entry == {n \in LegacyFunctions : log[1].line \in Extent(text, leoFunctions[n].line)}
            inside(k) == LET o == opened(k) IN IF o = <<>> THEN entry ELSE named(Last(o).fn)
        IN  /\ \A k \in 1 .. Len(log) :
                  /\ log[k].ev = "step" =>
                         \E n \in inside(k) : log[k].line \in Extent(text, leoFunctions[n].line)
                  /\ log[k].ev = "call" =>
                         \E n \in inside(k - 1) :
                             /\ k > 1 /\ log[k - 1] = Step(leoFunctions[n].return_line)
                             /\ text[leoFunctions[n].return_line].expr.callee = log[k].fn
            /\ outcome = "recorded" => opened(Len(log)) = <<>>

\* The lines of the function at line i of a bare source, and the register that
\* a line sets.
DialectBlock(lines, i) == i + 1 .. DialectLast(lines, i)

RegistersSet(l) ==
    CASE l.kind = "input" -> {l.reg}
      [] l.kind = "cast"  -> {l.dest}
      [] l.kind = "code"  -> {l.instr.dest}
      [] OTHER -> {}

\* Its instructions have two operands, and its inputs come before them and are
\* not set again.
Regular(lines, i) ==
    LET block == DialectBlock(lines, i)
    IN  /\ \A k \in block : lines[k].kind = "code" => "src1" \in DOMAIN lines[k].instr
        /\ \A j, k \in block : lines[j].kind = "input" /\ j # k =>
               /\ lines[j].reg \notin RegistersSet(lines[k])
               /\ lines[k].kind \in {"code", "cast"} => j < k

LastCall(es, k) == Max({m \in 1 .. k : es[m].ev = "call"})

\* The value last shown of operand o, between the call that entry k lies in
\* and entry k.
LastShown(es, k, o) ==
    IF "literal" \in DOMAIN o THEN o.literal
    ELSE LET ms == {m \in LastCall(es, k) .. k - 1 : es[m].ev = "var" /\ es[m].reg = o.reg}
         IN  IF ms = {} THEN 0 ELSE es[Max(ms)].val.value

\* Entry k shows what line l makes of the values last shown.
ShownRight(l, es, k) ==
    LET v == es[k].val
    IN  /\ l.kind = "code" =>
               /\ es[k].reg = l.instr.dest
               /\ v.value = DialectBinary(l.instr.op, LastShown(es, k, l.instr.src1),
                                          LastShown(es, k, l.instr.src2), v.type)
        /\ l.kind = "cast" =>
               /\ es[k].reg = l.dest
               /\ v.value = TruncateToType(LastShown(es, k, l.src), l.type)
        /\ l.kind = "output" =>
               es[k].reg = l.reg /\ v.value = LastShown(es, k, [reg |-> l.reg])

DialectShows(lines, es) ==
    \A k \in 1 .. Len(es) :
        Regular(lines, es[LastCall(es, k)].line) /\ es[k].ev = "var" /\ es[k - 1].ev = "step" =>
            ShownRight(lines[es[k - 1].line], es, k)

\* In a regular function of a bare source every value shown on an
\* instruction's line is what the instruction makes of the values last shown
\* of its operands: the arguments are shown first although they are read from
\* the registers when the whole function has been walked.
DialectSelfConsistent ==
    stage = "dialect" \/ (stage = "end" /\ IsBareAleoDialect(text)) => DialectShows(source.bare, log)

\* The variables hold what the code's types allow.
PipelineTypeOK ==
    /\ TypeOK
    /\ \A x \in DOMAIN values : values[x] \in Int64
    /\ outcome \in {"running", "recorded", "leo_compile_error", "avm_runtime_error", "panic"}
    /\ \A k \in 1 .. Len(log) : log[k].ev = "step" => log[k].line \in 1 .. Len(text)

\* A source whose functions do not call each other in a circle is dealt with.
Finishes == <>(stage = "end")

=============================================================================
