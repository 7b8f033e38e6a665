------------------------------ MODULE LeoText ------------------------------
(***************************************************************************)
(* A Leo source as its lines, and what the six line scanners of the code   *)
(* make of it: parse_leo_functions, parse_leo_program with parse_block and *)
(* collect_imports (tracer.rs), parse_leo_function_info (source_map.rs),   *)
(* parse_transitions and parse_record_types (transition.rs).               *)
(*                                                                         *)
(* A line is what the scanners tell apart: its first word, how many braces *)
(* it opens and closes, whether it ends with a semicolon, and the shape of *)
(* the expression it states.  A let over several lines is a "let" and      *)
(* "text" lines.  Braces in comments count, as they do for the scanners.   *)
(***************************************************************************)
EXTENDS Integers, Sequences, SequencesExt, FiniteSetsExt, Selection

Headers == {"function", "transition", "async function", "async transition"}

LeoLineKinds == Headers \cup
    {"blank", "comment", "brace", "program", "import", "struct", "record", "field", "params",
     "for", "if", "else", "let", "assign", "assert", "assert_eq", "return", "expr", "text"}

IsLeoLine(l) ==
    /\ l.kind \in LeoLineKinds
    /\ l.opens \in Nat /\ l.closes \in Nat /\ l.semi \in BOOLEAN

LinesOf(src, S, kinds) == Select(Numbers(src), {i \in S : src[i].kind \in kinds})

----------------------------------------------------------------------------
(* Braces *)

\* The braces left open by lines i .. j.
Net(src, i, j) ==
    LET n[k \in i - 1 .. j] == IF k < i THEN 0 ELSE n[k - 1] + src[k].opens - src[k].closes
    IN  n[j]

\* A block has begun and ended.
Closed(src, i, j) == Net(src, i, j) <= 0 /\ \E k \in i .. j : src[k].opens > 0

FirstIn(S, default) == IF S = {} THEN default ELSE Min(S)

\* Mutant: the body runs to the last line that closes it.
BodyEndLate(src, k) ==
    LET ends == {j \in k + 1 .. Len(src) : Closed(src, k, j)}
    IN  IF k > Len(src) \/ Closed(src, k, k) THEN k + 1
        ELSE IF ends = {} THEN Len(src) + 1 ELSE Max(ends)

\* The line at which a scanner that counts from line k on stops: a body that
\* ends on line k takes the next line with it.
BodyEnd(src, k) ==
    IF k > Len(src) \/ Closed(src, k, k) THEN k + 1
    ELSE FirstIn({j \in k + 1 .. Len(src) : Closed(src, k, j)}, Len(src) + 1)

Body(src, k) ==
    IF k > Len(src) \/ Closed(src, k, k) THEN {} ELSE {j \in k + 1 .. BodyEnd(src, k) : j <= Len(src)}

\* The lines a scanner looks at that goes on, from a line i of `at`, at
\* resume[i], and from any other at the next.
Visited(src, at, resume) ==
    LET pos[n \in 0 .. Len(src)] ==
            IF n = 0 THEN 1
            ELSE LET i == pos[n - 1] IN IF i \in at THEN resume[i] ELSE i + 1
    IN  {pos[n] : n \in 0 .. Len(src)}

Reached(src, at, resume) == Select(Numbers(src), at \cap Visited(src, at, resume))

AtKinds(src, kinds) == {i \in 1 .. Len(src) : src[i].kind \in kinds}

----------------------------------------------------------------------------
(* Functions, as parse_leo_functions and parse_leo_function_info see them *)

\* The line on which the parameter list is closed.
SignatureEnd(src, i) ==
    IF src[i].sig = "whole" THEN i
    ELSE FirstIn({k \in i + 1 .. Len(src) : src[k].kind = "params" /\ src[k].sig = "close"},
                 Len(src) + 1)

ParameterList(src, i) ==
    LET ks == LinesOf(src, {k \in i .. SignatureEnd(src, i) : k <= Len(src)}, Headers \cup {"params"})
    IN  FlattenSeq([n \in 1 .. Len(ks) |-> src[ks[n]].params])

\* A let without a type is no binding.
LeoBindings(src, S) ==
    LET ls == LinesOf(src, {i \in S : src[i].kind = "let" => src[i].typed}, {"let"})
    IN  [n \in 1 .. Len(ls) |-> [name |-> src[ls[n]].name, line |-> ls[n]]]

IsTransition(l) == l.kind \in {"transition", "async transition"}

\* return_line and body_end_line are 0 where the code has None.
LeoFunctionDef(src, i) ==
    LET body == Body(src, i)
        returns == {j \in body : src[j].kind = "return"}
    IN  [name |-> src[i].name, aleo |-> src[i].trimmed, is_transition |-> IsTransition(src[i]),
         line |-> i, parameters |-> ParameterList(src, i), bindings |-> LeoBindings(src, body),
         return_line |-> IF returns = {} THEN 0 ELSE Max(returns),
         body_end_line |-> IF BodyEnd(src, i) \in body THEN BodyEnd(src, i) ELSE 0]

ParseLeoFunctions(src) ==
    LET heads == AtKinds(src, Headers)
        at == Reached(src, heads, [i \in heads |-> BodyEnd(src, i) + 1])
    IN  [n \in 1 .. Len(at) |-> LeoFunctionDef(src, at[n])]

\* It does not know async.
ParseLeoFunctionInfo(src) ==
    LET heads == AtKinds(src, {"function", "transition"})
        at == Reached(src, heads, [i \in heads |-> BodyEnd(src, i) + 1])
    IN  [n \in 1 .. Len(at) |-> [name |-> src[at[n]].name, bindings |-> LeoBindings(src, Body(src, at[n]))]]

\* Up to the parenthesis, or the colon of a `function NAME:`.
DeclaredName(l) == IF l.colon THEN l.trimmed ELSE l.name

\* Every declaration, wherever it is, with the parameters on its own line.
ParseTransitions(src) ==
    LET at == LinesOf(src, 1 .. Len(src), {"function", "transition"})
    IN  [n \in 1 .. Len(at) |->
            [name |-> DeclaredName(src[at[n]]), is_transition |-> IsTransition(src[at[n]]), line |-> at[n],
             params |-> IF src[at[n]].sig = "whole" THEN src[at[n]].params ELSE <<>>]]

CollectImports(src) ==
    LET at == LinesOf(src, 1 .. Len(src), {"import"}) IN [n \in 1 .. Len(at) |-> src[at[n]].name]

----------------------------------------------------------------------------
(* Statements *)

\* The line that ends what line i opens, or the one after the last.
BlockEnd(src, i, last) == FirstIn({e \in i .. last : Net(src, i, e) <= 0}, last + 1)

\* A let goes on to a line that ends with a semicolon.
LetEnd(src, i, last) ==
    FirstIn({e \in i .. last : Net(src, i, e) <= 0 /\ src[e].semi}, last + 1)

\* Mutant: the loop's closing line is looked for from the line after it.
ForEndLate(src, i, last) == FirstIn({e \in i + 1 .. last : Net(src, i + 1, e) <= 0}, last + 1)

ForEnd(src, i, last) == BlockEnd(src, i, last)

OneLine == {"assign", "assert", "assert_eq", "return"}

\* The statements of the lines first .. end, in order.  `loop` is the line of
\* the for statement whose body holds the statement, 0 if none does.
ParseBlock(src, first, end) ==
    LET lines == 0 .. Len(src)
        block[b \in [at : 1 .. Len(src) + 2, last : lines, loop : lines]] ==
            LET i == b.at
                kind == src[i].kind
                stmt == <<[kind |-> kind, line |-> i, loop |-> b.loop]>>
                from(k) == block[[at |-> k, last |-> b.last, loop |-> b.loop]]
                inside(e) == block[[at |-> i + 1, last |-> e - 1, loop |-> i]]
            IN  IF i > b.last THEN <<>>
                ELSE CASE kind = "for" ->
                            LET e == ForEnd(src, i, b.last) IN stmt \o inside(e) \o from(e + 1)
                       [] kind = "if" -> from(BlockEnd(src, i, b.last) + 1)
                       [] kind = "let" ->
                            (IF src[i].typed THEN stmt ELSE <<>>) \o from(LetEnd(src, i, b.last) + 1)
                       [] kind \in OneLine \/ (kind \in {"expr", "text"} /\ src[i].semi) ->
                            stmt \o from(i + 1)
                       [] OTHER -> from(i + 1)
    IN  block[[at |-> first, last |-> end, loop |-> 0]]

\* The return the emission steps to, 0 if there is none.
FirstReturn(stmts) ==
    LET returns == {k \in 1 .. Len(stmts) : stmts[k].kind = "return"}
    IN  IF returns = {} THEN 0 ELSE stmts[Min(returns)].line

----------------------------------------------------------------------------
(* Programs and records *)

\* The line of the brace that closes a struct.
StructEnd(src, i) == FirstIn({j \in i .. Len(src) : Closed(src, i, j)}, Len(src) + 1)

Fields(src, S) ==
    LET at == LinesOf(src, S, {"field"}) IN [n \in 1 .. Len(at) |-> src[at[n]].name]

\* `program X.aleo {`: what ends with a semicolon names no program.
NamesProgram(l) == l.kind = "program" /\ ~l.semi

LeoFunc(src, i, program) ==
    LET k == SignatureEnd(src, i)
        body == Body(src, k)
    IN  [name |-> src[i].name, is_transition |-> IsTransition(src[i]), line |-> i,
         body_end_line |-> IF body = {} THEN k ELSE Max(body),
         parameters |-> ParameterList(src, i),
         body |-> IF body = {} THEN <<>> ELSE ParseBlock(src, k + 1, Max(body)),
         program_name |-> program]

\* Of structs with one name, as of functions, the last is kept.
ParseLeoProgram(src) ==
    LET items == AtKinds(src, Headers \cup {"program", "struct", "record"})
        resume == [i \in items |->
                      CASE src[i].kind \in Headers -> BodyEnd(src, SignatureEnd(src, i)) + 1
                        [] src[i].kind = "program" -> i + 1
                        [] OTHER -> StructEnd(src, i) + 1]
        at == Reached(src, items, resume)
        programs == {i \in Range(at) : NamesProgram(src[i])}
        current(i) == IF \E p \in programs : p < i THEN src[Max({p \in programs : p < i})].name
                      ELSE "None"
        heads == Select(at, AtKinds(src, Headers))
        structs == {i \in Range(at) : src[i].kind \in {"struct", "record"}}
        kept == {i \in structs : \A j \in structs : src[j].name = src[i].name => j <= i}
    IN  [funcs |-> [n \in 1 .. Len(heads) |-> LeoFunc(src, heads[n], current(heads[n]))],
         structs |-> {[name |-> src[i].name,
                       fields |-> Fields(src, i + 1 .. StructEnd(src, i) - 1)] : i \in kept}]

\* Mutant: the brace on the record's own line is not counted.
RecordEndBraceless(src, i) ==
    FirstIn({j \in i + 1 .. Len(src) : Net(src, i + 1, j) <= 0}, Len(src) + 1)

\* A record on one line takes the lines after it with it, up to the next brace
\* too many.
RecordEnd(src, i) ==
    LET depth(j) == (IF src[i].opens > 0 THEN 1 ELSE 0) + Net(src, i + 1, j)
    IN  FirstIn({j \in i + 1 .. Len(src) : depth(j) <= 0}, Len(src) + 1)

ParseRecordTypes(src) ==
    LET records == AtKinds(src, {"record"})
        at == Reached(src, records, [i \in records |-> RecordEnd(src, i) + 1])
    IN  [n \in 1 .. Len(at) |->
            [name |-> src[at[n]].name, fields |-> Fields(src, at[n] + 1 .. RecordEnd(src, at[n]) - 1)]]

\* `program X.aleo;` and `function NAME:`
IsBareAleoDialect(src) ==
    /\ \E i \in 1 .. Len(src) : src[i].kind = "program" /\ src[i].semi
    /\ \E i \in 1 .. Len(src) : src[i].kind = "function" /\ src[i].colon

=============================================================================
