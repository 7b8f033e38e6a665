----------------------- MODULE RecordingSessionProofs -----------------------
(***************************************************************************)
(* A record command implements RecordOutcome, a failure that is not one of *)
(* the file system leaves a complete error trace, a complete bundle is     *)
(* readable, and imports neither displace a function nor take its steps:   *)
(* for every file, import and function there may be.                       *)
(***************************************************************************)
EXTENDS RecordingSession, SelectionProofs

----------------------------------------------------------------------------
(* The inductive invariant *)

WriterFields == {"state", "table", "depth", "log", "events", "refused"}

BeforeWriter == {"canonicalize", "create_out_dir", "read", "compile", "execute", "prepare", "open"}

WhileOpen == {"register", "start", "error_event", "parse", "imports", "emit",
              "close_toplevel", "finish"}

Stages == BeforeWriter \cup WhileOpen \cup {"write_meta", "close", "exited"}

\* The writer's state follows the stage.
WriterOK ==
    /\ DOMAIN writer = WriterFields
    /\ stage \in BeforeWriter => writer.state = "none"
    /\ stage \in WhileOpen => writer.state = "open"
    /\ stage = "write_meta" => writer.state = "finished"
    /\ stage = "close" => writer.state = "described"

\* The command runs until it exits, and only when recording is not disabled
\* does it get beyond its first check.
ExitOK ==
    /\ exit \in {"running", "ok", "err", "panic"}
    /\ exit = "running" <=> stage # "exited"
    /\ stage \notin {"canonicalize", "exited"} => ~input.disabled

\* The one event of an error trace is written between start and the return of
\* <toplevel>, on a path of stages of its own.
ErrorTraceOK ==
    /\ kind \in {"program", "error"}
    /\ kind = "error" => tag # "none" /\ stage \notin {"parse", "imports", "emit"}
    /\ stage \in {"canonicalize", "create_out_dir", "read", "compile", "execute"}
           => kind = "program"
    /\ stage \in BeforeWriter \cup {"register", "start", "error_event"} => writer.events = <<>>
    /\ kind = "error" /\ stage \in {"close_toplevel", "finish", "write_meta", "close"}
           => writer.events = <<tag>>

SessionInv ==
    /\ input \in Inputs
    /\ stage \in Stages
    /\ WriterOK
    /\ ExitOK
    /\ ErrorTraceOK
    /\ FailureLeavesErrorTrace

\* Steps and registrations leave the rest of the writer alone.
LEMMA WriterKept ==
    ASSUME NEW w, DOMAIN w = WriterFields, NEW steps, NEW p, NEW text, NEW d
    PROVE  LET s == WithSteps(w, steps)
               r == WithPath(w, p, text)
               e == [s EXCEPT !.depth = d]
           IN  /\ DOMAIN s = WriterFields /\ s.state = w.state /\ s.events = w.events
               /\ DOMAIN r = WriterFields /\ r.state = w.state /\ r.events = w.events
               /\ DOMAIN e = WriterFields /\ e.state = w.state /\ e.events = w.events
  BY DEF WithSteps, WithPath, WriterFields

\* What most actions do to the writer.
Kept == DOMAIN writer' = WriterFields /\ writer'.state = writer.state /\ writer'.events = writer.events

LEMMA EmissionKeeps ==
    ASSUME SessionInv, Start \/ RegisterSource \/ LoadImport \/ EmitCall \/ EmitReturn \/ CloseToplevel
    PROVE  Kept
  <1>1. DOMAIN writer = WriterFields
    BY DEF SessionInv, WriterOK
  <1>2. CASE Start
    BY <1>1, <1>2, WriterKept DEF Start, Kept
  <1>3. CASE RegisterSource
    BY <1>1, <1>3, WriterKept DEF RegisterSource, Register, Kept
  <1>4. CASE LoadImport
    BY <1>1, <1>4, WriterKept DEF LoadImport, Register, Kept
  <1>5. CASE EmitCall
    <2> DEFINE f == Head(todo).fn
               w == WithSteps(writer, <<StepIn(f, f.decl.line)>>)
    <2>1. writer' = IF Head(todo).entry THEN writer ELSE [w EXCEPT !.depth = w.depth + 1]
      BY <1>5, Zenon DEF EmitCall
    <2>2. DOMAIN w = WriterFields /\ w.state = writer.state /\ w.events = writer.events
      BY <1>1, WriterKept
    <2> HIDE DEF w
    <2> QED BY <1>1, <2>1, <2>2 DEF Kept, WriterFields
  <1>6. CASE EmitReturn
    <2>1. PICK steps, d : writer' = [WithSteps(writer, steps) EXCEPT !.depth = d]
      BY <1>6, Zenon DEF EmitReturn
    <2> QED BY <1>1, <2>1, WriterKept DEF Kept
  <1>7. CASE CloseToplevel
    BY <1>1, <1>7 DEF CloseToplevel, Kept, WriterFields
  <1> QED BY <1>2, <1>3, <1>4, <1>5, <1>6, <1>7

----------------------------------------------------------------------------
(* The invariant *)

LEMMA InitSession == Init => SessionInv
  BY DEF Init, SessionInv, WriterOK, ExitOK, ErrorTraceOK, FailureLeavesErrorTrace, NoWriter,
         WriterFields, BeforeWriter, WhileOpen, Stages

\* A step that stays within the command and does not touch its trace's kind.
LEMMA StageMoves ==
    ASSUME SessionInv, Kept, stage # "exited", UNCHANGED <<input, kind, tag, exit, ioFailed>>,
           \/ /\ stage \in BeforeWriter \ {"execute", "open"}
              /\ stage' \in BeforeWriter
              /\ stage' \in {"canonicalize", "create_out_dir", "read", "compile", "execute"}
                     => kind = "program"
           \/ stage = "execute" /\ stage' = "prepare"
           \/ stage = "register" /\ stage' = "start"
           \/ stage = "start" /\ stage' = (IF kind = "error" THEN "error_event" ELSE "parse")
           \/ stage \in {"parse", "imports", "emit"} /\ stage' \in {"imports", "emit", "close_toplevel"}
           \/ stage = "close_toplevel" /\ stage' = "finish",
           stage # "canonicalize" \/ ~input.disabled
    PROVE  SessionInv'
  <1>1. WriterOK'
    BY DEF SessionInv, WriterOK, Kept, BeforeWriter, WhileOpen
  <1>2. ExitOK'
    BY DEF SessionInv, ExitOK, BeforeWriter
  <1>3. ErrorTraceOK'
    <2>1. kind' = kind /\ tag' = tag /\ writer'.events = writer.events
      BY DEF Kept
    <2>2. ErrorTraceOK
      BY DEF SessionInv
    <2> QED BY <2>1, <2>2 DEF ErrorTraceOK, BeforeWriter
  <1>4. FailureLeavesErrorTrace'
    BY DEF SessionInv, ExitOK, FailureLeavesErrorTrace
  <1>5. stage' \in Stages
    BY DEF Stages, BeforeWriter, WhileOpen
  <1> QED BY <1>1, <1>2, <1>3, <1>4, <1>5 DEF SessionInv

\* The command ends; its trace is not touched.
LEMMA CommandExits ==
    ASSUME SessionInv, stage # "exited", UNCHANGED <<input, kind, tag, writer>>,
           stage' = "exited", exit' \in {"ok", "err", "panic"},
           exit' = "err" => Source.status # "readable" \/ ioFailed' \/ writer.refused
    PROVE  SessionInv'
  <1>1. WriterOK' /\ ExitOK' /\ ErrorTraceOK'
    BY DEF SessionInv, WriterOK, ExitOK, ErrorTraceOK, BeforeWriter, WhileOpen
  <1>2. FailureLeavesErrorTrace'
    BY DEF FailureLeavesErrorTrace, Source
  <1> QED BY <1>1, <1>2 DEF SessionInv, Stages

LEMMA KeptUnchanged == ASSUME SessionInv, UNCHANGED writer PROVE Kept
  BY DEF SessionInv, WriterOK, Kept

\* The stages before the writer exists.
LEMMA EarlyStages ==
    ASSUME SessionInv, Canonicalize \/ CreateOutDir \/ ReadSource \/ Compile \/ ExecuteAleo \/ Prepare
    PROVE  SessionInv'
  <1>1. Kept
    BY KeptUnchanged DEF Canonicalize, CreateOutDir, ReadSource, Compile, ExecuteAleo, Prepare, Untouched
  <1>2. CASE Canonicalize
    <2>1. CASE Source.status = "missing"
      BY <1>2, <2>1, CommandExits DEF Canonicalize, Exit, Untouched
    <2>2. CASE Source.status # "missing" /\ input.disabled
      BY <1>2, <2>2, CommandExits DEF Canonicalize, Exit, Untouched
    <2>3. CASE Source.status # "missing" /\ ~input.disabled
      <3>1. stage = "canonicalize" /\ stage' = "create_out_dir" /\ UNCHANGED exit
        BY <1>2, <2>3 DEF Canonicalize, Goto
      <3>2. UNCHANGED <<input, kind, tag, ioFailed>>
        BY <1>2 DEF Canonicalize, Untouched
      <3> QED BY <1>1, <2>3, <3>1, <3>2, StageMoves DEF SessionInv, ErrorTraceOK, BeforeWriter
    <2> QED BY <2>1, <2>2, <2>3
  <1>3. CASE CreateOutDir
    BY <1>1, <1>3, StageMoves DEF CreateOutDir, Goto, Untouched, SessionInv, ErrorTraceOK, ExitOK, BeforeWriter
  <1>4. CASE ReadSource
    <2>1. CASE Source.status = "readable"
      BY <1>1, <1>4, <2>1, StageMoves
         DEF ReadSource, Goto, Untouched, SessionInv, ErrorTraceOK, ExitOK, BeforeWriter
    <2>2. CASE Source.status # "readable"
      BY <1>4, <2>2, CommandExits DEF ReadSource, Exit, Untouched
    <2> QED BY <2>1, <2>2
  <1>5. CASE Compile
    BY <1>1, <1>5, StageMoves DEF Compile, Goto, Untouched, SessionInv, ErrorTraceOK, ExitOK, BeforeWriter
  <1>6. CASE ExecuteAleo
    BY <1>1, <1>6, StageMoves DEF ExecuteAleo, Goto, Untouched, SessionInv, ExitOK
  <1>7. CASE Prepare
    BY <1>1, <1>7, StageMoves DEF Prepare, Goto, Untouched, SessionInv, ExitOK, BeforeWriter
  <1> QED BY <1>2, <1>3, <1>4, <1>5, <1>6, <1>7

\* The stages that write, up to the return of <toplevel>.
LEMMA WritingStages ==
    ASSUME SessionInv,
           \/ RegisterSource \/ Start \/ ParseProgram \/ SkipImport \/ LoadImport \/ BeginEmission
           \/ EmitCall \/ EmitReturn \/ EndEmission \/ CloseToplevel
    PROVE  SessionInv'
  <1>1. Kept
    <2>1. CASE ParseProgram \/ SkipImport \/ BeginEmission \/ EndEmission
      BY <2>1, KeptUnchanged DEF ParseProgram, SkipImport, BeginEmission, EndEmission, Untouched
    <2> QED BY <2>1, EmissionKeeps
  <1>2. UNCHANGED <<input, kind, tag, exit, ioFailed>>
    BY DEF RegisterSource, Start, ParseProgram, SkipImport, LoadImport, BeginEmission,
           EmitCall, EmitReturn, EndEmission, CloseToplevel, Goto, Untouched
  <1>3. \/ stage = "register" /\ stage' = "start"
        \/ stage = "start" /\ stage' = (IF kind = "error" THEN "error_event" ELSE "parse")
        \/ stage \in {"parse", "imports", "emit"} /\ stage' \in {"imports", "emit", "close_toplevel"}
        \/ stage = "close_toplevel" /\ stage' = "finish"
    BY DEF RegisterSource, Start, ParseProgram, SkipImport, LoadImport, BeginEmission,
           EmitCall, EmitReturn, EndEmission, CloseToplevel, Goto
  <1>4. ~input.disabled
    BY <1>3 DEF SessionInv, ExitOK
  <1> QED BY <1>1, <1>2, <1>3, <1>4, StageMoves

\* A failure of the compiler or of the AVM turns to the error trace.
LEMMA ErrorTraceBegins ==
    ASSUME SessionInv, CompileFails \/ ExecuteFails
    PROVE  SessionInv'
  <1>1. stage \in {"compile", "execute"} /\ stage' = "prepare" /\ kind' = "error" /\ tag' # "none"
    BY DEF CompileFails, ExecuteFails, BeginErrorTrace, Goto
  <1>2. UNCHANGED <<input, writer, exit, ioFailed>>
    BY DEF CompileFails, ExecuteFails, BeginErrorTrace, Goto, Untouched
  <1>3. WriterOK' /\ ExitOK' /\ ErrorTraceOK'
    BY <1>1, <1>2 DEF SessionInv, WriterOK, ExitOK, ErrorTraceOK, BeforeWriter, WhileOpen
  <1>4. FailureLeavesErrorTrace'
    BY <1>1, <1>2 DEF SessionInv, ExitOK, FailureLeavesErrorTrace
  <1> QED BY <1>1, <1>2, <1>3, <1>4 DEF SessionInv, Stages, BeforeWriter

LEMMA WriterOpens ==
    ASSUME SessionInv, OpenWriter
    PROVE  SessionInv'
  <1>1. stage = "open" /\ stage' = "register" /\ UNCHANGED <<input, kind, tag, exit, ioFailed>>
    BY DEF OpenWriter, Goto, Untouched
  <1>2. DOMAIN writer' = WriterFields /\ writer'.state = "open" /\ writer'.events = <<>>
    BY DEF OpenWriter, NoWriter, WriterFields
  <1>3. WriterOK' /\ ExitOK' /\ ErrorTraceOK'
    BY <1>1, <1>2 DEF SessionInv, WriterOK, ExitOK, ErrorTraceOK, BeforeWriter, WhileOpen
  <1>4. FailureLeavesErrorTrace'
    BY <1>1 DEF SessionInv, ExitOK, FailureLeavesErrorTrace
  <1> QED BY <1>1, <1>3, <1>4 DEF SessionInv, Stages, WhileOpen

LEMMA ErrorEventWritten ==
    ASSUME SessionInv, WriteErrorEvent
    PROVE  SessionInv'
  <1>1. stage = "error_event" /\ stage' = "close_toplevel"
        /\ UNCHANGED <<input, kind, tag, exit, ioFailed>>
    BY DEF WriteErrorEvent, Goto, Untouched
  <1>2. DOMAIN writer = WriterFields /\ writer.events = <<>>
    BY <1>1 DEF SessionInv, WriterOK, ErrorTraceOK
  <1>3. DOMAIN writer' = WriterFields /\ writer'.state = writer.state
        /\ writer'.events = Append(writer.events, tag)
    BY <1>2 DEF WriteErrorEvent, WriterFields
  <1>4. writer'.events = <<tag>>
    BY <1>2, <1>3
  <1>5. WriterOK' /\ ExitOK' /\ ErrorTraceOK'
    BY <1>1, <1>3, <1>4 DEF SessionInv, WriterOK, ExitOK, ErrorTraceOK, BeforeWriter, WhileOpen
  <1>6. FailureLeavesErrorTrace'
    BY <1>1 DEF SessionInv, ExitOK, FailureLeavesErrorTrace
  <1> QED BY <1>1, <1>5, <1>6 DEF SessionInv, Stages, WhileOpen

\* finish_writing_trace_events, write_meta_dat, close: the writer's state only.
LEMMA ClosingStages ==
    ASSUME SessionInv, Finish \/ WriteMeta \/ Close
    PROVE  SessionInv'
  <1>1. DOMAIN writer = WriterFields
    BY DEF SessionInv, WriterOK
  <1>2. CASE Finish /\ writer.refused
    BY <1>2, CommandExits DEF Finish, Exit, Untouched
  <1>3. CASE Finish /\ ~writer.refused
    <2>1. stage = "finish" /\ stage' = "write_meta" /\ UNCHANGED <<input, kind, tag, exit, ioFailed>>
      BY <1>3 DEF Finish, Goto, Untouched
    <2>2. DOMAIN writer' = WriterFields /\ writer'.state = "finished" /\ writer'.events = writer.events
      BY <1>1, <1>3 DEF Finish, WriterFields
    <2>3. WriterOK' /\ ExitOK' /\ ErrorTraceOK'
      BY <2>1, <2>2 DEF SessionInv, WriterOK, ExitOK, ErrorTraceOK, BeforeWriter, WhileOpen
    <2>4. FailureLeavesErrorTrace'
      BY <2>1 DEF SessionInv, ExitOK, FailureLeavesErrorTrace
    <2> QED BY <2>1, <2>3, <2>4 DEF SessionInv, Stages
  <1>4. CASE WriteMeta
    <2>1. stage = "write_meta" /\ stage' = "close" /\ UNCHANGED <<input, kind, tag, exit, ioFailed>>
      BY <1>4 DEF WriteMeta, Goto, Untouched
    <2>2. DOMAIN writer' = WriterFields /\ writer'.state = "described" /\ writer'.events = writer.events
      BY <1>1, <1>4 DEF WriteMeta, WriterFields
    <2>3. WriterOK' /\ ExitOK' /\ ErrorTraceOK'
      BY <2>1, <2>2 DEF SessionInv, WriterOK, ExitOK, ErrorTraceOK, BeforeWriter, WhileOpen
    <2>4. FailureLeavesErrorTrace'
      BY <2>1 DEF SessionInv, ExitOK, FailureLeavesErrorTrace
    <2> QED BY <2>1, <2>3, <2>4 DEF SessionInv, Stages
  <1>5. CASE Close
    <2>1. stage = "close" /\ stage' = "exited" /\ UNCHANGED <<input, kind, tag, ioFailed>>
          /\ exit' = (IF kind = "error" THEN "err" ELSE "ok")
      BY <1>5 DEF Close, Exit, Status, Untouched
    <2>2. DOMAIN writer' = WriterFields /\ writer'.state = "closed" /\ writer'.events = writer.events
      BY <1>1, <1>5 DEF Close, WriterFields
    <2>3. WriterOK' /\ ExitOK' /\ ErrorTraceOK'
      BY <2>1, <2>2 DEF SessionInv, WriterOK, ExitOK, ErrorTraceOK, BeforeWriter, WhileOpen
    <2>4. kind = "error" => writer'.events = <<tag>> /\ tag # "none"
      BY <2>1, <2>2 DEF SessionInv, ErrorTraceOK
    <2>5. FailureLeavesErrorTrace'
      BY <2>1, <2>2, <2>4 DEF FailureLeavesErrorTrace, Bundle
    <2> QED BY <2>1, <2>3, <2>5 DEF SessionInv, Stages
  <1> QED BY <1>2, <1>3, <1>4, <1>5

LEMMA SessionStep == SessionInv /\ [Next]_vars => SessionInv'
  <1> SUFFICES ASSUME SessionInv, [Next]_vars PROVE SessionInv'
    OBVIOUS
  <1>1. CASE Trace
    BY <1>1, EarlyStages, WritingStages, ErrorTraceBegins, WriterOpens, ErrorEventWritten, ClosingStages
       DEF Trace
  <1>2. CASE IoFails
    BY <1>2, CommandExits DEF IoFails, Exit, IoStages
  <1>3. CASE Panics
    BY <1>3, CommandExits DEF Panics, Exit, Untouched
  <1>4. CASE UNCHANGED vars
    BY <1>4 DEF vars, SessionInv, WriterOK, ExitOK, ErrorTraceOK, FailureLeavesErrorTrace, Source, Bundle
  <1> QED BY <1>1, <1>2, <1>3, <1>4 DEF Next, Exited

\* Every behaviour of the command stays in the invariant.
LEMMA SessionInvariant == Spec => []SessionInv
  BY InitSession, SessionStep, PTL DEF Spec

\* A failed compilation or execution leaves a complete trace of one error event
\* and is returned, unless the file system fails (trace_program's two error
\* arms, write_error_trace).
THEOREM FailureTraced == Spec => []FailureLeavesErrorTrace
  <1>1. SessionInv => FailureLeavesErrorTrace
    BY DEF SessionInv
  <1> QED BY <1>1, SessionInvariant, PTL

----------------------------------------------------------------------------
(* The refinement *)

\* Nothing is seen of a step inside the command that keeps the writer's state.
LEMMA Unseen ==
    ASSUME UNCHANGED <<input, exit>>, writer'.state = writer.state,
           UNCHANGED kind \/ writer.state # "closed"
    PROVE  UNCHANGED Outcome!outcomeVars
  BY DEF Outcome!outcomeVars, Bundle

\* Everything up to the return of <toplevel>, but the opening of the writer.
LEMMA UnseenStages ==
    ASSUME SessionInv,
           \/ CreateOutDir \/ Compile \/ CompileFails \/ ExecuteAleo \/ ExecuteFails \/ Prepare
           \/ RegisterSource \/ Start \/ WriteErrorEvent
           \/ ParseProgram \/ SkipImport \/ LoadImport \/ BeginEmission
           \/ EmitCall \/ EmitReturn \/ EndEmission \/ CloseToplevel
    PROVE  UNCHANGED Outcome!outcomeVars
  <1>1. CASE CompileFails \/ ExecuteFails
    <2>1. stage \in {"compile", "execute"} /\ UNCHANGED <<input, exit, writer>>
      BY <1>1 DEF CompileFails, ExecuteFails, BeginErrorTrace, Goto, Untouched
    <2>2. writer.state = "none"
      BY <2>1 DEF SessionInv, WriterOK, BeforeWriter
    <2> QED BY <2>1, <2>2, Unseen
  <1>2. CASE WriteErrorEvent
    <2>1. UNCHANGED <<input, exit, kind>>
      BY <1>2 DEF WriteErrorEvent, Goto, Untouched
    <2>2. writer'.state = writer.state
      BY <1>2 DEF WriteErrorEvent, SessionInv, WriterOK, WriterFields
    <2> QED BY <2>1, <2>2, Unseen
  <1>3. CASE \/ CreateOutDir \/ Compile \/ ExecuteAleo \/ Prepare
             \/ ParseProgram \/ SkipImport \/ BeginEmission \/ EndEmission
    <2>1. UNCHANGED <<input, exit, kind, writer>>
      BY <1>3 DEF CreateOutDir, Compile, ExecuteAleo, Prepare, ParseProgram, SkipImport,
                  BeginEmission, EndEmission, Goto, Untouched
    <2> QED BY <2>1, Unseen
  <1>4. CASE RegisterSource \/ Start \/ LoadImport \/ EmitCall \/ EmitReturn \/ CloseToplevel
    <2>1. UNCHANGED <<input, exit, kind>>
      BY <1>4 DEF RegisterSource, Start, LoadImport, EmitCall, EmitReturn, CloseToplevel, Goto, Untouched
    <2>2. writer'.state = writer.state
      BY <1>4, EmissionKeeps DEF Kept
    <2> QED BY <2>1, <2>2, Unseen
  <1> QED BY <1>1, <1>2, <1>3, <1>4

\* An exit that is not Close, with an error or a panic.
LEMMA FailsVisibly ==
    ASSUME SessionInv, stage # "exited", UNCHANGED <<input, kind, writer>>, exit' \in {"err", "panic"}
    PROVE  Outcome!Fail
  <1>1. exit = "running"
    BY DEF SessionInv, ExitOK
  <1>2. UNCHANGED Bundle
    BY DEF Bundle
  <1> QED BY <1>1, <1>2 DEF Outcome!Fail

LEMMA OutcomeStep == SessionInv /\ [Next]_vars => [Outcome!Next]_(Outcome!outcomeVars)
  <1> SUFFICES ASSUME SessionInv, [Next]_vars PROVE Outcome!Next \/ UNCHANGED Outcome!outcomeVars
    OBVIOUS
  <1>0. DOMAIN writer = WriterFields
    BY DEF SessionInv, WriterOK
  <1>1. CASE Canonicalize
    <2>1. stage = "canonicalize" /\ exit = "running" /\ writer.state = "none"
          /\ UNCHANGED <<input, kind, writer>>
      BY <1>1 DEF Canonicalize, Untouched, SessionInv, ExitOK, WriterOK, BeforeWriter
    <2>2. Bundle = "absent" /\ UNCHANGED Bundle
      BY <2>1 DEF Bundle
    <2>3. CASE Source.status = "missing"
      BY <1>1, <2>1, <2>3, FailsVisibly DEF Canonicalize, Exit, Outcome!Next
    <2>4. CASE Source.status # "missing" /\ input.disabled
      <3>1. exit' = "ok"
        BY <1>1, <2>4 DEF Canonicalize, Exit
      <3>2. Outcome!Succeed
        BY <2>1, <2>2, <2>4, <3>1 DEF Outcome!Succeed
      <3> QED BY <3>2 DEF Outcome!Next
    <2>5. CASE Source.status # "missing" /\ ~input.disabled
      <3>1. UNCHANGED exit
        BY <1>1, <2>5 DEF Canonicalize, Goto
      <3> QED BY <2>1, <3>1, Unseen
    <2> QED BY <2>3, <2>4, <2>5
  <1>2. CASE ReadSource
    <2>1. stage = "read" /\ UNCHANGED <<input, kind, writer>>
      BY <1>2 DEF ReadSource, Untouched
    <2>2. CASE Source.status = "readable"
      BY <1>2, <2>1, <2>2, Unseen DEF ReadSource, Goto
    <2>3. CASE Source.status # "readable"
      BY <1>2, <2>1, <2>3, FailsVisibly DEF ReadSource, Exit, Outcome!Next
    <2> QED BY <2>2, <2>3
  <1>3. CASE OpenWriter
    <2>1. stage = "open" /\ UNCHANGED <<input, kind, exit>>
      BY <1>3 DEF OpenWriter, Goto, Untouched
    <2>2. exit = "running" /\ ~input.disabled /\ writer.state = "none"
      BY <2>1 DEF SessionInv, ExitOK, WriterOK, BeforeWriter
    <2>3. writer'.state = "open"
      BY <1>3 DEF OpenWriter, NoWriter
    <2>4. Bundle = "absent" /\ Bundle' = "partial"
      BY <2>2, <2>3 DEF Bundle
    <2> QED BY <2>1, <2>2, <2>4 DEF Outcome!Next, Outcome!Begin
  <1>4. CASE Finish
    <2>1. stage = "finish" /\ UNCHANGED <<input, kind>>
      BY <1>4 DEF Finish, Untouched
    <2>2. CASE writer.refused
      BY <1>4, <2>1, <2>2, FailsVisibly DEF Finish, Exit, Outcome!Next
    <2>3. CASE ~writer.refused
      <3>1. UNCHANGED exit /\ writer'.state = "finished"
        BY <1>0, <1>4, <2>3 DEF Finish, Goto, WriterFields
      <3>2. writer.state = "open"
        BY <2>1 DEF SessionInv, WriterOK, WhileOpen
      <3> QED BY <2>1, <3>1, <3>2 DEF Outcome!outcomeVars, Bundle
    <2> QED BY <2>2, <2>3
  <1>5. CASE WriteMeta
    <2>1. stage = "write_meta" /\ UNCHANGED <<input, kind, exit>>
      BY <1>5 DEF WriteMeta, Goto, Untouched
    <2>2. writer'.state = "described" /\ writer.state = "finished"
      BY <1>0, <1>5, <2>1 DEF WriteMeta, WriterFields, SessionInv, WriterOK
    <2> QED BY <2>1, <2>2 DEF Outcome!outcomeVars, Bundle
  <1>6. CASE Close
    <2>1. stage = "close" /\ exit = "running" /\ UNCHANGED <<input, kind>>
          /\ exit' = (IF kind = "error" THEN "err" ELSE "ok") /\ kind \in {"program", "error"}
      BY <1>6 DEF Close, Exit, Status, Untouched, SessionInv, ExitOK, ErrorTraceOK
    <2>2. writer'.state = "closed" /\ writer.state = "described"
      BY <1>0, <1>6, <2>1 DEF Close, WriterFields, SessionInv, WriterOK
    <2>3. Bundle = "partial" /\ Bundle' = kind
      BY <2>1, <2>2 DEF Bundle
    <2>4. CASE kind = "program"
      BY <2>1, <2>3, <2>4 DEF Outcome!Next, Outcome!Succeed
    <2>5. CASE kind = "error"
      BY <2>1, <2>3, <2>5 DEF Outcome!Next, Outcome!Fail
    <2> QED BY <2>1, <2>4, <2>5
  <1>7. CASE IoFails
    <2>1. stage # "exited" /\ UNCHANGED <<input, kind, writer>> /\ exit' = "err"
      BY <1>7 DEF IoFails, IoStages, Exit
    <2> QED BY <2>1, FailsVisibly DEF Outcome!Next
  <1>8. CASE Panics
    <2>1. stage # "exited" /\ UNCHANGED <<input, kind, writer>> /\ exit' = "panic"
      BY <1>8 DEF Panics, Exit, Untouched
    <2> QED BY <2>1, FailsVisibly DEF Outcome!Next
  <1>9. CASE UNCHANGED vars
    BY <1>9 DEF vars, Outcome!outcomeVars, Bundle
  <1> QED
    BY <1>1, <1>2, <1>3, <1>4, <1>5, <1>6, <1>7, <1>8, <1>9, UnseenStages DEF Next, Trace, Exited

\* The exit status tells what the command left: success a complete trace of the
\* program, or none on request, failure never one, and no bundle is revised.
THEOREM OutcomeImplemented == Spec => ImplementsOutcome
  <1>1. Init => Outcome!Init
    <2> SUFFICES ASSUME Init PROVE Outcome!Init
      OBVIOUS
    <2>1. input.disabled \in BOOLEAN
      BY InputsAssumption DEF Init, Input
    <2>2. Bundle = "absent" /\ exit = "running"
      BY DEF Init, Bundle, NoWriter
    <2> QED BY <2>1, <2>2 DEF Outcome!Init
  <1>2. Spec => [][Next]_vars
    BY PTL DEF Spec
  <1> QED BY <1>1, <1>2, OutcomeStep, SessionInvariant, PTL DEF Spec, ImplementsOutcome, Outcome!Spec

----------------------------------------------------------------------------
(* The merged program, what is still to write and what the writer has *)

Loaded == {input.source} \cup {Source.imports[k] : k \in 1 .. next}

\* A function under its name in the program: declared in a file that was loaded
\* and registered.
FnOK(f) ==
    /\ f \in Function
    /\ f.file \in Loaded \cap paths
    /\ \E k \in 1 .. Len(input.text[f.file].decls) : input.text[f.file].decls[k] = f.decl

\* No file before f's declares n.
FirstToDeclare(n, f) ==
    \/ f.file = input.source
    \/ \E k \in 1 .. next : /\ f.file = Source.imports[k]
                            /\ n \notin Declared(input.source)
                            /\ \A j \in 1 .. k - 1 : n \notin Declared(Source.imports[j])

MergedOK ==
    /\ merged.funcs \in Seq(Function)
    /\ \A k \in 1 .. Len(merged.funcs) : /\ FnOK(merged.funcs[k])
                                         /\ merged.funcs[k].decl.name \in DOMAIN merged.byName
    /\ DOMAIN merged.fileOf = DOMAIN merged.byName
    /\ \A n \in DOMAIN merged.byName :
           /\ FnOK(merged.byName[n])
           /\ merged.byName[n].decl.name = n
           /\ FirstToDeclare(n, merged.byName[n])
           /\ merged.fileOf[n] \in Loaded
           /\ n \in Declared(merged.fileOf[n])
    /\ stage \in {"imports", "emit"} => \A p \in Loaded : Declared(p) \subseteq DOMAIN merged.byName

NextOK ==
    /\ next \in 0 .. Len(Source.imports)
    /\ stage \in BeforeWriter \cup {"register", "start", "error_event", "parse"} => next = 0

Item == [do : {"call", "return"}, fn : Function, entry : BOOLEAN]

TodoOK ==
    /\ todo \in Seq(Item)
    /\ stage \notin {"emit", "exited"} => todo = <<>>
    /\ \A k \in 1 .. Len(todo) : /\ FnOK(todo[k].fn)
                                 /\ todo[k].fn.decl.name \in DOMAIN merged.byName

\* The table holds every registered file once, with its size.
Registered ==
    /\ paths \subseteq File
    /\ \A k \in 1 .. Len(writer.table) :
           /\ writer.table[k].path \in paths
           /\ writer.table[k].lines = SourceLineCount(input.text[writer.table[k].path])
    /\ \A p \in paths : \E k \in 1 .. Len(writer.table) : writer.table[k].path = p
    /\ \A j, k \in 1 .. Len(writer.table) : writer.table[j].path = writer.table[k].path => j = k

TableOK ==
    /\ Registered
    /\ stage \in BeforeWriter \cup {"register"} => paths = {} /\ writer.table = <<>>
    /\ stage \in {"start", "error_event", "parse", "imports", "emit"} => input.source \in paths

\* Two loaded files declare one name.
Collides == \E p, q \in Loaded : p # q /\ Declared(p) \cap Declared(q) # {}

\* Every loaded file has the lines its functions name.
Fits == \A p \in Loaded : Closed(input.text[p])

LogOK ==
    /\ stage \in BeforeWriter \cup {"register", "start"} => writer.log = <<>> /\ ~writer.refused
    /\ ~writer.refused => \A k \in 1 .. Len(writer.log) : Resolves(writer.table, writer.log[k])
    /\ ~Collides => /\ \A k \in 1 .. Len(writer.log) : writer.log[k].path = writer.log[k].from
                    /\ Fits => ~writer.refused
    /\ writer.state \in {"finished", "described", "closed"} => ~writer.refused

\* c counts the calls that are open after each item that is still to write: a
\* call whose return is yet to come is open until then, <toplevel> to the end.
OpenFrom(c) ==
    /\ c \in [1 .. Len(todo) + 1 -> Nat]
    /\ c[1] = writer.depth
    /\ c[Len(todo) + 1] = 1
    /\ \A k \in 1 .. Len(todo) :
           c[k] = c[k + 1] + (IF todo[k].do = "return" /\ ~todo[k].entry THEN 1 ELSE 0)

DepthOK ==
    /\ stage \in BeforeWriter \cup {"register", "start", "finish"} => writer.depth = 0
    /\ stage \in {"error_event", "parse", "imports", "close_toplevel"} => writer.depth = 1
    /\ stage = "emit" => \E c : OpenFrom(c)
    /\ writer.state \in {"finished", "described", "closed"} => writer.depth = 0

RecordInv ==
    /\ SessionInv
    /\ writer \in Writer
    /\ tag \in {"none", "leo_compile_error", "avm_runtime_error"}
    /\ stage = "error_event" => kind = "error"
    /\ ioFailed \in BOOLEAN
    /\ NextOK
    /\ MergedOK
    /\ TodoOK
    /\ TableOK
    /\ LogOK
    /\ DepthOK

\* The files and their texts.
LEMMA InputShape ==
    ASSUME SessionInv
    PROVE  /\ input.source \in File
           /\ \A p \in File : /\ input.text[p] \in Text /\ Parsed(input.text[p])
                              /\ input.text[p].decls \in Seq(Decl)
                              /\ input.text[p].newlines \in Nat
                              /\ SourceLineCount(input.text[p]) \in Nat
           /\ Source \in Text /\ Source.imports \in Seq(File) /\ Len(Source.imports) \in Nat
  <1>1. input \in Input /\ \A p \in File : Parsed(input.text[p])
    BY InputsAssumption DEF SessionInv
  <1>2. input.source \in File /\ input.text \in [File -> Text]
    BY <1>1 DEF Input
  <1>3. \A p \in File : input.text[p] \in Text
    BY <1>2
  <1>4. \A x \in Text : x.decls \in Seq(Decl) /\ x.newlines \in Nat /\ x.imports \in Seq(File)
    BY DEF Text
  <1>5. \A p \in File : SourceLineCount(input.text[p]) \in Nat
    BY <1>3, <1>4 DEF SourceLineCount
  <1>6. Source \in Text
    BY <1>2, <1>3 DEF Source
  <1> QED BY <1>1, <1>2, <1>3, <1>4, <1>5, <1>6

LEMMA WriterTypes ==
    ASSUME writer \in Writer
    PROVE  /\ writer.table \in Seq([path : File, lines : Nat]) /\ Len(writer.table) \in Nat
           /\ \A k \in 1 .. Len(writer.table) :
                  writer.table[k].path \in File /\ writer.table[k].lines \in Nat
           /\ writer.log \in Seq(Step) /\ Len(writer.log) \in Nat
           /\ \A k \in 1 .. Len(writer.log) :
                  /\ writer.log[k].path \in File /\ writer.log[k].from \in File
                  /\ writer.log[k].line \in Nat
           /\ writer.depth \in Nat /\ writer.refused \in BOOLEAN
  <1>1. /\ writer.table \in Seq([path : File, lines : Nat]) /\ writer.log \in Seq(Step)
        /\ writer.depth \in Nat /\ writer.refused \in BOOLEAN
    BY DEF Writer
  <1>2. \A k \in 1 .. Len(writer.table) : writer.table[k] \in [path : File, lines : Nat]
    BY <1>1, ElementType
  <1>3. \A k \in 1 .. Len(writer.log) : writer.log[k] \in Step
    BY <1>1, ElementType
  <1> QED BY <1>1, <1>2, <1>3 DEF Step

----------------------------------------------------------------------------
(* Steps that write no record *)

LEMMA LoadedKept ==
    ASSUME UNCHANGED <<input, next>>
    PROVE  Loaded' = Loaded /\ Collides' = Collides /\ Fits' = Fits
  BY DEF Loaded, Collides, Fits, Closed, Source, Declared

LEMMA FnKept ==
    ASSUME NEW f, FnOK(f), UNCHANGED <<input, next>>, paths \subseteq paths'
    PROVE  FnOK(f)'
  BY LoadedKept DEF FnOK

LEMMA MergedKept ==
    ASSUME MergedOK, UNCHANGED <<input, next, merged>>, paths \subseteq paths',
           stage' \in {"imports", "emit"} => stage \in {"imports", "emit"}
    PROVE  MergedOK'
  <1>1. \A f : FnOK(f) => FnOK(f)'
    BY FnKept
  <1>2. Source' = Source /\ Loaded' = Loaded /\ \A p : Declared(p)' = Declared(p)
    BY LoadedKept DEF Source, Declared
  <1>3. \A n, f : FirstToDeclare(n, f) => FirstToDeclare(n, f)'
    BY <1>2 DEF FirstToDeclare
  <1> QED BY <1>1, <1>2, <1>3 DEF MergedOK

LEMMA TodoKept ==
    ASSUME TodoOK, UNCHANGED <<input, next, merged, todo, paths>>, stage' \in {"emit", "exited"} \/ todo = <<>>
    PROVE  TodoOK'
  <1>1. \A f : FnOK(f) => FnOK(f)'
    BY FnKept
  <1> QED BY <1>1 DEF TodoOK

\* The stages that have their step's effect on the bundle elsewhere: what is
\* kept of a trace does not depend on them.
LEMMA NothingWritten ==
    ASSUME RecordInv, SessionInv', writer' \in Writer,
           UNCHANGED <<input, next, merged, todo, paths>>,
           writer'.table = writer.table, writer'.log = writer.log,
           writer'.depth = writer.depth, writer'.refused = writer.refused,
           tag' \in {"none", "leo_compile_error", "avm_runtime_error"}, ioFailed' \in BOOLEAN,
           todo = <<>> \/ stage' = "exited",
           \/ stage \in BeforeWriter /\ stage' \in BeforeWriter
           \/ stage = "emit" /\ stage' = "close_toplevel"
           \/ stage' \in {"write_meta", "close", "exited"},
           writer'.state \in {"finished", "described", "closed"} => ~writer.refused /\ writer.depth = 0
    PROVE  RecordInv'
  <1>1. NextOK'
    BY DEF RecordInv, NextOK, Source, BeforeWriter
  <1>2. MergedOK'
    BY MergedKept DEF RecordInv, BeforeWriter
  <1>3. TodoOK'
    BY TodoKept DEF RecordInv
  <1>4. TableOK'
    BY DEF RecordInv, TableOK, Registered, SourceLineCount, BeforeWriter
  <1>5. LogOK'
    BY LoadedKept DEF RecordInv, LogOK, Resolves, BeforeWriter
  <1>6. DepthOK'
    <2>1. CASE stage = "emit" /\ stage' = "close_toplevel"
      <3>1. PICK c : OpenFrom(c)
        BY <2>1 DEF RecordInv, DepthOK
      <3>2. Len(todo) + 1 = 1
        BY <2>1
      <3>3. writer.depth = 1
        BY <3>1, <3>2 DEF OpenFrom
      <3> QED BY <2>1, <3>3 DEF DepthOK, BeforeWriter
    <2>2. CASE ~(stage = "emit" /\ stage' = "close_toplevel")
      BY <2>2 DEF RecordInv, DepthOK, BeforeWriter
    <2> QED BY <2>1, <2>2
  <1> QED BY <1>1, <1>2, <1>3, <1>4, <1>5, <1>6 DEF RecordInv, BeforeWriter

LEMMA EarlyRecord ==
    ASSUME RecordInv,
           \/ Canonicalize \/ CreateOutDir \/ ReadSource \/ Compile \/ CompileFails
           \/ ExecuteAleo \/ ExecuteFails \/ Prepare
    PROVE  RecordInv'
  <1>1. UNCHANGED <<input, next, merged, todo, paths, writer, ioFailed>>
    BY DEF Canonicalize, CreateOutDir, ReadSource, Compile, CompileFails, ExecuteAleo, ExecuteFails,
           Prepare, BeginErrorTrace, Goto, Exit, Untouched
  <1>2. tag' \in {tag, "leo_compile_error", "avm_runtime_error"}
    BY DEF Canonicalize, CreateOutDir, ReadSource, Compile, CompileFails, ExecuteAleo, ExecuteFails,
           Prepare, BeginErrorTrace, Goto, Exit, Untouched
  <1>3. stage \in BeforeWriter /\ stage' \in BeforeWriter \cup {"exited"}
    BY DEF Canonicalize, CreateOutDir, ReadSource, Compile, CompileFails, ExecuteAleo, ExecuteFails,
           Prepare, BeginErrorTrace, Goto, Exit, BeforeWriter
  <1>4. SessionInv'
    BY EarlyStages, ErrorTraceBegins DEF RecordInv
  <1>5. writer.state = "none" /\ todo = <<>>
    BY <1>3 DEF RecordInv, SessionInv, WriterOK, TodoOK, BeforeWriter
  <1> QED BY <1>1, <1>2, <1>3, <1>4, <1>5, NothingWritten DEF RecordInv

LEMMA ClosingRecord ==
    ASSUME RecordInv, Finish \/ WriteMeta \/ Close
    PROVE  RecordInv'
  <1>1. SessionInv'
    BY ClosingStages DEF RecordInv
  <1>2. /\ stage \in {"finish", "write_meta", "close"} /\ stage' \in {"write_meta", "close", "exited"}
        /\ UNCHANGED <<input, next, merged, todo, paths, tag, ioFailed>>
    BY DEF Finish, WriteMeta, Close, Goto, Exit, Untouched
  <1>3. writer' = writer \/ \E s \in {"finished", "described", "closed"} :
                               writer' = [writer EXCEPT !.state = s]
    BY DEF Finish, WriteMeta, Close
  <1>4. /\ writer' \in Writer /\ writer'.table = writer.table /\ writer'.log = writer.log
        /\ writer'.depth = writer.depth /\ writer'.refused = writer.refused
    BY <1>3 DEF RecordInv, Writer
  <1>5. writer.depth = 0 /\ todo = <<>>
    BY <1>2 DEF RecordInv, DepthOK, TodoOK, SessionInv, WriterOK
  <1>6. writer'.state \in {"finished", "described", "closed"} => ~writer.refused
    <2>1. CASE Finish
      BY <2>1 DEF Finish, RecordInv, LogOK
    <2>2. CASE WriteMeta \/ Close
      BY <2>2 DEF WriteMeta, Close, RecordInv, LogOK, SessionInv, WriterOK
    <2> QED BY <2>1, <2>2
  <1> QED BY <1>1, <1>2, <1>4, <1>5, <1>6, NothingWritten DEF RecordInv

LEMMA EndEmissionRecord == ASSUME RecordInv, EndEmission PROVE RecordInv'
  <1>1. /\ stage = "emit" /\ stage' = "close_toplevel" /\ todo = <<>>
        /\ UNCHANGED <<input, next, merged, todo, paths, writer, tag, ioFailed>>
    BY DEF EndEmission, Goto, Untouched
  <1>2. SessionInv' /\ writer.state = "open"
    BY <1>1, WritingStages DEF RecordInv, SessionInv, WriterOK, WhileOpen
  <1> QED BY <1>1, <1>2, NothingWritten DEF RecordInv

LEMMA IoFailsRecord == ASSUME RecordInv, IoFails PROVE RecordInv'
  <1>1. /\ stage \in IoStages /\ stage' = "exited" /\ ioFailed' = TRUE
        /\ UNCHANGED <<input, next, merged, todo, paths, writer, tag, kind>> /\ exit' = "err"
    BY DEF IoFails, Exit
  <1>2. SessionInv'
    BY <1>1, CommandExits DEF RecordInv, IoStages
  <1>3. todo = <<>>
    BY <1>1 DEF RecordInv, TodoOK, IoStages
  <1>4. writer.state \in {"finished", "described", "closed"} => ~writer.refused /\ writer.depth = 0
    BY DEF RecordInv, LogOK, DepthOK
  <1> QED BY <1>1, <1>2, <1>3, <1>4, NothingWritten DEF RecordInv

LEMMA PanicsRecord == ASSUME RecordInv, Panics PROVE RecordInv'
  <1>1. /\ stage # "exited" /\ stage' = "exited" /\ exit' = "panic"
        /\ UNCHANGED <<input, next, merged, todo, paths, writer, tag, kind, ioFailed>>
    BY DEF Panics, Exit, Untouched
  <1>2. SessionInv'
    BY <1>1, CommandExits DEF RecordInv
  <1>3. writer.state \in {"finished", "described", "closed"} => ~writer.refused /\ writer.depth = 0
    BY DEF RecordInv, LogOK, DepthOK
  <1> QED BY <1>1, <1>2, <1>3, NothingWritten DEF RecordInv

----------------------------------------------------------------------------
(* Registering and writing steps *)

\* What was known of the steps stays known when the table grows.
LEMMA ResolvesGrows ==
    ASSUME NEW S, NEW table \in Seq(S), NEW entry \in S, NEW s, Resolves(table, s)
    PROVE  Resolves(Append(table, entry), s)
  <1> DEFINE n == Len(table)
             more == Append(table, entry)
  <1>1. n \in Nat /\ Len(more) = n + 1 /\ \A k \in 1 .. n : more[k] = table[k]
    OBVIOUS
  <1>2. PICK k \in 1 .. n : table[k].path = s.path /\ s.line <= table[k].lines
    BY DEF Resolves
  <1>3. k \in 1 .. n + 1
    BY <1>1, <1>2
  <1> HIDE DEF n, more
  <1>4. Resolves(more, s)
    BY <1>1, <1>2, <1>3 DEF Resolves
  <1> QED BY <1>4 DEF more

LEMMA RegisterKeeps ==
    ASSUME SessionInv, writer \in Writer, Registered, UNCHANGED input, NEW p \in File, Register(p)
    PROVE  /\ writer' \in Writer /\ Registered'
           /\ p \in paths' /\ paths' \subseteq paths \cup {p} /\ paths \subseteq paths'
           /\ writer'.log = writer.log /\ writer'.depth = writer.depth
           /\ writer'.refused = writer.refused /\ writer'.state = writer.state
           /\ \A s : Resolves(writer.table, s) => Resolves(writer'.table, s)
  <1>1. paths' = paths \cup {p}
    BY DEF Register
  <1>2. CASE p \in paths
    BY <1>1, <1>2 DEF Register, Registered, SourceLineCount
  <1>3. CASE p \notin paths
    <2> DEFINE entry == [path |-> p, lines |-> SourceLineCount(input.text[p])]
               table == writer.table
               n == Len(table)
               more == Append(table, entry)
    <2>1. entry \in [path : File, lines : Nat]
      BY InputShape
    <2>2. table \in Seq([path : File, lines : Nat]) /\ n \in Nat
      BY WriterTypes
    <2>3. writer' = [writer EXCEPT !.table = more]
      BY <1>3 DEF Register, WithPath
    <2>4. /\ more \in Seq([path : File, lines : Nat]) /\ Len(more) = n + 1 /\ more[n + 1] = entry
          /\ \A k \in 1 .. n : more[k] = table[k]
      BY <2>1, <2>2
    <2> HIDE DEF more, table
    <2>5. /\ writer' \in Writer /\ writer'.table = more
          /\ writer'.log = writer.log /\ writer'.depth = writer.depth
          /\ writer'.refused = writer.refused /\ writer'.state = writer.state
      BY <2>3, <2>4 DEF Writer
    <2>6. \A s : Resolves(table, s) => Resolves(more, s)
      BY <2>1, <2>2, ResolvesGrows DEF more
    <2>7. /\ \A k \in 1 .. n : table[k].path \in paths
          /\ \A k \in 1 .. n : table[k].lines = SourceLineCount(input.text[table[k].path])
          /\ \A q \in paths : \E k \in 1 .. n : table[k].path = q
          /\ \A j, k \in 1 .. n : table[j].path = table[k].path => j = k
      BY DEF Registered, table
    <2>8. entry.path = p /\ entry.lines = SourceLineCount(input.text[p])
      OBVIOUS
    <2> HIDE DEF entry, n
    <2>9. \A k \in 1 .. n + 1 : k = n + 1 \/ k \in 1 .. n
      BY <2>2
    <2>10. \A k \in 1 .. n + 1 : more[k].path \in paths \cup {p}
                                /\ more[k].lines = SourceLineCount(input.text[more[k].path])
      BY <2>4, <2>7, <2>8, <2>9
    <2>11. \A q \in paths \cup {p} : \E k \in 1 .. n + 1 : more[k].path = q
      <3>1. n + 1 \in 1 .. n + 1 /\ \A k \in 1 .. n : k \in 1 .. n + 1
        BY <2>2
      <3> QED BY <2>4, <2>7, <2>8, <3>1
    <2>12. \A j, k \in 1 .. n + 1 : more[j].path = more[k].path => j = k
      BY <1>3, <2>4, <2>7, <2>8, <2>9
    <2>13. SourceLineCount(input.text[p])' = SourceLineCount(input.text[p])
           /\ \A q : SourceLineCount(input.text[q])' = SourceLineCount(input.text[q])
      BY DEF SourceLineCount
    <2>14. paths \cup {p} \subseteq File
      BY DEF Registered
    <2>15. Registered'
      BY <1>1, <2>4, <2>5, <2>10, <2>11, <2>12, <2>13, <2>14 DEF Registered
    <2> QED BY <1>1, <2>5, <2>6, <2>15 DEF table
  <1> QED BY <1>2, <1>3

\* One step is written: the writer refuses it when it does not resolve.
LEMMA StepWritten ==
    ASSUME NEW w \in Writer, NEW s \in Step
    PROVE  LET v == WithSteps(w, <<s>>)
           IN  /\ v \in Writer
               /\ v.log = Append(w.log, s) /\ v.table = w.table
               /\ v.depth = w.depth /\ v.state = w.state
               /\ v.refused = (w.refused \/ ~Resolves(w.table, s))
  <1> DEFINE v == WithSteps(w, <<s>>)
  <1>1. w.log \in Seq(Step) /\ w.refused \in BOOLEAN
    BY DEF Writer
  <1>2. w.log \o <<s>> = Append(w.log, s) /\ Append(w.log, s) \in Seq(Step)
    BY <1>1
  <1>3. (\E k \in 1 .. Len(<<s>>) : ~Resolves(w.table, <<s>>[k])) <=> ~Resolves(w.table, s)
    OBVIOUS
  <1>4. v = [w EXCEPT !.log = w.log \o <<s>>,
                      !.refused = w.refused \/ \E k \in 1 .. Len(<<s>>) : ~Resolves(w.table, <<s>>[k])]
    BY DEF WithSteps
  <1> DEFINE r == w.refused \/ \E k \in 1 .. Len(<<s>>) : ~Resolves(w.table, <<s>>[k])
             l == w.log \o <<s>>
  <1>5. r \in BOOLEAN /\ r = (w.refused \/ ~Resolves(w.table, s))
    BY <1>3
  <1>6. l \in Seq(Step) /\ l = Append(w.log, s)
    BY <1>2
  <1> HIDE DEF r, l, v
  <1>7. v = [w EXCEPT !.log = l, !.refused = r]
    BY <1>4 DEF r, l
  <1>8. v \in Writer /\ v.log = l /\ v.table = w.table /\ v.depth = w.depth /\ v.state = w.state
        /\ v.refused = r
    BY <1>5, <1>6, <1>7 DEF Writer
  <1> QED BY <1>5, <1>6, <1>8 DEF v

\* One more step: refused or recorded where it resolves.
LEMMA LogGrows ==
    ASSUME writer \in Writer, LogOK, UNCHANGED <<input, next>>, NEW s \in Step,
           writer'.log = Append(writer.log, s), writer'.table = writer.table,
           writer'.refused = (writer.refused \/ ~Resolves(writer.table, s)),
           writer'.state = "open", stage' \notin BeforeWriter \cup {"register", "start"},
           ~Collides => s.path = s.from /\ (Fits => Resolves(writer.table, s))
    PROVE  LogOK'
  <1> DEFINE l == writer.log
             n == Len(l)
  <1>1. l \in Seq(Step) /\ n \in Nat
    BY WriterTypes
  <1>2. /\ Len(Append(l, s)) = n + 1 /\ Append(l, s)[n + 1] = s
        /\ \A k \in 1 .. n : Append(l, s)[k] = l[k]
        /\ \A k \in 1 .. n + 1 : k = n + 1 \/ k \in 1 .. n
    BY <1>1
  <1>3. Collides' = Collides /\ Fits' = Fits /\ \A t : Resolves(writer'.table, t) = Resolves(writer.table, t)
    BY LoadedKept DEF Resolves
  <1>4. /\ ~writer.refused => \A k \in 1 .. n : Resolves(writer.table, l[k])
        /\ ~Collides => (Fits => ~writer.refused) /\ \A k \in 1 .. n : l[k].path = l[k].from
    BY DEF LogOK
  <1> DEFINE m == writer'.log
  <1>5. m = Append(l, s) /\ writer'.state \notin {"finished", "described", "closed"}
    OBVIOUS
  <1> HIDE DEF l, n, m
  <1>6. Len(m) = n + 1
    BY <1>2, <1>5
  <1>7. ~writer'.refused => \A k \in 1 .. Len(m) : Resolves(writer'.table, m[k])
    BY <1>2, <1>3, <1>4, <1>5, <1>6
  <1>8. ~Collides' => (Fits' => ~writer'.refused) /\ \A k \in 1 .. Len(m) : m[k].path = m[k].from
    BY <1>2, <1>3, <1>4, <1>5, <1>6
  <1> QED BY <1>5, <1>7, <1>8 DEF LogOK, m

\* Nothing more is known of a collision when another file is loaded.
LEMMA LogKept ==
    ASSUME LogOK, UNCHANGED input, Loaded \subseteq Loaded',
           writer'.log = writer.log, writer'.refused = writer.refused, writer'.state = writer.state,
           \A s : Resolves(writer.table, s) => Resolves(writer'.table, s),
           stage' \in BeforeWriter \cup {"register", "start"}
               => stage \in BeforeWriter \cup {"register", "start"}
    PROVE  LogOK'
  <1>1. \A p : Declared(p)' = Declared(p)
    BY DEF Declared
  <1>2. (Collides => Collides') /\ (Fits' => Fits)
    BY <1>1 DEF Collides, Fits, Closed
  <1> QED BY <1>2 DEF LogOK

----------------------------------------------------------------------------
(* Up to the parsed program *)

LEMMA OpenWriterRecord == ASSUME RecordInv, OpenWriter PROVE RecordInv'
  <1>1. /\ stage = "open" /\ stage' = "register"
        /\ UNCHANGED <<input, next, merged, todo, paths, tag, ioFailed>>
        /\ writer' = [NoWriter EXCEPT !.state = "open"]
    BY DEF OpenWriter, Goto, Untouched
  <1>2. /\ writer' \in Writer /\ writer'.state = "open" /\ writer'.table = <<>>
        /\ writer'.log = <<>> /\ writer'.depth = 0 /\ writer'.refused = FALSE
    <2>1. writer' = [state |-> "open", table |-> <<>>, depth |-> 0, log |-> <<>>, events |-> <<>>,
                     refused |-> FALSE]
      BY <1>1 DEF NoWriter
    <2>2. \A S : <<>> \in Seq(S)
      OBVIOUS
    <2> QED BY <2>1, <2>2 DEF Writer
  <1>3. SessionInv'
    BY WriterOpens DEF RecordInv
  <1>4. NextOK' /\ TodoOK' /\ MergedOK'
    BY <1>1, MergedKept, TodoKept DEF RecordInv, NextOK, TodoOK, BeforeWriter, Source
  <1>5. TableOK'
    BY <1>1, <1>2 DEF RecordInv, TableOK, Registered, BeforeWriter
  <1>6. LogOK' /\ DepthOK'
    BY <1>1, <1>2 DEF LogOK, DepthOK, BeforeWriter
  <1> QED BY <1>1, <1>2, <1>3, <1>4, <1>5, <1>6 DEF RecordInv

LEMMA RegisterSourceRecord == ASSUME RecordInv, RegisterSource PROVE RecordInv'
  <1>1. /\ stage = "register" /\ stage' = "start" /\ Register(input.source)
        /\ UNCHANGED <<input, next, merged, todo, tag, ioFailed>>
    BY DEF RegisterSource, Goto, Untouched
  <1>2. SessionInv'
    BY WritingStages DEF RecordInv
  <1>3. input.source \in File /\ Registered /\ todo = <<>>
    BY <1>1, InputShape DEF RecordInv, TableOK, TodoOK
  <1>4. /\ writer' \in Writer /\ Registered' /\ input.source \in paths' /\ paths \subseteq paths'
        /\ writer'.log = writer.log /\ writer'.depth = writer.depth
        /\ writer'.refused = writer.refused /\ writer'.state = writer.state
        /\ \A s : Resolves(writer.table, s) => Resolves(writer'.table, s)
    BY <1>1, <1>3, RegisterKeeps DEF RecordInv
  <1>5. NextOK'
    BY <1>1 DEF RecordInv, NextOK, BeforeWriter, Source
  <1>6. MergedOK'
    BY <1>1, <1>4, MergedKept DEF RecordInv
  <1>7. TodoOK'
    BY <1>1, <1>3 DEF RecordInv, TodoOK
  <1>8. TableOK'
    BY <1>1, <1>4 DEF TableOK, BeforeWriter
  <1>9. LogOK'
    BY <1>1, <1>4, LogKept, LoadedKept DEF RecordInv
  <1>10. DepthOK'
    BY <1>1, <1>4 DEF RecordInv, DepthOK, BeforeWriter
  <1> QED BY <1>1, <1>2, <1>4, <1>5, <1>6, <1>7, <1>8, <1>9, <1>10 DEF RecordInv

LEMMA StartRecord == ASSUME RecordInv, Start PROVE RecordInv'
  <1> DEFINE s == [path |-> input.source, line |-> 1, from |-> input.source]
             w == WithSteps(writer, <<s>>)
  <1>1. /\ stage = "start" /\ stage' \in {"error_event", "parse"}
        /\ UNCHANGED <<input, next, merged, todo, paths, tag, ioFailed>>
        /\ writer' = [w EXCEPT !.depth = 1]
    BY DEF Start, Goto, Untouched
  <1>2. SessionInv' /\ (stage' = "error_event" => kind' = "error")
    BY WritingStages DEF RecordInv, Start, Goto, Untouched
  <1>3. input.source \in File /\ input.source \in paths /\ todo = <<>>
    BY <1>1, InputShape DEF RecordInv, TableOK, TodoOK
  <1>4. s \in Step /\ s.path = input.source /\ s.line = 1 /\ s.from = input.source
    BY <1>3 DEF Step
  <1>5. Resolves(writer.table, s)
    <2>1. PICK k \in 1 .. Len(writer.table) : writer.table[k].path = input.source
      BY <1>3 DEF RecordInv, TableOK, Registered
    <2>2. writer.table[k].lines = input.text[input.source].newlines + 1
      BY <2>1 DEF RecordInv, TableOK, Registered, SourceLineCount
    <2>3. input.text[input.source].newlines \in Nat
      BY <1>3, InputShape DEF RecordInv
    <2> QED BY <1>4, <2>1, <2>2, <2>3 DEF Resolves
  <1> HIDE DEF s
  <1>6. /\ w \in Writer /\ w.log = Append(writer.log, s) /\ w.table = writer.table
        /\ w.state = writer.state
        /\ w.refused = (writer.refused \/ ~Resolves(writer.table, s))
    BY <1>4, StepWritten DEF RecordInv
  <1> HIDE DEF w
  <1>7. /\ writer' \in Writer /\ writer'.log = w.log /\ writer'.table = w.table
        /\ writer'.state = w.state /\ writer'.refused = w.refused /\ writer'.depth = 1
    BY <1>1, <1>6 DEF Writer
  <1>8. writer'.state = "open"
    BY <1>1, <1>2 DEF SessionInv, WriterOK, WhileOpen
  <1>9. NextOK' /\ MergedOK' /\ TodoOK'
    BY <1>1, <1>3, MergedKept, TodoKept DEF RecordInv, NextOK, BeforeWriter, Source
  <1>10. TableOK'
    BY <1>1, <1>6, <1>7 DEF RecordInv, TableOK, Registered, BeforeWriter, SourceLineCount
  <1>11. LogOK'
    BY <1>1, <1>4, <1>5, <1>6, <1>7, <1>8, LogGrows DEF RecordInv, BeforeWriter
  <1>12. DepthOK'
    BY <1>1, <1>7, <1>8 DEF DepthOK, BeforeWriter
  <1> QED BY <1>1, <1>2, <1>7, <1>9, <1>10, <1>11, <1>12 DEF RecordInv

LEMMA ErrorEventRecord == ASSUME RecordInv, WriteErrorEvent PROVE RecordInv'
  <1>1. /\ stage = "error_event" /\ stage' = "close_toplevel"
        /\ UNCHANGED <<input, next, merged, todo, paths, tag, ioFailed>>
        /\ writer' = [writer EXCEPT !.events = Append(@, tag)]
    BY DEF WriteErrorEvent, Goto, Untouched
  <1>2. SessionInv' /\ writer.state = "open"
    BY <1>1, ErrorEventWritten DEF RecordInv, SessionInv, WriterOK, WhileOpen
  <1>3. tag \in {"leo_compile_error", "avm_runtime_error"}
    BY <1>1 DEF RecordInv, SessionInv, ErrorTraceOK
  <1>4. /\ writer' \in Writer /\ writer'.table = writer.table /\ writer'.log = writer.log
        /\ writer'.depth = writer.depth /\ writer'.refused = writer.refused
        /\ writer'.state = writer.state
    <2>1. writer.events \in Seq({"leo_compile_error", "avm_runtime_error"})
      BY DEF RecordInv, Writer
    <2>2. Append(writer.events, tag) \in Seq({"leo_compile_error", "avm_runtime_error"})
      BY <1>3, <2>1
    <2> QED BY <1>1, <2>2 DEF RecordInv, Writer
  <1>5. NextOK' /\ MergedOK' /\ TodoOK'
    BY <1>1, MergedKept, TodoKept DEF RecordInv, NextOK, TodoOK, BeforeWriter, Source
  <1>6. TableOK'
    BY <1>1, <1>4 DEF RecordInv, TableOK, Registered, BeforeWriter, SourceLineCount
  <1>7. LogOK'
    BY <1>1, <1>4, LogKept, LoadedKept DEF RecordInv, Resolves, BeforeWriter
  <1>8. DepthOK'
    BY <1>1, <1>2, <1>4 DEF RecordInv, DepthOK, BeforeWriter
  <1> QED BY <1>1, <1>2, <1>4, <1>5, <1>6, <1>7, <1>8 DEF RecordInv

----------------------------------------------------------------------------
(* The merged program *)

LEMMA FileFunctions ==
    ASSUME SessionInv, NEW p \in File
    PROVE  LET fs == FromFile(p)
               ds == input.text[p].decls
           IN  /\ fs \in Seq(Function) /\ Len(fs) = Len(ds) /\ Len(fs) \in Nat
               /\ \A k \in 1 .. Len(fs) : fs[k] \in Function /\ fs[k].decl = ds[k] /\ fs[k].file = p
               /\ \A k \in 1 .. Len(fs) : fs[k].decl.name \in Declared(p)
               /\ \A n \in Declared(p) : \E k \in 1 .. Len(fs) : fs[k].decl.name = n
  <1> DEFINE ds == input.text[p].decls
             fs == FromFile(p)
  <1>1. ds \in Seq(Decl) /\ Len(ds) \in Nat
    BY InputShape
  <1>2. \A k \in 1 .. Len(ds) : ds[k] \in Decl
    BY <1>1, ElementType
  <1>3. fs = [k \in 1 .. Len(ds) |-> [decl |-> ds[k], file |-> p]]
    BY DEF FromFile
  <1>4. Declared(p) = {ds[k].name : k \in 1 .. Len(ds)}
    BY DEF Declared
  <1> HIDE DEF ds, fs
  <1>5. fs \in Seq(Function) /\ Len(fs) = Len(ds)
    BY <1>1, <1>2, <1>3 DEF Function
  <1>6. \A k \in 1 .. Len(ds) : fs[k] \in Function /\ fs[k].decl = ds[k] /\ fs[k].file = p
    BY <1>2, <1>3 DEF Function
  <1> QED BY <1>1, <1>4, <1>5, <1>6 DEF ds, fs

\* Whichever function of a file is taken under a name, it is one of that name.
LEMMA NamedInFile ==
    ASSUME SessionInv, NEW p \in File, NEW n \in Declared(p)
    PROVE  LET fs == FromFile(p)
           IN  /\ \E k \in 1 .. Len(fs) : FirstNamed(fs, n) = fs[k] /\ fs[k].decl.name = n
               /\ \E k \in 1 .. Len(fs) : LastNamed(fs, n) = fs[k] /\ fs[k].decl.name = n
  <1> DEFINE fs == FromFile(p)
             S == {k \in 1 .. Len(fs) : fs[k].decl.name = n}
  <1>1. Len(fs) \in Nat /\ S # {} /\ S \subseteq 1 .. Len(fs) /\ S \subseteq Nat
    BY FileFunctions
  <1>2. \E k \in 1 .. Len(fs) : fs[k].decl.name = n /\ \A j \in 1 .. k - 1 : fs[j].decl.name # n
    <2>1. PICK k \in S : \A m \in S : k <= m
      <3> HIDE DEF S
      <3> QED BY <1>1, LeastNat
    <2>2. \A j \in 1 .. k - 1 : j \in 1 .. Len(fs) /\ ~(k <= j)
      BY <1>1, <2>1
    <2>3. \A j \in 1 .. k - 1 : fs[j].decl.name # n
      BY <2>1, <2>2
    <2> QED BY <2>1, <2>3
  <1>3. \E k \in 1 .. Len(fs) : fs[k].decl.name = n /\ \A j \in k + 1 .. Len(fs) : fs[j].decl.name # n
    <2>1. PICK k \in S : \A m \in S : m <= k
      <3> HIDE DEF S
      <3> QED BY <1>1, GreatestIndex
    <2>2. \A j \in k + 1 .. Len(fs) : j \in 1 .. Len(fs) /\ ~(j <= k)
      BY <1>1, <2>1
    <2>3. \A j \in k + 1 .. Len(fs) : fs[j].decl.name # n
      BY <2>1, <2>2
    <2> QED BY <2>1, <2>3
  <1> HIDE DEF fs, S
  <1>4. \E k \in 1 .. Len(fs) : FirstNamed(fs, n) = fs[k] /\ fs[k].decl.name = n
    BY <1>2 DEF FirstNamed
  <1>5. \E k \in 1 .. Len(fs) : LastNamed(fs, n) = fs[k] /\ fs[k].decl.name = n
    BY <1>3 DEF LastNamed
  <1> QED BY <1>4, <1>5 DEF fs

\* The functions of a file that is now loaded and registered.
LEMMA LoadedFunctions ==
    ASSUME SessionInv, UNCHANGED input, NEW p \in File, p \in Loaded', p \in paths'
    PROVE  \A f : \A k \in 1 .. Len(FromFile(p)) : f = FromFile(p)[k] => FnOK(f)'
  <1> TAKE f
  <1> TAKE k \in 1 .. Len(FromFile(p))
  <1> HAVE f = FromFile(p)[k]
  <1>1. /\ f \in Function /\ f.file = p /\ k \in 1 .. Len(input.text[p].decls)
        /\ input.text[p].decls[k] = f.decl
    BY FileFunctions
  <1> QED BY <1>1 DEF FnOK

LEMMA ParseProgramRecord == ASSUME RecordInv, ParseProgram PROVE RecordInv'
  <1> DEFINE p == input.source
             fs == FromFile(p)
  <1>1. /\ stage = "parse" /\ stage' = "imports" /\ merged' = OwnProgram
        /\ UNCHANGED <<input, next, todo, paths, writer, tag, ioFailed>>
    BY DEF ParseProgram, Goto, Untouched
  <1>2. SessionInv' /\ SessionInv
    BY WritingStages DEF RecordInv
  <1>3. p \in File /\ p \in paths' /\ Loaded' = {p}
    <2>1. next' = 0 /\ \A k \in 1 .. 0 : FALSE
      BY <1>1 DEF RecordInv, NextOK
    <2> QED BY <1>1, <1>2, <2>1, InputShape DEF RecordInv, TableOK, Loaded
  <1>4. /\ merged'.funcs = fs
        /\ merged'.byName = [n \in Declared(p) |-> LastNamed(fs, n)]
        /\ merged'.fileOf = [n \in Declared(p) |-> p]
    BY <1>1 DEF OwnProgram
  <1>5. \A q : Declared(q)' = Declared(q)
    BY <1>1 DEF Declared
  <1>6. \A f : \A k \in 1 .. Len(fs) : f = fs[k] => FnOK(f)'
    BY <1>1, <1>2, <1>3, LoadedFunctions
  <1>7. /\ fs \in Seq(Function)
        /\ \A k \in 1 .. Len(fs) : fs[k].decl.name \in Declared(p) /\ fs[k].file = p
    BY <1>2, <1>3, FileFunctions
  <1>8. \A n \in Declared(p) : \E k \in 1 .. Len(fs) : LastNamed(fs, n) = fs[k] /\ fs[k].decl.name = n
    BY <1>2, <1>3, NamedInFile
  <1> HIDE DEF fs
  <1>9. \A f : \A n \in Declared(p) : f = merged'.byName[n] => FnOK(f)' /\ f.decl.name = n /\ f.file = p
    <2> TAKE f
    <2> TAKE n \in Declared(p)
    <2> HAVE f = merged'.byName[n]
    <2>1. PICK k \in 1 .. Len(fs) : f = fs[k] /\ fs[k].decl.name = n
      BY <1>4, <1>8
    <2> QED BY <1>6, <1>7, <2>1
  <1>10. MergedOK'
    <2>1. /\ merged'.funcs \in Seq(Function)
          /\ DOMAIN merged'.byName = Declared(p) /\ DOMAIN merged'.fileOf = Declared(p)
          /\ \A n \in Declared(p) : merged'.fileOf[n] = p
      BY <1>4, <1>7
    <2>2. (\A k \in 1 .. Len(merged.funcs) : /\ FnOK(merged.funcs[k])
                                             /\ merged.funcs[k].decl.name \in DOMAIN merged.byName)'
      BY <1>4, <1>6, <1>7, <2>1
    <2>3. (\A n \in DOMAIN merged.byName : /\ FnOK(merged.byName[n])
                                           /\ merged.byName[n].decl.name = n)'
      BY <1>9, <2>1
    <2>4. \A f : \A n \in Declared(p) : f.file = p => FirstToDeclare(n, f)'
      BY <1>1 DEF FirstToDeclare
    <2>5. (\A n \in DOMAIN merged.byName : FirstToDeclare(n, merged.byName[n]))'
      BY <1>9, <2>1, <2>4
    <2>6. (\A n \in DOMAIN merged.byName : /\ merged.fileOf[n] \in Loaded
                                           /\ n \in Declared(merged.fileOf[n]))'
      BY <1>3, <1>5, <2>1
    <2>7. (\A q \in Loaded : Declared(q) \subseteq DOMAIN merged.byName)'
      BY <1>3, <1>5, <2>1
    <2> QED BY <2>1, <2>2, <2>3, <2>5, <2>6, <2>7 DEF MergedOK
  <1>11. NextOK' /\ TodoOK'
    BY <1>1 DEF RecordInv, NextOK, TodoOK, BeforeWriter, Source
  <1>12. TableOK'
    BY <1>1 DEF RecordInv, TableOK, Registered, BeforeWriter, SourceLineCount
  <1>13. LogOK'
    BY <1>1, LogKept, LoadedKept DEF RecordInv, BeforeWriter
  <1>14. DepthOK'
    BY <1>1 DEF RecordInv, DepthOK, BeforeWriter
  <1> QED BY <1>1, <1>2, <1>10, <1>11, <1>12, <1>13, <1>14 DEF RecordInv

\* One more import has been looked at.
LEMMA NextLoads ==
    ASSUME RecordInv, stage = "imports", next < Len(Source.imports), next' = next + 1, UNCHANGED input
    PROVE  /\ imported \in File /\ Loaded' = Loaded \cup {imported}
           /\ next \in Nat /\ next' \in 0 .. Len(Source'.imports) /\ Source' = Source
           /\ \A k \in 1 .. next' : k \in 1 .. next \/ k = next'
           /\ \A k \in 1 .. next : k \in 1 .. next'
           /\ Source.imports[next'] = imported
           /\ \A q : Declared(q)' = Declared(q)
  <1>1. Source.imports \in Seq(File) /\ Len(Source.imports) \in Nat /\ next \in 0 .. Len(Source.imports)
    BY InputShape DEF RecordInv, NextOK
  <1>2. Source' = Source /\ \A q : Declared(q)' = Declared(q)
    BY DEF Source, Declared
  <1>3. next + 1 \in 1 .. Len(Source.imports) /\ imported = Source.imports[next + 1]
    BY <1>1 DEF imported
  <1>4. \A k \in 1 .. next + 1 : k \in 1 .. next \/ k = next + 1
    BY <1>1
  <1>5. \A k \in 1 .. next : k \in 1 .. next + 1
    BY <1>1
  <1>6. next + 1 \in 1 .. next + 1
    BY <1>1
  <1>7. Loaded' = Loaded \cup {imported}
    BY <1>2, <1>3, <1>4, <1>5, <1>6 DEF Loaded
  <1>8. imported \in File
    BY <1>1, <1>3, ElementType
  <1> QED BY <1>1, <1>2, <1>3, <1>4, <1>5, <1>7, <1>8

\* Whatever was first to declare a name stays so.
LEMMA FirstKept ==
    ASSUME RecordInv, stage = "imports", next < Len(Source.imports), next' = next + 1, UNCHANGED input,
           NEW n, NEW f, FirstToDeclare(n, f)
    PROVE  FirstToDeclare(n, f)'
  BY NextLoads DEF FirstToDeclare

LEMMA FnLoads ==
    ASSUME RecordInv, stage = "imports", next < Len(Source.imports), next' = next + 1, UNCHANGED input,
           paths \subseteq paths', NEW f, FnOK(f)
    PROVE  FnOK(f)'
  BY NextLoads DEF FnOK

LEMMA SkipImportRecord == ASSUME RecordInv, SkipImport PROVE RecordInv'
  <1>1. /\ stage = "imports" /\ stage' = "imports" /\ next < Len(Source.imports)
        /\ next' = next + 1 /\ input.text[imported].status # "readable"
        /\ UNCHANGED <<input, merged, todo, paths, writer, tag, ioFailed>>
    BY DEF SkipImport, Goto, Untouched
  <1>2. SessionInv' /\ SessionInv
    BY WritingStages DEF RecordInv
  <1>3. /\ imported \in File /\ Loaded' = Loaded \cup {imported}
        /\ next' \in 0 .. Len(Source'.imports) /\ \A q : Declared(q)' = Declared(q)
    BY <1>1, NextLoads
  <1>4. Declared(imported) = {}
    <2>1. input.text[imported].decls = <<>>
      BY <1>1, <1>2, <1>3, InputShape DEF Parsed
    <2> QED BY <2>1 DEF Declared
  <1>5. /\ \A n, f : FirstToDeclare(n, f) => FirstToDeclare(n, f)'
        /\ \A f : FnOK(f) => FnOK(f)'
    BY <1>1, FirstKept, FnLoads
  <1>6. MergedOK'
    BY <1>1, <1>3, <1>4, <1>5 DEF RecordInv, MergedOK
  <1>7. NextOK' /\ TodoOK'
    BY <1>1, <1>3 DEF RecordInv, NextOK, TodoOK, BeforeWriter
  <1>8. TableOK'
    BY <1>1 DEF RecordInv, TableOK, Registered, BeforeWriter, SourceLineCount
  <1>9. LogOK'
    BY <1>1, <1>3, LogKept DEF RecordInv, BeforeWriter
  <1>10. DepthOK'
    BY <1>1 DEF RecordInv, DepthOK, BeforeWriter
  <1> QED BY <1>1, <1>2, <1>6, <1>7, <1>8, <1>9, <1>10 DEF RecordInv

\* An import is merged: names that are there keep their function, and its own
\* steps are looked up in it from now on.
LEMMA MergeRecord ==
    ASSUME RecordInv, stage = "imports", next < Len(Source.imports), next' = next + 1, UNCHANGED input,
           merged' = Merge(merged, imported), imported \in paths', paths \subseteq paths'
    PROVE  MergedOK'
  <1> DEFINE p == imported
             fs == FromFile(p)
             old == merged.byName
             own == merged.funcs
             more == own \o fs
  <1>1. SessionInv /\ MergedOK
    BY DEF RecordInv
  <1>2. /\ p \in File /\ Loaded' = Loaded \cup {p} /\ p \in paths' /\ p \in Loaded'
        /\ \A q : Declared(q)' = Declared(q)
    BY NextLoads
  <1>3. /\ merged'.funcs = more
        /\ merged'.byName = [n \in DOMAIN old \cup Declared(p) |->
                                IF n \in DOMAIN old THEN old[n] ELSE FirstNamed(fs, n)]
        /\ merged'.fileOf = [n \in DOMAIN merged.fileOf \cup Declared(p) |->
                                IF n \in Declared(p) THEN p ELSE merged.fileOf[n]]
    BY DEF Merge, Tagged
  <1>4. \A f : \A k \in 1 .. Len(fs) : f = fs[k] => FnOK(f)'
    BY <1>1, <1>2, LoadedFunctions
  <1>5. /\ fs \in Seq(Function)
        /\ \A k \in 1 .. Len(fs) : fs[k].decl.name \in Declared(p) /\ fs[k].file = p
    BY <1>1, <1>2, FileFunctions
  <1>6. \A n \in Declared(p) : \E k \in 1 .. Len(fs) : FirstNamed(fs, n) = fs[k] /\ fs[k].decl.name = n
    BY <1>1, <1>2, NamedInFile
  <1>7. /\ \A n, f : FirstToDeclare(n, f) => FirstToDeclare(n, f)'
        /\ \A f : FnOK(f) => FnOK(f)'
    BY FirstKept, FnLoads
  <1>8. /\ own \in Seq(Function)
        /\ \A k \in 1 .. Len(own) : FnOK(own[k]) /\ own[k].decl.name \in DOMAIN old
        /\ DOMAIN merged.fileOf = DOMAIN old
        /\ \A n \in DOMAIN old : /\ FnOK(old[n]) /\ old[n].decl.name = n
                                 /\ FirstToDeclare(n, old[n])
                                 /\ merged.fileOf[n] \in Loaded /\ n \in Declared(merged.fileOf[n])
        /\ \A q \in Loaded : Declared(q) \subseteq DOMAIN old
    BY <1>1 DEF MergedOK
  <1> HIDE DEF fs, old, own
  \* The first import to declare a name that is not there yet.
  <1>9. \A f : \A n \in Declared(p) \ DOMAIN old : f.file = p => FirstToDeclare(n, f)'
    <2> TAKE f
    <2> TAKE n \in Declared(p) \ DOMAIN old
    <2> HAVE f.file = p
    <2>1. \A q \in Loaded : n \notin Declared(q)
      BY <1>8
    <2>2. n \notin Declared(input.source) /\ \A j \in 1 .. next : n \notin Declared(Source.imports[j])
      BY <2>1 DEF Loaded
    <2>3. next' \in 1 .. next' /\ \A j \in 1 .. next' - 1 : j \in 1 .. next
      BY NextLoads
    <2>4. f.file = Source'.imports[next'] /\ Source' = Source
      BY NextLoads
    <2> QED BY <1>2, <2>2, <2>3, <2>4 DEF FirstToDeclare
  <1>10. \A f : \A n \in DOMAIN merged'.byName :
            f = merged'.byName[n] => FnOK(f)' /\ f.decl.name = n /\ FirstToDeclare(n, f)'
    <2> TAKE f
    <2> TAKE n \in DOMAIN merged'.byName
    <2> HAVE f = merged'.byName[n]
    <2>1. CASE n \in DOMAIN old
      <3>1. f = old[n]
        BY <1>3, <2>1
      <3> QED BY <1>7, <1>8, <2>1, <3>1
    <2>2. CASE n \notin DOMAIN old
      <3>1. n \in Declared(p) /\ f = FirstNamed(fs, n)
        BY <1>3, <2>2
      <3>2. PICK k \in 1 .. Len(fs) : f = fs[k] /\ fs[k].decl.name = n
        BY <1>6, <3>1
      <3> QED BY <1>4, <1>5, <1>9, <2>2, <3>1, <3>2
    <2> QED BY <2>1, <2>2
  <1>11. \A f : \A k \in 1 .. Len(more) : f = more[k] => FnOK(f)' /\ f.decl.name \in DOMAIN merged'.byName
    <2> TAKE f
    <2> TAKE k \in 1 .. Len(more)
    <2> HAVE f = more[k]
    <2>1. \/ \E j \in 1 .. Len(own) : f = own[j]
          \/ \E j \in 1 .. Len(fs) : f = fs[j]
      BY <1>5, <1>8, ConcatElement
    <2>2. CASE \E j \in 1 .. Len(own) : f = own[j]
      BY <1>3, <1>7, <1>8, <2>2
    <2>3. CASE \E j \in 1 .. Len(fs) : f = fs[j]
      BY <1>3, <1>4, <1>5, <2>3
    <2> QED BY <2>1, <2>2, <2>3
  <1>12. more \in Seq(Function)
    BY <1>5, <1>8, ConcatElement
  <1>13. (\A k \in 1 .. Len(merged.funcs) : /\ FnOK(merged.funcs[k])
                                            /\ merged.funcs[k].decl.name \in DOMAIN merged.byName)'
    BY <1>3, <1>11
  <1>14. (\A n \in DOMAIN merged.byName : /\ FnOK(merged.byName[n])
                                          /\ merged.byName[n].decl.name = n
                                          /\ FirstToDeclare(n, merged.byName[n]))'
    BY <1>10
  <1>15. DOMAIN merged'.fileOf = DOMAIN merged'.byName
    BY <1>3, <1>8
  <1>16. (\A n \in DOMAIN merged.byName : /\ merged.fileOf[n] \in Loaded
                                          /\ n \in Declared(merged.fileOf[n]))'
    <2>1. \A n \in DOMAIN merged'.byName : /\ merged'.fileOf[n] \in Loaded'
                                           /\ n \in Declared(merged'.fileOf[n])
      BY <1>2, <1>3, <1>8
    <2> QED BY <1>2, <2>1
  <1>17. (\A q \in Loaded : Declared(q) \subseteq DOMAIN merged.byName)'
    BY <1>2, <1>3, <1>8
  <1> QED BY <1>3, <1>12, <1>13, <1>14, <1>15, <1>16, <1>17 DEF MergedOK

LEMMA LoadImportRecord == ASSUME RecordInv, LoadImport PROVE RecordInv'
  <1>1. /\ stage = "imports" /\ stage' = "imports" /\ next < Len(Source.imports)
        /\ next' = next + 1 /\ merged' = Merge(merged, imported) /\ Register(imported)
        /\ UNCHANGED <<input, todo, tag, ioFailed>>
    BY DEF LoadImport, Goto, Untouched
  <1>2. SessionInv' /\ SessionInv
    BY WritingStages DEF RecordInv
  <1>3. /\ imported \in File /\ Loaded' = Loaded \cup {imported}
        /\ next' \in 0 .. Len(Source'.imports)
    BY <1>1, NextLoads
  <1>4. /\ writer' \in Writer /\ Registered' /\ imported \in paths' /\ paths \subseteq paths'
        /\ writer'.log = writer.log /\ writer'.depth = writer.depth
        /\ writer'.refused = writer.refused /\ writer'.state = writer.state
        /\ \A s : Resolves(writer.table, s) => Resolves(writer'.table, s)
    BY <1>1, <1>3, RegisterKeeps DEF RecordInv, TableOK
  <1>5. MergedOK'
    BY <1>1, <1>4, MergeRecord
  <1>6. NextOK'
    BY <1>1, <1>3 DEF NextOK, BeforeWriter
  <1>7. TodoOK'
    BY <1>1 DEF RecordInv, TodoOK
  <1>8. TableOK'
    BY <1>1, <1>4 DEF RecordInv, TableOK, BeforeWriter
  <1>9. LogOK'
    BY <1>1, <1>3, <1>4, LogKept DEF RecordInv, BeforeWriter
  <1>10. DepthOK'
    BY <1>1, <1>4 DEF RecordInv, DepthOK, BeforeWriter
  <1> QED BY <1>1, <1>2, <1>4, <1>5, <1>6, <1>7, <1>8, <1>9, <1>10 DEF RecordInv

----------------------------------------------------------------------------
(* Writing the calls *)

\* What the todo list holds may be written: functions known under their names.
Callable(f) == FnOK(f) /\ f.decl.name \in DOMAIN merged.byName

LEMMA EntriesCallable ==
    ASSUME MergedOK
    PROVE  /\ Entries \in Seq(Item)
           /\ \A k \in 1 .. Len(Entries) : Callable(Entries[k].fn) /\ Entries[k].do = "call"
  <1>1. \A n \in DOMAIN merged.byName : Callable(merged.byName[n]) /\ merged.byName[n] \in Function
    BY DEF MergedOK, Callable, FnOK
  <1>2. CASE Main \in DOMAIN merged.byName
    <2> DEFINE first == [do |-> "call", fn |-> merged.byName[Main], entry |-> TRUE]
    <2>1. Entries = <<first>>
      BY <1>2 DEF Entries
    <2>2. first \in Item /\ first.do = "call" /\ Callable(first.fn)
      BY <1>1, <1>2 DEF Item
    <2> HIDE DEF first
    <2> QED BY <2>1, <2>2
  <1>3. CASE Main \notin DOMAIN merged.byName
    <2> DEFINE T == {f \in Range(merged.funcs) : f.decl.transition}
               ts == Select(merged.funcs, T)
    <2>1. Entries = [k \in 1 .. Len(ts) |-> [do |-> "call", fn |-> ts[k], entry |-> FALSE]]
      BY <1>3 DEF Entries
    <2>2. merged.funcs \in Seq(Function) /\ \A k \in 1 .. Len(merged.funcs) : Callable(merged.funcs[k])
      BY DEF MergedOK, Callable
    <2> HIDE DEF T
    <2>3. /\ ts \in Seq(Function) /\ Len(ts) \in Nat
          /\ \A k \in 1 .. Len(ts) : \E j \in 1 .. Len(merged.funcs) :
                 merged.funcs[j] = ts[k] /\ merged.funcs[j] \in T
      BY <2>2, SelectType
    <2> HIDE DEF ts
    <2>4. \A k \in 1 .. Len(ts) : ts[k] \in Function /\ Callable(ts[k])
      BY <2>2, <2>3
    <2>5. \A k \in 1 .. Len(ts) : [do |-> "call", fn |-> ts[k], entry |-> FALSE] \in Item
      BY <2>4 DEF Item
    <2> QED BY <2>1, <2>3, <2>4, <2>5
  <1> QED BY <1>2, <1>3

LEMMA BeginEmissionRecord == ASSUME RecordInv, BeginEmission PROVE RecordInv'
  <1>1. /\ stage = "imports" /\ stage' = "emit" /\ todo' = Entries
        /\ UNCHANGED <<input, next, merged, paths, writer, tag, ioFailed>>
    BY DEF BeginEmission, Goto, Untouched
  <1>2. SessionInv' /\ writer.state = "open"
    BY <1>1, WritingStages DEF RecordInv, SessionInv, WriterOK, WhileOpen
  <1>3. /\ Entries \in Seq(Item) /\ Len(Entries) \in Nat
        /\ \A k \in 1 .. Len(Entries) : Callable(Entries[k].fn) /\ Entries[k].do = "call"
    BY EntriesCallable DEF RecordInv
  <1>4. NextOK' /\ MergedOK'
    BY <1>1, MergedKept DEF RecordInv, NextOK, BeforeWriter, Source
  <1>5. TodoOK'
    <2>1. \A f : FnOK(f) => FnOK(f)'
      BY <1>1, FnKept
    <2> QED BY <1>1, <1>3, <2>1 DEF TodoOK, Callable
  <1>6. TableOK'
    BY <1>1 DEF RecordInv, TableOK, Registered, BeforeWriter, SourceLineCount
  <1>7. LogOK'
    BY <1>1, LogKept, LoadedKept DEF RecordInv, BeforeWriter
  <1>8. DepthOK'
    <2>0. PICK c : c = [k \in 1 .. Len(Entries) + 1 |-> 1]
      OBVIOUS
    <2>1. /\ writer'.depth = 1 /\ 1 \in 1 .. Len(Entries) + 1
          /\ Len(Entries) + 1 \in 1 .. Len(Entries) + 1
          /\ \A k \in 1 .. Len(Entries) : k \in 1 .. Len(Entries) + 1 /\ k + 1 \in 1 .. Len(Entries) + 1
      BY <1>1, <1>3 DEF RecordInv, DepthOK
    <2>2. /\ c \in [1 .. Len(Entries) + 1 -> Nat] /\ c[1] = 1 /\ c[Len(Entries) + 1] = 1
          /\ \A k \in 1 .. Len(Entries) : c[k] = c[k + 1] /\ Entries[k].do # "return"
      BY <1>3, <2>0, <2>1
    <2>4. OpenFrom(c)'
      <3>1. \A k \in 1 .. Len(Entries) : c[k + 1] \in Nat
        BY <1>3, <2>1, <2>2
      <3> QED BY <1>1, <2>1, <2>2, <3>1 DEF OpenFrom
    <2>3. \E d : OpenFrom(d)'
      BY <2>4
    <2> QED BY <1>1, <1>2, <2>3 DEF DepthOK, BeforeWriter
  <1> QED BY <1>1, <1>2, <1>4, <1>5, <1>6, <1>7, <1>8 DEF RecordInv

\* A step of a function that may be written: it is one of the files', and
\* unless two files declare its name it resolves in its own.
LEMMA StepOK ==
    ASSUME RecordInv, NEW f, Callable(f), NEW line \in {f.decl.line, f.decl.last}
    PROVE  LET s == StepIn(f, line)
           IN  /\ s \in Step
               /\ ~Collides => s.path = s.from /\ (Fits => Resolves(writer.table, s))
  <1> DEFINE s == StepIn(f, line)
             n == f.decl.name
             p == f.file
  <1>1. f \in Function /\ p \in Loaded /\ p \in paths /\ n \in DOMAIN merged.byName
    BY DEF Callable, FnOK
  <1>2. p \in File /\ f.decl \in Decl /\ line \in Nat
    <2>1. p \in File /\ f.decl \in Decl
      BY <1>1 DEF Function
    <2> QED BY <2>1 DEF Decl
  <1>3. merged.fileOf[n] \in Loaded /\ n \in Declared(merged.fileOf[n])
    BY <1>1 DEF RecordInv, MergedOK
  <1>4. Loaded \subseteq File
    <2>1. /\ input.source \in File /\ Source.imports \in Seq(File) /\ Len(Source.imports) \in Nat
          /\ next \in 0 .. Len(Source.imports)
      BY InputShape DEF RecordInv, NextOK
    <2>2. \A k \in 1 .. next : k \in 1 .. Len(Source.imports)
      BY <2>1
    <2> QED BY <2>1, <2>2, ElementType DEF Loaded
  <1>5. s = [path |-> merged.fileOf[n], line |-> line, from |-> p]
    BY DEF StepIn
  <1> HIDE DEF s
  <1>6. s \in Step /\ s.path = merged.fileOf[n] /\ s.line = line /\ s.from = p
    BY <1>2, <1>3, <1>4, <1>5 DEF Step
  <1>7. ASSUME ~Collides PROVE s.path = s.from /\ (Fits => Resolves(writer.table, s))
    <2>1. PICK k \in 1 .. Len(input.text[p].decls) : input.text[p].decls[k] = f.decl
      BY DEF Callable, FnOK
    <2>2. n \in Declared(p)
      BY <2>1 DEF Declared
    <2>3. merged.fileOf[n] = p
      BY <1>1, <1>3, <1>7, <2>2 DEF Collides
    <2>4. PICK j \in 1 .. Len(writer.table) : writer.table[j].path = p
      BY <1>1 DEF RecordInv, TableOK, Registered
    <2>5. writer.table[j].lines = input.text[p].newlines + 1
      BY <2>4 DEF RecordInv, TableOK, Registered, SourceLineCount
    <2>6. Fits => line \in 0 .. input.text[p].newlines + 1
      BY <1>1, <2>1 DEF Fits, Closed
    <2>7. Fits => Resolves(writer.table, s)
      <3>1. input.text[p].newlines + 1 \in Nat
        BY <1>2, InputShape DEF RecordInv
      <3> QED BY <1>2, <1>6, <2>3, <2>4, <2>5, <2>6, <3>1 DEF Resolves
    <2> QED BY <1>6, <2>3, <2>7
  <1> QED BY <1>6, <1>7 DEF s

\* A call is replaced by the calls it makes and its return.
LEMMA Expanded ==
    ASSUME NEW S, NEW s \in Seq(S), s # <<>>, NEW i \in Seq(S), NEW x \in S
    PROVE  /\ i \o <<x>> \o Tail(s) \in Seq(S)
           /\ Len(i \o <<x>> \o Tail(s)) = Len(i) + Len(s)
           /\ \A k \in 1 .. Len(i) + Len(s) :
                  (i \o <<x>> \o Tail(s))[k] = IF k <= Len(i) THEN i[k]
                                             ELSE IF k = Len(i) + 1 THEN x ELSE s[k - Len(i)]
  <1>1. /\ Tail(s) \in Seq(S) /\ Len(Tail(s)) = Len(s) - 1 /\ Len(s) \in Nat \ {0}
        /\ \A k \in 1 .. Len(s) - 1 : Tail(s)[k] = s[k + 1]
    OBVIOUS
  <1> DEFINE a == i \o <<x>>
             b == Tail(s)
  <1>2. /\ a \in Seq(S) /\ Len(a) = Len(i) + 1 /\ Len(i) \in Nat
        /\ \A k \in 1 .. Len(i) + 1 : a[k] = IF k = Len(i) + 1 THEN x ELSE i[k]
    OBVIOUS
  <1>3. i \o <<x>> \o Tail(s) = a \o b
    OBVIOUS
  <1>5. b \in Seq(S) /\ Len(b) = Len(s) - 1 /\ \A k \in 1 .. Len(s) - 1 : b[k] = s[k + 1]
    BY <1>1
  <1> HIDE DEF a, b
  <1>4. /\ a \o b \in Seq(S) /\ Len(a \o b) = Len(a) + Len(b)
        /\ \A k \in 1 .. Len(a) + Len(b) : (a \o b)[k] = IF k <= Len(a) THEN a[k] ELSE b[k - Len(a)]
    <2>1. /\ a \o b \in Seq(S) /\ Len(a \o b) = Len(a) + Len(b) /\ Len(a) \in Nat /\ Len(b) \in Nat
          /\ \A k \in 1 .. Len(a) : (a \o b)[k] = a[k]
          /\ \A k \in 1 .. Len(b) : (a \o b)[Len(a) + k] = b[k]
      <3>1. a \in Seq(S) /\ b \in Seq(S)
        BY <1>2, <1>5
      <3> QED BY <3>1, ConcatElement
    <2>2. ASSUME NEW k \in 1 .. Len(a) + Len(b), ~(k <= Len(a)) PROVE (a \o b)[k] = b[k - Len(a)]
      <3>1. k - Len(a) \in 1 .. Len(b) /\ Len(a) + (k - Len(a)) = k
        BY <2>1, <2>2
      <3> QED BY <2>1, <3>1
    <2> QED BY <2>1, <2>2
  <1>6. Len(a) + Len(b) = Len(i) + Len(s)
    BY <1>1, <1>2, <1>5
  <1>7. ASSUME NEW k \in 1 .. Len(i) + Len(s)
        PROVE  (a \o b)[k] = IF k <= Len(i) THEN i[k] ELSE IF k = Len(i) + 1 THEN x ELSE s[k - Len(i)]
    <2>1. CASE k <= Len(i) + 1
      <3>1. (a \o b)[k] = a[k] /\ k \in 1 .. Len(i) + 1
        BY <1>1, <1>2, <1>4, <1>6, <2>1
      <3> QED BY <1>2, <3>1
    <2>2. CASE k > Len(i) + 1
      <3>1. k - (Len(i) + 1) \in 1 .. Len(s) - 1 /\ (k - (Len(i) + 1)) + 1 = k - Len(i)
        BY <1>1, <1>2, <2>2
      <3>2. b[k - (Len(i) + 1)] = s[k - Len(i)]
        BY <1>5, <3>1
      <3>3. (a \o b)[k] = b[k - (Len(i) + 1)]
        BY <1>1, <1>2, <1>4, <1>6, <2>2
      <3> QED BY <1>2, <2>2, <3>2, <3>3
    <2>3. k <= Len(i) + 1 \/ k > Len(i) + 1
      <3>1. Len(i) \in Nat /\ Len(s) \in Nat
        OBVIOUS
      <3> QED BY <3>1
    <2> QED BY <2>1, <2>2, <2>3
  <1> QED BY <1>3, <1>4, <1>6, <1>7

\* What a call leaves to write: its own calls, by name, and its return.
Inner(f) ==
    LET known == Select(f.decl.calls, DOMAIN merged.byName)
    IN  [k \in 1 .. Len(known) |-> [do |-> "call", fn |-> merged.byName[known[k]], entry |-> FALSE]]

LEMMA InnerCallable ==
    ASSUME MergedOK, NEW f \in Function
    PROVE  /\ Inner(f) \in Seq(Item) /\ Len(Inner(f)) \in Nat
           /\ \A k \in 1 .. Len(Inner(f)) : Callable(Inner(f)[k].fn) /\ Inner(f)[k].do = "call"
  <1>1. \A n \in DOMAIN merged.byName : Callable(merged.byName[n]) /\ merged.byName[n] \in Function
    BY DEF MergedOK, Callable, FnOK
  <1>2. f.decl.calls \in Seq(FnName)
    BY DEF Function, Decl
  <1> DEFINE known == Select(f.decl.calls, DOMAIN merged.byName)
             calls == f.decl.calls
  <1>3. Inner(f) = [k \in 1 .. Len(known) |->
                      [do |-> "call", fn |-> merged.byName[known[k]], entry |-> FALSE]]
    BY DEF Inner
  <1>4. /\ Len(known) \in Nat
        /\ \A k \in 1 .. Len(known) : \E j \in 1 .. Len(calls) :
               calls[j] = known[k] /\ calls[j] \in DOMAIN merged.byName
    BY <1>2, SelectType
  <1> HIDE DEF known
  <1>5. \A k \in 1 .. Len(known) : known[k] \in DOMAIN merged.byName
    BY <1>4
  <1>6. \A k \in 1 .. Len(known) :
            /\ merged.byName[known[k]] \in Function /\ Callable(merged.byName[known[k]])
            /\ [do |-> "call", fn |-> merged.byName[known[k]], entry |-> FALSE] \in Item
    BY <1>1, <1>5 DEF Item
  <1> QED BY <1>3, <1>4, <1>6

\* What follows when one item is replaced: the parts of the invariant that a
\* step of emit_call_trace does not touch, and the rest of the list.
LEMMA EmissionGoesOn ==
    ASSUME RecordInv, stage = "emit", stage' = "emit", SessionInv', writer' \in Writer,
           UNCHANGED <<input, next, merged, paths, tag, ioFailed>>, writer'.table = writer.table,
           writer'.state = "open", LogOK', todo' \in Seq(Item),
           \A k \in 1 .. Len(todo') : Callable(todo'[k].fn), \E c : OpenFrom(c)'
    PROVE  RecordInv'
  <1>1. NextOK' /\ MergedOK'
    BY MergedKept DEF RecordInv, NextOK, BeforeWriter, Source
  <1>2. \A f : FnOK(f) => FnOK(f)'
    BY FnKept
  <1>3. TodoOK'
    BY <1>2 DEF TodoOK, Callable
  <1>4. TableOK'
    BY DEF RecordInv, TableOK, Registered, BeforeWriter, SourceLineCount
  <1>5. DepthOK'
    BY DEF DepthOK, BeforeWriter
  <1> QED BY <1>1, <1>3, <1>4, <1>5 DEF RecordInv

LEMMA EmitCallRecord == ASSUME RecordInv, EmitCall PROVE RecordInv'
  <1> DEFINE item == Head(todo)
             f == item.fn
             inner == Inner(f)
             m == Len(inner)
             n == Len(todo)
             ret == [item EXCEPT !.do = "return"]
             s == StepIn(f, f.decl.line)
             w == WithSteps(writer, <<s>>)
  <1>1. /\ stage = "emit" /\ stage' = "emit" /\ todo # <<>> /\ item.do = "call"
        /\ todo' = inner \o <<ret>> \o Tail(todo)
        /\ writer' = IF item.entry THEN writer ELSE [w EXCEPT !.depth = w.depth + 1]
        /\ UNCHANGED <<input, next, merged, paths, tag, ioFailed>>
    BY Zenon DEF EmitCall, Inner, Goto, Untouched
  <1>2. SessionInv' /\ SessionInv /\ writer.state = "open"
    BY <1>1, WritingStages DEF RecordInv, SessionInv, WriterOK, WhileOpen
  <1>3. /\ todo \in Seq(Item) /\ n \in Nat /\ 1 \in 1 .. n /\ item = todo[1]
        /\ \A k \in 1 .. n : todo[k] \in Item /\ Callable(todo[k].fn)
    <2>1. todo \in Seq(Item) /\ \A k \in 1 .. Len(todo) : Callable(todo[k].fn)
      BY DEF RecordInv, TodoOK, Callable
    <2> QED BY <1>1, <2>1, ElementType
  <1>4. item \in Item /\ Callable(f) /\ f \in Function
    <2>1. item \in Item /\ Callable(f)
      BY <1>3
    <2> QED BY <2>1 DEF Item
  <1>5. /\ inner \in Seq(Item) /\ m \in Nat
        /\ \A k \in 1 .. m : Callable(inner[k].fn) /\ inner[k].do = "call"
    BY <1>4, InnerCallable DEF RecordInv
  <1>6. ret \in Item /\ ret.do = "return" /\ ret.fn = f /\ ret.entry = item.entry
    BY <1>4 DEF Item
  <1> HIDE DEF inner, m, n, ret, item
  <1>7. /\ todo' \in Seq(Item) /\ Len(todo') = m + n
        /\ \A k \in 1 .. m + n : todo'[k] = IF k <= m THEN inner[k]
                                            ELSE IF k = m + 1 THEN ret ELSE todo[k - m]
    BY <1>1, <1>3, <1>5, <1>6, Expanded DEF m, n
  <1>8. \A k \in 1 .. Len(todo') : Callable(todo'[k].fn)
    <2> TAKE k \in 1 .. Len(todo')
    <2>1. k \in 1 .. m + n /\ (k > m + 1 => k - m \in 1 .. n) /\ (k <= m => k \in 1 .. m)
      BY <1>3, <1>5, <1>7
    <2>2. CASE k <= m
      BY <1>5, <1>7, <2>1, <2>2
    <2>3. CASE k = m + 1
      BY <1>4, <1>5, <1>6, <1>7, <2>1, <2>3
    <2>4. CASE k > m + 1
      <3>1. k - m \in 1 .. n /\ todo'[k] = todo[k - m]
        BY <1>5, <1>7, <2>1, <2>4
      <3> QED BY <1>3, <3>1
    <2> QED BY <1>5, <2>1, <2>2, <2>3, <2>4
  <1>9. \E c : OpenFrom(c)'
    <2>1. PICK c : OpenFrom(c)
      BY <1>1 DEF RecordInv, DepthOK
    <2> DEFINE e == IF item.entry THEN 0 ELSE 1
    <2>0. PICK d : d = [k \in 1 .. (m + n) + 1 |-> IF k <= m + 1 THEN c[1] + e ELSE c[k - m]]
      OBVIOUS
    <2>2. /\ \A k \in 1 .. n + 1 : c[k] \in Nat
          /\ c[1] = writer.depth /\ c[n + 1] = 1
          /\ \A k \in 1 .. n : c[k] = c[k + 1] + (IF todo[k].do = "return" /\ ~todo[k].entry THEN 1 ELSE 0)
      BY <2>1 DEF OpenFrom, n
    <2>3. 1 \in 1 .. n + 1 /\ c[1] \in Nat /\ c[1] = c[2] /\ e \in 0 .. 1
      <3>1. 1 \in 1 .. n + 1 /\ c[1] \in Nat /\ 2 \in 1 .. n + 1 /\ c[2] \in Nat
        BY <1>3, <2>2
      <3>2. c[1] = c[1 + 1] + 0
        BY <1>1, <1>3, <2>2
      <3> QED BY <3>1, <3>2
    <2>4. writer'.depth = c[1] + e
      <3>1. w \in Writer /\ w.depth = writer.depth
        BY <1>4, StepOK, StepWritten DEF RecordInv
      <3> HIDE DEF w
      <3>2. [w EXCEPT !.depth = w.depth + 1].depth = w.depth + 1
        BY <3>1 DEF Writer
      <3>3. CASE item.entry
        <4>1. writer' = writer /\ e = 0
          BY <1>1, <3>3
        <4>2. writer'.depth = c[1]
          BY <2>2, <4>1
        <4> QED BY <2>3, <4>1, <4>2
      <3>4. CASE ~item.entry
        BY <1>1, <2>2, <2>3, <3>1, <3>2, <3>4
      <3> QED BY <3>3, <3>4
    <2>5. d \in [1 .. (m + n) + 1 -> Nat]
      <3> SUFFICES ASSUME NEW k \in 1 .. (m + n) + 1
                   PROVE  (IF k <= m + 1 THEN c[1] + e ELSE c[k - m]) \in Nat
        BY <2>0
      <3>1. k > m + 1 => k - m \in 1 .. n + 1
        BY <1>3, <1>5
      <3> HIDE DEF e
      <3> QED BY <1>5, <2>2, <2>3, <3>1
    <2>6. d[1] = c[1] + e
      BY <1>3, <1>5, <2>0
    <2>7. d[(m + n) + 1] = 1
      <3>1. ~((m + n) + 1 <= m + 1) /\ ((m + n) + 1) - m = n + 1 /\ (m + n) + 1 \in 1 .. (m + n) + 1
        BY <1>3, <1>5
      <3> QED BY <2>0, <2>2, <3>1
    <2>8. ASSUME NEW k \in 1 .. m + n
          PROVE  d[k] = d[k + 1] + (IF todo'[k].do = "return" /\ ~todo'[k].entry THEN 1 ELSE 0)
      <3>1. k \in 1 .. (m + n) + 1 /\ k + 1 \in 1 .. (m + n) + 1
        BY <1>3, <1>5
      <3>2. /\ d[k] = IF k <= m + 1 THEN c[1] + e ELSE c[k - m]
            /\ d[k + 1] = IF k + 1 <= m + 1 THEN c[1] + e ELSE c[(k + 1) - m]
        BY <2>0, <3>1
      <3> HIDE DEF e
      <3>3. CASE k <= m
        BY <1>5, <1>7, <2>3, <3>2, <3>3
      <3>4. CASE k = m + 1
        <4>1. todo'[k] = ret /\ (k + 1) - m = 2
          BY <1>5, <1>7, <3>4
        <4>2. d[k] = c[1] + e /\ d[k + 1] = c[2]
          BY <1>5, <3>2, <3>4, <4>1
        <4> QED BY <1>6, <2>3, <4>1, <4>2 DEF e
      <3>5. CASE k > m + 1
        <4>1. k - m \in 1 .. n /\ (k + 1) - m = (k - m) + 1 /\ ~(k <= m + 1) /\ ~(k + 1 <= m + 1)
          BY <1>3, <1>5, <3>5
        <4>2. todo'[k] = todo[k - m]
          BY <1>5, <1>7, <3>5
        <4> QED BY <2>2, <3>2, <4>1, <4>2
      <3> QED BY <1>5, <3>3, <3>4, <3>5
    <2> HIDE DEF e
    <2>9. OpenFrom(d)'
      BY <1>7, <2>4, <2>5, <2>6, <2>7, <2>8 DEF OpenFrom
    <2> QED BY <2>9
  <1>10. s \in Step /\ (~Collides => s.path = s.from /\ (Fits => Resolves(writer.table, s)))
    BY <1>4, StepOK
  <1> HIDE DEF s
  <1>11. /\ w \in Writer /\ w.log = Append(writer.log, s) /\ w.table = writer.table
         /\ w.depth = writer.depth /\ w.state = writer.state
         /\ w.refused = (writer.refused \/ ~Resolves(writer.table, s))
    BY <1>10, StepWritten DEF RecordInv
  <1> HIDE DEF w
  <1>12. writer' \in Writer /\ writer'.table = writer.table /\ writer'.state = "open" /\ LogOK'
    <2>1. CASE item.entry
      <3>1. writer' = writer
        BY <1>1, <2>1
      <3>2. LogOK'
        BY <1>1, <3>1, LogKept, LoadedKept DEF RecordInv, BeforeWriter
      <3> QED BY <1>2, <3>1, <3>2 DEF RecordInv
    <2>2. CASE ~item.entry
      <3>1. /\ writer' \in Writer /\ writer'.log = w.log /\ writer'.table = w.table
            /\ writer'.state = w.state /\ writer'.refused = w.refused
        <4>1. PICK d : d = w.depth + 1
          OBVIOUS
        <4>2. writer' = [w EXCEPT !.depth = d] /\ d \in Nat
          BY <1>1, <1>11, <2>2, <4>1 DEF Writer
        <4> QED BY <1>11, <4>2 DEF Writer
      <3>2. LogOK'
        BY <1>1, <1>2, <1>10, <1>11, <3>1, LogGrows DEF RecordInv, BeforeWriter
      <3> QED BY <1>2, <1>11, <3>1, <3>2
    <2> QED BY <2>1, <2>2
  <1> QED BY <1>1, <1>2, <1>7, <1>8, <1>9, <1>12, EmissionGoesOn

LEMMA EmitReturnRecord == ASSUME RecordInv, EmitReturn PROVE RecordInv'
  <1> DEFINE item == todo[1]
             f == item.fn
             n == Len(todo)
             s == StepIn(f, f.decl.last)
             w == WithSteps(writer, <<s>>)
             left == IF item.entry THEN w.depth ELSE w.depth - 1
  <1>1. /\ stage = "emit" /\ stage' = "emit" /\ todo # <<>> /\ item.do = "return"
        /\ todo' = Tail(todo) /\ writer' = [w EXCEPT !.depth = left]
        /\ UNCHANGED <<input, next, merged, paths, tag, ioFailed>>
    BY DEF EmitReturn, Goto, Untouched
  <1>2. SessionInv' /\ SessionInv /\ writer.state = "open"
    BY <1>1, WritingStages DEF RecordInv, SessionInv, WriterOK, WhileOpen
  <1>3. /\ todo \in Seq(Item) /\ n \in Nat /\ 1 \in 1 .. n
        /\ \A k \in 1 .. n : todo[k] \in Item /\ Callable(todo[k].fn)
    <2>1. todo \in Seq(Item) /\ \A k \in 1 .. Len(todo) : Callable(todo[k].fn)
      BY DEF RecordInv, TodoOK, Callable
    <2> QED BY <1>1, <2>1, ElementType
  <1>4. item \in Item /\ Callable(f)
    BY <1>3
  <1>5. /\ todo' \in Seq(Item) /\ Len(todo') = n - 1
        /\ \A k \in 1 .. n - 1 : todo'[k] = todo[k + 1] /\ k + 1 \in 1 .. n
    BY <1>1, <1>3
  <1> HIDE DEF n, item
  <1>6. \A k \in 1 .. Len(todo') : Callable(todo'[k].fn)
    BY <1>3, <1>5
  <1>7. s \in Step /\ (~Collides => s.path = s.from /\ (Fits => Resolves(writer.table, s)))
    BY <1>4, StepOK
  <1> HIDE DEF s
  <1>8. /\ w \in Writer /\ w.log = Append(writer.log, s) /\ w.table = writer.table
        /\ w.depth = writer.depth /\ w.state = writer.state
        /\ w.refused = (writer.refused \/ ~Resolves(writer.table, s))
    BY <1>7, StepWritten DEF RecordInv
  <1> HIDE DEF w
  <1>9. PICK c : OpenFrom(c)
    BY <1>1 DEF RecordInv, DepthOK
  <1>10. /\ \A k \in 1 .. n + 1 : c[k] \in Nat
         /\ c[1] = writer.depth /\ c[n + 1] = 1
         /\ \A k \in 1 .. n : c[k] = c[k + 1] + (IF todo[k].do = "return" /\ ~todo[k].entry THEN 1 ELSE 0)
    BY <1>9 DEF OpenFrom, n
  <1>11. left = c[2] /\ left \in Nat
    <2>1. c[2] \in Nat /\ c[1] = c[2] + (IF ~item.entry THEN 1 ELSE 0)
      BY <1>1, <1>3, <1>10 DEF item
    <2> QED BY <1>8, <1>10, <2>1
  <1> HIDE DEF left
  <1>12. /\ writer' \in Writer /\ writer'.log = w.log /\ writer'.table = w.table
         /\ writer'.state = w.state /\ writer'.refused = w.refused /\ writer'.depth = left
    BY <1>1, <1>8, <1>11 DEF Writer
  <1>13. LogOK'
    BY <1>1, <1>2, <1>7, <1>8, <1>12, LogGrows DEF RecordInv, BeforeWriter
  <1>14. \E d : OpenFrom(d)'
    <2>0. PICK d : d = [k \in 1 .. (n - 1) + 1 |-> c[k + 1]]
      OBVIOUS
    <2>1. /\ d \in [1 .. (n - 1) + 1 -> Nat] /\ d[1] = c[2] /\ d[(n - 1) + 1] = c[n + 1]
          /\ \A k \in 1 .. n - 1 : d[k] = c[k + 1] /\ d[k + 1] = c[(k + 1) + 1]
      BY <1>3, <1>10, <2>0
    <2>2. \A k \in 1 .. n - 1 : d[k] = d[k + 1] + (IF todo'[k].do = "return" /\ ~todo'[k].entry THEN 1 ELSE 0)
      BY <1>5, <1>10, <2>1
    <2>3. OpenFrom(d)'
      BY <1>5, <1>10, <1>11, <1>12, <2>1, <2>2 DEF OpenFrom
    <2> QED BY <2>3
  <1> QED BY <1>1, <1>2, <1>5, <1>6, <1>8, <1>12, <1>13, <1>14, EmissionGoesOn

LEMMA CloseToplevelRecord == ASSUME RecordInv, CloseToplevel PROVE RecordInv'
  <1>1. /\ stage = "close_toplevel" /\ stage' = "finish"
        /\ writer' = [writer EXCEPT !.depth = @ - 1]
        /\ UNCHANGED <<input, next, merged, todo, paths, tag, ioFailed>>
    BY DEF CloseToplevel, Goto, Untouched
  <1>2. SessionInv' /\ SessionInv
    BY WritingStages DEF RecordInv
  <1>3. writer.depth = 1 /\ writer.state = "open" /\ todo = <<>>
    BY <1>1, <1>2 DEF RecordInv, DepthOK, TodoOK, SessionInv, WriterOK, WhileOpen
  <1>4. /\ writer' \in Writer /\ writer'.depth = 0 /\ writer'.state = "open"
        /\ writer'.log = writer.log /\ writer'.table = writer.table /\ writer'.refused = writer.refused
    BY <1>1, <1>3 DEF RecordInv, Writer
  <1>5. NextOK' /\ MergedOK' /\ TodoOK'
    BY <1>1, <1>3, MergedKept, TodoKept DEF RecordInv, NextOK, BeforeWriter, Source
  <1>6. TableOK'
    BY <1>1, <1>4 DEF RecordInv, TableOK, Registered, BeforeWriter, SourceLineCount
  <1>7. LogOK'
    BY <1>1, <1>3, <1>4, LogKept, LoadedKept DEF RecordInv, BeforeWriter
  <1>8. DepthOK'
    BY <1>1, <1>4 DEF DepthOK, BeforeWriter
  <1> QED BY <1>1, <1>2, <1>4, <1>5, <1>6, <1>7, <1>8 DEF RecordInv

----------------------------------------------------------------------------
(* What a recording holds *)

LEMMA InitRecord == Init => RecordInv
  <1> SUFFICES ASSUME Init PROVE RecordInv
    OBVIOUS
  <1>1. SessionInv
    BY InitSession
  <1>2. writer = NoWriter /\ stage = "canonicalize" /\ next = 0 /\ todo = <<>> /\ paths = {}
        /\ merged = [funcs |-> <<>>, byName |-> <<>>, fileOf |-> <<>>]
    BY DEF Init
  <1>3. \A S : <<>> \in Seq(S) /\ Len(<<>>) = 0
    OBVIOUS
  <1>4. writer \in Writer
    BY <1>2, <1>3 DEF NoWriter, Writer
  <1>5. NextOK
    BY <1>1, <1>2, InputShape DEF NextOK
  <1>6. MergedOK
    <2>1. DOMAIN merged.byName = {} /\ DOMAIN merged.fileOf = {} /\ merged.funcs = <<>>
      BY <1>2
    <2> QED BY <1>2, <1>3, <2>1 DEF MergedOK
  <1>7. TodoOK /\ TableOK /\ LogOK /\ DepthOK
    BY <1>2, <1>3 DEF TodoOK, TableOK, Registered, LogOK, DepthOK, NoWriter, BeforeWriter
  <1> QED BY <1>1, <1>4, <1>5, <1>6, <1>7 DEF RecordInv, Init

LEMMA StandingRecord == ASSUME RecordInv, UNCHANGED vars PROVE RecordInv'
  <1>1. SessionInv'
    BY SessionStep DEF RecordInv
  <1>2. MergedOK' /\ TodoOK' /\ LogOK'
    <2>1. MergedOK' /\ LogOK'
      BY MergedKept, LogKept, LoadedKept DEF RecordInv, vars
    <2>2. \A f : FnOK(f) => FnOK(f)'
      BY FnKept DEF vars
    <2> QED BY <2>1, <2>2 DEF RecordInv, TodoOK, vars
  <1>3. DepthOK'
    <2>1. \A c : OpenFrom(c) => OpenFrom(c)'
      BY DEF OpenFrom, vars
    <2> QED BY <2>1 DEF RecordInv, DepthOK, vars
  <1>4. NextOK' /\ TableOK'
    BY DEF RecordInv, NextOK, TableOK, Registered, vars, Source, SourceLineCount
  <1> QED BY <1>1, <1>2, <1>3, <1>4 DEF RecordInv, vars

LEMMA RecordStep == RecordInv /\ [Next]_vars => RecordInv'
  <1> SUFFICES ASSUME RecordInv, [Next]_vars PROVE RecordInv'
    OBVIOUS
  <1>1. CASE Trace
    BY <1>1, EarlyRecord, OpenWriterRecord, RegisterSourceRecord, StartRecord, ErrorEventRecord,
       ParseProgramRecord, SkipImportRecord, LoadImportRecord, BeginEmissionRecord, EmitCallRecord,
       EmitReturnRecord, EndEmissionRecord, CloseToplevelRecord, ClosingRecord DEF Trace
  <1>2. CASE IoFails
    BY <1>2, IoFailsRecord
  <1>3. CASE Panics
    BY <1>3, PanicsRecord
  <1>4. CASE UNCHANGED vars
    BY <1>4, StandingRecord
  <1> QED BY <1>1, <1>2, <1>3, <1>4 DEF Next, Exited

LEMMA RecordInvariant == Spec => []RecordInv
  BY InitRecord, RecordStep, PTL DEF Spec

\* The variables of a recording hold what the code's types allow: in particular
\* the imports are read in bounds, every name has its file, and the number of
\* open calls is never negative (trace_program, emit_call_trace).
THEOREM SessionTypeCorrect == Spec => []TypeOK
  <1>1. RecordInv => TypeOK
    <2> SUFFICES ASSUME RecordInv PROVE TypeOK
      OBVIOUS
    <2>1. \A n \in DOMAIN merged.byName : merged.byName[n] \in Function
      BY DEF RecordInv, MergedOK, FnOK
    <2>2. Loaded \subseteq File
      <3>1. /\ input.source \in File /\ Source.imports \in Seq(File) /\ Len(Source.imports) \in Nat
            /\ next \in 0 .. Len(Source.imports)
        BY InputShape DEF RecordInv, NextOK
      <3>2. \A k \in 1 .. next : k \in 1 .. Len(Source.imports)
        BY <3>1
      <3> QED BY <3>1, <3>2, ElementType DEF Loaded
    <2>3. \A n \in DOMAIN merged.byName : merged.fileOf[n] \in File
      BY <2>2 DEF RecordInv, MergedOK
    <2>4. kind \in {"program", "error"} /\ exit \in {"running", "ok", "err", "panic"}
      BY DEF RecordInv, SessionInv, ErrorTraceOK, ExitOK
    <2>5. paths \subseteq File /\ todo \in Seq([do : {"call", "return"}, fn : Function, entry : BOOLEAN])
      BY DEF RecordInv, TableOK, Registered, TodoOK, Item
    <2> QED BY <2>1, <2>3, <2>4, <2>5 DEF RecordInv, NextOK, MergedOK, TypeOK
  <1> QED BY <1>1, RecordInvariant, PTL

\* A bundle that is complete has every call closed, states the size of each
\* file once and holds no step outside them, whatever the files declare and
\* import (LineCountedPaths::register, emit_call_trace, finish).
THEOREM BundlesReadable == Spec => []CompleteBundlesReadable
  <1>1. RecordInv => CompleteBundlesReadable
    <2> SUFFICES ASSUME RecordInv, Bundle \in {"program", "error"}
                 PROVE  /\ writer.depth = 0
                        /\ \A i, j \in 1 .. Len(writer.table) :
                               writer.table[i].path = writer.table[j].path => i = j
                        /\ \A k \in 1 .. Len(writer.log) : Resolves(writer.table, writer.log[k])
      BY DEF CompleteBundlesReadable
    <2>1. writer.state = "closed"
      BY DEF Bundle
    <2>2. writer.depth = 0 /\ ~writer.refused
      BY <2>1 DEF RecordInv, DepthOK, LogOK
    <2>3. \A k \in 1 .. Len(writer.log) : Resolves(writer.table, writer.log[k])
      BY <2>2 DEF RecordInv, LogOK
    <2>4. \A i, j \in 1 .. Len(writer.table) : writer.table[i].path = writer.table[j].path => i = j
      BY DEF RecordInv, TableOK, Registered
    <2> QED BY <2>2, <2>3, <2>4
  <1> QED BY <1>1, RecordInvariant, PTL

\* The files that have been looked at, as the properties name them.
LEMMA LookedAt ==
    ASSUME RecordInv
    PROVE  /\ SubSeq(Source.imports, 1, next) \in Seq(File) /\ Len(SubSeq(Source.imports, 1, next)) = next
           /\ \A k \in 1 .. next : SubSeq(Source.imports, 1, next)[k] = Source.imports[k]
           /\ Loaded = {input.source} \cup Range(SubSeq(Source.imports, 1, next))
  <1> DEFINE imps == Source.imports
             ss == SubSeq(imps, 1, next)
  <1>1. imps \in Seq(File) /\ next \in 0 .. Len(imps) /\ Len(imps) \in Nat
    BY InputShape DEF RecordInv, NextOK
  <1> HIDE DEF imps
  <1>2. ss \in Seq(File) /\ Len(ss) = next /\ \A k \in 1 .. next : ss[k] = imps[k]
    BY <1>1
  <1>3. DOMAIN ss = 1 .. next
    BY <1>1, <1>2
  <1> HIDE DEF ss
  <1>4. Range(ss) = {imps[k] : k \in 1 .. next}
    BY <1>2, <1>3 DEF Range
  <1> QED BY <1>2, <1>4 DEF Loaded, ss, imps

\* Where the files that are merged declare different names, every step is
\* recorded in the file that declares its function and, where parameter lists are
\* closed, the writer refuses none
\* (the tagging of func_source_files, emit_call_trace's func_path).
THEOREM StepsFiled == Spec => []StepsKeepTheirFile
  <1>1. RecordInv => StepsKeepTheirFile
    <2> SUFFICES ASSUME RecordInv, ~Collision
                 PROVE  /\ \A k \in 1 .. Len(writer.log) : writer.log[k].path = writer.log[k].from
                        /\ (\A p \in {input.source} \cup Range(SubSeq(Source.imports, 1, next)) :
                               Closed(input.text[p])) => ~writer.refused
      BY DEF StepsKeepTheirFile
    <2>1. ~Collides
      BY LookedAt DEF Collision, Collides
    <2>2. (\A p \in {input.source} \cup Range(SubSeq(Source.imports, 1, next)) :
               Closed(input.text[p])) => Fits
      BY LookedAt DEF Fits
    <2> QED BY <2>1, <2>2 DEF RecordInv, LogOK
  <1> QED BY <1>1, RecordInvariant, PTL

\* A name means what the source declares or, failing that, the import that was
\* read first: no later import displaces it (emit_trace_events' merge).
THEOREM ImportsNeverDisplace == Spec => []EarlierFilesWin
  <1>1. RecordInv => EarlierFilesWin
    <2> DEFINE ss == SubSeq(Source.imports, 1, next)
               files == <<input.source>> \o ss
    <2> SUFFICES ASSUME RecordInv, NEW n \in DOMAIN merged.byName
                 PROVE  \E k \in 1 .. Len(files) :
                            /\ merged.byName[n].file = files[k]
                            /\ \A j \in 1 .. k - 1 : n \notin Declared(files[j])
      BY DEF EarlierFilesWin
    <2> DEFINE f == merged.byName[n]
    <2>1. FirstToDeclare(n, f)
      BY DEF RecordInv, MergedOK
    <2>2. ss \in Seq(File) /\ Len(ss) = next /\ \A k \in 1 .. next : ss[k] = Source.imports[k]
      BY LookedAt
    <2>3. next \in Nat /\ input.source \in File
      BY <2>2, InputShape DEF RecordInv, NextOK
    <2> HIDE DEF ss
    <2>4. /\ Len(files) = next + 1 /\ files[1] = input.source
          /\ \A k \in 1 .. next : files[k + 1] = Source.imports[k]
      BY <2>2, <2>3
    <2> HIDE DEF files, f
    <2>5. CASE f.file = input.source
      <3>1. 1 \in 1 .. Len(files) /\ 1 .. 1 - 1 = {}
        BY <2>3, <2>4
      <3> QED BY <2>4, <2>5, <3>1 DEF f
    <2>6. CASE f.file # input.source
      <3>1. PICK k \in 1 .. next : /\ f.file = Source.imports[k]
                                   /\ n \notin Declared(input.source)
                                   /\ \A j \in 1 .. k - 1 : n \notin Declared(Source.imports[j])
        BY <2>1, <2>6 DEF FirstToDeclare
      <3>2. ASSUME NEW j \in 1 .. (k + 1) - 1 PROVE n \notin Declared(files[j])
        <4>1. j = 1 \/ (j - 1 \in 1 .. k - 1 /\ j - 1 \in 1 .. next /\ (j - 1) + 1 = j)
          BY <2>3, <3>1
        <4> QED BY <2>4, <3>1, <4>1
      <3>3. k + 1 \in 1 .. Len(files) /\ files[k + 1] = f.file
        BY <2>3, <2>4, <3>1
      <3> QED BY <3>2, <3>3 DEF f
    <2> QED BY <2>5, <2>6
  <1> QED BY <1>1, RecordInvariant, PTL

=============================================================================
