------------------------- MODULE ReplaySessionProofs -------------------------
(***************************************************************************)
(* A replay implements RecordOutcome, leaves no bundle when it fails       *)
(* before its trace, and a complete bundle is readable and shows the       *)
(* execution, with each register where it is set: for every deployed       *)
(* program, command line and execution there may be.                       *)
(***************************************************************************)
EXTENDS ReplaySession, AleoVMProofs, FiniteSetTheorems

----------------------------------------------------------------------------
(* The inductive invariant *)

ReplayWriter == {"state", "lines", "open", "args", "log", "refused"}

BeforeBundle == {"check", "create_out_dir", "fetch", "find", "inputs", "execute", "prepare",
                 "write_source", "open"}

WhileWriting == {"register", "start", "enter", "registers", "finish"}

AfterFinish == {"write_meta", "close"}

ReplayStages == BeforeBundle \cup WhileWriting \cup AfterFinish \cup {"exited"}

\* The writer's state follows the stage.
StageOK ==
    /\ stage \in ReplayStages
    /\ DOMAIN writer = ReplayWriter
    /\ stage \in BeforeBundle => writer = NoWriter
    /\ stage \in WhileWriting => writer.state = "open"
    /\ stage = "write_meta" => writer.state = "finished"
    /\ stage = "close" => writer.state = "described"

\* The command runs until it exits, and gets beyond its first check only when
\* recording is not disabled.
CommandOK ==
    /\ config \in Configs
    /\ exit \in {"running", "ok", "err", "panic"}
    /\ exit = "running" <=> stage # "exited"
    /\ stage \notin {"check", "exited"} => ~config.disabled

\* Steps within the stated size, unless one was refused.
LogOK(w) ==
    /\ \E S : w.log \in Seq(S)
    /\ \A k \in 1 .. Len(w.log) :
           w.log[k].line \in Nat \ {0} /\ (~w.refused => w.log[k].line <= w.lines)

\* What was written is complete: what finishing and closing rely on.
Whole == ~writer.refused /\ writer.lines = SourceLineCount /\ writer.open = <<"<toplevel>">>

ContentOK ==
    /\ emitted \in Nat
    /\ stage = "register" => writer.log = <<>>
    /\ writer.state # "none" => LogOK(writer)
    /\ stage \in WhileWriting \ {"register"} => writer.lines = SourceLineCount
    /\ stage = "enter" => writer.open = <<"<toplevel>">>
    /\ stage = "registers" => writer.open = Append(<<"<toplevel>">>, prog.entry)
    /\ stage = "finish" => writer.open = <<"<toplevel>">>
    /\ stage \in AfterFinish \/ writer.state = "closed" => Whole

ReplayInv ==
    /\ StageOK
    /\ CommandOK
    /\ ContentOK
    /\ EarlyFailureLeavesNothing

----------------------------------------------------------------------------
(* The writer *)

\* A step with a line of its own keeps the log in order.
LEMMA StepLogged ==
    ASSUME NEW w, DOMAIN w = ReplayWriter, LogOK(w), w.lines \in Nat,
           NEW line \in Nat \ {0}, NEW shows
    PROVE  LET u == WithStep(w, line, shows)
           IN  /\ DOMAIN u = ReplayWriter /\ LogOK(u)
               /\ u.state = w.state /\ u.lines = w.lines /\ u.open = w.open
  <1> DEFINE u == WithStep(w, line, shows)
             e == [line |-> line, shows |-> shows]
  <1>1. /\ DOMAIN u = ReplayWriter /\ u.state = w.state /\ u.lines = w.lines /\ u.open = w.open
        /\ u.log = Append(w.log, e)
        /\ ~u.refused => ~w.refused /\ ~(line > w.lines)
    BY DEF WithStep, ReplayWriter
  <1>2. PICK S : w.log \in Seq(S)
    BY DEF LogOK
  <1>3. w.log \in Seq(S \cup {e})
    BY <1>2
  <1>4. u.log \in Seq(S \cup {e})
    BY <1>1, <1>3
  <1>5. ASSUME NEW k \in 1 .. Len(u.log)
        PROVE  u.log[k].line \in Nat \ {0} /\ (~u.refused => u.log[k].line <= u.lines)
    <2>1. CASE k \in 1 .. Len(w.log)
      <3>1. u.log[k] = w.log[k]
        BY <1>1, <1>3, <2>1
      <3> QED
        BY <1>1, <2>1, <3>1 DEF LogOK
    <2>2. CASE k \notin 1 .. Len(w.log)
      <3>1. u.log[k] = e
        BY <1>1, <1>3, <1>5, <2>2
      <3>2. u.log[k].line = line
        BY <3>1
      <3>3. ~u.refused => line <= u.lines
        BY <1>1
      <3> HIDE DEF u
      <3> QED
        BY <3>2, <3>3
    <2> QED
      BY <2>1, <2>2
  <1> QED
    BY <1>1, <1>4, <1>5 DEF LogOK

\* Leaving undoes entering.
LEMMA FrontOfAppend ==
    ASSUME NEW f, NEW e
    PROVE  Front(Append(<<f>>, e)) = <<f>>
  <1> DEFINE s == Append(<<f>>, e)
             S == {f, e}
  <1>1. <<f>> \in Seq(S) /\ e \in S /\ Len(<<f>>) = 1
    OBVIOUS
  <1>2. s \in Seq(S) /\ Len(s) = 2 /\ s[1] = f
    BY <1>1
  <1> HIDE DEF s
  <1>3. SubSeq(s, 1, 1) = <<f>>
    <2>1. SubSeq(s, 1, 1) \in Seq(S) /\ Len(SubSeq(s, 1, 1)) = 1 /\ SubSeq(s, 1, 1)[1] = f
      BY <1>2, SubSeqProperties
    <2>2. \A i \in 1 .. 1 : SubSeq(s, 1, 1)[i] = <<f>>[i]
      BY <2>1
    <2> QED
      BY <1>1, <2>1, <2>2, SeqEqual
  <1>4. Len(s) - 1 = 1
    BY <1>2
  <1>5. Front(s) = <<f>>
    BY <1>3, <1>4, Zenon DEF Front
  <1> QED
    BY <1>5 DEF s

\* The lines of the configurations.
LEMMA LinesCounted ==
    ASSUME CommandOK
    PROVE  /\ SourceLineCount \in Nat \ {0} /\ FunctionLine \in Nat \ {0}
           /\ FunctionLine \in 1 .. Len(config.text)
  <1>1. config.text \in Seq(Range(config.text)) /\ config.text # <<>>
    BY ConfigsAssumption DEF CommandOK, IsConfig, IsAleoText
  <1>2. Len(config.text) \in Nat \ {0}
    BY <1>1
  <1>3. SourceLineCount \in Nat \ {0}
    BY <1>2 DEF SourceLineCount
  <1> DEFINE declared(k) == config.text[k].kind = "function" /\ config.text[k].name = config.entry
             first(k) == declared(k) /\ \A j \in 1 .. k - 1 : ~declared(j)
             n == Len(config.text)
  <1>4. ASSUME NEW k \in 1 .. n, declared(k)
        PROVE  \E l \in 1 .. n : first(l)
    <2> HIDE DEF declared
    <2> DEFINE P == {l \in 1 .. n : declared(l)}
    <2>1. P \subseteq Nat /\ P # {}
      BY <1>2, <1>4
    <2>2. PICK l \in P : \A j \in P : l <= j
      BY <2>1, LeastNat
    <2> QED
      BY <1>2, <2>2
  <1>5. FunctionLine = IF \E k \in 1 .. n : declared(k) THEN CHOOSE k \in 1 .. n : first(k) ELSE 1
    BY Zenon DEF FunctionLine
  <1>6. CASE \E k \in 1 .. n : declared(k)
    <2>1. PICK k \in 1 .. n : first(k)
      BY <1>4, <1>6
    <2> DEFINE least == CHOOSE l \in 1 .. n : first(l)
    <2>2. least \in 1 .. n
      <3> HIDE DEF first
      <3> QED BY <2>1
    <2>3. FunctionLine = least
      BY <1>5, <1>6, Zenon
    <2> HIDE DEF least
    <2> QED
      BY <1>2, <1>3, <2>2, <2>3
  <1>7. CASE ~ \E k \in 1 .. n : declared(k)
    <2>1. FunctionLine = 1
      BY <1>5, <1>7, Zenon
    <2> QED
      BY <1>2, <1>3, <2>1
  <1> QED
    BY <1>6, <1>7

----------------------------------------------------------------------------
(* The invariant *)

LEMMA InitReplay == ReplayInit => ReplayInv
  BY DEF ReplayInit, ReplayInv, StageOK, CommandOK, ContentOK, EarlyFailureLeavesNothing, Bundle,
         NoWriter, ReplayWriter, ReplayStages, BeforeBundle, WhileWriting, AfterFinish

\* The command ends where it is; its bundle is not touched.
LEMMA ReplayEnds ==
    ASSUME ReplayInv, stage # "exited", UNCHANGED <<config, emitted, writer>>,
           stage' = "exited", exit' \in {"ok", "err", "panic"},
           exit' \in {"err", "panic"} => ioFailed' \/ writer.refused \/ writer = NoWriter
    PROVE  ReplayInv'
  <1>1. StageOK' /\ CommandOK'
    BY DEF ReplayInv, StageOK, CommandOK, ReplayStages, BeforeBundle, WhileWriting
  <1>2. ContentOK'
    BY DEF ReplayInv, ContentOK, Whole, SourceLineCount, LogOK, WhileWriting, AfterFinish
  <1>3. EarlyFailureLeavesNothing'
    BY DEF EarlyFailureLeavesNothing, Bundle, NoWriter
  <1> QED
    BY <1>1, <1>2, <1>3 DEF ReplayInv

\* The stages before the writer is open.
LEMMA BundleStages ==
    ASSUME ReplayInv, stage \in BeforeBundle, stage' \in BeforeBundle,
           UNCHANGED <<config, emitted, writer, exit, ioFailed>>,
           stage # "check" \/ ~config.disabled
    PROVE  ReplayInv'
  <1>1. StageOK' /\ CommandOK'
    BY DEF ReplayInv, StageOK, CommandOK, ReplayStages, BeforeBundle, WhileWriting
  <1>2. ContentOK'
    BY DEF ReplayInv, StageOK, ContentOK, NoWriter, BeforeBundle, WhileWriting, AfterFinish
  <1>3. EarlyFailureLeavesNothing'
    BY DEF ReplayInv, EarlyFailureLeavesNothing, Bundle
  <1> QED
    BY <1>1, <1>2, <1>3 DEF ReplayInv

\* A stage that goes on with the writer open or finished.
LEMMA WritingStages ==
    ASSUME ReplayInv, stage \in ReplayStages \ {"check", "exited"},
           stage' \in WhileWriting \cup AfterFinish,
           UNCHANGED <<config, exit, ioFailed>>, StageOK', ContentOK'
    PROVE  ReplayInv'
  <1>1. CommandOK'
    BY DEF ReplayInv, CommandOK, ReplayStages, WhileWriting, AfterFinish
  <1>2. exit = "running"
    BY DEF ReplayInv, CommandOK
  <1>3. EarlyFailureLeavesNothing'
    BY <1>2 DEF EarlyFailureLeavesNothing
  <1> QED
    BY <1>1, <1>3 DEF ReplayInv

LEMMA EarlyReplay ==
    ASSUME ReplayInv,
           \/ Check \/ CreateOutDir \/ Fetch \/ FindFunction \/ ParseInputs
           \/ Executed \/ Prepare \/ WriteSource
    PROVE  ReplayInv'
  <1>1. UNCHANGED <<config, emitted, writer, ioFailed>>
    BY DEF Check, CreateOutDir, Fetch, FindFunction, ParseInputs, Executed, Prepare, WriteSource, Still
  <1>2. stage \in BeforeBundle
    BY DEF Check, CreateOutDir, Fetch, FindFunction, ParseInputs, Executed, Prepare, WriteSource,
           BeforeBundle
  <1>3. writer = NoWriter /\ stage # "exited"
    BY <1>2 DEF ReplayInv, StageOK, BeforeBundle
  <1>4. \/ /\ stage' \in BeforeBundle /\ UNCHANGED exit
           /\ stage # "check" \/ ~config.disabled
        \/ stage' = "exited" /\ exit' \in {"ok", "err", "panic"}
    BY DEF Check, CreateOutDir, Fetch, FindFunction, ParseInputs, Executed, Prepare, WriteSource,
           Exit, Goto, BeforeBundle
  <1>5. CASE stage' = "exited" /\ exit' \in {"ok", "err", "panic"}
    BY <1>1, <1>3, <1>5, ReplayEnds
  <1>6. CASE stage' \in BeforeBundle /\ UNCHANGED exit /\ (stage # "check" \/ ~config.disabled)
    BY <1>1, <1>2, <1>6, BundleStages
  <1> QED
    BY <1>4, <1>5, <1>6
\* Opening the writer, and stating the source's size.
LEMMA WriterStarts ==
    ASSUME ReplayInv, OpenWriter \/ RegisterSource
    PROVE  ReplayInv'
  <1>1. CASE OpenWriter
    <2>1. stage = "open" /\ stage' = "register" /\ UNCHANGED <<config, emitted, exit, ioFailed>>
      BY <1>1 DEF OpenWriter, Goto, Still
    <2>2. writer' = [NoWriter EXCEPT !.state = "open"]
      BY <1>1 DEF OpenWriter
    <2>3. /\ DOMAIN writer' = ReplayWriter /\ writer'.state = "open"
          /\ writer'.log = <<>>
      BY <2>2 DEF NoWriter, ReplayWriter
    <2>4. LogOK(writer')
      BY <2>3 DEF LogOK
    <2>5. StageOK' /\ ContentOK'
      BY <2>1, <2>3, <2>4 DEF ReplayInv, StageOK, ContentOK, ReplayStages, BeforeBundle, WhileWriting, AfterFinish
    <2> QED
      BY <2>1, <2>5, WritingStages DEF ReplayStages, BeforeBundle, WhileWriting
  <1>2. CASE RegisterSource
    <2>1. stage = "register" /\ stage' = "start" /\ UNCHANGED <<config, emitted, exit, ioFailed>>
      BY <1>2 DEF RegisterSource, Goto, Still
    <2>2. /\ DOMAIN writer = ReplayWriter /\ writer.state = "open" /\ writer.log = <<>>
      BY <2>1 DEF ReplayInv, StageOK, ContentOK, WhileWriting
    <2>3. /\ DOMAIN writer' = ReplayWriter /\ writer'.state = "open"
          /\ writer'.log = <<>> /\ writer'.lines = SourceLineCount
      BY <1>2, <2>2 DEF RegisterSource, ReplayWriter
    <2>4. LogOK(writer') /\ SourceLineCount' = SourceLineCount
      BY <2>1, <2>3 DEF LogOK, SourceLineCount
    <2>5. StageOK' /\ ContentOK'
      BY <2>1, <2>3, <2>4 DEF ReplayInv, StageOK, ContentOK, ReplayStages, BeforeBundle, WhileWriting, AfterFinish
    <2> QED
      BY <2>1, <2>5, WritingStages DEF ReplayStages, BeforeBundle, WhileWriting
  <1> QED
    BY <1>1, <1>2

\* <toplevel>, the function and a step for each register.
LEMMA TraceWritten ==
    ASSUME ReplayInv, Start \/ EnterFunction \/ ShowRegister \/ LeaveFunction
    PROVE  ReplayInv'
  <1>1. /\ stage \in {"start", "enter", "registers"}
        /\ UNCHANGED <<config, exit, ioFailed, prog>>
    BY DEF Start, EnterFunction, ShowRegister, LeaveFunction, Goto, Still, vmVars
  <1>2. /\ DOMAIN writer = ReplayWriter /\ writer.state = "open" /\ LogOK(writer)
        /\ writer.lines = SourceLineCount /\ emitted \in Nat
        /\ SourceLineCount \in Nat /\ FunctionLine \in Nat \ {0}
        /\ SourceLineCount' = SourceLineCount
    BY <1>1, LinesCounted DEF ReplayInv, StageOK, ContentOK, WhileWriting, SourceLineCount
  <1>3. ASSUME stage' \in WhileWriting \ {"register"}, emitted' \in Nat,
               DOMAIN writer' = ReplayWriter, writer'.state = "open", LogOK(writer'),
               writer'.lines = SourceLineCount,
               stage' = "enter" => writer'.open = <<"<toplevel>">>,
               stage' = "registers" => writer'.open = Append(<<"<toplevel>">>, prog.entry),
               stage' = "finish" => writer'.open = <<"<toplevel>">>
        PROVE  ReplayInv'
    <2>1. StageOK' /\ ContentOK'
      BY <1>1, <1>2, <1>3 DEF StageOK, ContentOK, ReplayStages, BeforeBundle, WhileWriting, AfterFinish
    <2> QED
      BY <1>1, <1>3, <2>1, WritingStages DEF ReplayStages, BeforeBundle, WhileWriting
  <1>4. CASE Start
    <2> DEFINE u == WithStep(writer, 1, <<>>)
    <2>1. DOMAIN u = ReplayWriter /\ LogOK(u) /\ u.state = "open" /\ u.lines = SourceLineCount
      BY <1>2, StepLogged
    <2>2. writer' = [u EXCEPT !.open = <<"<toplevel>">>] /\ stage' = "enter" /\ emitted' = emitted
      BY <1>4, Zenon DEF Start, Goto, Still
    <2> HIDE DEF u
    <2>3. /\ DOMAIN writer' = ReplayWriter /\ writer'.state = "open" /\ writer'.lines = SourceLineCount
          /\ writer'.open = <<"<toplevel>">>
          /\ writer'.log = u.log /\ writer'.refused = u.refused
      BY <2>1, <2>2 DEF ReplayWriter
    <2>4. LogOK(writer')
      BY <2>1, <2>3 DEF LogOK
    <2> QED
      BY <1>2, <1>3, <2>2, <2>3, <2>4 DEF WhileWriting
  <1>5. CASE EnterFunction
    <2>1. writer' = [writer EXCEPT !.args = Args, !.open = Append(@, prog.entry)]
          /\ stage = "enter" /\ stage' = "registers" /\ emitted' = emitted
      BY <1>5, Zenon DEF EnterFunction, Goto, Still
    <2>2. writer.open = <<"<toplevel>">>
      BY <2>1 DEF ReplayInv, ContentOK
    <2>3. /\ DOMAIN writer' = ReplayWriter /\ writer'.state = "open" /\ writer'.lines = SourceLineCount
          /\ writer'.open = Append(<<"<toplevel>">>, prog.entry)
          /\ writer'.log = writer.log /\ writer'.refused = writer.refused
      BY <1>2, <2>1, <2>2 DEF ReplayWriter
    <2>4. LogOK(writer')
      BY <1>2, <2>3 DEF LogOK
    <2> QED
      BY <1>2, <1>3, <2>1, <2>3, <2>4 DEF WhileWriting
  <1>6. CASE ShowRegister
    <2>1. PICK shows : writer' = WithStep(writer, StepLine(emitted + 1), shows)
      BY <1>6, Zenon DEF ShowRegister
    <2>2. stage = "registers" /\ stage' = "registers" /\ emitted' = emitted + 1
      BY <1>6 DEF ShowRegister, Goto
    <2>3. StepLine(emitted + 1) \in Nat \ {0}
      BY <1>2 DEF StepLine
    <2>4. /\ DOMAIN writer' = ReplayWriter /\ LogOK(writer') /\ writer'.state = "open"
          /\ writer'.lines = SourceLineCount /\ writer'.open = writer.open
      BY <1>2, <2>1, <2>3, StepLogged
    <2> QED
      BY <1>2, <1>3, <2>2, <2>4 DEF ReplayInv, ContentOK, WhileWriting
  <1>7. CASE LeaveFunction
    <2>1. writer' = [writer EXCEPT !.open = Front(@)] /\ stage = "registers" /\ stage' = "finish"
          /\ emitted' = emitted
      BY <1>7, Zenon DEF LeaveFunction, Goto, Still
    <2>2. writer.open = Append(<<"<toplevel>">>, prog.entry)
      BY <2>1 DEF ReplayInv, ContentOK
    <2>3. Front(Append(<<"<toplevel>">>, prog.entry)) = <<"<toplevel>">>
      BY FrontOfAppend
    <2>4. /\ DOMAIN writer' = ReplayWriter /\ writer'.state = "open" /\ writer'.lines = SourceLineCount
          /\ writer'.open = <<"<toplevel>">>
          /\ writer'.log = writer.log /\ writer'.refused = writer.refused
      BY <1>2, <2>1, <2>2, <2>3 DEF ReplayWriter
    <2>5. LogOK(writer')
      BY <1>2, <2>4 DEF LogOK
    <2> QED
      BY <1>2, <1>3, <2>1, <2>4, <2>5 DEF WhileWriting
  <1> QED
    BY <1>4, <1>5, <1>6, <1>7

\* finish_writing_trace_events, write_meta_dat and close: the writer's state.
LEMMA TraceClosed ==
    ASSUME ReplayInv, Finish \/ WriteMeta \/ Close
    PROVE  ReplayInv'
  <1>1. stage \in {"finish", "write_meta", "close"} /\ UNCHANGED <<config, emitted, ioFailed>>
    BY DEF Finish, WriteMeta, Close, Still
  <1>2. CASE Finish /\ writer.refused
    <2>1. stage' = "exited" /\ exit' = "err" /\ UNCHANGED writer
      BY <1>2 DEF Finish, Exit
    <2> QED
      BY <1>1, <1>2, <2>1, ReplayEnds
  <1>3. /\ DOMAIN writer = ReplayWriter /\ writer.state # "none"
        /\ SourceLineCount' = SourceLineCount
        /\ ~(Finish /\ writer.refused) => Whole /\ LogOK(writer)
    BY <1>1 DEF ReplayInv, StageOK, ContentOK, Whole, WhileWriting, AfterFinish, SourceLineCount,
                Finish, WriteMeta, Close
  <1>4. ASSUME NEW s, s # "none", writer' = [writer EXCEPT !.state = s], ~(Finish /\ writer.refused)
        PROVE  DOMAIN writer' = ReplayWriter /\ writer'.state = s /\ Whole' /\ LogOK(writer')
    <2>1. /\ DOMAIN writer' = ReplayWriter /\ writer'.state = s
          /\ writer'.open = writer.open /\ writer'.lines = writer.lines
          /\ writer'.log = writer.log /\ writer'.refused = writer.refused
      BY <1>3, <1>4 DEF ReplayWriter
    <2> QED
      BY <1>3, <1>4, <2>1 DEF Whole, LogOK
  <1>5. CASE Finish /\ ~writer.refused
    <2>1. /\ stage' = "write_meta" /\ UNCHANGED exit
          /\ writer' = [writer EXCEPT !.state = "finished"]
      BY <1>5 DEF Finish, Goto
    <2>2. StageOK' /\ ContentOK'
      BY <1>1, <1>4, <1>5, <2>1
         DEF ReplayInv, StageOK, ContentOK, ReplayStages, BeforeBundle, WhileWriting, AfterFinish
    <2> QED
      BY <1>1, <2>1, <2>2, WritingStages DEF ReplayStages, BeforeBundle, WhileWriting, AfterFinish
  <1>6. CASE WriteMeta
    <2>1. /\ stage = "write_meta" /\ stage' = "close" /\ UNCHANGED exit
          /\ writer' = [writer EXCEPT !.state = "described"]
      BY <1>6 DEF WriteMeta, Goto
    <2>2. ~(Finish /\ writer.refused)
      BY <2>1 DEF Finish
    <2>3. StageOK' /\ ContentOK'
      BY <1>1, <1>4, <2>1, <2>2
         DEF ReplayInv, StageOK, ContentOK, ReplayStages, BeforeBundle, WhileWriting, AfterFinish
    <2> QED
      BY <1>1, <2>1, <2>3, WritingStages DEF ReplayStages, BeforeBundle, WhileWriting, AfterFinish
  <1>7. CASE Close
    <2>1. /\ stage = "close" /\ stage' = "exited" /\ exit' = "ok"
          /\ writer' = [writer EXCEPT !.state = "closed"]
      BY <1>7 DEF Close, Exit
    <2>2. ~(Finish /\ writer.refused)
      BY <2>1 DEF Finish
    <2>3. StageOK' /\ ContentOK'
      BY <1>1, <1>4, <2>1, <2>2
         DEF ReplayInv, StageOK, ContentOK, ReplayStages, BeforeBundle, WhileWriting, AfterFinish
    <2>4. CommandOK'
      BY <1>1, <2>1 DEF ReplayInv, CommandOK
    <2> QED
      BY <2>1, <2>3, <2>4 DEF ReplayInv, EarlyFailureLeavesNothing
  <1> QED
    BY <1>2, <1>5, <1>6, <1>7

LEMMA ReplayStep == ReplayInv /\ [ReplayNext]_allVars => ReplayInv'
  <1> SUFFICES ASSUME ReplayInv, [ReplayNext]_allVars PROVE ReplayInv'
    OBVIOUS
  <1>1. CASE Execution
    <2>1. UNCHANGED replayVars /\ stage = "execute"
      BY <1>1 DEF Execution
    <2>2. writer = NoWriter
      BY <2>1 DEF ReplayInv, StageOK, BeforeBundle
    <2> QED
      BY <2>1, <2>2, BundleStages DEF replayVars, BeforeBundle
  <1>2. CASE IoFails
    <2>1. stage # "exited" /\ stage' = "exited" /\ exit' = "err" /\ ioFailed' = TRUE
          /\ UNCHANGED <<config, emitted, writer>>
      BY <1>2 DEF IoFails, IoStages, Exit
    <2> QED
      BY <2>1, ReplayEnds
  <1>3. CASE UNCHANGED allVars
    BY <1>3 DEF allVars, vmVars, replayVars, ReplayInv, StageOK, CommandOK, ContentOK, Whole,
                SourceLineCount, EarlyFailureLeavesNothing, Bundle
  <1> QED
    BY <1>1, <1>2, <1>3, EarlyReplay, WriterStarts, TraceWritten, TraceClosed
       DEF ReplayNext, Replay, ReplayExited

\* Every behaviour of the command stays in the invariant.
LEMMA ReplayInvariant == ReplaySpec => []ReplayInv
  BY InitReplay, ReplayStep, PTL DEF ReplaySpec

\* A replay that fails before its trace leaves no bundle: everything up to the
\* execution precedes create_dir_all and the writer (replay.rs:246-318).
THEOREM FailsWithoutBundle == ReplaySpec => []EarlyFailureLeavesNothing
  <1>1. ReplayInv => EarlyFailureLeavesNothing
    BY DEF ReplayInv
  <1> QED
    BY <1>1, ReplayInvariant, PTL

\* A complete bundle has its steps within the source and only <toplevel> open
\* (replay.rs:319-421).
THEOREM CompleteIsReadable == ReplaySpec => []CompleteReplayReadable
  <1>1. ReplayInv => CompleteReplayReadable
    <2> SUFFICES ASSUME ReplayInv, Bundle = "program"
                 PROVE  /\ \A k \in 1 .. Len(writer.log) : writer.log[k].line \in 1 .. SourceLineCount
                        /\ writer.open = <<"<toplevel>">>
      BY DEF CompleteReplayReadable
    <2>1. writer.state = "closed"
      BY DEF Bundle
    <2>2. Whole /\ LogOK(writer) /\ SourceLineCount \in Nat
      BY <2>1, LinesCounted DEF ReplayInv, ContentOK
    <2> QED
      BY <2>2 DEF Whole, LogOK
  <1> QED
    BY <1>1, ReplayInvariant, PTL

----------------------------------------------------------------------------
(* The refinement *)

LEMMA ReplayFails ==
    ASSUME ReplayInv, stage # "exited", UNCHANGED <<config, writer>>, exit' \in {"err", "panic"}
    PROVE  Outcome!Fail
  <1>1. exit = "running"
    BY DEF ReplayInv, CommandOK
  <1>2. UNCHANGED Bundle
    BY DEF Bundle
  <1> QED
    BY <1>1, <1>2 DEF Outcome!Fail

\* A step that is not seen.
LEMMA ReplayUnseen ==
    ASSUME UNCHANGED <<config, exit>>,
           writer'.state = writer.state \/ {writer.state, writer'.state} \subseteq {"open", "finished", "described"}
    PROVE  UNCHANGED Outcome!outcomeVars
  BY DEF Outcome!outcomeVars, Bundle

LEMMA ReplayOutcomeStep ==
    ReplayInv /\ ReplayInv' /\ [ReplayNext]_allVars => [Outcome!Next]_(Outcome!outcomeVars)
  <1> SUFFICES ASSUME ReplayInv, ReplayInv', [ReplayNext]_allVars
               PROVE  Outcome!Next \/ UNCHANGED Outcome!outcomeVars
    OBVIOUS
  <1>1. CASE \/ Check \/ CreateOutDir \/ Fetch \/ FindFunction \/ ParseInputs
             \/ Executed \/ Prepare \/ WriteSource
    <2>1. UNCHANGED <<config, writer>> /\ stage # "exited"
      BY <1>1 DEF Check, CreateOutDir, Fetch, FindFunction, ParseInputs, Executed, Prepare, WriteSource, Still
    <2>2. \/ UNCHANGED exit
          \/ exit' \in {"err", "panic"}
          \/ stage = "check" /\ config.disabled /\ exit' = "ok"
      BY <1>1 DEF Check, CreateOutDir, Fetch, FindFunction, ParseInputs, Executed, Prepare, WriteSource,
                  Exit, Goto
    <2>3. CASE UNCHANGED exit
      BY <2>1, <2>3, ReplayUnseen
    <2>4. CASE exit' \in {"err", "panic"}
      BY <2>1, <2>4, ReplayFails DEF Outcome!Next
    <2>5. CASE stage = "check" /\ config.disabled /\ exit' = "ok"
      <3>1. exit = "running" /\ writer = NoWriter
        BY <2>5 DEF ReplayInv, StageOK, CommandOK, BeforeBundle
      <3>2. Bundle = "absent" /\ UNCHANGED Bundle
        BY <2>1, <3>1 DEF Bundle, NoWriter
      <3> QED
        BY <2>1, <2>5, <3>1, <3>2 DEF Outcome!Next, Outcome!Succeed
    <2> QED
      BY <2>2, <2>3, <2>4, <2>5
  <1>2. CASE OpenWriter
    <2>1. stage = "open" /\ UNCHANGED <<config, exit>> /\ writer' = [NoWriter EXCEPT !.state = "open"]
      BY <1>2 DEF OpenWriter, Goto, Still
    <2>2. exit = "running" /\ ~config.disabled /\ writer = NoWriter
      BY <2>1 DEF ReplayInv, StageOK, CommandOK, BeforeBundle
    <2>3. Bundle = "absent" /\ Bundle' = "partial"
      BY <2>1, <2>2 DEF Bundle, NoWriter
    <2> QED
      BY <2>1, <2>2, <2>3 DEF Outcome!Next, Outcome!Begin
  <1>3. CASE RegisterSource \/ Start \/ EnterFunction \/ ShowRegister \/ LeaveFunction \/ WriteMeta
    <2>1. UNCHANGED <<config, exit>>
      BY <1>3 DEF RegisterSource, Start, EnterFunction, ShowRegister, LeaveFunction, WriteMeta, Goto, Still
    <2>2. /\ stage \in WhileWriting \cup {"write_meta"}
          /\ stage' \in WhileWriting \cup {"close"}
      BY <1>3 DEF RegisterSource, Start, EnterFunction, ShowRegister, LeaveFunction, WriteMeta, Goto, WhileWriting
    <2>3. {writer.state, writer'.state} \subseteq {"open", "finished", "described"}
      BY <2>2 DEF ReplayInv, StageOK
    <2> QED
      BY <2>1, <2>3, ReplayUnseen
  <1>4. CASE Finish
    <2>1. CASE writer.refused
      BY <1>4, <2>1, ReplayFails DEF Finish, Exit, Still, Outcome!Next
    <2>2. CASE ~writer.refused
      <3>1. UNCHANGED <<config, exit>> /\ stage = "finish" /\ stage' = "write_meta"
        BY <1>4, <2>2 DEF Finish, Goto, Still
      <3>2. {writer.state, writer'.state} \subseteq {"open", "finished", "described"}
        BY <3>1 DEF ReplayInv, StageOK, WhileWriting
      <3> QED
        BY <3>1, <3>2, ReplayUnseen
    <2> QED
      BY <2>1, <2>2
  <1>5. CASE Close
    <2>1. /\ stage = "close" /\ exit' = "ok" /\ UNCHANGED config
          /\ writer' = [writer EXCEPT !.state = "closed"]
      BY <1>5 DEF Close, Exit, Still
    <2>2. exit = "running" /\ writer.state = "described" /\ DOMAIN writer = ReplayWriter
      BY <2>1 DEF ReplayInv, StageOK, CommandOK
    <2>3. writer'.state = "closed"
      BY <2>1, <2>2 DEF ReplayWriter
    <2>4. Bundle = "partial" /\ Bundle' = "program"
      BY <2>2, <2>3 DEF Bundle
    <2> QED
      BY <2>1, <2>2, <2>4 DEF Outcome!Next, Outcome!Succeed
  <1>6. CASE IoFails
    <2>1. stage # "exited" /\ UNCHANGED <<config, writer>> /\ exit' = "err"
      BY <1>6 DEF IoFails, IoStages, Exit
    <2> QED
      BY <2>1, ReplayFails DEF Outcome!Next
  <1>7. CASE Execution \/ UNCHANGED allVars
    <2>1. UNCHANGED <<config, exit, writer>>
      BY <1>7 DEF Execution, allVars, replayVars
    <2> QED
      BY <2>1, ReplayUnseen
  <1> QED
    BY <1>1, <1>2, <1>3, <1>4, <1>5, <1>6, <1>7 DEF ReplayNext, Replay, ReplayExited

\* A replay keeps the promise of a record about its exit status and its bundle,
\* for every program, command line and failure.
THEOREM ReplayOutcomeImplemented == ReplaySpec => ReplayImplementsOutcome
  <1>1. ReplayInit => Outcome!Init
    <2> SUFFICES ASSUME ReplayInit PROVE Outcome!Init
      OBVIOUS
    <2>1. config.disabled \in BOOLEAN
      BY ConfigsAssumption DEF ReplayInit, IsConfig
    <2>2. Bundle = "absent" /\ exit = "running"
      BY DEF ReplayInit, Bundle, NoWriter
    <2> QED
      BY <2>1, <2>2 DEF Outcome!Init
  <1>2. ReplaySpec => [][ReplayNext]_allVars
    BY PTL DEF ReplaySpec
  <1> QED
    BY <1>1, <1>2, ReplayOutcomeStep, ReplayInvariant, PTL
       DEF ReplaySpec, ReplayImplementsOutcome, Outcome!Spec

----------------------------------------------------------------------------
(* The numbers of a set in their order *)

Below(n) == [k \in 1 .. n |-> k - 1]

\* Strictly increasing.
Increasing(s) == \A j, k \in 1 .. Len(s) : j < k => s[j] < s[k]

LEMMA SelectBelow ==
    ASSUME NEW T, NEW n \in Nat
    PROVE  /\ Select(Below(n), T) \in Seq(Nat)
           /\ \A k \in 1 .. Len(Select(Below(n), T)) : Select(Below(n), T)[k] < n /\ Select(Below(n), T)[k] \in T
           /\ Increasing(Select(Below(n), T))
  <1> DEFINE Fine(u, m) == /\ u \in Seq(Nat)
                           /\ \A k \in 1 .. Len(u) : u[k] < m /\ u[k] \in T
                           /\ Increasing(u)
             Good == {m \in Nat : Fine(Select(Below(m), T), m)}
  <1>1. 0 \in Good
    <2>1. Below(0) = <<>>
      BY DEF Below
    <2>2. Fine(<<>>, 0)
      BY DEF Increasing
    <2> QED BY <2>1, <2>2, SelectEmpty
  <1>2. ASSUME NEW m \in Nat, m \in Good PROVE m + 1 \in Good
    <2>1. Below(m) \in Seq(Nat) /\ Len(Below(m)) = m /\ \A k \in 1 .. m : Below(m)[k] = k - 1
      BY DEF Below
    <2>2. Below(m + 1) = Append(Below(m), m)
      <3>1. PICK s \in Seq(Nat) : s = Below(m)
        BY <2>1
      <3>2. /\ Append(s, m) \in Seq(Nat) /\ Len(Append(s, m)) = m + 1
            /\ \A k \in 1 .. m : Append(s, m)[k] = s[k]
            /\ Append(s, m)[m + 1] = m
        BY <2>1, <3>1, AppendElement
      <3>3. PICK t \in Seq(Nat) : t = Append(s, m)
        BY <3>2
      <3>4. \A k \in 1 .. m + 1 : t[k] = k - 1
        <4> TAKE k \in 1 .. m + 1
        <4>1. k \in 1 .. m \/ k = m + 1
          OBVIOUS
        <4> QED BY <2>1, <3>1, <3>2, <3>3, <4>1
      <3>5. Below(m + 1) \in Seq(Nat) /\ Len(Below(m + 1)) = m + 1
            /\ \A k \in 1 .. m + 1 : Below(m + 1)[k] = k - 1
        BY DEF Below
      <3>6. PICK v \in Seq(Nat) : v = Below(m + 1)
        BY <3>5
      <3>7. v = t
        BY <3>2, <3>3, <3>4, <3>5, <3>6, SeqEqual
      <3> QED BY <3>1, <3>3, <3>6, <3>7
    <2>3. PICK u : u = Select(Below(m), T)
      OBVIOUS
    <2>4. Fine(u, m)
      BY <1>2, <2>3
    <2>5. Select(Below(m + 1), T) = IF m \in T THEN Append(u, m) ELSE u
      <3>1. PICK s \in Seq(Nat) : s = Below(m)
        BY <2>1
      <3>2. Select(Append(s, m), T) = IF m \in T THEN Append(Select(s, T), m) ELSE Select(s, T)
        BY SelectAppend
      <3> QED BY <2>2, <2>3, <3>1, <3>2
    <2>6. CASE m \notin T
      <3>1. \A k \in 1 .. Len(u) : u[k] < m + 1
        <4>1. \A k \in 1 .. Len(u) : u[k] \in Nat /\ u[k] < m
          BY <2>4
        <4> QED BY <4>1
      <3> HIDE DEF Good
      <3>2. Fine(u, m + 1)
        BY <2>4, <3>1
      <3> QED BY <2>5, <2>6, <3>2 DEF Good
    <2>7. CASE m \in T
      <3>1. PICK v : v = Append(u, m)
        OBVIOUS
      <3>2. u \in Seq(Nat) /\ Len(u) \in Nat /\ \A k \in 1 .. Len(u) : u[k] \in Nat /\ u[k] < m
        BY <2>4
      <3>3. /\ v \in Seq(Nat) /\ Len(v) = Len(u) + 1
            /\ \A k \in 1 .. Len(u) : v[k] = u[k]
            /\ v[Len(u) + 1] = m
        BY <3>1, <3>2
      <3>4. PICK l \in Nat : l = Len(u)
        BY <3>2
      <3>5. \A k \in 1 .. l + 1 : k \in 1 .. l \/ k = l + 1
        OBVIOUS
      <3>6. \A k \in 1 .. l + 1 : v[k] < m + 1 /\ v[k] \in T
        BY <2>4, <2>7, <3>2, <3>3, <3>4, <3>5
      <3>7. \A j, k \in 1 .. l + 1 : j < k => v[j] < v[k]
        <4> SUFFICES ASSUME NEW j \in 1 .. l + 1, NEW k \in 1 .. l + 1, j < k PROVE v[j] < v[k]
          OBVIOUS
        <4>1. j \in 1 .. l
          OBVIOUS
        <4>2. CASE k \in 1 .. l
          BY <2>4, <3>3, <3>4, <4>1, <4>2 DEF Increasing
        <4>3. CASE k = l + 1
          BY <3>2, <3>3, <3>4, <4>1, <4>3
        <4> QED BY <3>5, <4>2, <4>3
      <3>8. Fine(v, m + 1)
        BY <3>3, <3>4, <3>6, <3>7 DEF Increasing
      <3>9. Select(Below(m + 1), T) = v
        BY <2>5, <2>7, <3>1
      <3>10. Fine(Select(Below(m + 1), T), m + 1)
        <4> HIDE DEF Fine
        <4> QED BY <3>8, <3>9
      <3> HIDE DEF Fine
      <3> QED BY <3>10
    <2> QED BY <2>6, <2>7
  <1>3. n \in Good
    <2> HIDE DEF Good
    <2> QED BY <1>1, <1>2, NatSetInduction
  <1> QED BY <1>3

\* The numbers of a finite set, each of them, in their order.
LEMMA AscendingOrder ==
    ASSUME NEW S, S \subseteq Nat, IsFiniteSet(S)
    PROVE  /\ Ascending(S) \in Seq(S) /\ Len(Ascending(S)) \in Nat
           /\ \A x \in S : \E k \in 1 .. Len(Ascending(S)) : Ascending(S)[k] = x
           /\ Increasing(Ascending(S))
  <1>1. /\ Max(S \cup {0}) \in Nat /\ \A y \in S : y <= Max(S \cup {0})
    <2>1. IsFiniteSet(S \cup {0})
      BY FS_AddElement
    <2>2. S \cup {0} \subseteq Nat /\ S \cup {0} # {}
      OBVIOUS
    <2> QED BY <2>1, <2>2, MaxIs
  <1>2. PICK n \in Nat : n = Max(S \cup {0}) + 1
    BY <1>1
  <1>3. \A y \in S : y < n
    BY <1>1, <1>2
  <1>4. Ascending(S) = Select(Below(n), S)
    BY <1>2, Zenon DEF Ascending, Below
  <1>5. PICK u : u = Select(Below(n), S)
    OBVIOUS
  <1>6. /\ u \in Seq(Nat) /\ Increasing(u)
        /\ \A k \in 1 .. Len(u) : u[k] \in S
    BY <1>5, SelectBelow
  <1>7. u \in Seq(S) /\ Len(u) \in Nat
    BY <1>6
  <1>8. ASSUME NEW x \in S PROVE \E k \in 1 .. Len(u) : u[k] = x
    <2>1. Below(n) \in Seq(Nat) /\ Len(Below(n)) = n /\ \A k \in 1 .. n : Below(n)[k] = k - 1
      BY DEF Below
    <2>2. x + 1 \in 1 .. n /\ (x + 1) - 1 = x
      BY <1>3
    <2>3. PICK s \in Seq(Nat), j \in 1 .. n : s = Below(n) /\ j = x + 1
      BY <2>1, <2>2
    <2>4. j \in 1 .. Len(s) /\ s[j] = x
      BY <2>1, <2>2, <2>3
    <2>5. \E k \in 1 .. Len(Select(s, S)) : Select(s, S)[k] = s[j]
      BY <2>4, SelectHas
    <2> QED BY <1>5, <2>3, <2>4, <2>5
  <1> QED BY <1>4, <1>5, <1>6, <1>7, <1>8

\* Where no number is left out, the k-th is k - 1.
LEMMA AscendingInitial ==
    ASSUME NEW n \in Nat, NEW k \in 1 .. Len(Ascending(0 .. n - 1))
    PROVE  k <= n /\ Ascending(0 .. n - 1)[k] = k - 1
  <1>1. PICK S : S = 0 .. n - 1
    OBVIOUS
  <1>2. S \subseteq Nat /\ IsFiniteSet(S)
    <2>1. IsFiniteSet(0 .. n - 1)
      BY FS_Interval
    <2> QED BY <1>1, <2>1
  <1>3. k \in 1 .. Len(Ascending(S)) /\ Ascending(S) \in Seq(S)
    BY <1>1, <1>2, AscendingOrder
  <1>4. n # 0
    <2> SUFFICES ASSUME n = 0 PROVE FALSE
      OBVIOUS
    <2>1. Ascending(S)[k] \in S
      BY <1>3
    <2>2. S = {}
      BY <1>1
    <2> QED BY <2>1, <2>2
  <1>5. Max(S \cup {0}) = n - 1
    <2>1. S \cup {0} = S
      BY <1>1, <1>4
    <2>2. Max(S) \in S /\ \A y \in S : y <= Max(S)
      <3>1. n - 1 \in S
        BY <1>1, <1>4
      <3>2. S # {}
        BY <3>1
      <3> QED BY <1>2, <3>2, MaxIs
    <2>3. n - 1 \in S
      BY <1>1, <1>4
    <2>4. Max(S) \in 0 .. n - 1 /\ n - 1 <= Max(S)
      BY <1>1, <2>2, <2>3
    <2>5. PICK b \in 0 .. n - 1 : b = Max(S) /\ n - 1 <= b
      BY <2>4
    <2>6. b = n - 1
      BY <2>5
    <2> QED BY <2>1, <2>5, <2>6
  <1>6. Ascending(S) = Select(Below(n), S)
    <2>1. Max(S \cup {0}) + 1 = n
      BY <1>5
    <2> QED BY <2>1, Zenon DEF Ascending, Below
  <1>7. Below(n) \in Seq(Nat) /\ Len(Below(n)) = n /\ \A j \in 1 .. n : Below(n)[j] = j - 1
    BY DEF Below
  <1>8. \A j \in 1 .. n : Below(n)[j] \in S
    BY <1>1, <1>7
  <1>9. Select(Below(n), S) = Below(n)
    BY <1>7, <1>8, SelectWhole
  <1> QED BY <1>1, <1>3, <1>6, <1>7, <1>9

----------------------------------------------------------------------------
(* What the parsers make of a deployed program *)

\* Every deployed program parses to a program the interpreter takes.
LEMMA ParsedProgram ==
    ASSUME NEW c \in Configs
    PROVE  Parsed(c) \in Program
  <1>1. IsAleoText(c.text) /\ c.entry \in FnName /\ c.inputs \in Seq(Int64)
    BY ConfigsAssumption DEF IsConfig
  <1>2. ParseAleoProgram(c.text) \in Seq(AleoFunction)
    BY <1>1, TextParses
  <1> QED BY <1>1, <1>2 DEF Parsed, Program

----------------------------------------------------------------------------
(* The execution inside the command *)

\* Every instruction of the function that is replayed sets a register.
SetsEach == \A i \in 1 .. Len(target.code) : "dest" \in DOMAIN target.code[i]

\* What has been set before the n-th instruction.
SetBefore(n) == Range(target.inputs) \cup {target.code[i].dest : i \in 1 .. n - 1}

\* The outermost call is the entry's.  Where every instruction sets a register
\* none is a call, and what is set is known.
Outermost ==
    stack # <<>> =>
        /\ prog.entry \in Known
        /\ stack[1].fn = FuncMap(prog.entry)
        /\ SetsEach => Len(stack) = 1 /\ DOMAIN stack[1].regs = SetBefore(stack[1].pc)

\* A successful execution ended with the return of the entry function, whose
\* result no later call has overwritten.
Returned ==
    status = "ok" =>
        /\ prog.entry \in Known /\ prog.entry \in DOMAIN results
        /\ Len(hist) \in Nat \ {0}
        /\ hist[Len(hist)].did = "return" /\ hist[Len(hist)].fn = prog.entry
        /\ hist[Len(hist)].result = results[prog.entry]
        /\ SetsEach => DOMAIN shown = SetBefore(Len(target.code) + 1)

BeforeExecution == {"check", "create_out_dir", "fetch", "find", "inputs"}

\* Nothing runs before the stage that executes, and it starts with a function
\* that is there.
Waits ==
    /\ prog = Parsed(config)
    /\ stage \in BeforeExecution => stack = <<>> /\ status = "running"
    /\ stage = "inputs" => prog.entry \in Known

ExecutionInv == Waits /\ VMInv /\ HistInv /\ Outermost /\ Returned

\* The step that shows the k-th register.
EntryShown(k) ==
    [line |-> StepLine(k), shows |-> [x \in {SortedRegisters[k]} |-> shown[SortedRegisters[k]]]]

\* The steps after the first are those of the registers, in their order; when
\* the writer finishes they are all there.
Traced ==
    /\ writer.state \in {"none", "open", "finished", "described", "closed"}
    /\ stage \in {"prepare", "write_source", "open"} \/ writer.state # "none" => status = "ok"
    /\ stage \in BeforeBundle \cup {"register", "start", "enter"} => emitted = 0
    /\ stage \in {"register", "start"} => writer.log = <<>>
    /\ stage \in {"enter", "registers"} =>
           Len(writer.log) = emitted + 1 /\ emitted <= Len(SortedRegisters)
    /\ writer.state = "none" => writer = NoWriter
    /\ writer.open = <<>> \/ writer.open = <<"<toplevel>">>
           \/ writer.open = Append(<<"<toplevel>">>, prog.entry)
    /\ \A k \in 1 .. Len(writer.log) - 1 :
           k <= Len(SortedRegisters) /\ writer.log[k + 1] = EntryShown(k)
    /\ stage \in {"registers", "finish"} \cup AfterFinish \/ writer.state = "closed" =>
           writer.args = Args
    /\ stage \in {"finish"} \cup AfterFinish \/ writer.state = "closed" =>
           Len(writer.log) = Len(SortedRegisters) + 1

LEMMA EntrySame ==
    ASSUME UNCHANGED prog
    PROVE  /\ target' = target /\ SetsEach' = SetsEach /\ Known' = Known
           /\ FuncMap(prog.entry)' = FuncMap(prog.entry)
           /\ \A n : SetBefore(n)' = SetBefore(n)
  BY DEF target, SetsEach, Known, FuncMap, SetBefore

\* Where every instruction of the entry function sets a register it has no
\* call: it is what runs.
LEMMA EntryRuns ==
    ASSUME VMInv, Outermost, stack # <<>>, SetsEach
    PROVE  /\ Len(stack) = 1 /\ top = stack[1] /\ code = target.code
           /\ top.pc <= Len(code) => instr = target.code[top.pc] /\ "dest" \in DOMAIN instr
           /\ DOMAIN top.regs = SetBefore(top.pc)
  <1>1. Len(stack) = 1 /\ top = stack[1] /\ top.fn = FuncMap(prog.entry)
        /\ DOMAIN top.regs = SetBefore(top.pc)
    BY DEF Outermost, top
  <1>2. code = target.code
    BY <1>1 DEF code, target
  <1>3. top.pc \in 1 .. Len(code) + 1 /\ Len(code) \in Nat
    BY AtTop
  <1>4. top.pc <= Len(code) => instr = target.code[top.pc] /\ "dest" \in DOMAIN instr
    BY <1>2, <1>3 DEF instr, SetsEach
  <1> QED BY <1>1, <1>2, <1>4

LEMMA OneMoreSet ==
    ASSUME NEW n \in Nat \ {0}
    PROVE  SetBefore(n + 1) = SetBefore(n) \cup {target.code[n].dest}
  <1>1. 1 .. (n + 1) - 1 = (1 .. n - 1) \cup {n}
    OBVIOUS
  <1> QED BY <1>1 DEF SetBefore

LEMMA CompletedOutermost ==
    ASSUME VMInv, Outermost, stack # <<>>, top.pc <= Len(code), NEW regs, Complete(regs),
           "dest" \in DOMAIN instr => DOMAIN regs = DOMAIN top.regs \cup {instr.dest}
    PROVE  Outermost'
  <1> DEFINE n == Len(stack)
  <1>1. PICK after : after = [top EXCEPT !.regs = regs, !.pc = @ + 1]
    OBVIOUS
  <1>2. stack' = [stack EXCEPT ![n] = after] /\ UNCHANGED prog
    BY <1>1 DEF Complete
  <1>3. PICK S : stack \in Seq(S)
    BY DEF VMInv, StackOK
  <1>4. n \in Nat \ {0} /\ ActivationOK(top) /\ top.pc \in 1 .. Len(code) + 1 /\ Len(code) \in Nat
    BY AtTop
  <1>5. after.fn = top.fn /\ after.regs = regs /\ after.pc = top.pc + 1
    BY <1>1, <1>4 DEF ActivationOK, ActivationFields
  <1>6. stack' \in Seq(S \cup {after}) /\ Len(stack') = n
        /\ stack'[1] = IF n = 1 THEN after ELSE stack[1]
    BY <1>2, <1>3, <1>4
  <1>7. n = 1 => top = stack[1]
    BY DEF top
  <1>8. prog.entry \in Known /\ stack[1].fn = FuncMap(prog.entry)
    BY DEF Outermost
  <1>9. stack'[1].fn = FuncMap(prog.entry)
    BY <1>5, <1>6, <1>7, <1>8
  <1>10. ASSUME SetsEach
         PROVE  Len(stack') = 1 /\ DOMAIN stack'[1].regs = SetBefore(stack'[1].pc)
    <2>1. n = 1 /\ instr = target.code[top.pc] /\ "dest" \in DOMAIN instr
          /\ DOMAIN top.regs = SetBefore(top.pc)
      BY <1>10, EntryRuns
    <2>2. DOMAIN regs = SetBefore(top.pc) \cup {target.code[top.pc].dest}
      BY <2>1
    <2>3. top.pc \in Nat \ {0}
      BY <1>4
    <2>4. DOMAIN regs = SetBefore(top.pc + 1)
      BY <2>2, <2>3, OneMoreSet
    <2> QED BY <1>5, <1>6, <2>1, <2>4
  <1> QED BY <1>2, <1>8, <1>9, <1>10, EntrySame DEF Outermost

\* An instruction other than a call adds the register it names.
LEMMA WorkOutermost ==
    ASSUME VMInv, Outermost,
           ExecBinary \/ ExecGet \/ ExecGetOrUse \/ ExecContains \/ ExecSet \/ ExecRemove
             \/ ExecUnknown \/ ExecUnknownCall
    PROVE  Outermost' /\ UNCHANGED <<prog, status>>
  <1>1. status = "running" /\ stack # <<>> /\ top.pc <= Len(code)
    BY DEF ExecBinary, ExecGet, ExecGetOrUse, ExecContains, ExecSet, ExecRemove, ExecUnknown,
           ExecUnknownCall, AtInstruction, Running
  <1>2. instr \in Instruction
    BY <1>1, AtTop
  <1>3. PICK regs : Complete(regs) /\
           ("dest" \in DOMAIN instr => DOMAIN regs = DOMAIN top.regs \cup {instr.dest})
    <2>1. CASE ExecBinary
      <3>1. Complete(Insert(top.regs, instr.dest, Binary(instr.op, left, right)))
        BY <2>1 DEF ExecBinary
      <3> QED BY <3>1 DEF Insert
    <2>2. CASE ExecGet
      <3>1. Complete(Insert(top.regs, instr.dest, Lookup(instr.mapping, Key, 0)))
        BY <2>2 DEF ExecGet
      <3> QED BY <3>1 DEF Insert
    <2>3. CASE ExecGetOrUse
      <3>1. Complete(Insert(top.regs, instr.dest, Lookup(instr.mapping, Key, Read(top.regs, instr.default))))
        BY <2>3 DEF ExecGetOrUse
      <3> QED BY <3>1 DEF Insert
    <2>4. CASE ExecContains
      <3>1. Complete(Insert(top.regs, instr.dest, Flag(HasKey(instr.mapping, Key))))
        BY <2>4 DEF ExecContains
      <3> QED BY <3>1 DEF Insert
    <2>5. CASE ExecSet \/ ExecRemove \/ ExecUnknown \/ ExecUnknownCall
      <3>1. Complete(top.regs) /\ instr.op \in {"set", "remove", "unknown", "call"}
        BY <2>5 DEF ExecSet, ExecRemove, ExecUnknown, ExecUnknownCall, AtInstruction
      <3>2. "dest" \notin DOMAIN instr
        BY <1>2, <3>1 DEF Instruction, BinaryOp
      <3> QED BY <3>1, <3>2
    <2> QED BY <2>1, <2>2, <2>3, <2>4, <2>5
  <1>4. Outermost'
    BY <1>1, <1>3, CompletedOutermost
  <1> QED BY <1>3, <1>4 DEF Complete

LEMMA CallOutermost ==
    ASSUME VMInv, Outermost, ExecCall
    PROVE  Outermost' /\ UNCHANGED <<prog, status>>
  <1>1. stack # <<>> /\ top.pc <= Len(code) /\ instr.op = "call" /\ UNCHANGED <<prog, status>>
    BY DEF ExecCall, AtInstruction, Running
  <1>2. PICK callee : stack' = Append(stack, callee)
    BY Zenon DEF ExecCall
  <1>3. instr \in Instruction
    BY <1>1, AtTop
  <1>4. "dest" \notin DOMAIN instr
    BY <1>1, <1>3 DEF Instruction, BinaryOp
  <1>5. ~SetsEach
    BY <1>1, <1>4, EntryRuns
  <1>6. PICK S : stack \in Seq(S)
    BY DEF VMInv, StackOK
  <1>7. Len(stack) \in Nat \ {0}
    BY <1>1, AtTop
  <1>8. stack'[1] = stack[1]
    <2>1. PICK T : T = S \cup {callee}
      OBVIOUS
    <2>2. stack \in Seq(T) /\ callee \in T
      BY <1>6, <2>1
    <2>3. \A k \in 1 .. Len(stack) : Append(stack, callee)[k] = stack[k]
      BY <2>2, AppendElement
    <2> QED BY <1>2, <1>7, <2>3
  <1>9. prog.entry \in Known /\ stack'[1].fn = FuncMap(prog.entry)
    BY <1>1, <1>8 DEF Outermost
  <1> QED BY <1>1, <1>5, <1>9, EntrySame DEF Outermost

LEMMA FailOutermost ==
    ASSUME VMInv, Outermost, FailDivision \/ PanicDivision \/ Unwind
    PROVE  Outermost' /\ UNCHANGED prog /\ status' # "ok"
  <1>1. UNCHANGED prog /\ status' # "ok"
    BY DEF FailDivision, PanicDivision, Unwind
  <1>2. CASE UNCHANGED stack
    BY <1>1, <1>2, EntrySame DEF Outermost
  <1>3. CASE stack' = <<>>
    BY <1>1, <1>3 DEF Outermost
  <1>4. CASE stack' = Front(stack) /\ stack # <<>>
    <2>1. StackOK(stack)
      BY DEF VMInv
    <2>2. Len(Front(stack)) = Len(stack) - 1 /\ Len(stack) \in Nat \ {0}
          /\ \A k \in 1 .. Len(stack) - 1 : Front(stack)[k] = stack[k]
      BY <1>4, <2>1, TopPopped, AtTop
    <2>3. PICK S : stack' \in Seq(S)
      BY <1>4, <2>1, TopPopped DEF StackOK
    <2>4. CASE Len(stack) = 1
      <3>1. stack' = <<>>
        BY <1>4, <2>2, <2>3, <2>4
      <3> QED BY <1>1, <3>1 DEF Outermost
    <2>5. CASE Len(stack) # 1
      <3>1. stack'[1] = stack[1]
        BY <1>4, <2>2, <2>5
      <3>2. ~SetsEach /\ prog.entry \in Known /\ stack[1].fn = FuncMap(prog.entry)
        BY <1>4, <2>5 DEF Outermost
      <3> QED BY <1>1, <3>1, <3>2, EntrySame DEF Outermost
    <2> QED BY <2>4, <2>5
  <1>5. (stack' = Front(stack) /\ stack # <<>>) \/ stack' = <<>> \/ UNCHANGED stack
    BY DEF FailDivision, PanicDivision, Unwind, VMInv
  <1> QED BY <1>1, <1>2, <1>3, <1>4, <1>5

LEMMA ReturnOutermost ==
    ASSUME VMInv, HistInv, Outermost, Return, prog.mode # "finalize"
    PROVE  Outermost' /\ (status' = "ok" => Returned') /\ UNCHANGED prog
  <1> DEFINE n == Len(stack)
  <1>1. PICK f, result, caller, call, resumed :
           /\ f = prog.fns[top.fn]
           /\ result = [registers |-> top.regs, outputs |-> Outputs(top)]
           /\ caller = stack[n - 1]
           /\ call = prog.fns[caller.fn].code[caller.pc]
           /\ resumed = [caller EXCEPT !.regs = WithOutputs(@, call.dests, result.outputs), !.pc = @ + 1]
    OBVIOUS
  <1>2. /\ stack # <<>> /\ status = "running" /\ top.pc > Len(code) /\ UNCHANGED prog
        /\ results' = ResultInserted(f.name, result)
        /\ hist' = Append(hist, [did |-> "return", fn |-> f.name, result |-> result])
        /\ \/ n = 1 /\ stack' = <<>> /\ status' = "ok"
           \/ n # 1 /\ stack' = [Front(stack) EXCEPT ![n - 1] = resumed] /\ UNCHANGED status
    BY <1>1, Zenon DEF Return, Running, Remember
  <1>3. n \in Nat \ {0} /\ top.pc \in 1 .. Len(code) + 1 /\ Len(code) \in Nat
    BY <1>2, AtTop
  <1>4. CASE n = 1
    <2>1. top = stack[1] /\ top.fn = FuncMap(prog.entry) /\ prog.entry \in Known
      BY <1>2, <1>4 DEF top, Outermost
    <2>2. f.name = prog.entry
      BY <1>1, <2>1, FuncMapOK DEF VMInv
    <2>3. stack' = <<>> /\ status' = "ok"
      BY <1>2, <1>4
    <2>4. PICK e : e = [did |-> "return", fn |-> f.name, result |-> result]
      OBVIOUS
    <2>5. Grown(e)
      BY <1>2, <2>4, HistGrows
    <2>6. Len(hist') \in Nat \ {0} /\ hist'[Len(hist')] = e
      BY <2>5 DEF Grown
    <2>7. prog.entry \in DOMAIN results' /\ results'[prog.entry] = result
      BY <1>2, <2>2 DEF ResultInserted, Insert
    <2>8. shown' = top.regs
      <3>1. shown' = results'[prog.entry].registers
        BY <1>2 DEF shown
      <3>2. result.registers = top.regs
        BY <1>1
      <3> QED BY <2>7, <3>1, <3>2
    <2>9. SetsEach => DOMAIN top.regs = SetBefore(Len(target.code) + 1)
      <3> SUFFICES ASSUME SetsEach PROVE DOMAIN top.regs = SetBefore(Len(target.code) + 1)
        OBVIOUS
      <3>1. code = target.code /\ DOMAIN top.regs = SetBefore(top.pc)
        BY <1>2, EntryRuns
      <3>2. top.pc = Len(code) + 1
        BY <1>2, <1>3
      <3> QED BY <3>1, <3>2
    <2>10. (SetsEach => DOMAIN shown = SetBefore(Len(target.code) + 1))'
      BY <1>2, <2>8, <2>9, EntrySame
    <2>11. Returned'
      BY <1>2, <2>1, <2>2, <2>4, <2>6, <2>7, <2>10, EntrySame DEF Returned
    <2> QED BY <1>2, <2>3, <2>11 DEF Outermost
  <1>5. CASE n # 1
    <2>1. stack' = [Front(stack) EXCEPT ![n - 1] = resumed] /\ status' # "ok"
      BY <1>2, <1>5
    <2>2. StackOK(stack)
      BY DEF VMInv
    <2>3. /\ StackOK(Front(stack)) /\ Len(Front(stack)) = n - 1
          /\ \A k \in 1 .. n - 1 : Front(stack)[k] = stack[k]
      BY <1>2, <2>2, TopPopped
    <2>4. ~SetsEach /\ prog.entry \in Known /\ stack[1].fn = FuncMap(prog.entry)
      BY <1>2, <1>5 DEF Outermost
    <2>5. n - 1 \in 1 .. n
      <3> HIDE DEF n
      <3> QED BY <1>3, <1>5
    <2>6. ActivationOK(caller)
      BY <1>1, <2>2, <2>5 DEF StackOK
    <2>7. resumed.fn = caller.fn
      BY <1>1, <2>6 DEF ActivationOK, ActivationFields
    <2>8. PICK u, S : u = Front(stack) /\ u \in Seq(S)
      BY <2>3 DEF StackOK
    <2>9. stack'[1] = IF n - 1 = 1 THEN resumed ELSE stack[1]
      <3>1. Len(u) = n - 1 /\ u[1] = stack[1] /\ 1 \in 1 .. n - 1
        BY <1>3, <1>5, <2>3, <2>8
      <3>2. [u EXCEPT ![n - 1] = resumed][1] = IF n - 1 = 1 THEN resumed ELSE u[1]
        BY <2>8, <3>1
      <3> QED BY <2>1, <2>8, <3>1, <3>2
    <2>10. stack'[1].fn = FuncMap(prog.entry)
      BY <1>1, <2>4, <2>7, <2>9
    <2> QED BY <1>2, <2>1, <2>4, <2>10, EntrySame DEF Outermost
  <1> QED BY <1>4, <1>5

LEMMA OutermostStep ==
    ASSUME VMInv, HistInv, Outermost, Returned, Execute, prog.mode # "finalize"
    PROVE  Outermost' /\ Returned' /\ UNCHANGED prog
  <1>1. status \in {"running", "failing"}
    BY DEF Execute, ExecBinary, FailDivision, PanicDivision, Unwind, ExecCall, ExecUnknownCall,
           ExecUnknown, Return, ExecGet, ExecGetOrUse, ExecSet, ExecRemove, ExecContains,
           AtInstruction, Running
  <1>2. CASE FailDivision \/ PanicDivision \/ Unwind
    BY <1>2, FailOutermost DEF Returned
  <1>3. CASE ExecCall
    <2>1. status' # "ok"
      BY <1>1, <1>3, CallOutermost
    <2> QED BY <1>3, <2>1, CallOutermost DEF Returned
  <1>4. CASE Return
    <2>1. status' # "ok" => Returned'
      BY DEF Returned
    <2> QED BY <1>4, <2>1, ReturnOutermost
  <1>5. CASE ExecBinary \/ ExecGet \/ ExecGetOrUse \/ ExecContains \/ ExecSet \/ ExecRemove
             \/ ExecUnknown \/ ExecUnknownCall
    <2>1. status' # "ok"
      BY <1>1, <1>5, WorkOutermost
    <2> QED BY <1>5, <2>1, WorkOutermost DEF Returned
  <1> QED BY <1>2, <1>3, <1>4, <1>5 DEF Execute

LEMMA ExecutionStarts == ReplayInit => ExecutionInv
  <1> SUFFICES ASSUME ReplayInit PROVE ExecutionInv
    OBVIOUS
  <1>1. /\ config \in Configs /\ prog = Parsed(config) /\ stack = <<>> /\ status = "running"
        /\ store = <<>> /\ given = <<>> /\ results = <<>> /\ hist = <<>> /\ stage = "check"
    BY DEF ReplayInit
  <1>2. prog \in Program
    BY <1>1, ParsedProgram
  <1>3. StackOK(stack)
    BY <1>1 DEF StackOK
  <1>4. IsStore(store) /\ ResultsOK
    BY <1>1 DEF IsStore, ResultsOK
  <1>5. VMInv
    BY <1>1, <1>2, <1>3, <1>4 DEF VMInv
  <1>6. \A m, k : Writes(Len(hist), m, k) = {}
    BY <1>1 DEF Writes
  <1>7. HistInv
    BY <1>1, <1>6 DEF HistInv, StoreAgrees, ReadsSeen, HasKey, Present, Value
  <1> QED BY <1>1, <1>5, <1>7 DEF ExecutionInv, Waits, Outermost, Returned

\* A stage in which the interpreter does not run.
LEMMA InterpreterStill ==
    ASSUME ExecutionInv, UNCHANGED <<vmVars, config>>,
           stage' \in BeforeExecution => stage \in BeforeExecution,
           stage' = "inputs" => stage = "inputs" \/ prog.entry \in Known
    PROVE  ExecutionInv'
  <1>1. UNCHANGED vars
    BY DEF vars, vmVars
  <1>2. VMInv' /\ HistInv'
    BY <1>1, VMStep, HistStep DEF ExecutionInv
  <1>3. UNCHANGED <<prog, stack, status, results, hist>>
    BY <1>1 DEF vars
  <1>4. Outermost'
    BY <1>3, EntrySame DEF ExecutionInv, Outermost
  <1>5. UNCHANGED shown
    BY <1>3 DEF shown
  <1>6. Returned'
    BY <1>3, <1>5, EntrySame DEF ExecutionInv, Returned
  <1>7. UNCHANGED Parsed(config)
    BY DEF Parsed
  <1>8. Waits'
    BY <1>3, <1>7, EntrySame DEF ExecutionInv, Waits
  <1> QED BY <1>2, <1>4, <1>6, <1>8 DEF ExecutionInv

\* The entry's registers are those of its inputs.
LEMMA InputsSet ==
    ASSUME prog \in Program, prog.entry \in Known
    PROVE  DOMAIN Activate(0, FuncMap(prog.entry), prog.inputs).regs = SetBefore(1)
  <1>1. DOMAIN InputRegisters(target, prog.inputs) = Range(target.inputs)
    BY DEF InputRegisters
  <1>2. Activate(0, FuncMap(prog.entry), prog.inputs).regs = InputRegisters(target, prog.inputs)
    BY DEF Activate, target
  <1>3. SetBefore(1) = Range(target.inputs)
    BY DEF SetBefore
  <1> QED BY <1>1, <1>2, <1>3

LEMMA EntryActivated ==
    ASSUME ExecutionInv, ParseInputs, ~config.badInput
    PROVE  ExecutionInv'
  <1>1. PICK a : a = Activate(0, FuncMap(prog.entry), prog.inputs)
    OBVIOUS
  <1>2. /\ stack' = <<a>> /\ stage = "inputs" /\ stage' = "execute"
        /\ UNCHANGED <<config, prog, given, store, results, events, status, hist>>
    BY <1>1, Zenon DEF ParseInputs, Goto, Still
  <1>3. prog \in Program /\ prog.entry \in Known /\ status = "running" /\ stack = <<>>
    BY <1>2 DEF ExecutionInv, Waits, VMInv, BeforeExecution
  <1>4. Len(prog.inputs) \in Nat /\ \A k \in 1 .. Len(prog.inputs) : prog.inputs[k] \in Int64
    BY <1>3, ProgramParts
  <1>5. ActivationOK(a)
    BY <1>1, <1>3, <1>4, ActivateOK
  <1>6. StackOK(<<a>>)
    <2>1. PICK s : s = <<a>>
      OBVIOUS
    <2>2. s \in Seq({a}) /\ Len(s) = 1 /\ s[1] = a
      BY <2>1
    <2>3. \A k \in 1 .. Len(s) : ActivationOK(s[k])
      BY <1>5, <2>2
    <2>4. \A k \in 1 .. Len(s) - 1 : Waiting(s[k])
      BY <2>2
    <2> QED BY <2>1, <2>2, <2>3, <2>4 DEF StackOK
  <1>7. VMInv'
    BY <1>2, <1>3, <1>6, VMKept DEF ExecutionInv, VMInv, ResultsOK
  <1>8. HistInv'
    <2>1. \A n, m, k : UNCHANGED <<Present(n, m, k), Value(n, m, k)>>
      BY <1>2 DEF Present, Value, Writes, Touches
    <2>2. StoreAgrees'
      BY <1>2, <2>1 DEF ExecutionInv, HistInv, StoreAgrees, HasKey
    <2>3. ReadsSeen'
      BY <1>2, <2>1 DEF ExecutionInv, HistInv, ReadsSeen, Seen
    <2> QED BY <1>2, <2>2, <2>3 DEF ExecutionInv, HistInv
  <1>9. a.fn = FuncMap(prog.entry) /\ a.pc = 1
    BY <1>1 DEF Activate
  <1>10. DOMAIN a.regs = SetBefore(1)
    BY <1>1, <1>3, InputsSet
  <1>11. stack' # <<>> /\ Len(stack') = 1 /\ stack'[1] = a
    BY <1>2
  <1>12. Outermost'
    BY <1>2, <1>3, <1>9, <1>10, <1>11, EntrySame DEF Outermost
  <1>13. Returned'
    BY <1>2, <1>3 DEF Returned
  <1>14. Waits'
    BY <1>2 DEF ExecutionInv, Waits, BeforeExecution, Parsed
  <1> QED BY <1>7, <1>8, <1>12, <1>13, <1>14 DEF ExecutionInv

LEMMA ExecutionStep ==
    ASSUME ExecutionInv, [ReplayNext]_allVars
    PROVE  ExecutionInv'
  <1>1. CASE Execution
    <2>1. Execute /\ stage = "execute" /\ UNCHANGED <<config, stage>>
      BY <1>1 DEF Execution, replayVars
    <2>2. prog.mode # "finalize"
      BY DEF ExecutionInv, Waits, Parsed
    <2>3. Outermost' /\ Returned' /\ UNCHANGED prog
      BY <2>1, <2>2, OutermostStep DEF ExecutionInv
    <2>4. VMInv' /\ HistInv'
      BY <2>1, VMStep, HistStep DEF ExecutionInv, Next
    <2>5. Waits'
      BY <2>1, <2>3 DEF ExecutionInv, Waits, BeforeExecution, Parsed
    <2> QED BY <2>3, <2>4, <2>5 DEF ExecutionInv
  <1>2. CASE Check \/ CreateOutDir \/ Fetch \/ FindFunction
    <2>1. UNCHANGED <<vmVars, config>> /\ stage \in BeforeExecution
          /\ (stage' = "inputs" => prog.entry \in Known)
      BY <1>2 DEF Check, CreateOutDir, Fetch, FindFunction, Exit, Goto, Still, BeforeExecution
    <2> QED BY <2>1, InterpreterStill
  <1>3. CASE ParseInputs
    <2>1. CASE config.badInput
      <3>1. UNCHANGED <<vmVars, config>> /\ stage' = "exited"
        BY <1>3, <2>1 DEF ParseInputs, Exit, Still, vmVars
      <3> QED BY <3>1, InterpreterStill DEF BeforeExecution
    <2> QED BY <1>3, <2>1, EntryActivated
  <1>4. CASE \/ Executed \/ Prepare \/ WriteSource \/ OpenWriter \/ RegisterSource \/ Start
             \/ EnterFunction \/ ShowRegister \/ LeaveFunction
             \/ Finish \/ WriteMeta \/ Close \/ IoFails
    <2>1. UNCHANGED <<vmVars, config>> /\ stage' \notin BeforeExecution
      BY <1>4 DEF Executed, Prepare, WriteSource, OpenWriter, RegisterSource, Start, EnterFunction,
                  ShowRegister, LeaveFunction, Finish, WriteMeta, Close, IoFails, Exit, Goto, Still,
                  BeforeExecution
    <2> QED BY <2>1, InterpreterStill DEF BeforeExecution
  <1>5. CASE UNCHANGED allVars
    BY <1>5, InterpreterStill DEF allVars, replayVars
  <1> QED
    BY <1>1, <1>2, <1>3, <1>4, <1>5 DEF ReplayNext, Replay, ReplayExited

----------------------------------------------------------------------------
(* The trace and the execution *)

\* What is shown follows from the execution and the program.
LEMMA ShownStays ==
    ASSUME UNCHANGED <<vmVars, config>>
    PROVE  /\ SortedRegisters' = SortedRegisters /\ Args' = Args /\ UNCHANGED <<prog, status>>
           /\ \A k : EntryShown(k)' = EntryShown(k)
  <1>1. UNCHANGED <<prog, results, status>>
    BY DEF vmVars
  <1>2. UNCHANGED <<shown, target, FunctionLine>>
    BY <1>1 DEF shown, target, FuncMap, FunctionLine
  <1>3. SortedRegisters' = SortedRegisters
    BY <1>2 DEF SortedRegisters
  <1>4. Args' = Args
    BY <1>1, <1>2 DEF Args, ArgValue
  <1>5. \A k : EntryShown(k)' = EntryShown(k)
    BY <1>2, <1>3 DEF EntryShown, StepLine
  <1> QED BY <1>1, <1>3, <1>4, <1>5

LEMMA TraceStarts == ReplayInit => Traced
  BY DEF ReplayInit, Traced, NoWriter, BeforeBundle, AfterFinish

\* Stages that leave the writer as it is.
LEMMA WriterStill ==
    ASSUME ReplayInv, ExecutionInv, Traced,
           \/ Check \/ CreateOutDir \/ Fetch \/ FindFunction \/ ParseInputs \/ Execution
           \/ Executed \/ Prepare \/ WriteSource
    PROVE  Traced'
  <1>1. UNCHANGED <<emitted, writer>>
    BY DEF Check, CreateOutDir, Fetch, FindFunction, ParseInputs, Execution, Executed, Prepare,
           WriteSource, Still, replayVars
  <1>2. stage \in BeforeBundle
    BY DEF Check, CreateOutDir, Fetch, FindFunction, ParseInputs, Execution, Executed, Prepare,
           WriteSource, BeforeBundle
  <1>3. writer = NoWriter
    BY <1>2 DEF ReplayInv, StageOK
  <1>4. /\ stage' \in BeforeBundle \cup {"exited"}
        /\ stage' \in {"prepare", "write_source", "open"} =>
               UNCHANGED status /\ (status = "ok" \/ stage \in {"prepare", "write_source"})
    BY DEF Check, CreateOutDir, Fetch, FindFunction, ParseInputs, Execution, Executed,
           Prepare, WriteSource, Exit, Goto, replayVars, vmVars, BeforeBundle
  <1>5. stage' \in BeforeBundle => emitted' = 0
    BY <1>1, <1>2 DEF Traced
  <1>6. writer' = NoWriter
    BY <1>1, <1>3
  <1>7. stage' \in {"prepare", "write_source", "open"} => status' = "ok"
    BY <1>4 DEF Traced
  <1> QED BY <1>4, <1>5, <1>6, <1>7 DEF Traced, NoWriter, BeforeBundle, AfterFinish

\* Stages that leave the log and the arguments as they are.
LEMMA LogStill ==
    ASSUME Traced, UNCHANGED <<vmVars, config>>, UNCHANGED <<writer.log, writer.args>>,
           writer.state # "none", writer'.state \in {"open", "finished", "described", "closed"},
           writer'.open \in {writer.open, <<"<toplevel>">>},
           stage' \in {"finish", "exited"} \cup AfterFinish,
           stage' \in {"finish"} \cup AfterFinish \/ writer'.state = "closed" =>
               writer.args = Args /\ Len(writer.log) = Len(SortedRegisters) + 1
    PROVE  Traced'
  <1>1. /\ SortedRegisters' = SortedRegisters /\ Args' = Args /\ UNCHANGED <<prog, status>>
        /\ \A k : EntryShown(k)' = EntryShown(k)
    BY ShownStays
  <1>2. status' = "ok"
    BY <1>1 DEF Traced
  <1>3. \A k \in 1 .. Len(writer'.log) - 1 :
            k <= Len(SortedRegisters') /\ writer'.log[k + 1] = EntryShown(k)'
    BY <1>1 DEF Traced
  <1>4. \/ writer'.open = <<>> \/ writer'.open = <<"<toplevel>">>
        \/ writer'.open = Append(<<"<toplevel>">>, prog'.entry)
    BY <1>1 DEF Traced
  <1> QED
    BY <1>1, <1>2, <1>3, <1>4 DEF Traced, BeforeBundle, AfterFinish

LEMMA TraceStays ==
    ASSUME Traced, UNCHANGED <<vmVars, config, emitted, writer>>,
           stage' = "exited" \/ UNCHANGED stage
    PROVE  Traced'
  <1>1. /\ SortedRegisters' = SortedRegisters /\ Args' = Args /\ UNCHANGED <<prog, status>>
        /\ \A k : EntryShown(k)' = EntryShown(k)
    BY ShownStays
  <1>2. \A k \in 1 .. Len(writer'.log) - 1 :
            k <= Len(SortedRegisters') /\ writer'.log[k + 1] = EntryShown(k)'
    BY <1>1 DEF Traced
  <1>3. \/ writer'.open = <<>> \/ writer'.open = <<"<toplevel>">>
        \/ writer'.open = Append(<<"<toplevel>">>, prog'.entry)
    BY <1>1 DEF Traced
  <1> QED
    BY <1>1, <1>2, <1>3 DEF Traced, BeforeBundle, AfterFinish

LEMMA TraceOpens ==
    ASSUME ReplayInv, Traced, OpenWriter \/ RegisterSource
    PROVE  Traced'
  <1>1. UNCHANGED <<vmVars, config, emitted>>
    BY DEF OpenWriter, RegisterSource, Still
  <1>2. UNCHANGED <<prog, status>>
    BY <1>1 DEF vmVars
  <1>3. status = "ok" /\ emitted = 0
    BY DEF OpenWriter, RegisterSource, Traced, BeforeBundle, ReplayInv, StageOK, WhileWriting
  <1>4. /\ stage' \in {"register", "start"} /\ writer'.log = <<>>
        /\ writer'.state = "open" /\ writer'.open \in {writer.open, <<>>}
    <2>1. CASE OpenWriter
      BY <2>1 DEF OpenWriter, Goto, NoWriter
    <2>2. CASE RegisterSource
      <3>1. stage = "register" /\ stage' = "start" /\ writer' = [writer EXCEPT !.lines = SourceLineCount]
        BY <2>2 DEF RegisterSource, Goto
      <3>2. DOMAIN writer = ReplayWriter /\ writer.state = "open" /\ writer.log = <<>>
        BY <3>1 DEF ReplayInv, StageOK, ContentOK, WhileWriting
      <3> QED BY <3>1, <3>2 DEF ReplayWriter
    <2> QED BY <2>1, <2>2
  <1>5. Len(writer'.log) = 0
    BY <1>4
  <1>6. \/ writer'.open = <<>> \/ writer'.open = <<"<toplevel>">>
        \/ writer'.open = Append(<<"<toplevel>">>, prog'.entry)
    BY <1>2, <1>4 DEF Traced
  <1> QED
    BY <1>1, <1>2, <1>3, <1>4, <1>5, <1>6 DEF Traced, BeforeBundle, AfterFinish

\* The registers in order, once the execution has succeeded.
LEMMA SortedAre ==
    ASSUME ExecutionInv, status = "ok"
    PROVE  /\ DOMAIN shown \subseteq Reg /\ DOMAIN shown \subseteq Nat
           /\ SortedRegisters \in Seq(DOMAIN shown) /\ Len(SortedRegisters) \in Nat
           /\ \A r \in DOMAIN shown :
                  \E k \in 1 .. Len(SortedRegisters) : SortedRegisters[k] = r
           /\ Increasing(SortedRegisters)
  <1>1. RegistersOK(shown)
    BY DEF ExecutionInv, VMInv, ResultsOK, Returned, shown
  <1>2. PICK S : S = DOMAIN shown
    OBVIOUS
  <1>3. S \subseteq Reg
    BY <1>1, <1>2 DEF RegistersOK
  <1>4. S \subseteq Nat /\ IsFiniteSet(S)
    BY <1>3, RegAssumption, FS_Subset
  <1>5. /\ Ascending(S) \in Seq(S) /\ Len(Ascending(S)) \in Nat
        /\ \A x \in S : \E k \in 1 .. Len(Ascending(S)) : Ascending(S)[k] = x
        /\ Increasing(Ascending(S))
    BY <1>4, AscendingOrder
  <1>6. SortedRegisters = Ascending(S)
    BY <1>2 DEF SortedRegisters
  <1> QED BY <1>2, <1>3, <1>4, <1>5, <1>6

LEMMA TraceBegins ==
    ASSUME ReplayInv, ExecutionInv, Traced, Start \/ EnterFunction
    PROVE  Traced'
  <1>1. UNCHANGED <<vmVars, config, emitted>>
    BY DEF Start, EnterFunction, Still
  <1>2. /\ SortedRegisters' = SortedRegisters /\ Args' = Args /\ UNCHANGED <<prog, status>>
        /\ \A k : EntryShown(k)' = EntryShown(k)
    BY <1>1, ShownStays
  <1>3. stage \in {"start", "enter"} /\ emitted = 0 /\ DOMAIN writer = ReplayWriter
        /\ writer.state = "open"
    BY DEF Start, EnterFunction, Traced, ReplayInv, StageOK, WhileWriting
  <1>4. status = "ok"
    BY <1>3 DEF Traced
  <1>5. Len(SortedRegisters) \in Nat
    BY <1>4, SortedAre
  <1>6. /\ Len(writer'.log) = 1 /\ writer'.state = "open"
        /\ \/ stage' = "enter" /\ writer'.open = <<"<toplevel>">>
           \/ /\ stage' = "registers" /\ writer'.args = Args
              /\ writer'.open = Append(<<"<toplevel>">>, prog.entry)
    <2>1. CASE Start
      <3>1. PICK w : w = WithStep(writer, 1, <<>>)
        OBVIOUS
      <3>2. DOMAIN w = ReplayWriter /\ w.state = "open" /\ w.log = Append(writer.log, [line |-> 1, shows |-> <<>>])
        BY <1>3, <3>1 DEF WithStep, ReplayWriter
      <3>3. writer' = [w EXCEPT !.open = <<"<toplevel>">>] /\ stage' = "enter" /\ stage = "start"
        BY <2>1, <3>1 DEF Start, Goto
      <3>4. writer.log = <<>>
        BY <3>3 DEF Traced
      <3>5. Len(w.log) = 1
        BY <3>2, <3>4
      <3> QED BY <3>2, <3>3, <3>5 DEF ReplayWriter
    <2>2. CASE EnterFunction
      <3>1. writer' = [writer EXCEPT !.args = Args, !.open = Append(@, prog.entry)]
            /\ stage = "enter" /\ stage' = "registers"
        BY <2>2, Zenon DEF EnterFunction, Goto
      <3>2. writer.open = <<"<toplevel>">> /\ Len(writer.log) = 1
        BY <1>3, <3>1 DEF ReplayInv, ContentOK, Traced
      <3> QED BY <1>3, <3>1, <3>2 DEF ReplayWriter
    <2> QED BY <2>1, <2>2
  <1>7. 1 .. Len(writer'.log) - 1 = {}
    BY <1>6
  <1> QED
    BY <1>1, <1>2, <1>3, <1>4, <1>5, <1>6, <1>7 DEF Traced, BeforeBundle, AfterFinish

LEMMA TraceShows ==
    ASSUME ReplayInv, ExecutionInv, Traced, ShowRegister
    PROVE  Traced'
  <1>1. PICK e : e = EntryShown(emitted + 1)
    OBVIOUS
  <1>2. /\ stage = "registers" /\ stage' = "registers" /\ emitted < Len(SortedRegisters)
        /\ emitted' = emitted + 1 /\ UNCHANGED <<vmVars, config>>
        /\ writer' = WithStep(writer, StepLine(emitted + 1),
                     [x \in {SortedRegisters[emitted + 1]} |-> shown[SortedRegisters[emitted + 1]]])
    BY Zenon DEF ShowRegister, Goto
  <1>3. DOMAIN writer = ReplayWriter /\ writer.state = "open" /\ emitted \in Nat /\ LogOK(writer)
    BY <1>2 DEF ReplayInv, StageOK, ContentOK, WhileWriting
  <1>4. /\ writer'.log = Append(writer.log, e) /\ writer'.state = "open"
        /\ writer'.open = writer.open /\ writer'.args = writer.args
    BY <1>1, <1>2, <1>3 DEF WithStep, ReplayWriter, EntryShown
  <1>5. PICK S : writer.log \in Seq(S)
    BY <1>3 DEF LogOK
  <1>21. PICK n \in Nat : n = emitted
    BY <1>3
  <1>6. PICK s : s = writer.log /\ n = emitted
    BY <1>21
  <1>7. PICK T : T = S \cup {e}
    OBVIOUS
  <1>8. s \in Seq(T) /\ e \in T
    BY <1>5, <1>6, <1>7
  <1>9. Len(s) = n + 1
    BY <1>2, <1>6 DEF Traced
  <1>10. /\ Append(s, e) \in Seq(T) /\ Len(Append(s, e)) = n + 2
         /\ \A k \in 1 .. n + 1 : Append(s, e)[k] = s[k]
         /\ Append(s, e)[n + 2] = e
    BY <1>8, <1>9, AppendElement
  <1>11. /\ SortedRegisters' = SortedRegisters /\ Args' = Args /\ UNCHANGED <<prog, status>>
         /\ \A k : EntryShown(k)' = EntryShown(k)
    BY <1>2, ShownStays
  <1>12. status = "ok"
    BY <1>3 DEF Traced
  <1>13. Len(SortedRegisters) \in Nat
    BY <1>12, SortedAre
  <1>14. PICK m \in Nat : m = Len(SortedRegisters) /\ n + 1 <= m
    BY <1>2, <1>6, <1>13
  <1>15. ASSUME NEW k \in 1 .. n + 1
         PROVE  k <= m /\ Append(s, e)[k + 1] = EntryShown(k)
    <2>1. k \in 1 .. n \/ k = n + 1
      OBVIOUS
    <2>2. CASE k \in 1 .. n
      <3>1. k \in 1 .. Len(writer.log) - 1
        BY <1>6, <1>9, <2>2
      <3>2. writer.log[k + 1] = EntryShown(k)
        BY <3>1 DEF Traced
      <3>3. k + 1 \in 1 .. n + 1 /\ k <= m
        BY <1>14, <2>2
      <3> QED BY <1>6, <1>10, <3>2, <3>3
    <2>3. CASE k = n + 1
      <3>1. k + 1 = n + 2 /\ k <= m
        BY <1>14, <2>3
      <3> QED BY <1>1, <1>6, <1>10, <2>3, <3>1
    <2> QED BY <2>1, <2>2, <2>3
  <1>16. Len(writer'.log) = n + 2 /\ Len(writer'.log) - 1 = n + 1 /\ emitted' = n + 1
    BY <1>2, <1>4, <1>6, <1>10
  <1>17. \A k \in 1 .. Len(writer'.log) - 1 :
             k <= Len(SortedRegisters') /\ writer'.log[k + 1] = EntryShown(k)'
    BY <1>4, <1>6, <1>11, <1>14, <1>15, <1>16
  <1>18. \/ writer'.open = <<>> \/ writer'.open = <<"<toplevel>">>
         \/ writer'.open = Append(<<"<toplevel>">>, prog'.entry)
    BY <1>4, <1>11 DEF Traced
  <1>19. Len(writer'.log) = emitted' + 1 /\ emitted' <= Len(SortedRegisters')
    BY <1>11, <1>14, <1>16
  <1>20. writer'.args = Args'
    BY <1>2, <1>4, <1>11 DEF Traced
  <1> QED
    BY <1>2, <1>4, <1>11, <1>12, <1>17, <1>18, <1>19, <1>20 DEF Traced, BeforeBundle, AfterFinish

LEMMA TraceStep ==
    ASSUME ReplayInv, ExecutionInv, Traced, [ReplayNext]_allVars
    PROVE  Traced'
  <1>1. CASE LeaveFunction
    <2>1. /\ writer' = [writer EXCEPT !.open = Front(@)] /\ stage = "registers"
          /\ stage' = "finish" /\ emitted = Len(SortedRegisters)
          /\ UNCHANGED <<vmVars, config>>
      BY <1>1 DEF LeaveFunction, Goto, Still
    <2>2. DOMAIN writer = ReplayWriter /\ writer.state = "open"
          /\ writer.open = Append(<<"<toplevel>">>, prog.entry)
      BY <2>1 DEF ReplayInv, StageOK, ContentOK, WhileWriting
    <2>3. Front(writer.open) = <<"<toplevel>">>
      BY <2>2, FrontOfAppend
    <2>4. writer'.open = <<"<toplevel>">> /\ writer'.state = "open"
          /\ UNCHANGED <<writer.log, writer.args>>
      BY <2>1, <2>2, <2>3 DEF ReplayWriter
    <2>5. writer.args = Args /\ Len(writer.log) = Len(SortedRegisters) + 1
      BY <2>1 DEF Traced
    <2> QED BY <2>1, <2>2, <2>4, <2>5, LogStill
  <1>2. CASE (Finish /\ writer.refused) \/ IoFails \/ UNCHANGED allVars
    <2>1. UNCHANGED <<vmVars, config, emitted, writer>> /\ (stage' = "exited" \/ UNCHANGED stage)
      BY <1>2 DEF Finish, IoFails, Exit, Still, allVars, replayVars
    <2> QED BY <2>1, TraceStays
  <1>3. CASE (Finish /\ ~writer.refused) \/ WriteMeta \/ Close
    <2>1. /\ stage \in {"finish"} \cup AfterFinish /\ stage' \in {"exited"} \cup AfterFinish
          /\ UNCHANGED <<vmVars, config>>
      BY <1>3 DEF Finish, WriteMeta, Close, Goto, Exit, Still, AfterFinish
    <2>2. PICK st : /\ writer' = [writer EXCEPT !.state = st]
                   /\ st \in {"finished", "described", "closed"}
      <3>1. CASE Finish /\ ~writer.refused
        BY <3>1 DEF Finish
      <3>2. CASE WriteMeta
        BY <3>2 DEF WriteMeta
      <3>3. CASE Close
        BY <3>3 DEF Close
      <3> QED BY <1>3, <3>1, <3>2, <3>3
    <2>3. DOMAIN writer = ReplayWriter /\ writer.state # "none"
      BY <2>1 DEF ReplayInv, StageOK, WhileWriting, AfterFinish
    <2>4. writer'.state \in {"finished", "described", "closed"} /\ writer'.open = writer.open
          /\ UNCHANGED <<writer.log, writer.args>>
      BY <2>2, <2>3 DEF ReplayWriter
    <2>5. writer.args = Args /\ Len(writer.log) = Len(SortedRegisters) + 1
      BY <2>1 DEF Traced
    <2> QED BY <2>1, <2>3, <2>4, <2>5, LogStill
  <1> QED
    BY <1>1, <1>2, <1>3, WriterStill, TraceOpens, TraceBegins, TraceShows
       DEF ReplayNext, Replay, ReplayExited

LEMMA ReplayFullInvariant == ReplaySpec => [](ReplayInv /\ ExecutionInv /\ Traced)
  <1>1. ReplayInit => ReplayInv /\ ExecutionInv /\ Traced
    BY InitReplay, ExecutionStarts, TraceStarts
  <1>2. ReplayInv /\ ExecutionInv /\ Traced /\ [ReplayNext]_allVars =>
            (ReplayInv /\ ExecutionInv /\ Traced)'
    BY ReplayStep, ExecutionStep, TraceStep
  <1> QED BY <1>1, <1>2, PTL DEF ReplaySpec

\* The variables of a replay and of the interpreter in it hold what the code's
\* types allow, for every deployed program and command line.
THEOREM ReplayTypeCorrect == ReplaySpec => []ReplayTypeOK
  <1>1. ReplayInv /\ ExecutionInv /\ Traced => ReplayTypeOK
    <2> SUFFICES ASSUME ReplayInv, ExecutionInv, Traced PROVE ReplayTypeOK
      OBVIOUS
    <2>1. TypeOK
      BY DEF ExecutionInv, VMInv, TypeOK, StackOK, ActivationOK, CodeOf, ResultsOK
    <2>2. exit \in {"running", "ok", "err", "panic"} /\ emitted \in Nat
      BY DEF ReplayInv, CommandOK, ContentOK
    <2>3. \A k \in 1 .. Len(writer.log) : writer.log[k].line \in Nat \ {0}
      <3>1. CASE writer.state = "none"
        <4>1. writer.log = <<>>
          BY <3>1 DEF Traced, NoWriter
        <4> QED BY <4>1
      <3>2. CASE writer.state # "none"
        BY <3>2 DEF ReplayInv, ContentOK, LogOK
      <3> QED BY <3>1, <3>2
    <2>4. prog.entry \in FnName
      BY ProgramParts DEF ExecutionInv, VMInv
    <2>5. \A k \in 1 .. Len(writer.open) : writer.open[k] \in FnName \cup {"<toplevel>"}
      <3>1. PICK T : T = FnName \cup {"<toplevel>"}
        OBVIOUS
      <3>2. <<"<toplevel>">> \in Seq(T) /\ prog.entry \in T
        BY <2>4, <3>1
      <3>3. Append(<<"<toplevel>">>, prog.entry) \in Seq(T)
        BY <3>2, AppendElement
      <3>4. <<>> \in Seq(T)
        OBVIOUS
      <3>5. writer.open \in Seq(T)
        BY <3>2, <3>3, <3>4 DEF Traced
      <3> QED BY <3>1, <3>5
    <2> QED BY <2>1, <2>2, <2>3, <2>5 DEF ReplayTypeOK, Traced
  <1> QED BY <1>1, ReplayFullInvariant, PTL

LEMMA MaxOfOne ==
    ASSUME NEW x \in Nat
    PROVE  Max({x}) = x
  <1>1. IsFiniteSet({x}) /\ {x} \subseteq Nat /\ {x} # {}
    BY FS_Singleton
  <1> QED BY <1>1, MaxIs

\* A complete bundle is of an execution that succeeded, and its steps after the
\* first are those of the registers, one each.
LEMMA BundleComplete ==
    ASSUME ReplayInv, ExecutionInv, Traced, Bundle = "program",
           NEW steps, steps = Tail(writer.log)
    PROVE  /\ status = "ok" /\ writer.args = Args
           /\ Len(steps) = Len(SortedRegisters)
           /\ \A k \in 1 .. Len(steps) : steps[k] = EntryShown(k)
  <1>1. writer.state = "closed"
    BY DEF Bundle
  <1>2. status = "ok" /\ writer.args = Args /\ Len(writer.log) = Len(SortedRegisters) + 1
    BY <1>1 DEF Traced
  <1>3. PICK m \in Nat : m = Len(SortedRegisters)
    BY <1>2, SortedAre
  <1>4. PICK S : writer.log \in Seq(S)
    BY <1>1 DEF ReplayInv, ContentOK, LogOK
  <1>5. PICK s \in Seq(S) : s = writer.log
    BY <1>4
  <1>6. Len(s) = m + 1 /\ s # <<>>
    BY <1>2, <1>3, <1>5
  <1>7. Len(Tail(s)) = m /\ \A k \in 1 .. m : Tail(s)[k] = s[k + 1]
    BY <1>6
  <1>8. \A k \in 1 .. m : s[k + 1] = EntryShown(k)
    BY <1>5, <1>6 DEF Traced
  <1> QED BY <1>2, <1>3, <1>5, <1>7, <1>8

\* A complete bundle shows every register of the outermost call as it was when
\* that call returned, in the order of their numbers, and the inputs it was
\* given (replay.rs:319-421), for every program and every set of registers.
THEOREM TraceOfTheExecution == ReplaySpec => []TraceShowsTheExecution
  <1>1. ASSUME ReplayInv, ExecutionInv, Traced, Bundle = "program"
        PROVE  TraceShowsTheExecution
    <2>1. PICK last : last = hist[Len(hist)]
      OBVIOUS
    <2>2. PICK steps : steps = Tail(writer.log)
      OBVIOUS
    <2>3. /\ status = "ok" /\ writer.args = Args
          /\ Len(steps) = Len(SortedRegisters)
          /\ \A k \in 1 .. Len(steps) : steps[k] = EntryShown(k)
      BY <1>1, <2>2, BundleComplete
    <2>4. last.did = "return" /\ last.fn = config.entry /\ last.result.registers = shown
      BY <1>1, <2>1, <2>3 DEF ExecutionInv, Returned, Waits, Parsed, shown
    <2>5. PICK m \in Nat : m = Len(SortedRegisters)
      BY <1>1, <2>3, SortedAre
    <2>6. PICK s \in Seq(DOMAIN shown) : s = SortedRegisters
      BY <1>1, <2>3, SortedAre
    <2>7. ASSUME NEW k \in 1 .. m
          PROVE  /\ s[k] \in DOMAIN shown /\ s[k] \in Nat
                 /\ steps[k].shows = [x \in {s[k]} |-> shown[s[k]]]
      <3>1. s[k] \in DOMAIN shown
        BY <2>5, <2>6
      <3>2. DOMAIN shown \subseteq Nat
        BY <1>1, <2>3, SortedAre
      <3>3. steps[k] = EntryShown(k)
        BY <2>3, <2>5
      <3> QED BY <2>6, <3>1, <3>2, <3>3 DEF EntryShown
    <2>8. PICK numbers : numbers = [k \in 1 .. Len(steps) |-> Max(DOMAIN steps[k].shows)]
      OBVIOUS
    <2>9. Len(steps) = m
      BY <2>3, <2>5
    <2>10. ASSUME NEW k \in 1 .. m PROVE numbers[k] = s[k]
      <3>1. DOMAIN steps[k].shows = {s[k]}
        BY <2>7
      <3>2. Max({s[k]}) = s[k]
        BY <2>7, MaxOfOne
      <3> QED BY <2>8, <2>9, <3>1, <3>2
    <2>11. DOMAIN numbers = 1 .. m /\ Len(numbers) = m
      BY <2>8, <2>9
    <2>12. \A k \in 1 .. Len(steps) : \A r \in DOMAIN steps[k].shows :
               steps[k].shows[r] = last.result.registers[r]
      <3> SUFFICES ASSUME NEW k \in 1 .. m, NEW r \in DOMAIN steps[k].shows
                   PROVE  steps[k].shows[r] = shown[r]
        BY <2>4, <2>9
      <3>1. r = s[k] /\ steps[k].shows[r] = shown[s[k]]
        BY <2>7
      <3> QED BY <3>1
    <2>13. Range(numbers) = DOMAIN last.result.registers
      <3>1. \A r \in DOMAIN shown : \E k \in 1 .. m : s[k] = r
        BY <1>1, <2>3, <2>5, <2>6, SortedAre
      <3>2. Range(numbers) = {numbers[k] : k \in 1 .. m}
        BY <2>11 DEF Range
      <3>3. \A k \in 1 .. m : s[k] \in DOMAIN shown
        BY <2>7
      <3>4. Range(numbers) \subseteq DOMAIN shown
        BY <2>10, <3>2, <3>3
      <3>5. ASSUME NEW r \in DOMAIN shown PROVE r \in Range(numbers)
        <4>1. PICK k \in 1 .. m : s[k] = r
          BY <3>1
        <4>2. numbers[k] = r
          BY <2>10, <4>1
        <4> QED BY <3>2, <4>2
      <3>6. Range(numbers) = DOMAIN shown
        BY <3>4, <3>5
      <3> QED BY <2>4, <3>6
    <2>14. \A j, k \in 1 .. Len(numbers) : j < k => numbers[j] < numbers[k]
      <3>1. Increasing(s)
        BY <1>1, <2>3, <2>6, SortedAre
      <3>2. Len(s) = m
        BY <2>5, <2>6
      <3> QED BY <2>10, <2>11, <3>1, <3>2 DEF Increasing
    <2>15. ASSUME NEW k \in 1 .. Len(writer.args), k <= Len(config.inputs)
           PROVE  writer.args[k].val = [value |-> config.inputs[k]]
      <3>1. prog.inputs = config.inputs
        BY <1>1 DEF ExecutionInv, Waits, Parsed
      <3>2. ArgValue(k) = [value |-> config.inputs[k]]
        BY <2>15, <3>1 DEF ArgValue
      <3>3. \E n : Args = [j \in 1 .. n |-> [reg |-> target.inputs[j], val |-> ArgValue(j)]]
                   /\ n \in Nat
        <4>1. prog.entry \in Known /\ prog \in Program
          BY <1>1, <2>3 DEF ExecutionInv, Returned, VMInv
        <4>2. target \in AleoFunction
          BY <4>1, FuncMapOK, ProgramParts DEF target
        <4>3. Len(target.inputs) \in Nat
          BY <4>2 DEF AleoFunction
        <4> QED BY <4>3 DEF Args
      <3>4. PICK n \in Nat : Args = [j \in 1 .. n |-> [reg |-> target.inputs[j], val |-> ArgValue(j)]]
        BY <3>3
      <3>5. Len(Args) = n
        BY <3>4
      <3>6. Args[k].val = ArgValue(k)
        BY <2>3, <2>15, <3>4, <3>5
      <3> QED BY <2>3, <3>2, <3>6
    <2> QED
      BY <2>1, <2>2, <2>4, <2>8, <2>12, <2>13, <2>14, <2>15 DEF TraceShowsTheExecution
  <1>2. Bundle # "program" => TraceShowsTheExecution
    BY DEF TraceShowsTheExecution
  <1>3. ReplayInv /\ ExecutionInv /\ Traced => TraceShowsTheExecution
    BY <1>1, <1>2
  <1> QED BY <1>3, ReplayFullInvariant, PTL

----------------------------------------------------------------------------
(* Where the registers are shown *)

\* A line of some kinds is one of the lines.
LEMMA OfKindFrom ==
    ASSUME NEW S, NEW s \in Seq(S), NEW kinds
    PROVE  /\ Len(OfKind(s, kinds)) <= Len(s)
           /\ \A k \in 1 .. Len(OfKind(s, kinds)) :
                  \E j \in 1 .. Len(s) : s[j] = OfKind(s, kinds)[k]
  <1>1. PICK T : T = {l \in Range(s) : l.kind \in kinds}
    OBVIOUS
  <1>2. OfKind(s, kinds) = Select(s, T)
    BY <1>1, Zenon DEF OfKind
  <1>3. Len(Select(s, T)) <= Len(s)
    BY SelectLength
  <1>4. \A k \in 1 .. Len(Select(s, T)) : \E j \in 1 .. Len(s) : s[j] = Select(s, T)[k]
    BY SelectType
  <1> QED BY <1>2, <1>3, <1>4

\* Each line of the block before its outputs sets the next register.
SetsNext(block, body) ==
    \A k \in 1 .. Len(body) : block[k] = body[k] /\ SetBy(body[k]) = {k - 1}

\* The inputs and the instructions set the registers from 0 on, one for each line.
NumbersFromZero(body, ins, is) ==
    /\ Len(body) \in Nat
    /\ \A i \in 1 .. Len(is) :
           "dest" \in DOMAIN is[i] /\ \E k \in 1 .. Len(body) : is[i].dest = k - 1
    /\ \A k \in 1 .. Len(body) :
           k - 1 \in Range(ins) \/ \E i \in 1 .. Len(is) : is[i].dest = k - 1
    /\ \A r \in Range(ins) : \E k \in 1 .. Len(body) : r = k - 1

\* The instruction and the input lines of such a block.
LEMMA NextRegisters ==
    ASSUME NEW S, \A l \in S : IsLine(l), NEW block \in Seq(S),
           NEW body, body = OfKind(block, AleoLineKinds \ {"output"}), SetsNext(block, body),
           NEW is, is = Instructions(block)
    PROVE  NumbersFromZero(body, Registers(block, "input"), is)
  <1>1. /\ Len(body) \in Nat
        /\ \A k \in 1 .. Len(body) : body[k] \in S /\ body[k].kind \in AleoLineKinds \ {"output"}
        /\ \A j \in 1 .. Len(block) : block[j].kind \in AleoLineKinds \ {"output"} =>
               \E k \in 1 .. Len(body) : body[k] = block[j]
    <2>1. PICK kinds : kinds = AleoLineKinds \ {"output"}
      OBVIOUS
    <2>2. body = OfKind(block, kinds)
      BY <2>1
    <2>3. /\ Len(body) \in Nat
          /\ \A k \in 1 .. Len(body) : body[k] \in S /\ body[k].kind \in kinds
          /\ \A j \in 1 .. Len(block) : block[j].kind \in kinds =>
                 \E k \in 1 .. Len(body) : body[k] = block[j]
      <3>1. /\ Len(OfKind(block, kinds)) \in Nat
            /\ \A k \in 1 .. Len(OfKind(block, kinds)) :
                   OfKind(block, kinds)[k] \in S /\ OfKind(block, kinds)[k].kind \in kinds
            /\ \A j \in 1 .. Len(block) : block[j].kind \in kinds =>
                   \E k \in 1 .. Len(OfKind(block, kinds)) : OfKind(block, kinds)[k] = block[j]
        BY OfKindType
      <3> QED BY <2>2, <3>1, Zenon
    <2> QED BY <2>1, <2>3
  <1>2. PICK kept : kept = OfKind(block, {"code", "cast", "comment"})
    OBVIOUS
  <1>3. PICK ins : ins = OfKind(block, {"input"})
    OBVIOUS
  <1>4. /\ Len(kept) \in Nat
        /\ \A k \in 1 .. Len(kept) : kept[k] \in S /\ kept[k].kind \in {"code", "cast", "comment"}
        /\ \A j \in 1 .. Len(block) : block[j].kind \in {"code", "cast", "comment"} =>
               \E k \in 1 .. Len(kept) : kept[k] = block[j]
    BY <1>2, OfKindType
  <1>5. /\ Len(ins) \in Nat
        /\ \A k \in 1 .. Len(ins) : ins[k] \in S /\ ins[k].kind = "input"
        /\ \A j \in 1 .. Len(block) : block[j].kind = "input" =>
               \E k \in 1 .. Len(ins) : ins[k] = block[j]
    BY <1>3, OfKindType
  <1>6. is = [k \in 1 .. Len(kept) |->
                 IF kept[k].kind = "code" THEN kept[k].instr ELSE [op |-> "unknown"]]
    BY <1>2, Zenon DEF Instructions
  <1>7. Registers(block, "input") = [k \in 1 .. Len(ins) |-> ins[k].reg]
    BY <1>3, Zenon DEF Registers
  <1>8. \A k \in 1 .. Len(kept) : \E j \in 1 .. Len(block) : block[j] = kept[k]
    BY <1>2, OfKindFrom
  <1>9. \A k \in 1 .. Len(ins) : \E j \in 1 .. Len(block) : block[j] = ins[k]
    BY <1>3, OfKindFrom
  <1>10. \A k \in 1 .. Len(body) : \E j \in 1 .. Len(block) : block[j] = body[k]
    BY OfKindFrom
  <1>11. ASSUME NEW i \in 1 .. Len(kept)
         PROVE  /\ kept[i].kind = "code" /\ "dest" \in DOMAIN kept[i].instr
                /\ \E k \in 1 .. Len(body) : kept[i].instr.dest = k - 1
    <2>1. PICK j \in 1 .. Len(block) : block[j] = kept[i]
      BY <1>8
    <2>2. kept[i].kind \in AleoLineKinds \ {"output"}
      BY <1>4 DEF AleoLineKinds
    <2>3. PICK k \in 1 .. Len(body) : body[k] = kept[i]
      BY <1>1, <2>1, <2>2
    <2>4. SetBy(kept[i]) = {k - 1}
      BY <2>3 DEF SetsNext
    <2>5. kept[i].kind \in {"code", "cast", "comment"}
      BY <1>4
    <2>6. kept[i].kind = "code" /\ "dest" \in DOMAIN kept[i].instr
      BY <2>4, <2>5 DEF SetBy
    <2>7. SetBy(kept[i]) = {kept[i].instr.dest}
      BY <2>6 DEF SetBy
    <2>8. kept[i].instr.dest = k - 1
      BY <2>4, <2>7
    <2> QED BY <2>6, <2>8
  <1>12. Len(is) = Len(kept) /\ \A i \in 1 .. Len(kept) : is[i] = kept[i].instr
    BY <1>4, <1>6, <1>11
  <1>13. \A i \in 1 .. Len(is) :
             "dest" \in DOMAIN is[i] /\ \E k \in 1 .. Len(body) : is[i].dest = k - 1
    BY <1>11, <1>12
  <1>14. ASSUME NEW k \in 1 .. Len(body)
         PROVE  \/ k - 1 \in Range(Registers(block, "input"))
                \/ \E i \in 1 .. Len(is) : is[i].dest = k - 1
    <2>1. SetBy(body[k]) = {k - 1}
      BY DEF SetsNext
    <2>2. PICK j \in 1 .. Len(block) : block[j] = body[k]
      BY <1>10
    <2>3. CASE body[k].kind = "input"
      <3>1. body[k].reg = k - 1
        <4>1. SetBy(body[k]) = {body[k].reg}
          BY <2>3 DEF SetBy
        <4> QED BY <2>1, <4>1
      <3>2. PICK i \in 1 .. Len(ins) : ins[i] = body[k]
        BY <1>5, <2>2, <2>3
      <3>3. Range(Registers(block, "input")) = {ins[n].reg : n \in 1 .. Len(ins)}
        BY <1>7 DEF Range
      <3> QED BY <3>1, <3>2, <3>3
    <2>4. CASE body[k].kind = "code"
      <3>1. PICK i \in 1 .. Len(kept) : kept[i] = body[k]
        BY <1>4, <2>2, <2>4
      <3>2. SetBy(body[k]) = {body[k].instr.dest}
        BY <1>11, <2>4, <3>1 DEF SetBy
      <3>3. body[k].instr.dest = k - 1
        BY <2>1, <3>2
      <3> QED BY <1>12, <3>1, <3>3
    <2>5. body[k].kind \in {"input", "code"}
      BY <2>1 DEF SetBy
    <2> QED BY <2>3, <2>4, <2>5
  <1>15. ASSUME NEW r \in Range(Registers(block, "input"))
         PROVE  \E k \in 1 .. Len(body) : r = k - 1
    <2>1. PICK i \in 1 .. Len(ins) : r = ins[i].reg
      BY <1>7 DEF Range
    <2>2. PICK j \in 1 .. Len(block) : block[j] = ins[i]
      BY <1>9
    <2>3. ins[i].kind = "input" /\ ins[i].kind \in AleoLineKinds \ {"output"}
      BY <1>5 DEF AleoLineKinds
    <2>4. PICK k \in 1 .. Len(body) : body[k] = ins[i]
      BY <1>1, <2>2, <2>3
    <2>5. SetBy(ins[i]) = {k - 1} /\ SetBy(ins[i]) = {ins[i].reg}
      BY <2>3, <2>4 DEF SetsNext, SetBy
    <2> QED BY <2>1, <2>5
  <1> QED BY <1>1, <1>13, <1>14, <1>15 DEF NumbersFromZero

\* Where the function is straight its registers are numbered from 0 on, by the
\* lines of its block.
LEMMA StraightShown ==
    ASSUME ReplayInv, ExecutionInv, status = "ok", Straight,
           NEW block, block = BlockLines(config.text, FunctionLine, BlockEnds),
           NEW body, body = OfKind(block, AleoLineKinds \ {"output"})
    PROVE  /\ SetsNext(block, body)
           /\ Len(body) \in Nat /\ Len(block) \in Nat /\ Len(body) <= Len(block)
           /\ FunctionLine \in 1 .. Len(config.text)
           /\ \A k \in 1 .. Len(block) : block[k] = config.text[FunctionLine + k]
           /\ DOMAIN shown = 0 .. Len(body) - 1
  <1>1. /\ config.text \in Seq(Range(config.text))
        /\ \A k \in 1 .. Len(config.text) : IsLine(config.text[k])
    BY ConfigsAssumption DEF ReplayInv, CommandOK, IsConfig, IsAleoText
  <1>2. PICK S : S = Range(config.text)
    OBVIOUS
  <1>3. PICK text \in Seq(S) : text = config.text
    BY <1>1, <1>2
  <1>4. \A l \in S : IsLine(l)
    BY <1>1, <1>2 DEF Range
  <1>5. PICK at : at = FunctionLine
    OBVIOUS
  <1>6. at \in 1 .. Len(text)
    BY <1>3, <1>5, LinesCounted DEF ReplayInv
  <1>7. /\ \A k \in 1 .. Len(text) :
               (text[k].kind = "function" /\ text[k].name = config.entry) <=> k = at
        /\ target.kind = "function"
        /\ SetsNext(block, body)
    BY <1>3, <1>5, Zenon DEF Straight, SetsNext
  <1>8. /\ block \in Seq(S) /\ Len(block) \in Nat
        /\ \A k \in 1 .. Len(block) : block[k] = text[at + k]
    BY <1>3, <1>5, <1>6, BlockIsRun
  <1>9. prog.fns = ParseAleoProgram(text) /\ prog.entry = config.entry
    BY <1>3 DEF ExecutionInv, Waits, Parsed
  <1>10. prog.entry \in Known /\ prog \in Program
    BY DEF ExecutionInv, Returned, VMInv
  <1>11. PICK m \in 1 .. Len(prog.fns) : m = FuncMap(prog.entry) /\ prog.fns[m].name = prog.entry
    BY <1>10, FuncMapOK
  <1>12. m \in 1 .. Len(Openings(text, FnKinds))
    BY <1>9, <1>11, ParsedLength
  <1>13. PICK i : i = Openings(text, FnKinds)[m]
    OBVIOUS
  <1>14. i \in 1 .. Len(text)
    BY <1>12, <1>13, OpeningsAre
  <1>15. PICK b : b = BlockLines(text, i, BlockEnds)
    OBVIOUS
  <1>16. ParseAleoProgram(text)[m] =
                [name |-> text[i].name, kind |-> text[i].kind,
                 inputs |-> Registers(b, "input"), code |-> Instructions(b),
                 outputs |-> Registers(b, "output")]
    BY <1>4, <1>12, <1>13, <1>15, ParsedFunction
  <1>17. target = ParseAleoProgram(text)[m]
    BY <1>9, <1>11 DEF target
  <1>18. text[i].name = config.entry /\ text[i].kind = "function"
    BY <1>7, <1>9, <1>11, <1>16, <1>17
  <1>19. i = at
    BY <1>7, <1>14, <1>18
  <1>20. b = block
    BY <1>3, <1>5, <1>15, <1>19
  <1>21. target.inputs = Registers(block, "input") /\ target.code = Instructions(block)
    BY <1>16, <1>17, <1>20
  <1>22. PICK is : is = Instructions(block)
    OBVIOUS
  <1>33. NumbersFromZero(body, Registers(block, "input"), is)
    <2>1. block \in Seq(S) /\ SetsNext(block, body)
      BY <1>7, <1>8
    <2> QED BY <1>4, <1>22, <2>1, NextRegisters
  <1>23. /\ Len(body) \in Nat
         /\ \A j \in 1 .. Len(is) :
                "dest" \in DOMAIN is[j] /\ \E k \in 1 .. Len(body) : is[j].dest = k - 1
         /\ \A k \in 1 .. Len(body) :
                \/ k - 1 \in Range(Registers(block, "input"))
                \/ \E j \in 1 .. Len(is) : is[j].dest = k - 1
         /\ \A r \in Range(Registers(block, "input")) : \E k \in 1 .. Len(body) : r = k - 1
    BY <1>33 DEF NumbersFromZero
  <1>24. SetsEach
    BY <1>21, <1>22, <1>23 DEF SetsEach
  <1>25. DOMAIN shown = SetBefore(Len(is) + 1)
    BY <1>21, <1>22, <1>24 DEF ExecutionInv, Returned
  <1>26. Len(is) \in Nat
    <2>1. is \in Seq(Instruction)
      BY <1>4, <1>8, <1>22, BlockParts
    <2> QED BY <2>1
  <1>27. SetBefore(Len(is) + 1) = Range(Registers(block, "input")) \cup {is[j].dest : j \in 1 .. Len(is)}
    <2>1. (Len(is) + 1) - 1 = Len(is)
      BY <1>26
    <2> QED BY <1>21, <1>22, <2>1 DEF SetBefore
  <1>28. PICK n \in Nat : n = Len(body)
    BY <1>23
  <1>29. ASSUME NEW r \in SetBefore(Len(is) + 1) PROVE r \in 0 .. n - 1
    <2>1. \E k \in 1 .. n : r = k - 1
      <3>1. CASE r \in Range(Registers(block, "input"))
        BY <1>23, <1>28, <3>1
      <3>2. CASE r \in {is[j].dest : j \in 1 .. Len(is)}
        <4>1. PICK j \in 1 .. Len(is) : r = is[j].dest
          BY <3>2
        <4> QED BY <1>23, <1>28, <4>1
      <3> QED BY <1>27, <1>29, <3>1, <3>2
    <2>2. PICK k \in 1 .. n : r = k - 1
      BY <2>1
    <2> QED BY <2>2
  <1>30. ASSUME NEW r \in 0 .. n - 1 PROVE r \in SetBefore(Len(is) + 1)
    <2>1. r + 1 \in 1 .. n /\ (r + 1) - 1 = r
      OBVIOUS
    <2>2. PICK k \in 1 .. n : k - 1 = r
      BY <2>1
    <2> QED BY <1>23, <1>27, <1>28, <2>2
  <1>31. DOMAIN shown = 0 .. Len(body) - 1
    BY <1>25, <1>28, <1>29, <1>30
  <1>32. Len(body) <= Len(block)
    BY <1>8, OfKindFrom
  <1> QED BY <1>3, <1>5, <1>6, <1>7, <1>8, <1>23, <1>31, <1>32

\* Where every line sets the next register its value is shown on that line
\* (replay.rs:371-411), for every deployed program.
THEOREM RegistersWhereSet == ReplaySpec => []RegistersShownWhereSet
  <1>1. ASSUME ReplayInv, ExecutionInv, Traced, Straight
        PROVE  RegistersShownWhereSet
    <2> SUFFICES ASSUME NEW k \in 2 .. Len(writer.log), NEW r \in DOMAIN writer.log[k].shows,
                        NEW l, l = config.text[writer.log[k].line]
                 PROVE  (l.kind = "input" /\ l.reg = r) \/ (l.kind = "code" /\ l.instr.dest = r)
      BY DEF RegistersShownWhereSet
    <2>1. writer.state # "none"
      <3> SUFFICES ASSUME writer.state = "none" PROVE FALSE
        OBVIOUS
      <3>1. writer.log = <<>>
        BY <1>1 DEF Traced, NoWriter
      <3> QED BY <3>1
    <2>2. status = "ok"
      BY <1>1, <2>1 DEF Traced
    <2>3. PICK S : writer.log \in Seq(S)
      BY <1>1, <2>1 DEF ReplayInv, ContentOK, LogOK
    <2>4. PICK j \in Nat : j = k - 1 /\ j + 1 = k /\ j \in 1 .. Len(writer.log) - 1
      BY <2>3
    <2>5. j <= Len(SortedRegisters) /\ writer.log[k] = EntryShown(j)
      BY <1>1, <2>4 DEF Traced
    <2>6. writer.log[k].line = FunctionLine + j /\ r = SortedRegisters[j]
      BY <2>5 DEF EntryShown, StepLine
    <2>7. PICK block : block = BlockLines(config.text, FunctionLine, BlockEnds)
      OBVIOUS
    <2>8. PICK body : body = OfKind(block, AleoLineKinds \ {"output"})
      OBVIOUS
    <2>9. /\ SetsNext(block, body)
          /\ Len(body) \in Nat /\ Len(block) \in Nat /\ Len(body) <= Len(block)
          /\ \A i \in 1 .. Len(block) : block[i] = config.text[FunctionLine + i]
          /\ DOMAIN shown = 0 .. Len(body) - 1
      BY <1>1, <2>2, <2>7, <2>8, StraightShown
    <2>10. PICK n \in Nat : n = Len(body)
      BY <2>9
    <2>11. SortedRegisters = Ascending(0 .. n - 1)
      BY <2>9, <2>10 DEF SortedRegisters
    <2>12. Len(SortedRegisters) \in Nat
      BY <1>1, <2>2, SortedAre
    <2>13. j \in 1 .. Len(Ascending(0 .. n - 1))
      BY <2>4, <2>5, <2>11, <2>12
    <2>14. j <= n /\ Ascending(0 .. n - 1)[j] = j - 1
      BY <2>13, AscendingInitial
    <2>15. r = j - 1 /\ j \in 1 .. n
      BY <2>4, <2>6, <2>11, <2>14
    <2>16. block[j] = body[j] /\ SetBy(body[j]) = {j - 1} /\ block[j] = config.text[FunctionLine + j]
      <3>1. j \in 1 .. Len(body)
        BY <2>10, <2>15
      <3>2. j \in 1 .. Len(block)
        BY <2>9, <3>1
      <3> QED BY <2>9, <3>1, <3>2 DEF SetsNext
    <2>17. SetBy(l) = {r}
      BY <2>6, <2>15, <2>16
    <2>18. CASE l.kind = "input"
      BY <2>17, <2>18 DEF SetBy
    <2>19. CASE l.kind = "code" /\ "dest" \in DOMAIN l.instr
      BY <2>17, <2>19 DEF SetBy
    <2>20. l.kind = "input" \/ (l.kind = "code" /\ "dest" \in DOMAIN l.instr)
      BY <2>17 DEF SetBy
    <2> QED BY <2>18, <2>19, <2>20
  <1>2. ~Straight => RegistersShownWhereSet
    BY DEF RegistersShownWhereSet
  <1>3. ReplayInv /\ ExecutionInv /\ Traced => RegistersShownWhereSet
    BY <1>1, <1>2
  <1> QED BY <1>3, ReplayFullInvariant, PTL

=============================================================================
