---------------------------- MODULE HostPipeline ----------------------------
(* ps_host_pipeline of src/host/process_posix.c: files and pipes are opened, *)
(* the stages are forked one after the other, each reporting through a pipe  *)
(* of its own whether it could become its program, and everything is closed, *)
(* killed if the launch failed, and waited for.  Bytes are counted.          *)
EXTENDS Naturals, FiniteSets

CONSTANTS
  Stages,     \* how many commands the line has
  Programs,   \* what a command may be: [missing, makes, reads], the bytes it writes
              \* of its own and whether it copies its input
  Redirects,  \* the stages whose input, and those whose output, may be a file
  PipeRoom    \* the bytes a pipe holds

VARIABLES
  plan,    \* the commands: [what, input, output] for every stage
  line,    \* the parent: [pc, at (the command its loop has reached), failed, result,
           \* held (its ends of the pipes, <<stage, end>>), files]
  stage,   \* of every stage [state, ends (that it holds), left (to write), status]
  pipe,    \* the bytes in the pipe behind each stage
  tty      \* [term, signals]
pipeVars == <<plan, line, stage, pipe, tty>>

All == 1..Stages
Joints == 1..(Stages - 1)            \* the pipe behind each of these stages
PipeEnds == Joints \X {"read", "write"}
LineAt(pc) == line.pc = pc
LineTo(pc) == line' = [line EXCEPT !.pc = pc]
Alive(i) == stage[i].state \in {"forked", "running"}
\* Who can still read from, or write to, the pipe behind a stage.
Holds(end) == end \in line.held \/ \E i \in All : Alive(i) /\ end \in stage[i].ends
\* The ends a stage keeps as its own input and output.
Own(i) == {e \in PipeEnds : \/ e = <<i, "write">> /\ ~plan[i].output
                            \/ e[1] = i - 1 /\ e[2] = "read" /\ ~plan[i].input}

Nothing == [pc |-> "open", at |-> 1, failed |-> TRUE, result |-> 126, held |-> {}, files |-> {}]
NoStage == [state |-> "none", ends |-> {}, left |-> 0, status |-> 0]
PipelineIdle ==
  /\ plan = <<>> /\ line = [Nothing EXCEPT !.pc = "done"]
  /\ stage = [i \in All |-> NoStage] /\ pipe = [j \in Joints |-> 0]
  /\ tty = [term |-> "host", signals |-> "host"]
PipelineInit ==
  /\ plan \in {p \in [All -> [what : Programs, input : BOOLEAN, output : BOOLEAN]] :
                 \A i \in All : (p[i].input \/ p[i].output) => i \in Redirects}
  /\ line = Nothing
  /\ stage = [i \in All |-> NoStage] /\ pipe = [j \in Joints |-> 0]
  /\ tty = [term |-> "host", signals |-> "host"]

----------------------------------------------------------------------------
\* The parent.
\* One command's files and the pipe behind it; what opened before a failure stays open.
Open ==
  /\ LineAt("open") /\ UNCHANGED <<plan, stage, pipe, tty>>
  /\ LET i == line.at
         files == (IF plan[i].input THEN {<<i, "in">>} ELSE {}) \cup (IF plan[i].output THEN {<<i, "out">>} ELSE {})
         ends == {e \in PipeEnds : e[1] = i} IN
     \/ line' = [line EXCEPT !.files = @ \cup files, !.held = @ \cup ends, !.at = @ + 1,
                             !.pc = IF i = Stages THEN "modes" ELSE "open"]
     \/ /\ files # {}
        /\ line' = [line EXCEPT !.result = 1, !.pc = "close",
                                !.files = @ \cup (IF Cardinality(files) = 2 THEN {<<i, "in">>} ELSE {})]
     \/ ends # {} /\ line' = [line EXCEPT !.files = @ \cup files, !.pc = "close"]
Modes ==
  /\ LineAt("modes") /\ LineTo("ignore") /\ UNCHANGED <<plan, stage, pipe>>
  /\ \E terminal \in BOOLEAN : tty' = IF terminal THEN [tty EXCEPT !.term = "cooked"] ELSE tty
Ignore == /\ LineAt("ignore") /\ line' = [line EXCEPT !.pc = "fork", !.at = 1]
          /\ tty' = [tty EXCEPT !.signals = "ignored"] /\ UNCHANGED <<plan, stage, pipe>>
\* pipe and fork: a child starts with everything its parent holds.
ForkStage ==
  /\ LineAt("fork") /\ UNCHANGED <<plan, pipe, tty>>
  /\ \/ /\ stage' = [stage EXCEPT ![line.at] =
                       [state |-> "forked", ends |-> line.held, left |-> plan[line.at].what.makes, status |-> 0]]
        /\ LineTo("report")
     \/ LineTo("close") /\ UNCHANGED stage
\* The report pipe: closed by the program it became, or holding the reason it could not.
Report ==
  /\ LineAt("report") /\ stage[line.at].state # "forked" /\ UNCHANGED <<plan, stage, pipe, tty>>
  /\ LET i == line.at IN
     IF stage[i].state = "refused"
     THEN line' = [line EXCEPT !.pc = "close", !.result = stage[i].status]
     ELSE line' = [line EXCEPT !.at = IF i = Stages THEN 1 ELSE i + 1,
                               !.pc = IF i = Stages THEN "close" ELSE "fork",
                               !.failed = i < Stages]
\* Mutant: the parent waits with its ends of the pipes open.
CloseFilesOnly == /\ LineAt("close") /\ line' = [line EXCEPT !.files = {}, !.at = 1,
                                                              !.pc = IF line.failed THEN "kill" ELSE "wait"]
                  /\ UNCHANGED <<plan, stage, pipe, tty>>
CloseAll == /\ LineAt("close") /\ line' = [line EXCEPT !.held = {}, !.files = {}, !.at = 1,
                                                        !.pc = IF line.failed THEN "kill" ELSE "wait"]
            /\ UNCHANGED <<plan, stage, pipe, tty>>
Kill ==
  /\ LineAt("kill") /\ LineTo("wait") /\ UNCHANGED <<plan, pipe, tty>>
  /\ stage' = [i \in All |-> IF Alive(i) THEN [stage[i] EXCEPT !.state = "gone", !.status = 137] ELSE stage[i]]
\* Mutant: the stages of a failed launch are killed and forgotten.
StartedWhole == {i \in All : stage[i].state # "none" /\ ~line.failed}
Started == {i \in All : stage[i].state # "none"}
Wait ==
  /\ LineAt("wait") /\ UNCHANGED <<plan, pipe, tty>>
  /\ IF line.at \in Started
     THEN /\ ~Alive(line.at)
          /\ stage' = [stage EXCEPT ![line.at].state = "reaped"]
          /\ line' = [line EXCEPT !.at = @ + 1,
                        !.result = IF ~line.failed /\ line.at = Stages THEN stage[line.at].status ELSE @]
     ELSE LineTo("restore") /\ UNCHANGED stage
RestoreTerm == LineAt("restore") /\ LineTo("release") /\ tty' = [tty EXCEPT !.term = "host"]
               /\ UNCHANGED <<plan, stage, pipe>>
Release == LineAt("release") /\ LineTo("done") /\ tty' = [tty EXCEPT !.signals = "host"]
           /\ UNCHANGED <<plan, stage, pipe>>
Shell == Open \/ Modes \/ Ignore \/ ForkStage \/ Report \/ CloseAll \/ Kill \/ Wait \/ RestoreTerm \/ Release

----------------------------------------------------------------------------
\* The children.
\* dup2, the closing of everything else, and execvp.
\* Mutant: the stage runs with every pipe of the line open.
BecomeOpen(i) ==
  /\ stage[i].state = "forked" /\ UNCHANGED <<plan, line, pipe, tty>>
  /\ stage' = [stage EXCEPT ![i] =
       IF plan[i].what.missing THEN [@ EXCEPT !.state = "refused", !.status = 127]
       ELSE [@ EXCEPT !.state = "running"]]
Become(i) ==
  /\ stage[i].state = "forked" /\ UNCHANGED <<plan, line, pipe, tty>>
  /\ stage' = [stage EXCEPT ![i] =
       IF plan[i].what.missing THEN [@ EXCEPT !.state = "refused", !.status = 127]
       ELSE [@ EXCEPT !.state = "running", !.ends = Own(i)]]
Runs(i) == stage[i].state = "running"
\* A program that reads copies each byte to its output, until there are no more.
Copies(i) ==
  /\ Runs(i) /\ plan[i].what.reads /\ stage[i].left = 0 /\ i > 1 /\ ~plan[i].input
  /\ pipe[i - 1] > 0 /\ UNCHANGED <<plan, line, tty>>
  /\ pipe' = [pipe EXCEPT ![i - 1] = @ - 1]
  /\ stage' = [stage EXCEPT ![i].left = 1]
\* A write into a pipe waits for room, and kills the writer when nobody can read.
WritesPipe(i) ==
  /\ Runs(i) /\ stage[i].left > 0 /\ i < Stages /\ ~plan[i].output /\ UNCHANGED <<plan, line, tty>>
  /\ IF Holds(<<i, "read">>)
     THEN /\ pipe[i] < PipeRoom /\ pipe' = [pipe EXCEPT ![i] = @ + 1]
          /\ stage' = [stage EXCEPT ![i].left = @ - 1]
     ELSE /\ stage' = [stage EXCEPT ![i].state = "gone", ![i].status = 141] /\ UNCHANGED pipe
WritesOut(i) ==
  /\ Runs(i) /\ stage[i].left > 0 /\ (i = Stages \/ plan[i].output) /\ UNCHANGED <<plan, line, pipe, tty>>
  /\ stage' = [stage EXCEPT ![i].left = 0]
Ends(i) ==
  /\ Runs(i) /\ stage[i].left = 0 /\ UNCHANGED <<plan, line, pipe, tty>>
  /\ (plan[i].what.reads /\ i > 1 /\ ~plan[i].input) => pipe[i - 1] = 0 /\ ~Holds(<<i - 1, "write">>)
  /\ stage' = [stage EXCEPT ![i].state = "gone", ![i].status = IF i = Stages THEN 3 ELSE 0]
\* A key that interrupts ends the programs.
Interrupt ==
  /\ tty.term = "cooked" /\ (\E i \in All : Runs(i)) /\ UNCHANGED <<plan, line, pipe, tty>>
  /\ stage' = [i \in All |-> IF Runs(i) THEN [stage[i] EXCEPT !.state = "gone", !.status = 130] ELSE stage[i]]
Child == \E i \in All : Become(i) \/ Copies(i) \/ WritesPipe(i) \/ WritesOut(i) \/ Ends(i)

LineDone == LineAt("done") /\ UNCHANGED pipeVars
PipelineNext == Shell \/ Child \/ Interrupt \/ LineDone
PipelineSpec == PipelineInit /\ [][PipelineNext]_pipeVars /\ WF_pipeVars(Shell) /\ WF_pipeVars(Child)

----------------------------------------------------------------------------
PipelineTypeOK ==
  /\ line \in [pc : {"open", "modes", "ignore", "fork", "report", "close", "kill", "wait", "restore", "release", "done"},
               at : 1..(Stages + 1), failed : BOOLEAN, result : {1, 126, 127, 3, 130, 137, 141},
               held : SUBSET PipeEnds, files : SUBSET (All \X {"in", "out"})]
  /\ stage \in [All -> [state : {"none", "forked", "running", "refused", "gone", "reaped"}, ends : SUBSET PipeEnds,
                        left : Nat, status : {0, 3, 127, 130, 137, 141}]]
  /\ pipe \in [Joints -> 0..PipeRoom]
  /\ tty \in [term : {"host", "cooked"}, signals : {"host", "ignored"}]

\* A key that interrupts the stages does not end the host.
StagesAreInterrupted == (tty.term = "cooked" /\ line.pc # "ignore") => tty.signals = "ignored"
\* A returned pipeline leaves no stage unreaped, no pipe or file open and the
\* terminal as it was, also after a launch that failed half way; and its result
\* is the last stage's exactly when every stage was launched.
PipelineRestores ==
  LineAt("done") =>
    /\ line.held = {} /\ line.files = {} /\ tty = [term |-> "host", signals |-> "host"]
    /\ \A i \in All : stage[i].state \in {"none", "reaped"}
    /\ line.failed = ~(\A i \in All : stage[i].state = "reaped" /\ ~plan[i].what.missing)
    /\ line.result = IF ~line.failed THEN stage[Stages].status
                     ELSE IF \E i \in Started : plan[i].what.missing THEN 127 ELSE line.result
=============================================================================
