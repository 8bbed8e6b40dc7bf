---------------------------- MODULE HostLanguage ----------------------------
(* The command language of the local host: the parser of                     *)
(* portable_command_line.h and host_line_run, host_state_command and the     *)
(* executor they call back, on the words of a line.  A word is a command's   *)
(* name, an argument or a path; of the variables there is one, X, and `use'  *)
(* stands for a word that expands it.                                        *)
EXTENDS Naturals, Sequences, FiniteSets, SequencesExt

CONSTANTS
  Entries,     \* the lines that are entered: sequences of words and operators
  Scripts,     \* of each name, the lines of the file
  Commands,    \* PS_SHELL_COMMANDS
  Depth,       \* how deeply files may read files
  Streams,     \* the registered commands that may be redirected: host_stream_command
  Others       \* those that may not

VARIABLES
  calls,    \* the stack of what is executing: lines and files, see NewLine and NewFile
  entry,    \* the line that was entered
  x,        \* the variable: "old", "new" or "long", which fits no plan
  outcome,    \* [status, exited, final (the status it left with)]
  log       \* what ran: [argvs (as written), sees (the X its words were expanded with)]
langVars == <<calls, entry, x, outcome, log>>

Joins == {";", "&&", "||", "|"}
Signs == Joins \cup {"&", ">", "<", "#", "quote"}
IsWord(t) == t \notin Signs

----------------------------------------------------------------------------
\* ps_shell_parse.
NoCommand == [argv |-> <<>>, input |-> "", output |-> "", next |-> "end"]
NewParse == [done |-> <<>>, open |-> FALSE, cur |-> NoCommand, want |-> "", stop |-> FALSE, bad |-> FALSE]
Bad(p) == [p EXCEPT !.bad = TRUE]
Begun(p) == IF p.open THEN p ELSE [p EXCEPT !.open = TRUE, !.bad = Len(p.done) >= Commands]
Closed(p, sign) == IF p.cur.argv = <<>> THEN Bad(p)
                   ELSE [p EXCEPT !.done = Append(@, [p.cur EXCEPT !.next = sign]), !.cur = NoCommand, !.open = FALSE]
ParseWord(q, t) ==
  LET p == Begun(q) IN
  CASE q.bad \/ q.stop -> q
    [] q.want # "" -> IF ~IsWord(t) /\ t # "#" THEN Bad(q)
                      ELSE IF q.want = "<" THEN [q EXCEPT !.want = "", !.bad = q.cur.input # "", !.cur.input = t]
                      ELSE [q EXCEPT !.want = "", !.bad = q.cur.output # "", !.cur.output = t]
    [] q.want = "" /\ t = "#" -> [q EXCEPT !.stop = TRUE]
    [] q.want = "" /\ t \in {"&", "quote"} -> Bad(p)
    [] q.want = "" /\ t \in {">", "<"} -> [p EXCEPT !.want = t]
    [] q.want = "" /\ t \in Joins -> IF p.bad THEN p ELSE Closed(p, t)
    [] OTHER -> [p EXCEPT !.cur.argv = Append(@, t)]
ParsedWords(line) ==
  LET words[k \in 0..Len(line)] == IF k = 0 THEN NewParse ELSE ParseWord(words[k - 1], line[k]) IN words[Len(line)]
\* Mutant: a line may end with && or ||.
ParsedOpen(line) ==
  LET p == ParsedWords(line) IN
  IF p.bad \/ p.want # "" THEN Bad(p)
  ELSE IF p.open THEN Closed(p, "end")
  ELSE IF p.done # <<>> /\ Last(p.done).next = "|" THEN Bad(p) ELSE p
Parsed(line) ==
  LET p == ParsedWords(line) IN
  IF p.bad \/ p.want # "" THEN Bad(p)
  ELSE IF p.open THEN Closed(p, "end")
  ELSE IF p.done # <<>> /\ Last(p.done).next # ";" THEN Bad(p) ELSE p
\* The second parse, with the lookup: values are copied into the same storage.
Expands(line) == x # "long" \/ "use" \notin Range(line)

----------------------------------------------------------------------------
NewLine(line) == [kind |-> "line", line |-> line, plan |-> Parsed(line), at |-> 1, when |-> ";", result |-> outcome.status, given |-> x]
NewFile(name) == [kind |-> "file", line |-> Scripts[name], plan |-> NewParse, at |-> 1, when |-> ";", result |-> 0, given |-> x]
LangInit ==
  /\ entry \in Entries
  /\ x = "old" /\ outcome = [status |-> 0, exited |-> FALSE, final |-> 0] /\ log = <<>>
  /\ calls = <<NewLine(entry)>>
LangIdle == entry = <<>> /\ x = "old" /\ outcome = [status |-> 0, exited |-> FALSE, final |-> 0]
            /\ log = <<>> /\ calls = <<>>

Top == Last(calls)
Below == Front(calls)
Plan == Top.plan.done
\* The group at the line's place: the commands that pipes join.
GroupEnd == CHOOSE e \in Top.at..Len(Plan) :
              Plan[e].next # "|" /\ \A k \in Top.at..(e - 1) : Plan[k].next = "|"
Wanted == Top.when = ";" \/ (Top.when = "&&" /\ Top.result = 0) \/ (Top.when = "||" /\ Top.result # 0)
Registered == Streams \cup Others
Argvs(group) == [k \in 1..Len(group) |-> group[k].argv]
\* What is launched: `run' names a program whatever else has its name.
Program(c) == IF c.argv[1] = "run" THEN c.argv[2] ELSE c.argv[1]
Native(c) == c.argv[1] = "run" \/ c.argv[1] \notin Registered
Fate(name) == CASE name = "f" -> 1 [] name = "none" -> 127 [] OTHER -> 0
Unopened(c) == "no" \in {c.input, c.output}
\* A stage the language turns away, and the whole line with it.
Rejects(c, piped) ==
  \/ c.argv[1] = "run" /\ Len(c.argv) = 1
  \/ c.argv[1] \in Others /\ (piped \/ c.input # "" \/ c.output # "")
Piped(group) == Len(group) > 1
\* The result of a group of programs and of commands that only write.
GroupFate(group) ==
  IF \E k \in 1..Len(group) : Unopened(group[k]) THEN 1
  ELSE IF \E k \in 1..Len(group) : Fate(Program(group[k])) = 127 THEN 127
  ELSE Fate(Program(Last(group)))

\* A group, or a file it read, is over, and the line goes on.
Onward(stack, result) ==
  LET top == Last(stack) IN Append(Front(stack), [top EXCEPT !.at = GroupEnd + 1, !.when = Plan[GroupEnd].next, !.result = result])
Ran(result) == outcome' = [outcome EXCEPT !.status = result] /\ calls' = Onward(calls, result)
\* A line is over: its result goes to the file it is in.
Returns(result) ==
  /\ outcome' = [outcome EXCEPT !.status = result] /\ UNCHANGED <<entry, x, log>>
  /\ calls' = IF Below = <<>> THEN <<>> ELSE Append(Front(Below), [Last(Below) EXCEPT !.at = @ + 1, !.result = result])
AtLine == calls # <<>> /\ Top.kind = "line"
BadLine == AtLine /\ Top.plan.bad /\ Returns(2)
LineOver == AtLine /\ ~Top.plan.bad /\ (Top.at > Len(Plan) \/ outcome.exited) /\ Returns(Top.result)
\* Mutant: the rest of the line is run after an exit too.
AtGroupOpen == AtLine /\ ~Top.plan.bad /\ Top.at <= Len(Plan)
AtGroup == AtLine /\ ~Top.plan.bad /\ Top.at <= Len(Plan) /\ ~outcome.exited
TooLong == AtGroup /\ ~Expands(Top.line) /\ Returns(2)
\* Mutant: a group that is not run counts as one that failed.
SkipAsFailed == /\ AtGroup /\ Expands(Top.line) /\ ~Wanted
                /\ calls' = Onward(calls, 1) /\ UNCHANGED <<entry, x, outcome, log>>
Skip == /\ AtGroup /\ Expands(Top.line) /\ ~Wanted
        /\ calls' = Onward(calls, Top.result) /\ UNCHANGED <<entry, x, outcome, log>>
Group == SubSeq(Plan, Top.at, GroupEnd)
AtRun == AtGroup /\ Expands(Top.line) /\ Wanted
Rejected == \E k \in 1..Len(Group) : Rejects(Group[k], Piped(Group))
Abandon == AtRun /\ Rejected /\ Returns(2)
\* Mutant: the words of a line are expanded once.
LoggedOnce == log' = Append(log, [argvs |-> Argvs(Group), sees |-> Top.given])
Logged == log' = Append(log, [argvs |-> Argvs(Group), sees |-> x])
Simple == AtRun /\ ~Rejected /\ (Piped(Group) \/ Native(Group[1]) \/ Group[1].argv[1] \in Streams)
Launch == Simple /\ Logged /\ Ran(GroupFate(Group)) /\ UNCHANGED <<entry, x>>

----------------------------------------------------------------------------
\* host_state_command.
At(name) == AtRun /\ ~Rejected /\ ~Piped(Group) /\ Group[1].argv[1] = name /\ Logged /\ UNCHANGED entry
Argv == Group[1].argv
Setenv == At("setenv") /\ IF Len(Argv) = 2 THEN x' = Argv[2] /\ Ran(0) ELSE UNCHANGED x /\ Ran(2)
Exit ==
  /\ At("exit") /\ UNCHANGED x
  /\ IF Len(Argv) > 2 \/ (Len(Argv) = 2 /\ Argv[2] # "3") THEN Ran(2)
     ELSE LET status == IF Len(Argv) = 2 THEN 3 ELSE outcome.status IN
          /\ calls' = Onward(calls, status)
          /\ outcome' = [status |-> status, exited |-> TRUE, final |-> status]
Files == Cardinality({k \in 1..Len(calls) : calls[k].kind = "file"})
\* Mutant: files may read files without end.
SourceDeep ==
  /\ At("source") /\ UNCHANGED x
  /\ IF Len(Argv) # 2 THEN Ran(2)
     ELSE IF Argv[2] \notin DOMAIN Scripts THEN Ran(1)
     ELSE calls' = Append(calls, NewFile(Argv[2])) /\ UNCHANGED outcome
Source ==
  /\ At("source") /\ UNCHANGED x
  /\ IF Len(Argv) # 2 \/ Files >= Depth THEN Ran(2)
     ELSE IF Argv[2] \notin DOMAIN Scripts THEN Ran(1)
     ELSE calls' = Append(calls, NewFile(Argv[2])) /\ UNCHANGED outcome
\* The loop of source, a line at a time; one that is too long ends it.
AtFile == calls # <<>> /\ Top.kind = "file" /\ UNCHANGED <<entry, x, log>>
\* Mutant: the rest of the file is waited out.
ReadAtEnd == outcome.exited \/ Top.at > Len(Top.line)
ReadOut == IF Top.at > Len(Top.line) THEN TRUE ELSE outcome.exited \/ Top.line[Top.at] = <<"too long">>
ReadLine ==
  /\ AtFile /\ ~outcome.exited /\ Top.at <= Len(Top.line) /\ Top.line[Top.at] # <<"too long">> /\ UNCHANGED outcome
  /\ calls' = IF Top.line[Top.at] = <<>> THEN Append(Below, [Top EXCEPT !.at = @ + 1])
              ELSE Append(calls, NewLine(Top.line[Top.at]))
FileOver ==
  /\ AtFile /\ ReadOut
  /\ LET status == IF ~outcome.exited /\ Top.at <= Len(Top.line) THEN 2 ELSE Top.result
         caller == Last(Below)
         plan == caller.plan.done
         end == CHOOSE e \in caller.at..Len(plan) : plan[e].next # "|" /\ \A k \in caller.at..(e - 1) : plan[k].next = "|" IN
     /\ outcome' = [outcome EXCEPT !.status = status]
     /\ calls' = Append(Front(Below), [caller EXCEPT !.at = end + 1, !.when = plan[end].next, !.result = status])

LangDone == calls = <<>> /\ UNCHANGED langVars
Interprets == \/ BadLine \/ LineOver \/ TooLong \/ Skip \/ Abandon \/ Launch \/ Setenv \/ Exit \/ Source
              \/ ReadLine \/ FileOver
LangNext == Interprets \/ LangDone
LangSpec == LangInit /\ [][LangNext]_langVars /\ WF_langVars(Interprets)

----------------------------------------------------------------------------
LangTypeOK ==
  /\ \A k \in 1..Len(calls) : calls[k].kind = (IF k % 2 = 1 THEN "line" ELSE "file")
  /\ Files <= Depth /\ x \in {"old", "new", "long"} /\ outcome.status \in {0, 1, 2, 3, 127}

\* What a line must look like, said without reading it from left to right: the
\* operators split it into commands, of which only the last may be missing, after ;.
Redirect(l, k) == k > 1 /\ l[k - 1] \in {">", "<"}
Text(line) == LET c == {k \in 1..Len(line) : line[k] = "#" /\ ~Redirect(line, k)} IN
              IF c = {} THEN line ELSE SubSeq(line, 1, (CHOOSE k \in c : \A e \in c : k <= e) - 1)
WellFormed(line) ==
  LET l == Text(line)
      joints == {0, Len(l) + 1} \cup {k \in 1..Len(l) : l[k] \in Joins}
      parts == {p \in joints \X joints : p[1] < p[2] /\ \A j \in joints : j <= p[1] \/ j >= p[2]}
      inside(p) == (p[1] + 1)..(p[2] - 1) IN
  /\ \A k \in 1..Len(l) : /\ l[k] \notin {"&", "quote"}
                          /\ l[k] \in {">", "<"} => k < Len(l) /\ (IsWord(l[k + 1]) \/ l[k + 1] = "#")
  /\ \A p \in parts :
       \/ /\ \E k \in inside(p) : IsWord(l[k]) /\ ~Redirect(l, k)
          /\ \A sign \in {">", "<"} : Cardinality({k \in inside(p) : l[k] = sign}) <= 1
       \/ inside(p) = {} /\ p[2] = Len(l) + 1 /\ (p[1] > 0 => l[p[1]] = ";")
  /\ Cardinality({p \in parts : inside(p) # {}}) <= Commands

Plainly(line) == WellFormed(line) /\ Range(line) \cap (Others \cup {"run"}) = {}

\* A line with an error anywhere in it runs nothing at all, and fails; one
\* without is run.
ErrorsRunNothing ==
  /\ log # <<>> => WellFormed(entry)
  /\ calls = <<>> /\ ~WellFormed(entry) => outcome.status = 2
  /\ calls = <<>> /\ Plainly(entry) /\ Text(entry) # <<>> => log # <<>>

\* A line of programs has the value of its operators taken from left to right.
Value(line) ==
  LET plan == Parsed(line).done
      starts == SetToSortSeq({k \in 1..Len(plan) : k = 1 \/ plan[k - 1].next # "|"}, <)
      end(i) == IF i = Len(starts) THEN Len(plan) ELSE starts[i + 1] - 1
      value[i \in 0..Len(starts)] ==
        IF i = 0 THEN 0
        ELSE LET own == GroupFate(SubSeq(plan, starts[i], end(i)))
                 join == IF i = 1 THEN ";" ELSE plan[starts[i] - 1].next IN
             CASE join = ";" -> own
               [] join = "&&" -> IF value[i - 1] = 0 THEN own ELSE value[i - 1]
               [] join = "||" -> IF value[i - 1] = 0 THEN 0 ELSE own
  IN value[Len(starts)]
LeftToRight == (calls = <<>> /\ Plainly(entry)) => outcome.status = Value(entry)
\* The words of a group are expanded with what the last setenv before it, in its
\* own line or in another, has set: one that was refused, or not run, sets nothing.
Sets(argvs) == Len(argvs) = 1 /\ Len(argvs[1]) = 2 /\ argvs[1][1] = "setenv"
SetBefore(k) == LET setters == {j \in 1..(k - 1) : Sets(log[j].argvs)} IN
                IF setters = {} THEN "old" ELSE log[Max(setters)].argvs[1][2]
SeesWhatWasSet == \A k \in 1..Len(log) : log[k].sees = SetBefore(k)
\* Nothing runs once the session was asked to leave, in any line or file that is
\* still open, and the status is the one it left with.
ExitIsFinal == [][outcome.exited => log' = log /\ x' = x /\ outcome' = outcome]_langVars
=============================================================================
