-------------------------------- MODULE Prompt --------------------------------
(***************************************************************************)
(* The prompt's line of src/portable_shell.c and everything that replaces  *)
(* it: history browsing, incremental search, the history dialog, cycling   *)
(* through completions, the suggestion after the line, pastes.  Each keeps *)
(* a copy or a position of its own that may be stale when it is used.      *)
(*                                                                         *)
(* The history is the sequence of Recall.  What a line says is left out:   *)
(* where its last token begins, whether an entry matches a search and      *)
(* whether a line is a !n reference are choices.                           *)
(***************************************************************************)
EXTENDS Integers, Sequences, SequencesExt

CONSTANTS Char,        \* characters
          Capacity,    \* PS_LINE: bytes of a line, with its terminator
          Most,        \* PS_HISTORY
          Remembered,  \* lines the history admits
          Commands     \* what completion offers, as sequences of encoded candidates

Lines == UNION {[1 .. n -> Char] : n \in 0 .. Capacity - 1}

VARIABLES
  line, pos, overflow,       \* s->line, s->pos, s->overflow
  hist, nav, saved,          \* the history, s->history_nav, s->saved
  mode, at,                  \* what takes the keys, and search_index or history_selected
  cycle,                     \* completion, matches, match_index, start, end
  suggestion, pasting,       \* s->suggestion, s->paste
  \* history: what the user saw
  draft, depth,              \* the line Up was first pressed on, and how far up from it;
                             \* Lost when the buffer of the draft has been used otherwise
  held, tabbed               \* the line the search came over, the line the last Tab of a
                             \* cycle left

edit == <<line, pos, overflow>>
past == <<hist, nav, saved>>
tab  == <<cycle, tabbed>>
user == <<draft, depth, held>>
vars == <<edit, past, mode, at, tab, suggestion, pasting, user>>

NoCycle == [on |-> FALSE, selected |-> FALSE, matches |-> <<>>, index |-> 0, start |-> 0, end |-> 0]

Lost == -1

Recall == INSTANCE Recall WITH Line <- Remembered, recall <- hist, limit <- Most

\* ps_history_get counts from 0 and answers "" beyond the end.
Entry(k) == IF k \in 0 .. Len(hist) - 1 THEN hist[k + 1] ELSE <<>>

-----------------------------------------------------------------------------
Candidates == UNION {Range(m) : m \in Commands}

\* What suggest may put after line l when the prompt is drawn: the newest entry that
\* continues it, else a completion of its last token; nothing when there is no room.
\* (Mutation: an entry that equals it will do.)
ContinuedWeakly(l) == {k \in DOMAIN hist' : IsPrefix(l, hist'[k])}
Continued(l) == {k \in DOMAIN hist' : IsStrictPrefix(l, hist'[k])}
Completed(l) == {v \in {SubSeq(l, 1, i) \o w : i \in 0 .. Len(l) - 1, w \in Candidates} :
                  v \in Lines /\ IsStrictPrefix(l, v)}
Suggestions(l) == IF Continued(l) # {} THEN {hist'[Max(Continued(l))]} ELSE Completed(l)
Drawn ==
  \/ suggestion' = <<>>
  \/ /\ line' # <<>> /\ pos' = Len(line') /\ ~overflow'
     /\ mode' # "search" /\ ~cycle'.on
     /\ suggestion' \in Suggestions(line')

Show(l) == line' = l /\ pos' = Len(l)
AtPrompt == mode = "prompt" /\ ~pasting

\* A key of the prompt other than Tab: it ends the cycle and redraws.
Plain == AtPrompt /\ cycle' = NoCycle /\ tabbed' = <<>> /\ UNCHANGED pasting /\ Drawn

Init == /\ line = <<>> /\ pos = 0 /\ overflow = FALSE
        /\ hist = <<>> /\ nav = 0 /\ saved = <<>>
        /\ mode = "prompt" /\ at = 0 /\ cycle = NoCycle
        /\ suggestion = <<>> /\ pasting = FALSE
        /\ draft = <<>> /\ depth = 0 /\ held = <<>> /\ tabbed = <<>>

\* A printable key, or a pasted character.
Insert(c) ==
  IF Len(line) + 1 >= Capacity THEN overflow' = TRUE /\ UNCHANGED <<line, pos>>
  ELSE /\ line' = InsertAt(line, pos + 1, c) /\ pos' = pos + 1
       /\ UNCHANGED overflow
Type(c) == Insert(c) /\ UNCHANGED <<past, mode, at, user>> /\ Plain

\* Deletions, cursor movements and yanks; a suggestion accepted with Right or End.
Change ==
  /\ \/ \E i \in 0 .. pos, j \in pos .. Len(line) :
          line' = SubSeq(line, 1, i) \o SubSeq(line, j + 1, Len(line)) /\ pos' = i
     \/ line' = line /\ pos' \in 0 .. Len(line)
     \/ \E k \in Lines : /\ Len(line) + Len(k) < Capacity
                        /\ line' = SubSeq(line, 1, pos) \o k \o SubSeq(line, pos + 1, Len(line))
                        /\ pos' = pos + Len(k)
  /\ UNCHANGED overflow
  /\ UNCHANGED <<past, mode, at, user>> /\ Plain
Accept == /\ pos = Len(line) /\ suggestion # <<>>
          /\ Show(suggestion) /\ UNCHANGED overflow
          /\ UNCHANGED <<past, mode, at, user>> /\ Plain
KillLine == /\ Show(<<>>) /\ overflow' = FALSE
            /\ UNCHANGED <<past, mode, at, user>> /\ Plain

-----------------------------------------------------------------------------
\* Up and Down.  (Mutation: the draft is kept at every step.)
CanGoUp == nav < Len(hist)
KeepsLatest == saved' = line
Keeps == saved' = IF nav = 0 THEN line ELSE saved
Up == /\ IF CanGoUp
         THEN /\ nav' = nav + 1 /\ Show(Entry(Len(hist) - nav - 1))
         ELSE UNCHANGED <<nav, line, pos>>
      /\ Keeps
      /\ draft' = IF depth = 0 THEN line ELSE draft
      /\ depth' = IF depth # Lost /\ depth < Len(hist) THEN depth + 1 ELSE depth
      /\ UNCHANGED <<overflow, hist, mode, at, held>> /\ Plain
Down == /\ IF nav > 0
           THEN nav' = nav - 1 /\ Show(IF nav = 1 THEN saved ELSE Entry(Len(hist) - nav + 1))
           ELSE UNCHANGED <<nav, line, pos>>
        /\ depth' = IF depth > 0 THEN depth - 1 ELSE IF nav > 1 THEN depth ELSE 0
        /\ draft' = IF depth' > 0 THEN draft ELSE <<>>
        /\ UNCHANGED <<overflow, hist, saved, mode, at, held>> /\ Plain

\* Enter with line l in the buffer: an overlong line is refused; a command is remembered
\* and run, it may be what a !n stands for, and it may clear the history.
Fresh == Show(<<>>) /\ overflow' = FALSE
Executed(l) ==
  \/ /\ hist' = IF l \in Remembered THEN Recall!With(hist, Most, l) ELSE hist
     /\ UNCHANGED saved
  \/ hist' = <<>> /\ saved' = <<>>
EnterWith(l) ==
  /\ Fresh /\ nav' = 0 /\ depth' = 0 /\ draft' = <<>>
  /\ \/ (overflow \/ l = <<>>) /\ UNCHANGED <<hist, saved>>
     \/ ~overflow /\ l # <<>> /\ \E m \in {l} \cup Range(hist) : Executed(m)

\* A !n to no entry stays in the line.
Refused(l) == ~overflow /\ l # <<>> /\ UNCHANGED <<overflow, past, draft, depth>>
Enter == /\ \/ EnterWith(line)
            \/ Refused(line) /\ UNCHANGED <<line, pos>>
         /\ UNCHANGED <<mode, at, held>> /\ Plain

\* Ctrl-C empties the line but stays where a browse was, and Ctrl-R takes the buffer of
\* its draft: either way the draft can no longer be had back.
LoseDraft == /\ depth' = IF nav > 0 THEN Lost ELSE 0
             /\ draft' = <<>>

CtrlC == /\ Fresh /\ LoseDraft
         /\ UNCHANGED <<past, mode, at, held>> /\ Plain

-----------------------------------------------------------------------------
\* Ctrl-R and its keys.  A search walks back from the entry it shows, or from the newest
\* when its text changes, and shows an entry that matches, if there is one; the empty
\* text it begins with matches all.
Older(k) == \/ \E i \in 0 .. k - 1 : at' = i /\ Show(Entry(i))
            \/ at' = k /\ UNCHANGED <<line, pos>>
Newest == IF hist = <<>> THEN at' = 0 /\ UNCHANGED <<line, pos>>
          ELSE at' = Len(hist) - 1 /\ Show(Entry(Len(hist) - 1))
\* (Mutation: what is kept is the entry shown.)
SearchKeepsEntry == saved' = line'
SearchKeeps == saved' = line
Search == /\ mode' = "search" /\ held' = line
          /\ Newest /\ SearchKeeps /\ LoseDraft
          /\ UNCHANGED <<overflow, hist, nav>> /\ Plain
SearchKey == /\ mode = "search" /\ ~pasting
             /\ Older(at) \/ Older(Len(hist))
             /\ UNCHANGED <<overflow, past, mode, tab, pasting, user>>
             /\ Drawn
SearchAccept == /\ mode = "search" /\ ~pasting /\ mode' = "prompt" /\ at' = 0 /\ held' = <<>>
                /\ UNCHANGED <<edit, past, tab, pasting, draft, depth>>
                /\ Drawn
SearchCancel == /\ mode = "search" /\ ~pasting /\ mode' = "prompt" /\ at' = 0 /\ held' = <<>>
                /\ Show(saved)
                /\ UNCHANGED <<overflow, past, tab, pasting, draft, depth>>
                /\ Drawn

\* F7 and the keys of the dialog.  F7 comes before the keys that end the cycle.
Dialog == /\ AtPrompt /\ hist # <<>>
          /\ mode' = "dialog" /\ at' = Len(hist) - 1
          /\ UNCHANGED <<edit, past, tab, suggestion, pasting, user>>
DialogMove == /\ mode = "dialog" /\ ~pasting
              /\ at' \in {at - 1, at + 1, 0, Len(hist) - 1} \cap 0 .. Len(hist) - 1
              /\ UNCHANGED <<edit, past, mode, tab, suggestion, pasting, user>>
Leave == mode = "dialog" /\ ~pasting /\ mode' = "prompt" /\ at' = 0 /\ UNCHANGED held
DialogCancel == Leave /\ UNCHANGED <<edit, past, tab, pasting, draft, depth>> /\ Drawn
DialogLoad == /\ Leave /\ Show(Entry(at))
              /\ UNCHANGED <<overflow, past, tab, pasting, draft, depth>>
              /\ Drawn
DialogRun == /\ Leave
             /\ \/ EnterWith(Entry(at))
                \/ Refused(Entry(at)) /\ Show(Entry(at))
             /\ cycle' = NoCycle /\ tabbed' = <<>>
             /\ UNCHANGED pasting
             /\ Drawn

-----------------------------------------------------------------------------
\* complete_replace: the value in place of start .. end, if the result fits (a negative
\* length is a huge unsigned one).  A position beyond the line makes it move bytes that
\* are not the line's.
Fits(value, start, end) == start + Len(value) + Len(line) - end + 2 \in 0 .. Capacity - 1
Replace(value, start, end, tail) ==
  IF end > Len(line) THEN line' \in Lines /\ pos' \in 0 .. Len(line')
  ELSE /\ line' = SubSeq(line, 1, start) \o value \o tail \o SubSeq(line, end + 1, Len(line))
       /\ pos' = start + Len(value) + Len(tail)

\* The first Tab completes the token at the cursor as far as the candidates agree, and
\* begins a cycle when there are several.  A single candidate is followed by a blank.
Common(m) == CHOOSE l \in Lines : /\ \A k \in 1 .. Len(m) : IsPrefix(l, m[k])
                                 /\ \A n \in Lines : (\A k \in 1 .. Len(m) : IsPrefix(n, m[k]))
                                                      => Len(n) <= Len(l)
Tab(m, start, end) ==
  /\ AtPrompt /\ ~cycle.on /\ start <= pos /\ pos <= end /\ end <= Len(line)
  /\ LET tail == IF Len(m) = 1 /\ end = Len(line) THEN {<<c>> : c \in Char} ELSE {<<>>}
         fits == Fits(Common(m), start, end)
     IN /\ IF fits THEN \E t \in tail : Replace(Common(m), start, end, t)
                   ELSE UNCHANGED <<line, pos>>
        /\ cycle' = IF Len(m) = 1 THEN NoCycle
                    ELSE [on |-> TRUE, selected |-> FALSE, matches |-> m, index |-> 0,
                          start |-> start, end |-> IF fits THEN start + Len(Common(m)) ELSE end]
  /\ tabbed' = IF cycle'.on THEN line' ELSE <<>>
  /\ UNCHANGED <<overflow, past, mode, at, pasting, user>>
  /\ Drawn

\* A Tab during the cycle puts the next candidate in place of the last, Shift-Tab the
\* one before.
Chosen(c) == LET n == Len(c.matches) IN
  IF c.selected THEN {(c.index + 1) % n, (c.index + n - 1) % n} ELSE {0, n - 1}
Cycle ==
  /\ AtPrompt /\ cycle.on
  /\ \E k \in Chosen(cycle) :
     LET value == cycle.matches[k + 1]
     IN IF Fits(value, cycle.start, cycle.end)
        THEN /\ Replace(value, cycle.start, cycle.end, <<>>)
             /\ cycle' = [cycle EXCEPT !.index = k, !.selected = TRUE,
                                       !.end = cycle.start + Len(value)]
        ELSE UNCHANGED <<line, pos, cycle>>
  /\ tabbed' = IF cycle'.on THEN line' ELSE <<>>
  /\ UNCHANGED <<overflow, past, mode, at, pasting, user>>
  /\ Drawn

\* A bracketed paste reaches the line whatever takes the keys; the prompt is drawn at
\* its end.
PasteBegin == ~pasting /\ pasting' = TRUE
              /\ UNCHANGED <<edit, past, mode, at, tab, suggestion, user>>
PasteChar(c) == pasting /\ Insert(c)
                /\ UNCHANGED <<past, mode, at, tab, suggestion, pasting, user>>
PasteEnd == pasting /\ pasting' = FALSE
            /\ UNCHANGED <<edit, past, mode, at, tab, user>> /\ Drawn

Next == \/ \E c \in Char : Type(c) \/ PasteChar(c)
        \/ Change \/ Accept \/ KillLine \/ Up \/ Down \/ Enter \/ CtrlC
        \/ Search \/ SearchKey \/ SearchAccept \/ SearchCancel
        \/ Dialog \/ DialogMove \/ DialogCancel \/ DialogLoad \/ DialogRun
        \/ \E m \in Commands, i, j \in 0 .. Len(line) : Tab(m, i, j)
        \/ Cycle \/ PasteBegin \/ PasteEnd

Spec == Init /\ [][Next]_vars
-----------------------------------------------------------------------------
TypeOK == /\ line \in Lines /\ pos \in 0 .. Len(line) /\ overflow \in BOOLEAN
          /\ hist \in Seq(Remembered) /\ Len(hist) <= Most
          /\ nav \in 0 .. Len(hist) /\ saved \in Lines
          /\ mode \in {"prompt", "search", "dialog"} /\ at \in 0 .. Most
          /\ mode = "dialog" => at < Len(hist)
          /\ suggestion \in Lines /\ pasting \in BOOLEAN
          /\ cycle.on => cycle.index < Len(cycle.matches) /\ cycle.start <= cycle.end

\* Escape in a search gives back the line the search began with, whatever entries it
\* showed and whatever the history browsing keeps in the same buffer.
SearchCancelRestores == SearchCancel => line' = held

\* Right and End accept what is visible: the suggestion always continues the line it is
\* drawn after.
SuggestionContinues == ~pasting => suggestion = <<>> \/ IsStrictPrefix(line, suggestion)

\* "History with draft restoration": coming back down shows the line Up was pressed on,
\* unless a search or Ctrl-C came over the browse.
DraftRestored == Down /\ depth = 1 => line' = draft

\* "Tab, repeated Tab": a cycle goes on only where the last Tab left off.
CycleFollowsTab == Cycle => line = tabbed
=============================================================================
