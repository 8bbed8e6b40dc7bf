----------------------------- MODULE EnvManager -----------------------------
(***************************************************************************)
(* The dotenv manager of host/env_manager.c over the document of            *)
(* EnvDocument and the files of host/env_file.c.  env_manager_feed gives    *)
(* the session one byte at a time and dispatches after each, so that a key  *)
(* and the dispatch it causes are one action; a save is four, because other *)
(* processes write the same file.  The panel, the form and the record       *)
(* editor are the session's; what the user is shown is m.surface.           *)
(*                                                                         *)
(* Abstractions: the window of PS_ENV_VIEW_ROWS rows, blank rows, masking   *)
(* and notices are left out; the inline editor of the panel is the value it *)
(* applies.                                                                 *)
(***************************************************************************)
EXTENDS EnvDocument

CONSTANTS Files,        \* texts other processes put in the file
          Drafts,       \* lines the user leaves in the record editor
          Keys,         \* keys the user types into a form
          Edits,        \* BOUND: changes of the document while it is open
          Saves         \* BOUND: saves in one sitting of the record editor

VARIABLES d,            \* the document
          m,            \* the manager: open, page, selected, surface, act, filter
          e,            \* the record editor: draft, dirty, asking, saves
          disk,         \* the file
          staging,      \* the sibling staging file: "absent", "ours", or "left" behind
          job,          \* how far a save is
          raced,        \* another process wrote since the file was compared last
          seen,         \* the lines the user was shown when a dialog opened, or left
                        \* there when a record was saved last
          said          \* the last action, of those the properties ask about
envVars == <<d, m, e, disk, staging, job, raced, seen, said>>

Closed == [open |-> FALSE, page |-> "values", selected |-> 0, surface |-> "none",
           act |-> "idle", filter |-> ""]
NoEditor == [draft |-> <<>>, dirty |-> FALSE, asking |-> FALSE, saves |-> 0]

-----------------------------------------------------------------------------
(* show(): the rows of the page that the filter leaves, and the selection.  *)

Shown(doc, w) == LET rs == Records(doc) IN
  {i \in DOMAIN rs : /\ rs[i].kind # "blank" /\ Find(doc, i, w.filter)
                     /\ w.page = "values" => rs[i].kind = "assignment"}
Show(doc, w) == LET rows == Shown(doc, w) IN
  [w EXCEPT !.surface = "panel",
            !.selected = IF @ \in rows \/ rows = {} THEN @ ELSE Min(rows)]
SelectedRecord == Records(d)[m.selected]

Say(what) == said' = what
Files_ == <<disk, staging, raced>>

\* The document and the manager move on, and the panel is shown again.
Shows(doc, w) == d' = doc /\ m' = Show(doc, w) /\ seen' = <<>> /\ UNCHANGED <<e, job, Files_>>
CloseManager == /\ m' = Closed /\ d' = Loaded(Text(<<>>, TRUE)) /\ seen' = <<>>
                /\ UNCHANGED <<e, job, Files_>>

\* form(): when the terminal is too small for it the panel comes back.
AskFor(w, action) ==
  \/ /\ m' = [w EXCEPT !.surface = "form", !.act = action]
     /\ seen' = IF w.selected \in DOMAIN Records(d) THEN SourceOf(d, Records(d)[w.selected]) ELSE <<>>
     /\ UNCHANGED <<d, e, job, Files_>>
  \/ Shows(d, [w EXCEPT !.act = "idle"])

-----------------------------------------------------------------------------
(* env_manager_dispatch, for an action and the manager w that asks for it.  *)

Save(w) == IF IsDirty(d)
           THEN /\ job' = "compare" /\ m' = [w EXCEPT !.surface = "none"]
                /\ seen' = <<>> /\ UNCHANGED <<d, e, Files_>>
           ELSE IF w.act = "close" THEN CloseManager ELSE Shows(d, [w EXCEPT !.act = "idle"])
Reload(w) ==
  IF w.act # "reload" THEN AskFor(w, "reload")
  ELSE LET r == Replace(d, 1, Len(Lines(d)), disk.lines)
           doc == MarkSaved([r.d EXCEPT !.text = disk]) IN
       \/ /\ d' = IF r.ok THEN doc ELSE d
          /\ m' = Show(d', [w EXCEPT !.act = "idle"])
          /\ raced' = (raced /\ ~r.ok)
          /\ seen' = <<>> /\ UNCHANGED <<e, job, disk, staging>>
       \/ Shows(d, [w EXCEPT !.act = "idle"])      \* the file cannot be read
EditRecord(w) ==
  \/ /\ e' = [NoEditor EXCEPT !.draft = SourceOf(d, SelectedRecord)]
     /\ m' = [w EXCEPT !.surface = "editor"] /\ seen' = SourceOf(d, SelectedRecord)
     /\ UNCHANGED <<d, job, Files_>>
  \/ Shows(d, w)                                   \* it exceeds a capacity

Dispatch(action, w) ==
  CASE action = "close" -> IF w.act = "close" \/ ~IsDirty(d) THEN CloseManager ELSE AskFor(w, "close")
    [] action = "save" -> Save(w)
    [] action = "reload" -> Reload(w)
    [] action = "record" -> EditRecord(w)
    [] action \in {"search", "add", "delete"} -> AskFor(w, action)
    [] action = "undo" -> Shows(Undo(d).d, w)
    [] action = "toggle" -> Shows(Toggle(d, w.selected).d, w)
    [] action \in {"up", "down"} ->
         LET r == MoveRecord(d, w.selected, action = "down") IN
         Shows(r.d, IF ~r.ok THEN w ELSE [w EXCEPT !.selected = IF action = "up" THEN @ - 1 ELSE @ + 1])

-----------------------------------------------------------------------------
(* The panel: its keys (shortcut), its rows and its inline editor.          *)

Ready == m.open /\ job = "idle"
Idle == [m EXCEPT !.act = "idle"]
OnPanel == Ready /\ m.surface = "panel"
Room == d.revision < Edits

Press(action) ==
  /\ OnPanel /\ Say("")
  /\ action \in {"undo", "toggle", "up", "down", "record", "add", "delete", "reload"} => Room
  /\ action \in {"delete", "record", "toggle", "up", "down"} => Shown(d, m) # {}
  /\ Dispatch(action, m)
SelectRow(i) == /\ OnPanel /\ Say("") /\ i \in Shown(d, m) /\ m' = [m EXCEPT !.selected = i]
                /\ UNCHANGED <<d, e, job, seen, Files_>>
SwitchPage == /\ OnPanel /\ Say("")
              /\ m' = Show(d, [m EXCEPT !.page = IF @ = "values" THEN "source" ELSE "values"])
              /\ UNCHANGED <<d, e, job, seen, Files_>>

\* write_control: the inline editor applies to a value the table can hold.
WriteControl(v) ==
  /\ OnPanel /\ Say("") /\ m.page = "values" /\ Room
  /\ m.selected \in Shown(d, m) /\ ~SelectedRecord.multi
  /\ Shows(SetValue(d, m.selected, v).d, m)

-----------------------------------------------------------------------------
(* The form: done() with what the user chose.                               *)

OnForm(action) == Ready /\ m.surface = "form" /\ m.act = action
Cancel == Ready /\ m.surface = "form" /\ Say("") /\ Shows(d, Idle)

\* Mutant: "Keep editing" leaves form_action at ENV_CLOSE.
AnswerCloseKept(choice) ==
  /\ OnForm("close") /\ Say(choice)
  /\ CASE choice = "Keep editing" -> Shows(d, m)
       [] choice = "Save" -> Dispatch("save", m)
       [] choice = "Discard" -> Dispatch("close", m)
AnswerClose(choice) ==
  /\ OnForm("close") /\ Say(choice)
  /\ CASE choice = "Keep editing" -> Shows(d, Idle)
       [] choice = "Save" -> Dispatch("save", m)
       [] choice = "Discard" -> Dispatch("close", m)
\* Mutant: of a record of several lines only the first is deleted.
AnswerDeleteLine == /\ OnForm("delete") /\ Say("deleted")
                    /\ Shows(Replace(d, SelectedRecord.first, SelectedRecord.first, <<>>).d, Idle)
AnswerDelete == /\ OnForm("delete") /\ Say("deleted")
                /\ Shows(Replace(d, SelectedRecord.first, SelectedRecord.last, <<>>).d, Idle)
AnswerReload == OnForm("reload") /\ Say("") /\ Dispatch("reload", m)
Search(q) == LET hits == {i \in DOMAIN Records(d) : Find(d, i, q)} IN
             /\ OnForm("search") /\ Say("")
             /\ Shows(d, [Idle EXCEPT !.filter = q, !.selected = IF hits = {} THEN @ ELSE Min(hits)])

\* validate() refuses a key that any entry has; the entry goes to the end.
Add(k, v) ==
  LET n == Len(Lines(d))
      a == Replace([d EXCEPT !.text.final = TRUE], n + 1, n, <<Line("plain", k, v)>>)
      doc == [a.d EXCEPT !.undo = d.text]
  IN /\ OnForm("add") /\ Say("") /\ v \in Values \ {Several}
     /\ \A i \in DOMAIN Records(d) : Records(d)[i].key # k
     /\ IF a.ok THEN Shows(doc, [Idle EXCEPT !.selected = Len(Records(doc))]) ELSE Shows(d, Idle)

-----------------------------------------------------------------------------
(* The record editor: portable_editor.inc with record_save as its callback. *)

OnEditor == Ready /\ m.surface = "editor"
\* Mutant: of a record of several lines only the first is replaced.
SavedLine == Replace(d, SelectedRecord.first, SelectedRecord.first, e.draft)
\* record_save: the draft goes where the selected record is now.
Saved == Replace(d, SelectedRecord.first, SelectedRecord.last, e.draft)
Returned == m' = Show(d', m) /\ seen' = <<>>

TypeRecord(t) == /\ OnEditor /\ ~e.asking /\ Say("")
                 /\ e' = [e EXCEPT !.draft = t, !.dirty = TRUE]
                 /\ UNCHANGED <<d, m, job, seen, Files_>>
\* document_save, by Ctrl+S or by S in the question; only the latter closes.
\* BOUND: the record is still there (a second save may find stale offsets).
SaveRecord == /\ OnEditor /\ Say("record") /\ Room /\ e.saves < Saves
              /\ m.selected \in DOMAIN Records(d)
              /\ LET r == Saved IN
                 /\ d' = r.d
                 /\ e' = IF ~r.ok THEN e ELSE IF e.asking THEN NoEditor
                         ELSE [e EXCEPT !.dirty = FALSE, !.saves = @ + 1]
                 /\ IF ~r.ok THEN UNCHANGED <<m, seen>>
                    ELSE IF e.asking THEN Returned ELSE seen' = e.draft /\ UNCHANGED m
              /\ UNCHANGED <<job, Files_>>
LeaveRecord == /\ OnEditor /\ ~e.asking /\ Say("") /\ UNCHANGED <<d, job, Files_>>
               /\ IF e.dirty THEN e' = [e EXCEPT !.asking = TRUE] /\ UNCHANGED <<m, seen>>
                  ELSE e' = NoEditor /\ Returned
AnswerRecord(discard) ==
  /\ OnEditor /\ e.asking /\ Say("") /\ UNCHANGED <<d, job, Files_>>
  /\ IF discard THEN e' = NoEditor /\ Returned
     ELSE e' = [e EXCEPT !.asking = FALSE] /\ UNCHANGED <<m, seen>>

-----------------------------------------------------------------------------
(* env_file_save, the other processes, and a crash.                         *)

Same == disk = d.saved
\* Mutants: a failed save leaves the panel closed, or counts as saved.
FailQuiet == /\ job' = "idle" /\ Say("failed") /\ m' = Idle
             /\ UNCHANGED <<d, e, disk, raced, seen>>
FailMarked == /\ job' = "idle" /\ Say("failed") /\ d' = MarkSaved(d) /\ m' = Show(d', Idle)
              /\ UNCHANGED <<e, disk, raced, seen>>
Fail == /\ job' = "idle" /\ Say("failed") /\ m' = Show(d, Idle)
        /\ UNCHANGED <<d, e, disk, raced, seen>>
Go(next) == job' = next /\ Say("") /\ UNCHANGED <<d, m, e, disk, seen>>

SaveCompare == /\ job = "compare" /\ UNCHANGED staging
               /\ IF Same THEN Go("stage") /\ UNCHANGED raced ELSE Fail
\* The staging file is created exclusively; writing or flushing it may fail, and
\* then it is removed, with or without anything in it.
SaveStage == /\ job = "stage"
             /\ \/ staging = "absent" /\ staging' = "ours" /\ Go("recheck") /\ UNCHANGED raced
                \/ UNCHANGED staging /\ Fail
\* Mutant: the file is not compared again after staging.
SaveUnchecked == job = "recheck" /\ Go("rename") /\ raced' = FALSE /\ UNCHANGED staging
SaveRecheck == /\ job = "recheck"
               /\ IF Same THEN Go("rename") /\ raced' = FALSE /\ UNCHANGED staging
                  ELSE staging' = "absent" /\ Fail
SaveRename ==
  /\ job = "rename" /\ staging' = "absent"
  /\ \/ Fail
     \/ /\ disk' = d.text /\ job' = "idle" /\ Say("saved") /\ raced' = FALSE
        /\ d' = MarkSaved(d)
        /\ m' = IF m.act = "close" THEN Closed ELSE Show(d', Idle)
        /\ UNCHANGED <<e, seen>>

External == /\ \E t \in Files : t # disk /\ disk' = t
            /\ raced' = m.open /\ Say("")
            /\ UNCHANGED <<d, m, e, staging, job, seen>>
RemoveStaging == /\ ~m.open /\ staging = "left" /\ staging' = "absent" /\ Say("")
                 /\ UNCHANGED <<d, m, e, disk, job, raced, seen>>
Crash == /\ m.open /\ m' = Closed /\ e' = NoEditor /\ d' = Loaded(Text(<<>>, TRUE))
         /\ job' = "idle" /\ seen' = <<>> /\ raced' = FALSE /\ Say("crash")
         /\ staging' = (IF staging = "ours" THEN "left" ELSE staging) /\ UNCHANGED disk
\* env FILE: the first assignment is selected.  BOUND: the file is one of Files.
OpenFile == LET w == [Closed EXCEPT !.open = TRUE]
                rows == {i \in DOMAIN Parse(disk.lines) : Parse(disk.lines)[i].kind = "assignment"} IN
  /\ ~m.open /\ disk \in Files /\ Say("") /\ d' = Loaded(disk) /\ raced' = FALSE
  /\ m' = Show(d', [w EXCEPT !.selected = IF rows = {} THEN Len(Records(d')) + 1 ELSE Min(rows)])
  /\ e' = NoEditor /\ seen' = <<>> /\ UNCHANGED <<disk, staging, job>>

Commands == {"close", "save", "reload", "record", "search", "add", "delete", "undo", "toggle", "up", "down"}
EnvInit == /\ disk \in Files /\ staging = "absent" /\ d = Loaded(Text(<<>>, TRUE)) /\ m = Closed
           /\ e = NoEditor /\ job = "idle" /\ raced = FALSE /\ seen = <<>> /\ said = ""
EnvNext ==
  \/ OpenFile
  \/ \E a \in Commands : Press(a)
  \/ \E i \in 1..MaxLines : SelectRow(i)
  \/ SwitchPage
  \/ \E v \in Values \union {Unquoted} : WriteControl(v)
  \/ \E c \in {"Keep editing", "Save", "Discard"} : AnswerClose(c)
  \/ AnswerDelete \/ AnswerReload \/ Cancel
  \/ \E q \in Keys \union {""} : Search(q)
  \/ \E k \in Keys, v \in Values : Add(k, v)
  \/ \E t \in Drafts : TypeRecord(t)
  \/ SaveRecord \/ LeaveRecord
  \/ \E discard \in BOOLEAN : AnswerRecord(discard)
  \/ SaveCompare \/ SaveStage \/ SaveRecheck \/ SaveRename
  \/ External \/ RemoveStaging \/ Crash
EnvSpec == EnvInit /\ [][EnvNext]_envVars

-----------------------------------------------------------------------------
(* Properties.                                                              *)

\* The variables have their types, and a document in hand fits its bounds.
EnvTypeOK ==
  /\ m.surface \in {"none", "panel", "form", "editor"} /\ job \in {"idle", "compare", "stage", "recheck", "rename"}
  /\ m.act \in {"idle", "close", "reload", "search", "add", "delete"}
  /\ \A t \in {d.text, d.saved, d.undo, disk} : Len(t.lines) <= MaxLines
  /\ m.open => m.selected \in 1..MaxLines + 1

\* A changed draft is never lost but by the user's word: the manager closes on
\* it only after Discard, whatever dialogs were cancelled or saves failed before.
NothingDiscarded ==
  m.open /\ ~m'.open /\ IsDirty(d) /\ said' # "crash" =>
       \/ said' = "Discard"
       \/ said' = "saved" /\ disk' = d.text

\* While the manager is open and no save is under way the user has a surface to
\* act on: every dialog, editor, failure and fallback leads back to the panel.
AlwaysOnScreen == m.open /\ job = "idle" => m.surface # "none"

\* Delete and the record editor change the record the user was shown when they
\* opened, or left there by the last save of that editor, and nothing around it.
EditsWhatWasShown ==
  said' \in {"deleted", "record"} /\ d'.text # d.text =>
       \E a \in 1..Len(Lines(d)) + 1 :
         LET new == IF said' = "record" THEN e.draft ELSE <<>>
             b == a + Len(seen) - 1
             cut == SubSeq(Lines(d), 1, a - 1) \o new \o SubSeq(Lines(d), b + 1, Len(Lines(d)))
         IN /\ b <= Len(Lines(d)) /\ SubSeq(Lines(d), a, b) = seen
            /\ d'.text.lines \in {cut, IF cut = <<>> THEN cut ELSE Front(cut)}

\* The code keeps that promise for a second save as long as what the first one left
\* reads as one record: the editor remembers the record's place, not its extent.
Single(lines) == Len(Parse(lines)) = 1 /\ Parse(lines)[1].kind # "unknown"
EditsOneRecord == EditsWhatWasShown \/ (e.saves > 0 /\ ~Single(seen))

\* A save replaces the file only when it is as the manager last knew it, but for
\* a write that falls between the second comparison and the replacement; a save
\* that fails leaves the file, the draft and a foreign staging file alone.
SaveIsOptimistic ==
  /\ said' = "saved" => disk' = d.text /\ (disk = d.saved \/ raced)
  /\ said' = "failed" => /\ disk' = disk /\ d'.text = d.text /\ m'.open
                         /\ job = "stage" => staging' = staging

\* The status line says Saved only of a text the file held when the manager last
\* looked at it or wrote it.
SavedIsOnDisk == m.open /\ ~raced /\ ~IsDirty(d) => disk = d.text
=============================================================================
