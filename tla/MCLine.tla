------------------------------- MODULE MCLine -------------------------------
(* What is under a line of text: the history, the transmit queue, the undo   *)
(* journal, the prompt's line, the event editor; one of them in each         *)
(* behaviour, the others absent.                                             *)
EXTENDS History, FiniteSets

CONSTANTS
  Parts,                                        \* the parts of this run
  Byte, QueueCapacity, WordMod,                 \* the queue
  Slots, Buffer, Ascii, Recalled,               \* the journal
  Char, Length, Most, Remembered, Commands,     \* the prompt
  Builds, Admitted, Names                       \* the editor

VARIABLES
  part,
  bytes, first, used,
  text, cursor, journal, search, kept, dialog, pasted, half, before,
  line, pos, overflow, hist, nav, saved, mode, at, cycle, suggestion, pasting, draft, depth, held, tabbed,
  e, build, event

Queue == INSTANCE ByteQueue WITH Capacity <- QueueCapacity, head <- first, count <- used
Undo == INSTANCE UndoJournal WITH Capacity <- Buffer, line <- text, saved <- kept, pasting <- pasted
Prompt == INSTANCE Prompt WITH Capacity <- Length
Editor == INSTANCE EventEditor

\* One recalled command; lines of up to three equal letters, two of which are
\* remembered; completion of one word, or of two of which one is too long.
A(n) == [k \in 1 .. n |-> "a"]
MCRecalled == {A(2)}
MCRemembered == {A(1), A(2)}
MCCommands == {<<A(1), A(2)>>, <<A(1)>>}

\* Editors with a history, with a journal, with room for three bytes, and one on
\* a plain terminal.  The one with a journal offers no suggestions: an undo step
\* leaves them on the row, which BothBuilds shows.
MCBuilds == {[slots |-> 0, limit |-> 2, capacity |-> 2, ansi |-> TRUE, offers |-> TRUE, visible |-> {"a"}],
             [slots |-> 2, limit |-> 0, capacity |-> 2, ansi |-> TRUE, offers |-> FALSE, visible |-> {"a"}],
             [slots |-> 0, limit |-> 0, capacity |-> 3, ansi |-> TRUE, offers |-> TRUE, visible |-> {"a", " "}],
             [slots |-> 0, limit |-> 0, capacity |-> 2, ansi |-> FALSE, offers |-> TRUE, visible |-> {"a"}]}
BothBuilds == {[slots |-> 2, limit |-> 1, capacity |-> 2, ansi |-> TRUE, offers |-> TRUE, visible |-> {"a"}]}
MCNames == << A(2) >>
MCAdmitted == {A(2), <<"s">>}

queueVars == <<bytes, first, used>>
undoVars == <<text, cursor, journal, search, kept, dialog, pasted, half, before>>
promptVars == <<line, pos, overflow, hist, nav, saved, mode, at, cycle, suggestion, pasting, draft, depth, held, tabbed>>
editorVars == <<e, build, event>>
lineVars == <<part, vars, queueVars, undoVars, promptVars, editorVars>>

\* What the modules assume of the constants.
ASSUME LineAssumption ==
  /\ WordMod \in Nat /\ QueueCapacity \in 1 .. WordMod - 1 /\ Byte # {}
  /\ Slots \in Nat \ {0, 1} /\ Buffer \in Nat \ {0} /\ {"lead", "cont"} \cap Ascii = {}
  /\ \A l \in Recalled : l \in Seq(Ascii \cup {"lead", "cont"}) /\ Len(l) < Buffer
  /\ Length \in Nat \ {0} /\ Most \in Nat
  /\ Remembered \subseteq Prompt!Lines \ {<<>>}
  /\ \A m \in Commands : m \in Seq(Prompt!Lines) /\ Len(m) > 0
ASSUME PartsAssumption == Parts \subseteq {"history", "queue", "undo", "prompt", "editor"}
ASSUME EditorAssumption ==
  \A b \in Builds :
    /\ b.slots \in Nat \ {1} /\ b.limit \in Nat /\ b.capacity \in Nat \ {0}
    /\ b.ansi \in BOOLEAN /\ b.offers \in BOOLEAN
    /\ ({Editor!Secret, "lead"} \cup Editor!Control) \cap b.visible = {} /\ Names \in Seq(Seq(b.visible))

LineInit ==
  /\ part \in Parts
  /\ Init
  /\ IF part = "queue" THEN Queue!Init ELSE bytes = <<>> /\ first = 0 /\ used = 0
  /\ IF part = "undo" THEN Undo!Init
     ELSE /\ text = <<>> /\ cursor = 0 /\ journal = <<>> /\ search = FALSE /\ kept = <<>>
          /\ dialog = FALSE /\ pasted = FALSE /\ half = FALSE /\ before = <<>>
  /\ IF part = "prompt" THEN Prompt!Init
     ELSE /\ line = <<>> /\ pos = 0 /\ overflow = FALSE /\ hist = <<>> /\ nav = 0 /\ saved = <<>>
          /\ mode = "prompt" /\ at = 0 /\ cycle = <<>> /\ suggestion = <<>> /\ pasting = FALSE
          /\ draft = <<>> /\ depth = 0 /\ held = <<>> /\ tabbed = <<>>
  /\ IF part = "editor" THEN Editor!EditorInit ELSE build = <<>> /\ e = <<>> /\ event = "none"
LineNext ==
  /\ UNCHANGED part
  /\ \/ part = "history" /\ Next /\ UNCHANGED <<queueVars, undoVars, promptVars, editorVars>>
     \/ part = "queue" /\ Queue!Next /\ UNCHANGED <<vars, undoVars, promptVars, editorVars>>
     \/ part = "undo" /\ Undo!Next /\ UNCHANGED <<vars, queueVars, promptVars, editorVars>>
     \/ part = "prompt" /\ Prompt!Next /\ UNCHANGED <<vars, queueVars, undoVars, editorVars>>
     \/ part = "editor" /\ Editor!EditorNext /\ UNCHANGED <<vars, queueVars, undoVars, promptVars>>
LineSpec == LineInit /\ [][LineNext]_lineVars

----------------------------------------------------------------------------
\* The types of the queue, the journal, the prompt and the editor.
LineTypeOK ==
  CASE part = "history" -> TypeOK
    [] part = "queue" -> Queue!TypeOK
    [] part = "undo" -> Undo!TypeOK
    [] part = "prompt" -> Prompt!TypeOK
    [] part = "editor" -> Editor!EditorTypeOK

\* The queue is a bounded first-in first-out stream, also where head + count would
\* not fit in a size_t, and what peek shows the transmitter is a prefix of it.
QueueIsStream ==
  /\ Queue!Stream!Init
  /\ [][part = "queue" => (Queue!Stream!Next \/ Queue!Contents' = Queue!Contents) /\ Queue!PeekIsPrefix']_lineVars

\* What a key hid comes back: redo after undo, Escape after a search, Down after
\* Up, whatever was trimmed, evicted or branched off; and no undo does nothing.
ComesBack ==
  [][ /\ part = "undo" => Undo!RedoReturns /\ Undo!StepsDiffer'
      /\ part = "prompt" => Prompt!SearchCancelRestores /\ Prompt!DraftRestored ]_lineVars

\* What is drawn after the line is a continuation of it, in the prompt and in the
\* event editor, where it is the tail of something admitted or registered.
SuggestionsHold ==
  /\ part = "prompt" => Prompt!SuggestionContinues
  /\ part = "editor" => Editor!SuggestionIsATail

\* The editor's row shows what a submission would send, and nothing that was typed
\* with the echo off.
EditorShows == part = "editor" => Editor!RowShowsLine /\ Editor!SecretStaysHidden

\* A bracketed paste only adds characters, and is one undo step of both journals.
Pastes ==
  [][ /\ part = "undo" => Undo!PasteIsOneStep
      /\ part = "editor" => Editor!PasteIsInert ]_lineVars

\* "UTF-8 sequences are not checkpointed halfway through arrival."
WholeCharacters == part = "undo" => Undo!WholeCharacters
\* "Tab, repeated Tab": a cycle goes on only where the last Tab left off.
CycleFollowsTab == [][ part = "prompt" => Prompt!CycleFollowsTab ]_lineVars
=============================================================================
