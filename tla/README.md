# portable-shell in TLA+

`portable-shell` is a terminal user interface in C for programs that may have no
operating system at all: a prompt with history, search, completion and undo, and
full-screen workspaces (tables, control panels, menus, forms, file browsers, text and
hex editors, device views) over a byte stream; with hosts that give it a terminal, a
Telnet server, an environment manager and a command language. It is single threaded.
What makes it hard is that one loop calls handlers, the handlers call the application
back, the application calls the handlers again, and dozens of flags in one structure
(`ps_session`) have to agree whatever the order; and that behind the hosts are programs,
clients, signals and files that move by themselves. These modules model the parts of it
that are protocols rather than layout, check them with TLC on small instances, and prove
the central ones with TLAPS for every size.

Paths below are relative to the repository; `shell.c` is `src/portable_shell.c`.

## 1. Inventory

### Parts, their state and their operations

| Part | State | Operations | What makes it correct |
| --- | --- | --- | --- |
| Job pool (`include/portable_async.h`) | slots of jobs, cursor, `next_id`, `running` | submit, complete, cancel, cancel_all, poll; step, stop and done callbacks inside poll | first terminal event wins; done once and after stop; identifiers never repeat; deadlines survive the clock's wrap; nobody starves; no reentry |
| Byte queue (`include/portable_async.h`) | buffer, `head`, `count` | write, peek, consume | a bounded stream, without overflow in any sum of sizes |
| Command history (`shell.c`, `portable_history.inc`) | ring, head, count, limit, filter | add, get, clear, filter, limit | the latest commands in order, erased ones never shown |
| Undo journal (`include/portable_undo.h`) | frames, current position | record, step back and forth, clear | undo and redo are inverse; a paste is one step; no step is empty; letters stay whole |
| Prompt line (`shell.c`, `portable_history.inc`) | line, cursor, history position, saved draft, search, completion cycle, suggestion, paste | keys, pastes, Enter | each mode gives the line back as it found it; nothing stale is put into the line |
| Event editor (`include/portable_editor.h`) | a second line editor: line, cursor, history, journal, suggestion, paste, drawn row | bytes; events its program answers | what is drawn is what would be sent; secrets are never drawn; a paste is inert |
| Session and workspaces (`shell.c`, `portable_*.inc`) | about thirty flags: board, form, menu depth, editors, dialog, alternate screen, mouse mode | open and close of each workspace, keys, clicks, pastes, resize, `ps_close` | one workspace at a time; terminal modes match; drafts survive; Escape leads out |
| Document, hex editor (`portable_editor.inc`, `portable_hex.inc`) | draft, cursor, one undo, question | keys, pastes, clicks, the caller's save | a draft that differs from what is stored is never called unmodified |
| Form (`portable_form.inc`) | field, edit buffer, the caller's values | keys, validation | what is accepted is consistent |
| File browser (`portable_files.inc`) | nodes loaded so far, folds, selection, two panels | keys, clicks, resize, the provider's loading | a key picks what is shown; no folder is loaded twice |
| Menus (`portable_menu.inc`, `portable_list.inc`) | path, selections, filter, number typed | keys, clicks, resize, refreshed descriptions | a key runs what is shown; a parent is as it was left |
| Control panel (`portable_controls.inc`, `portable_mouse.inc`) | page, selection, folded sections, draft with revision | keys, clicks, host selection, `controls set`; a device that moves by itself | valid requests; no lost update; a draft goes to the control it was opened on |
| Device view (`include/portable_device_view.hpp`, `portable_device_table.hpp`) | page, rows retained on the screen, draft, choice, dialog | keys, mouse, snapshots from a provider | the retained screen is current; drafts go to the row they were opened on; secrets are scrubbed |
| Environment manager (`host/env_*.c`) | lossless document with one undo, table, record editor, the file | load, edit, save by replacement | edits go to the record shown; no other writer is overwritten; a crash leaves the old or the new file |
| Input decoder (`shell.c:2171-2393`) | escape state and time, paste match, CR LF flag | bytes, ticks | every byte sequence, in any chunks, gives the same keys |
| Telnet decoder (`include/portable_terminal.h`) | parser state, options of both sides, refusals, subnegotiation | bytes | negotiation ends, and both ends agree; commands are never keys |
| Child processes (`host/process_posix.c`) | children, pipes, terminal modes, signal handlers | relay of one program, pipeline of several | returns, with nothing left behind |
| Telnet server (`host/posix.c`) | slots with a session and a channel each | one thread over sockets that never block | each client its own bytes; nobody is held up |
| Local host (`host/posix.c`) | terminal modes, input buffer, history file | options, read, feed, signals, finish | the terminal is given back; programs get the input that is theirs |
| Command language (`host/language.h`, `include/portable_command_line.h`) | plan of a line, files that read files | parse, expand, chain, pipe, redirect, `source`, `exit` | a line with an error runs nothing; operators from left to right; exit is final |
| Tables, settings, ticked job | rows, schema, a job that prints | keys, ticks | selection stays on a visible row |
| Screen, rich text, meters, style, parsing helpers | buffers | pure functions | text on a screen |

### How they interact

* A host's loop feeds bytes (`ps_feed`) and time (`ps_tick`) to a session and polls
  its job pools. Everything of a session runs in that one thread.
* `ps_feed` → input decoder → `ps_key` → the workspace that owns the keys, else the
  prompt (`shell_key`). A mouse report goes to the workspace under it, and often comes
  back as a key.
* A workspace that opens closes some of the others; closing a form, choosing from a
  menu or picking a file runs an application callback, which may open the next one.
* Enter at the prompt adds to the history, discards the undo journal and runs a command,
  which may open workspaces and change the history; on the local host it goes to the
  command language, which parses the line, expands group by group and hands programs to
  the child processes.
* The panel reads and writes controls through callbacks; the device behind them moves
  between any two calls (`portable_shell.h:173` asks the provider to compare revisions
  atomically). The device view draws from a snapshot its provider replaces.
* The environment manager keeps its own document and file, and shows them through the
  session's panel, form and document editor.

### What is hard to test here

Reentry from callbacks; workspaces that replace one another in orders nobody tried;
copies of a line or of a selection that are stale when used; a wrapped clock, identifier
or buffer; a device, a file or a snapshot that moves between read and write; a limit that
sinks below what is stored; pipes whose ends are held by the wrong process; clients that
stop reading; signals in the middle of a line. `PROJECT.json` lists them at their lines
under `hazards`, with the properties that look at them.

## 2. The modules

| Module | Models | Composes / refines |
| --- | --- | --- |
| `JobLifecycle` | the promise of the pool for each job identifier | |
| `AsyncPool` | `portable_async.h`, the pool | implements `JobLifecycle` (`Lifecycle`) |
| `AsyncPool_proofs` | its theorems | extends `AsyncPool` |
| `ByteStream` | the promise of the byte queue | |
| `ByteQueue` | `portable_async.h`, the queue | implements `ByteStream` |
| `Recall` | the promise of the history | |
| `History` | the ring of `shell.c:686-745` | implements `Recall` (`Recalls`) |
| `History_proofs` | its theorems | extends `History` |
| `Journal` | the snapshots of `portable_undo.h` | |
| `UndoJournal` | the journal under `ps_key`, pastes, search and dialog | over `Journal` |
| `Prompt` | the line of `shell_key` and all that replaces it | its history is `Recall` |
| `EventEditor` | `portable_editor.h` and the terminal row it draws | over `Journal` |
| `Session` | who owns the keys, the screen and the mouse | |
| `DocumentEditor`, `HexEditor`, `FormDialog`, `FileBrowser`, `MenuTree` | what stands in the dialogs | one `.inc` file each |
| `ControlPanel` | panel, drafts, requests, device | |
| `DeviceView` | the device view and its table | |
| `EnvDocument` | the lossless dotenv document | |
| `EnvManager` | the manager, the file and its other writers | over `EnvDocument` |
| `InputDecoder` | `input_byte`, `escape_key`, the timeout of `ps_tick` | |
| `Telnet` | the Telnet decoder of `portable_terminal.h` | |
| `TerminalLink` | `ps_feed` and `ps_tick` with a terminal at the other end of the line | composes `InputDecoder` and `Telnet` |
| `HostProcess` | `ps_host_process`: a program on the terminal or behind the relay | |
| `HostPipeline` | `ps_host_pipeline`: stages, pipes, redirections | |
| `TelnetServer` | the server of `host/posix.c` and its clients | |
| `LocalHost` | `main` of `host/posix.c` over one session | |
| `HostLanguage` | the command language and its executor | |
| `MCAsyncPool`, `MCSession` | constants for TLC | extend the module they name |
| `MCLoop` | | `Session`, `TerminalLink` |
| `MCLine` | | `History`, `ByteQueue`, `UndoJournal`, `Prompt`, `EventEditor` |
| `MCPanels` | | `ControlPanel`, `EnvManager` |
| `MCScreens` | | the five dialogs and `DeviceView` |
| `MCHost` | | the five modules of the host |
| `Session_proofs`, `Line_proofs`, `Panels_proofs`, `Screens_proofs`, `Host_proofs` | their theorems | extend the `MC` module of that name |
| `Bounds_proofs` | ends of sets of numbers, induction | |

`MCLoop`, `MCLine`, `MCPanels`, `MCScreens` and `MCHost` check several components in one run. A variable `part` is chosen in the
initial state and never changes; the variables of the other parts are then fixed at some
value that nothing reads. Every behaviour is thus a behaviour of one component, the
state space is the sum and not the product, and a property of the run is the conjunction
of what it says of each part. Nothing is composed by this: the components that really
share state are composed in modules of their own, as the table says.

### State and actions against the code

**AsyncPool.** `jobs` is `pool->jobs`, and `cursor`, `running`, `next_id` have their
names in the code. `ps_async_poll` is not one step: `PollBegin` enters it, `PollSkip` and
`Visit…` take one turn of its loop up to the next callback, `StepReturns`, `StopReturns`
and `DoneReturns` go on after one, `PollEnd` leaves; its locals are `phase`, `slot`,
`scanned`, `visited`, `budget`. `Submit`, `Complete` and `CancelAll` (a cancellation of
one job is a `Complete` with that outcome) may be called while the pool is idle or
inside a callback, as any code of the owner may. `Tick` moves the clock, modulo
`ClockMod`. `issued`, `winner`, `stop_log`, `done_log`, `seen`, `age` and `gap` are
history variables: what callers observed and the true time behind the wrapped clock. No
guard of the code reads them; only `Tick` is bounded by `gap` and `age`.

**ByteQueue.** One action per function, with `size_t` sums modulo `WordMod`.

**History.** One action per function; `Get` is `ps_history_get`. Lines are values; which
ones the filter admits is a set, so that installing a filter is a choice of a subset.

**Journal, UndoJournal.** `Record` and `Step` are `ps_undo_record` and `ps_undo_step` on
a record `[frames, at]` (the fixed array of the code holds the same frames); the prompt
and the event editor share them. The actions of `UndoJournal` are what `ps_key` does
around a key. A line is a sequence of bytes because `ps_undo_record` looks at bytes: an
ASCII letter, and the two bytes of one accented letter, which come as two keys. `Edit`
stands for every key that replaces the line with something else at once.

**Prompt.** `edit`, `past`, `cycle`, `suggestion` and `pasting` are the fields named
beside them. The words of a line are abstracted: which candidates a completion offers,
where the token begins and whether an entry matches a search are choices. What is kept
exactly is every copy and every position that may be stale: the saved draft, the place in
the history, the start and end of the completion, the suggestion drawn after the line.
`Replace` beyond the end of the line is an arbitrary line, for `complete_replace` moves a
negative number of bytes there. `draft`, `depth`, `held` and `tabbed` are history
variables: what the user saw.

**EventEditor.** One action feeds one byte (a sequence's parameters one step) to the
editor `e`, as `feed` does, and what it emits goes to the terminal's row in the same
record; `event` is what `feed` returned and the program has not answered yet. `build` is
the set of compile-time choices (journal, history, capacity, ANSI or plain terminal),
fixed from the start.

**Session.** Handlers nest, so a handler is an operator from a session to the set of
sessions it may leave, called as the code calls it: `FormClose` in `FormKey`, then the
done callback (`Opens`), whose `TableOpen` closes menus and files. An action applies one
handler. The drafts of the two editors have four states (none, clean, dirty, asking).
What is inside a workspace is in the module of that workspace.

**DocumentEditor, HexEditor, FormDialog, FileBrowser, MenuTree.** `doc`, `hex`, `form`,
`files`, `menu` are the fields of `ps_session` with that prefix; `kept`, `flash`,
`values`, `picked`, `ran` are what the caller's callbacks were given. One action per key
or click handler. A text is a sequence of bytes of which some continue a character.

**ControlPanel.** A row knows its section from the last row that began one, as
`control_items` computes it; `Unhidden` is the assignment hidden in that function, which
moves the selection of a folded section to its heading. `PanelKey` is `control_key`,
`TableMouse` the panel's part of `table_mouse`. `control_commit` reads the device again
and then writes, so that a request is checked and written in two steps between which
`DeviceMoves` may run; the session is busy with the call, and no other key is taken
(`Calm`). `home` and `seen` are history: on which control a draft was opened and which
number it showed, or which number a key was pressed on. `Late` says whether a key may come
before the last change was drawn. `Open` may find the panel open already, and then drops its
draft.

**DeviceView.** `v` holds the fields of the class, `snap` the provider's snapshot,
`screen` what the terminal shows, row by row, with what the view remembers of it (`stamp` is
`painted_`, `grid` is `paintedGrid_`, `shown` is `paintedRows_`). A key asks the host to paint;
`waiting` counts the requests since it last did (`Render`), and `Provide` replaces the snapshot
at any moment. `Matrix` is `PS_DEVICE_VIEW_MATRIX`, TRUE in every run as it is by default: the
page of cells then has a renderer of its own, which leaves the memory of the rows alone. A
stamp is the hash of one row and its marks, and what is drawn on a line is the stamp *and*
what the stamp leaves out: the glyphs, and for a choice with labels the choices (`RowPen`).
`pens` and `seen` are history: with which of these the lines on the screen were written since
all were last painted, and the row a draft was opened on, as the user saw it.

**EnvDocument, EnvManager.** The document's operators take and give the document, as the
functions of `env_document.c`. In the manager a key and the dispatch that follows it are
one action. A save is `SaveCompare`, `SaveStage`, `SaveRecheck`, `SaveRename`, with the file
`disk`, the staging file `staging`, another process that writes (`External`) and a crash
(`Crash`) between any two of them; `raced`, `seen` and `said` are history: what the
other process wrote, which lines a question or a record editor showed (after a save, those it
left), what the user was told.

**InputDecoder, Telnet.** Operators: from a decoder (a record of the fields of
`ps_session`, or `ps_telnet`) and a byte to the decoder, the keys or the commands it
becomes. A byte is a string (`"ESC"`, `"WILL"`, `"["`); an option's two-byte values are one
value. **TerminalLink** keeps both decoders and the line: `Feed` is one turn of the loop of
`ps_feed`, `telnet_byte` and `input_byte` included, `Tick` the part of `ps_tick` that resolves
an Escape. Everything else is the terminal, which is not part of the repository: a person
who types keys, a client that negotiates as RFC 1143 says, time. `owed` holds the keys
meant and not yet passed to `ps_key`; `now` is `s->now` and `gap` the time since that tick.

**HostProcess, HostPipeline.** `pump.pc` and `line.pc` name the statement the parent has
reached; each system call that another process can observe is a step. Bytes are counted:
`wire` is the pseudo terminal's two directions, `pipe` the pipe behind each stage, `ends`
the descriptors each process holds, so that the end of a stream comes when the last
writer is gone and not before. The program answers every byte with one, may write some
of its own accord, and may leave a silent child behind that holds the terminal.

**TelnetServer.** `Poll` (with the accept that follows it), `Serve` (one slot: read, feed,
flush, drop) and `CloseServer` are the loop; `Connect`, `Send`, `Take` and `Leave` the
clients. `channel` is the slot's queue, `session` what its session has written.

**LocalHost.** `host.pc` follows `main` from its options to its return value: history
file, modes, the loop that reads and feeds, `ps_finish`, the history file again, the
modes. The history file is read one line per step. A signal may come at any moment
(`Signal`). `seen`, `ran` and `handed` are history variables: what the session was fed,
which lines it ran, and where a program found its input.

**HostLanguage.** `calls` is the C stack: lines and files that are executing. `Parsed` is
the parser, `Expands` the second pass before every group; the rest is
`host_line_run` and `host_state_command`. `log` is what was launched, and the value of the
variable its words were expanded with.

## 3. What is checked

| Run | Question | Size |
| --- | --- | --- |
| `pool` | Races for a job, reentry, identifiers used up; the invariant of the proofs; `JobLifecycle` | 2 slots, 3 identifiers, clock modulo 3: 623 000 states |
| `pool_live` | Delivery and fairness with a budget of one, and deadlines across the wrap | 2 slots, 2 identifiers, clock modulo 6: 156 000 |
| `loop` | Ownership of keys, screen, mouse and drafts; on the line, keys in order, options agreed, negotiation ended | 3 menus deep, 2 panel pages; 4 options, buffers of 6 and 2 bytes, clock modulo 6: 325 000 |
| `line` | The ring is `Recall`, the queue a stream in tight `size_t`; undo, redo, pastes, search and browsing give back what they took; the event editor shows what it would send | ring of 4; queue of 5 bytes in 3 bits; 3 snapshots of lines under 3 bytes; prompt of 3 letters and 2 entries; 4 builds of the editor: 495 000 |
| `panels` | A panel over a device and an environment over a file, both moved by others: nothing overwritten, edits go where they were meant, and a key asks for the next value | a page with two sections, a page with an action; 3 lines, 2 edits, 2 record saves per editor, 2 moves of the device: 482 000 |
| `screens` | What the dialogs and the device view show, accept, pick and run | texts of 2 bytes, 3 fields, 7 nodes, 2 menus 3 deep, 8 snapshots: 311 000 |
| `host` | Do programs, pipelines, clients, signals and lines all end, with nothing left behind and every byte where it belongs? | 3 bytes typed; 3 stages; 3 clients for 2 slots; 12 sets of options; all lines of 3 words: 78 000 |
| `undo_whole` | Are letters whole? **No** | `line`'s journal |
| `prompt_tab` | Does a completion cycle stay with its line? **No** | `line`'s prompt |
| `control_late` | A panel whose keys come before the drawing: does a draft go home? **No** | `panels`' panel |
| `editor_undo` | An editor with a journal that offers suggestions: does a suggestion continue the line? **No** | `line`'s editor |
| `cells_left` | Is the table current after the page of cells? **No** | `screens`' device view, 1 snapshot |

**The properties.** Each has its meaning in a comment above it; those of the `MC` modules
name the parts they join. The ones to read first:

* `FirstEventWins`, `StopBeforeDone`, `Lifecycle` (pool): worker completion,
  cancellation, the step's own result and the deadline race; whoever is first is what
  stop and done see, and done comes last and once.
* `VisitsAreExact`: compares the 32-bit arithmetic with the true time.
* `QueueIsStream`, `Recalls`, `Lifecycle`: refinements, the abstract specification as
  property.
* `SurfacesAgree` (`Session!TerminalMatches` in it): the alternate screen and mouse mode
  the terminal was really put in, kept by following every escape sequence sent, equal
  what the flags of the workspaces say, after any sequence of openings, refusals and
  closings.
* `ComesBack`, `Pastes`: about journals whose line changed behind them, and one buffer
  with two users.
* `EditorShows`: the row on the terminal, as the bytes sent to it left it, against the
  line that would be submitted, with an echo that is switched while a line is typed.
* `NothingOverwritten`: what a write to a device or a rename over a file replaces is what
  its author saw, however late it is. For the file this is what an optimistic check
  can promise: the last comparison comes after staging, and only a writer between that
  comparison and the rename is not seen, as the code's comment says.
* `EditsGoHome`, `ActsOnWhatIsShown`: a draft, a deletion, a choice or a key applies to what
  was shown when it was opened or asked, not to what has come to stand at its index. For the
  record editor this holds at every save as long as what the save before left is one record
  (`EditsOneRecord`); a second save of a draft that became two records is among the
  differences below.
* `KeysAskForTheNext`: what a key or a click asks of the device is compared with what the
  user is owed (one step, or the end of the range where less than a step is left, or round
  the choices), not with the check that `control_commit` makes before it writes. A step that
  went wrong would be refused there, and the key be void.
* `DraftsAreHonest`: no editor says "unmodified" of a draft that differs from what its
  caller stored, through undo, redo and refused saves.
* `ShowsWhatIs`: the rows the device view does not paint again, because their stamp is the
  same, are what painting them would show (`LinesAreCurrent`), as long as what the stamps
  leave out has not changed since everything was last painted (`ScreenIsCurrent`). A page of
  cells or other glyphs in between end that, until the next time everything is painted;
  what then stays on the screen is shown by `cells_left`, which asks for `LinesAreCurrent`
  itself, and, of glyphs, is among the differences below.
* `LinkAgrees`: no key is lost, doubled, split or made up, wherever a tick falls between
  its bytes; both ends agree after every crossing of offers and answers, which `Settles`
  says come to an end.
* `LeavesNothingBehind`, `EverythingReturns`: descriptors, children, terminal modes and
  signal handlers on every way out, launches that fail half way included; and no reader
  waits for a writer that will not come.
* `BytesAreTheirs`: slots used again, queues that fill, and input that a program shares
  with the host that started it.
* `LanguageHolds`: the incremental parser and the interpreter against a definition of a
  well-formed line, and of its value, that does not read it from left to right; and the value
  each word was expanded with against the last `setenv` that ran before, in whichever line or
  file.

**Why the bounds are enough.** Two slots and three identifiers give a slot reuse within
one poll, a stale handle, a full pool, and the end of the identifiers. A clock modulo 6
with a duration below half of it (and one above, which is refused) contains every difference the
code can compute for a job visited in time: with a budget of one and at most 2 between polls, each
of two jobs is visited within 4. The queue's five bytes are more than half of its eight sizes, so that
`head + count` overflows. Four ring places, three commands and limits up to five contain
a limit below, at and above the count before and after a wrap. Three snapshots contain
eviction in the middle of the journal. The history of two entries contains up, further
up, and the end; three letters contain a candidate that fits, one that does not, and a
full line. The four builds of the event editor contain each feature at the smallest size
that has a full one: two history entries, two snapshots, a capacity of three, a plain
terminal; the one with a journal offers no suggestions, for both together are what
`editor_undo` shows. Menus three deep contain a first, a middle and a last one. Sections of one
row on a page of two contain a folded section above, around and below the selection;
the page with an action has neither. A level from 0 to 2 in steps of 2, of numbers below 3, has
a full step, the rest of one and nothing left at either end, and a difference that wraps; choices,
ranges that begin above zero and keys that come before the drawing are left to the theorem
`KeysAskForNext`. A file of two records, one of which spans two lines
or is switched off, and a capacity of three contain every edit that fits and the first
that does not; two edits contain an undo and a redo, and two saves of a record editor one at an offset that
the first has made stale: a draft is one record, two, or the beginning of one that swallows
the next. A form of three fields contains one
whose check depends on another; a file tree of two levels with an unreadable and a barred
folder contains every refusal; two filters over two menus contain a selection that the
filter hides and one that it moves. The snapshots of the device are three devices (one whose rows, glyphs
and choices change, one whose grids come and go, one whose screen shrinks). On the line, a buffer
of 6 bytes is what the longest sequence with a meaning needs, so that the next one is too
long; the 60 ms, the ticks at most 20 ms apart and the bytes of a key at most 20 ms apart
are 3, 1 and 1; there is one option of each sort (the session performs it, wants it, wants
it and asks for a value, refuses it), and the terminal may begin something new when at most
one byte (on Telnet: none) is under way, while answers overlap freely. Behind the relay, a
chunk of two for three bytes contains a short read and a partial write. Three stages
contain a first, a middle and a last one; a pipe of one byte fills at once. A third client for
two slots is refused, or reuses the slot of one that left; a queue of one byte fills at
every answer.

**Bounds that are not in the code** are constants of the specifications: `MaxGap` and
`AgeCap` (time between polls, and the age beyond which a job's age no longer matters),
`MaxMoves` (how often the controls move, in all), `Edits` and `Saves` (of a document while it is
open), `Batch` (inputs before the host paints), `Typed`, `Extra`, `Keys`, `Reply` (bytes in
all), the sizes of lines, and of the terminal `WireMax`, `Spread`, `Pause` and `MaxGap`
(`InputDecoder` and `Telnet` have none).

**Fairness.** `AsyncPool!FairSpec`: the owner polls again and again and a poll goes on
(`WF` of `Poll` and `PollBegin`: the loop of the program, and C code that runs to its end,
callbacks included), and time passes (`SF` of `Tick`, since a tick is only possible between
polls). No fairness on submissions, completions or cancellations: the owner need not.
`MCLoop!LoopSpec`: a user who decided to leave goes on pressing keys (`WF` of `Leave`), and
nothing else is forced on a session; on the line (`TerminalLink!LinkFairness`) the host reads and ticks (`WF` of `Feed` and
`Tick`: every host loop does both in each turn, 20 ms at most, `host/posix.c:438-467`), the
terminal answers what it is asked (`WF` of `Answer`) and time passes (`WF` of `Wait`); no
fairness on what a person does. `MCHost!HostsSpec`: the kernel runs the host (`WF` of
`Hosts`) and the programs it waits for (`WF` of `Children`, a set of programs as a whole,
which for a pipeline means that some stage that can move does; each ends when its
input does); none on people, clients and signals. The other modules have no liveness.

**Deadlock.** The two runs of the pool, `loop`, `screens` and `host` set `CHECK_DEADLOCK FALSE`. A pool whose identifiers are used
up, with time at its bound and an owner that does not poll, stops; a session that was
closed or exited takes no more input, nor does an editor, a form or a menu once it has
closed; a Telnet terminal that rests has nothing left to do; a host that has returned, or
whose clients are gone, is at its end. In the others every state has a successor.

**Assumptions about what is outside.** The session's host starts and closes it once, opens
nothing while the history dialog, a text or a hex editor is open (the code refuses some
of these, not all), and a form's done callback that `ps_close` runs opens nothing. A
panel's provider compares revisions when it writes, as `portable_shell.h:173` asks. The
bytes of one key arrive within 20 ms, a person waits 100 ms after a lone Escape, a paste
holds no ESC, and a Telnet client does not ask twice for an option before it has the
answer. The program of an event editor answers every event and offers suggestions between
them, at any time (`docs/wiki/Integration.md` says after normal input). A form's check of a field depends on the fields
before it. The file browser has at least 7 rows, and a document's style is set before it
is opened. Less is typed to a program behind the relay than the kernel takes for it (see
below). The server polls and accepts in one step, clients stop when the server is done,
and what the kernel still holds for a closed connection is left out.

### Findings

1. `undo_whole`: `ps_undo_record` recognizes an incomplete letter only at the end of the
   line (`portable_undo.h:22`). Typed before another character, a letter of two bytes is
   recorded after its first, and undo shows half a letter, against
   `docs/wiki/Terminal-interaction.md:20`.
2. `prompt_tab`: a completion cycle survives F7 and pastes (`shell.c:1861`): the next Tab
   replaces bytes at positions of a line that is gone, and when the line is shorter than
   the cycle's end the length of the move is negative.
3. `control_late`: `control_key` looks up the selected control before `control_navigate`
   moves the selection out of a folded section (`portable_controls.inc:460`). If the fold
   has not been drawn, F2 opens a draft on the hidden row while the heading has the
   keys: arrows move, and Enter writes the draft to another control.
4. `editor_undo`: the undo and redo keys of the event editor change the line and draw it
   again, but do not erase the suggestion as every other key does
   (`portable_editor.h:484-491`). It then stands behind a line it does not continue, and
   Right accepts it; where the snapshot has its cursor before the end, the next key
   erases the end of the line itself from the row (`CSI K`, `:172`), which Enter still
   submits. `docs/wiki/Integration.md:26` says a suggestion "offers admitted history
   first, then registered candidates".
5. `cells_left`: in the default build the page of cells returns before the view's memory of
   the rows is brought up to date (`portable_device_table.hpp:450`), and Enter there asks for a
   painting but not of everything (`portable_device_view.hpp:434-438`). After F, F, Enter the
   stamps are those of the table before the cells, no row is painted, and the cells stay.

Differences met while modelling that are not runs of their own.

*The session.*

* History browsing and search share `saved`: Up, Ctrl-R, Escape, Down loses the draft,
  and Ctrl-C during browsing leaves `history_nav` (`shell.c:1893`, `:1995`), against
  "History with draft restoration" (`docs/wiki/Shell.md:39`). `DraftRestored` is stated
  for browses neither of them interrupts.
* With a budget below the number of jobs, a job may be visited so late that the clock's
  difference has wrapped and its deadline is missed (`portable_async.h:84` against `:97`).
  `DeadlineExact` is checked where each job is visited within half the clock.
* F3 at the prompt under a panel selects a page of the panel by the number of the task
  table's tab (`host/workbench/shortcuts.inc:6`); a click on the board under the history
  dialog presses Enter in the dialog (`shell.c:2177`); characters of a paste answer the hex
  editor's question (`:2248`); a paste under the dialog changes the hidden draft (`:2258`);
  an overlong draft makes the dialog refuse an entry (`:1802`); Enter in the dialog leaves
  the undo journal as it was (`:2025`); a history cleared or limited under the dialog leaves
  its selection beyond the end (`:1800`); a line overwritten under a small limit keeps the
  evicted one in its place (`:703`). `docs/wiki/Terminal-interaction.md:11`, `:20`, `:80-82`
  say otherwise of the first ones.
* `ps_menu_open` may open over the dialog and `ps_panel_open` leaves `control_view` set
  when a document refuses it. A read-only style set on an open document with unsaved edits
  refuses the answer that would discard them (`portable_editor.inc:1`); a document at its
  capacity keeps the bytes of a character that still fit (`:107`).
* A sequence is timed from the tick before its first byte (`shell.c:2320`). A host that feeds
  after a pause and ticks at once, as `examples/device_transport.c:39` does, turns an arrow
  key split over two calls into Escape and letters, against `docs/wiki/Shell.md:67-68`. The
  repository's own loops tick every 20 ms, which the model assumes.
* A paste's end marker after ESC is missed and the bytes that matched in part are dropped
  (`shell.c:2231-2249`). A sequence whose first byte beyond the buffer is its last one keeps
  the decoder skipping to the end of the next (`:2303-2307`). A line feed after CR is dropped
  even when an escape sequence stood between them (`:2323`).
* An option the terminal offers again after the session refused it is never answered,
  unless the terminal took the first offer back (`portable_terminal.h:368`). That is the
  documented repeated-option suppression; a client that waits for the answer waits for ever.
* Shift-Tab in an action's dialog after a click on its draft takes `dialog_focus` below
  zero (`portable_controls.inc:470-473`); the model keeps it, modulo `Width`.

*Dialogs, editors and device views.*

* Beside a tree in which its parent is folded, Enter on a folder of the listing expands it,
  finds no row of the tree for it, and the next painting returns the listing to the folder
  selected in the tree (`portable_files.inc:125-127`, `:65`): it was not opened. On fewer
  than 7 rows nothing is shown (`:72`), and keys still act.
* A menu's descriptions may change without a refresh; the filter then goes on selecting by
  the old ones until the next key that refreshes.
* The event editor's undo leaves the place in the history where it was
  (`portable_editor.h:485-491`), so that the next Down goes on from an entry that is no longer
  shown. On a plain terminal a redraw leaves the tail of a longer line standing, which
  `RowShowsLine` allows there.
* The device view's cell page keeps `grid_` set also when its matrix is not compiled in
  (`portable_device_view.hpp:708`), and the first Enter there only clears it (`:434-438`). A click
  counts rows from where the last painting began (`mouseStart_`), whatever the snapshot holds by
  then; an open choice menu keeps the row it was opened on.

* A row's stamp hashes a snapshot of that row alone, without `unicode`
  (`portable_device_table.hpp:476`). When the provider switches it, the frame is painted and
  the rows keep the old glyphs. Choices exchanged behind the same labels are in no hash
  either (`portable_device_view.hpp:995`). The model has both (`Face`, `Unstamped`), and
  `LinesAreCurrent` fails of them as it does of the cells; `ScreenIsCurrent` is stated for
  one pen.

*The environment manager.*

* Each save of the record editor replaces the one record at the selected place by the whole
  draft (`env_manager.c:237-242`). A draft that the first save turned into two records replaces
  only the first of them at the second save, and the other stands twice, against
  `docs/wiki/Environment-editor.md:44` and `:49`. The model does the same; `EditsOneRecord`
  leaves out exactly this save, which `EditsWhatWasShown` alone does not survive.
* A value refused after it was written is taken back by `env_undo` (`env_document.c:157-158`),
  which keeps the refused text as the next step of undo and loses the one before it, against
  the comment at `:134`, "Preserve the previous undo on rejected edits." Moving a record with
  an unterminated quote swallows the records behind it (`:186-195`).

*The host.*

* After a signal, or a failure of its output, the local host still calls `ps_finish`
  (`host/posix.c:473`), which executes the line that stands in the prompt
  (`shell.c:2418-2425`): a command the user had not entered runs because the host was
  terminated. `docs/wiki/Shell.md:41` says "Enter is still required to execute", of
  completion and suggestions.
* The relay writes to the program with a blocking `write` (`process_posix.c:49`). A program
  that copies what it reads, given more than the pseudo terminal holds, blocks in its own
  write while the host is blocked in that one: neither moves again. `InRoom` no smaller
  than what is typed keeps the passing run from it; `docs/wiki/Host-execution.md` says "`pty`
  allocates a real terminal, relays input/output and terminal resize, and restores the
  parent's modes on return."
* What the program writes between a `poll` that timed out and its end is dropped
  (`process_posix.c:51`). Input without a final newline is followed by one end-of-file
  character, which only flushes it: the program does not see the end.
* After an interrupted `poll` the server reads `revents` nobody wrote (`posix.c:171-180`); the
  model lets them hold anything. A session that exited while its client reads nothing keeps
  its slot as long as the client likes (`:214`).
* The history file is rewritten whole at exit (`posix.c:246-247`): the second of two hosts
  erases what the first added, and a crash after the truncation loses everything.
* `run` without arguments, or a built-in that cannot be piped, returns from the whole line
  (`language.h:219`), so that `run || t` does not run `t`, against "evaluated left to right"
  (`docs/wiki/Local-shell.md`). An expansion that is too long stops the line after earlier
  groups have run. A file redirected to is truncated even when the launch then fails.
* A nested `ps_execute` clears `executing` for the one around it (`shell.c:2118-2120`).

## 4. What is proved

TLAPS checks the theorems below for every value of the constants their assumptions allow;
TLC evaluates the same assumptions on every run. Where a theorem states a property of a
run, its name is in the last column.

| Theorem | Statement | Property of a run |
| --- | --- | --- |
| `AsyncPool_proofs!Invariance` | `Spec => []IInv` | `IInv` |
| `TypeCorrect`, `DeliveredOnce` | `Spec => []` of `TypeOK`, `DoneOnce` | |
| `IdsAreUnique`, `FirstTerminalEventWins`, `StoppedBeforeDone` | `Spec => []` of each | `UniqueIds`, `FirstEventWins`, `StopBeforeDone` |
| `PollExcludesCallbacks` | an action property | `NoReentry` |
| `PoolImplementsLifecycle` | a refinement | `Lifecycle` |
| `History_proofs!TypeCorrect`, `EntriesCorrect` | `Spec => []` of each | part of `LineTypeOK`, `EntriesAreCommands` |
| `RingImplementsRecall` | a refinement | `Recalls` |
| `Session_proofs!Invariance` | `Spec => []Good(s)` | |
| `TypeCorrect`, `SurfacesAlwaysAgree` | `Spec => []` of each | `TypeOK`, `SurfacesAgree` |
| `DraftsAreKept` | an action property | `DraftKept` |
| `Line_proofs!QueueImplementsStream` | a refinement | `QueueIsStream` |
| `WhatIsHiddenComesBack` | action properties of journal and prompt | `ComesBack` |
| `PastesAreOneStep` | `PasteIsOneStep` of the prompt's journal | part of `Pastes` |
| `LineTyped` | `LineSpec => []LineTypeOK`, if `EitherOr` | `LineTypeOK` |
| `SuggestionsContinue` | `LineSpec => []SuggestionsHold`, if `EitherOr` | violated by `editor_undo` without |
| `EditorShowsTheLine` | `LineSpec => []EditorShows`, if `EitherOr` | `EditorShows` |
| `PastesAreInert` | an action property, if `EitherOr` | `Pastes` |
| `Panels_proofs!ControlTypeCorrect` | `PanelsSpec => []` of the panel's `TypeOK` | part of `PanelsTypeOK` |
| `KeysAskForNext` | an action property | `KeysAskForTheNext` |
| `DraftsGoHome` | `[]DraftGoesHome`, if `~Late` | violated by `control_late` with `Late` |
| `NothingIsOverwritten` | action properties, if `~Late` | `NothingOverwritten` |
| `NothingIsEverLost` | action properties | `NothingIsLost` |
| `Host_proofs!HostsInvariance` | `HostsSpec => []HostsGood` | |
| `HostsReturn`, `HostsBytes` | `HostsSpec => []` of each | `LeavesNothingBehind`, `BytesAreTheirs` |
| `HostsLeave` | an action property | `LeavingIsFinal` |
| `Screens_proofs!ScreensInvariance` | `ScreensSpec => []ScreensGood` | |
| `ScreensTyped` | `ScreensSpec => []ScreensTypeOK` | `ScreensTypeOK` |
| `DraftsStayHonest` | `ScreensSpec => []DraftsAreHonest` | `DraftsAreHonest` |
| `OnlyValidLeavesScreens` | `ScreensSpec => []OnlyValidLeaves`, if `LooksBack` | `OnlyValidLeaves` |
| `ScreensShowWhatIs` | `ScreensSpec => []ShowsWhatIs`, with and without `Matrix` | `ShowsWhatIs` |
| `ScreensActOnWhatIsShown` | an action property of each part | `ActsOnWhatIsShown` |

**The pool**, for every `Capacity`, `MaxId`, `ClockMod`, `MaxGap`, and set of timeouts,
callbacks and budgets (`PoolAssumption`). The safety properties are not inductive: they do
not say that the slot a callback is about is still the one the poll visited, nor that an
identifier handed out next is unused, nor when a live job may already have been stopped.
`IInv` adds `PollHoldsSlot` (a running poll is inside a callback of a live slot, in a state
that fits the callback), `NextIdIsFresh` (`next_id` separates the used identifiers from
the fresh ones, whose logs are empty) and `LogsFollowWinner` (only the job being
delivered has been stopped and not delivered). `TypeNext`, `PollHoldsSlotNext` and
`JobsInvNext` show each step keeps each part, with one lemma per kind of step: those that
settle jobs, submit one, stop one, deliver one, and those that touch none. The same kinds
carry the refinement: `StepLifts` shows that each is one step of `JobLifecycle` or none;
its `Settle` takes a set of jobs, for `CancelAll` settles all that are open.

**The history**, for every `Size` and `Line` (`HistoryAssumption`). `TypeOK` is inductive.
`EntriesAreCommands` follows from where a step leaves each entry: `AddMoves` (entry `k`
after an `Add` is entry `k` or `k + 1` before, the last one the new command) and
`RestrictKeeps` (the entries within the limit are not among those erased), both from the
arithmetic of `Place` modulo `Size`: `Wrap`, `PlacesDiffer`, `HeadIsFree`. For the
refinement, `EntriesEqual` says when the ring shows a given sequence, entry by entry, and
`AddRefines`, `ClearRefines` and `RestrictRefines` that this is the one `Recall` holds.

**The session**, for every depth of menus and number of pages (`SessionAssumption`).
Handlers nest, so the invariant is a predicate on sessions, `Good(t)`, and every operator
that makes a session of a session has a lemma: which of them it takes and which it leaves.
`SurfacesAgree` speaks of what is open when a step is over; what it does not say, and what
the proof needs, is what holds inside one: `Running(t)` (the terminal's two modes against
the flags, `Alone(t)`: what may be open together) holds at each call and return, while
`Settled(t)`, that no panel is open without its board, is restored only by whoever closed
the board. `Ready(t)` is what a callback finds when it may open the next workspace.
`DraftKept` follows from what each key does to the two editors.

**Line and queue** (`LineAssumption`, `PartsAssumption`). The ring of `ps_byte_queue` is shown to implement
`ByteStream` from inequalities (`Sizes`), for every capacity a `size_t` holds: `Word` says
that each sum stays below the wrap, `ContentsAre` what stands at which place,
`WriteRefines` and `ConsumeRefines` that the copies in two parts append and remove, and
`PeekShows` that the view is a prefix. Undo and redo come back because the journal shows
the line whenever the next key will step in it: `IsJournal` (its position inside its
frames, no more than `Slots` of them), `RecordKeeps` (what recording does to the frames
before and after it, eviction included), and `PasteAtStart` (during a paste the
snapshot before it is the line it began on). For the prompt, `PromptGood` says who uses
the buffer `saved`: a browse whose depth the user knows, or a search, which takes it from
one. `PromptTypes`, from which its types follow, adds that a completion that is under way
has a list, a candidate in it and the word it replaces in order (`IsCycle`), and that the
suggestion continues the line.

**The event editor** (`EditorAssumption` of `MCLine`: no single snapshot, which the code
does not build; what is typed holds neither the secret's letter nor a control, and names are
made of it), for every history, capacity, journal and kind of terminal. `EditorGood` is that
every character has its place (`Good`) and that the row shows the line (`Synced`), which only
a line waiting to be taken may break, for its row has been left. `Good` says which letters
may be where: a secret in the line, the draft and the snapshots while the echo is off, and
never in the history, the suggestion or on the row. It also says when something is
suggested (`Offered`): the cursor is at the end of an echoed line on an ANSI terminal, there
is room for the suggestion and its blank, and the two are a line of the history or a
name. Each operator of `ps_editor_feed` has a lemma that it keeps both, from what it writes on
the row, character by character (`OverlaidKeeps` and `Fixed` for a plain terminal, where the
rest of a longer line stays behind the shorter one; `UpToIs`, `Appended` for an ANSI one).
`EitherOr`, the hypothesis that a build keeps a journal or is offered suggestions, is
necessary: an undo step changes the line and leaves the suggestion, the finding of
`editor_undo`; without it neither the suggestion nor its size is what the line allows.
`PasteGood` is what a paste needs: the sequence that began it is over, so that its bytes are
characters (`InnerPaste`, `InnerPasted`), and the journal holds a snapshot from before it,
which is the one below the pasted line when it ends (`RecordAfter`).

**Panels** (`PanelAssumption`). `Typed` (the selection is a line of the page, also while a
section above it folds) gives the type invariant. `KeysAskForNext` goes through each key and
click that asks without a draft: the number read is in the range, for `Writable` has just
checked it (`AdjustAsks`), and what each adjustment makes of it is the next
(`AdjustedFits`), whether or not a key may come before the drawing.
Where no key does (`Late = FALSE`), `Honest` adds `Kept`: a draft belongs to the
selected row and is on the screen, its revision is not newer than the control's, and if
it is equal, so is the number its author saw; and `Drawn`: an open board shows its
selection. From `Fresh`, that equal revisions mean equal numbers, a write never replaces a
number nobody saw. The hypothesis is necessary, as `control_late` shows: a host that draws
between two keys meets it, one that feeds several at once does not. For the manager, `Safe` says where in a save and on which
surface it may be, and that unless another process `raced`, the file is what was last
saved; every edit of the document leaves its saved text alone (`NoteEditKeeps` to
`MoveRecordKeeps`), so that what an edit makes of the text does not matter here.

**The hosts** (`RelayAssumption`, `PipelineAssumption`, `ServerAssumption`,
`LocalAssumption`), for any number of bytes, stages, programs, clients and slots, any
sizes of pipes and queues and any inputs.

* `RelayGood`: where the parent is says which modes are taken and what became of the
  program (`RelayPhase`), and what was typed is still to be read, written, answered or shown
  at most once (`RelayBytes`), which bounds what the program has made.
* `PipeGood`: which stages have been started when the launch is at stage `at` or has
  failed, who holds which end of which pipe and which file, and which status a stage
  ended with. From it `PipelineRestores`, for a launch that fails at any point.
* `ServerGood`: a client that is connected has exactly one slot (`SlotOwners`); the bytes it
  took, those the kernel holds and those in the slot's queue are consecutive parts of what
  its own session wrote (`Follows`, in `Peered` and `Queued`). `EachItsOwn` says the first
  only; it is the slot used again after a client left, and the queue that was cut off in a
  partial `send`, that need the rest. `SentInOrder` moves bytes from one to the next.
* `LocalGood`: what the loop holds was read and is not more than it asked for, which modes
  it took on the way, and where the entries of the history file are: in the ring, as
  far as there is room, or still in the file.
* `LocalRuns`: the lines that ran are those that end in what was fed, in order (`Ran`,
  by the number of line ends before each), and the draft is what follows the last of them
  (`OpenEnd`), with a CR LF as one end although its bytes may come in different turns. The
  end of the input closes an open line on every way out. A program of a batch was handed
  the input at its end or after an LF (`LocalHands`). `LineEndsGrow`, `DraftGrows`,
  `RanSame` and `RanMore` say what one more byte does to these.

* `LangGood`, apart from the others, for it needs only its own module and no parser: every
  frame below the top is free of errors, the line that was entered is at the bottom, and
  once the session is left the top's result is the status it left with. A frame that ends
  then hands that result down, so `HostsLeave` follows whatever the plans of the frames.

`HostsReturn` and `HostsBytes` follow from the conjunction, `HostsGood`, in which each part
is required where it runs.

**The screens** (`EditorAssumption`, `HexAssumption`, `FormAssumption`, `FilesAssumption`,
`MenuAssumption`, `ViewAssumption`), for every text, image, form, schema, tree of menus and
tree of directories, and any order of what the device publishes.

* `DocGood`: the draft is the stored text unless it is called modified, also in the
  journal's snapshots, as what "modified" means there is set anew by each save. `UndoGood`: the
  cursor is between whole characters of a text of whole characters, before and after each
  step, and the journal holds what the last step took (`Owed`); `InsertCharText` carries
  both through a character that is inserted byte by byte, of which every byte asks for the
  undo again.
* `HexGood` needs no more than the types of its images; `HexFine` adds that a byte stays a
  byte when half of it is typed (`NibbledIsByte`) and that the cursor is on one, or at the
  start of an empty image.
* `FormGood`: the fields before the one being edited pass the caller's check against what
  is stored (`PassedBefore`). Going back to a field and changing it does not re-check those
  after it; it is walking forward again that does. The check the caller supplies may look at
  the other fields, and the code runs it once per field, on the way: hence the hypothesis
  `LooksBack` of `OnlyValidLeavesScreens`, that the check of a field looks at none after it, as
  that of a repeated password does. For a check that looks ahead the claim is false, for the
  field it looked at may change after the check.
* `DraftGood`: an open draft has the key, the value seen and the secrecy of the row the view
  was last on, and a closed one has left nothing. What makes it long is that a key may pass
  through a dozen operators, each of which closes the draft, keeps it or (only if there
  is none) opens one: `Held` and `Opens` say which, `Grants` says the same of what is asked
  of the device. A request is for the row under the cursor *after* the sections are synced
  with the snapshot that came in between, and that row still has the key and the value
  the user saw.
* `ViewSound`: what the view asks for is allowed by the schema it was shown, and the screen
  is sound. The second is about what the view does *not* paint: rows whose stamp did not
  change are kept. `Sound` says that unless a painting is due (`dirty`), there is a snapshot the
  view is in line with (`Steady`: its schema is the one the view knows, the selection one of its
  rows, or the heading of a folded section), whose hash is the one kept and whose rows are
  those on the terminal (`Depicts`); and that while the table is on the screen, the stamps
  kept of its rows are of what is there (`Retained`): both for the one pen that wrote all that
  is there (`Solo`), if there is only one. `ScreenIsCurrent` by
  itself is not inductive, for between a snapshot and the painting that follows the screen is
  the old one, and a key may come between. Each operator a key, a click or a
  painting is made of keeps the types of the view (`Typed`), asks for a painting if it changes
  what is shown (`Does`), and leaves a view in line with the snapshot in line with it.
  `RenderSound` then goes through the painting: that the hash differs whenever the rows do
  (`HashLines`), so that what is skipped is what would have been painted. Two pens are where this
  argument ends, and so does the code: after a page of cells, or a switch of glyphs that did
  not paint everything, an unchanged stamp says nothing of what is on its line (`cells_left`).
  With one pen no hypothesis on the build or the provider is left.
* `MenuGood`: each menu of the path is what the item it was entered from leads to
  (`Linked`), and what is shown is the item at the cursor (`Faithful`). The number line, the
  filtered list and the table count rows differently, which is what resizing mixes up.
  `MenuFine`: in a view with rows the cursor is on one of them, whichever way the rows became
  fewer; the path is no deeper than the array that holds it.
* `FilesGood`: the nodes hang below earlier ones (`Rooted`), the selections and the
  directory are in the snapshot, and a focused panel shows its selection. In the split
  layout the tree may show another row than it selects, for loading the directory under the
  cursor comes after the cursor is placed; but it has only folders (`VisibleRows`), and a
  folder is not picked.

**Lemmas about sets, and induction.** `Bounds_proofs` has that a set of numbers has a least,
and a bounded one a greatest element, from the well-foundedness of `<`: for `Min`, `Max` and
the `CHOOSE`s of panel, journal and host. The library's induction takes an operator, which
the provers cannot instantiate; `Counted` says it of a set instead, and is enough for the
recursive functions of these modules: that one exists (`InsertedExists`, `AppendedExists`,
`BelowExists`) and what each of its values is (`InsertCharText`, `FlatIn`, `VisibleRows`). A
directory's rows are defined from the rows below its later nodes, hence the induction runs
from the last node to the first.

**Only model-checked**:

* liveness (`EveryJobEnds`, `Settles`, `EverythingReturns`): out of reach of this
  prover under fairness;
* what depends on the result of a parser, a recursion over text of which only the whole
  result matters: the document's (`EditsGoHome`, the types of the manager), and that of the
  command language (`LanguageHolds`, and with its types `HostsTypeOK`);
* the pool's clock (`VisitsAreExact`): the argument counts turns of the loop
  against ticks, and is bounded by the run's constants;
* the line of the terminal (`TerminalLink`): not attempted yet (section 6).

## 5. What is not modelled

Layout and drawing (rich text, meters, table columns), for their result is text
and not a protocol; the Windows and UEFI hosts and their processes, which do over other
system calls what `LocalHost`, `TelnetServer` and `HostProcess` do; key bindings and the
words of a command line; mouse reports as bytes, the legacy and extended keys and batch
input of the decoder; static sections, the category column, the dashboard layout and text
values of a panel; wrapping and scrolling of dialogs and editors (a cursor key reaches any
whole character); charts and column widths of the device view; the size of the window,
`TERM` and what bytes say, behind the relay; `cd`, `pwd`, `env` and `2>` of the command
language, and all but one of its variables; the settings editor and the ticked job;
terminals under 42 by 14, which never draw a board. `PROJECT.json` gives the reason for
each part.

## 6. Plan

All components with a protocol of their own have a module. To come:

1. **Proofs**: `TerminalLink`'s `LinkTypeOK`, then `LinkAgrees`.
2. **Lists and tables**: the table's filter and selection under rows that change.
3. **Settings editor** over its schema, and the retained screen's diff against a full
   painting.

The module of each component comes with its abstract specification first, then a
run that asks of it everything at the smallest size where each hazard occurs, then its
proofs in a module `…_proofs`. Constants carry named assumptions no stronger than what the
code enforces.

## 7. Running

    tlc -config Host.cfg MCHost
    tlapm AsyncPool_proofs.tla

| Configuration | Module |
| --- | --- |
| `AsyncPool`, `AsyncPool_live` | `MCAsyncPool` |
| `Loop` | `MCLoop` |
| `Line`, `UndoJournal_whole`, `Prompt_tab`, `Editor_undo` | `MCLine` |
| `Panels`, `ControlPanel_late` | `MCPanels` |
| `Screens`, `Screens_cells` | `MCScreens` |
| `Host` | `MCHost` |

`UndoJournal_whole`, `Prompt_tab`, `ControlPanel_late`, `Editor_undo` and `Screens_cells`
end with the counterexamples of the findings.
