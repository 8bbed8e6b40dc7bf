---------------------------- MODULE FileBrowser ----------------------------
(* The file browser of src/src/portable_files.inc: a snapshot of a directory *)
(* tree that its provider extends one directory at a time, shown as a tree,  *)
(* as the listing of one directory, or as both.  Scrolling, icons and names  *)
(* are left out.                                                             *)
EXTENDS Integers, Sequences, SequencesExt

CONSTANTS
  Children,    \* the provider's directory tree: the children of each name
  Folders, Disabled, Unreadable,  \* the names that are directories, those
                                  \* barred, and those the loader fails on
  TopFolder    \* the name of the first node

VARIABLES
  files,       \* the file_* fields of the session; shown and asked are history:
               \* the selection painted last, the nodes the loader was called for
  picked       \* what the pick callback was told: a sequence of names
filesVars == <<files, picked>>

FirstNode == 1
NoParent == 0

\* A provider names what it lists.
ASSUME FilesAssumption ==
  TopFolder \in STRING /\ \A n \in Folders \ (Disabled \cup Unreadable) : Children[n] \in Seq(STRING)

\* The nodes of the snapshot: a sequence of [name, parent].
Ids(f) == 1..Len(f.nodes)
IsFolder(f, id) == f.nodes[id].name \in Folders
IsDisabled(f, id) == f.nodes[id].name \in Disabled

Split(f) == f.layout = "split" /\ f.wide

\* file_visible: the expanded tree in order, folders alone in the split layout.
Visible(nodes, foldersOnly, expanded) ==
  LET below[p \in 0..Len(nodes)] ==
        FlattenSeq([i \in 1..Len(nodes) |->
          IF nodes[i].parent # p \/ (foldersOnly /\ nodes[i].name \notin Folders) THEN <<>>
          ELSE <<i>> \o (IF i \in expanded THEN below[i] ELSE <<>>)])
  IN  below[NoParent]
TreeRows(f) == Visible(f.nodes, f.layout = "split", f.expanded)
\* file_listing: what the current directory holds.
Within(nodes, dir) ==
  FlattenSeq([i \in 1..Len(nodes) |-> IF nodes[i].parent = dir THEN <<i>> ELSE <<>>])
Listing(f) == Within(f.nodes, f.dir)

\* Mutant: a directory that could not be read is asked for again.
LoadUntilRead(f, id) ==
  IF ~IsFolder(f, id) \/ IsDisabled(f, id) \/ f.loaded[id] THEN f
  ELSE LET name == f.nodes[id].name
           new == IF name \in Unreadable THEN <<>>
                  ELSE [k \in 1..Len(Children[name]) |-> [name |-> Children[name][k], parent |-> id]]
       IN  [f EXCEPT !.nodes = @ \o new, !.asked = Append(@, id),
                     !.loaded = [@ EXCEPT ![id] = name \notin Unreadable] \o [k \in 1..Len(new) |-> FALSE]]
\* file_load: a directory is asked for once, also when it could not be read.
Load(f, id) ==
  IF ~IsFolder(f, id) \/ IsDisabled(f, id) \/ f.loaded[id] THEN f
  ELSE LET name == f.nodes[id].name
           new == IF name \in Unreadable THEN <<>>
                  ELSE [k \in 1..Len(Children[name]) |-> [name |-> Children[name][k], parent |-> id]]
       IN  [f EXCEPT !.nodes = @ \o new, !.asked = Append(@, id),
                     !.loaded = [@ EXCEPT ![id] = TRUE] \o [k \in 1..Len(new) |-> FALSE]]

\* file_focus_directory.
FocusOn(f, id) ==
  IF ~IsFolder(f, id) THEN f
  ELSE Load([f EXCEPT !.dir = id, !.list = IF f.dir = id THEN @ ELSE 1], id)

Bounded(i, rows) == IF rows = <<>> THEN 1 ELSE IF i > Len(rows) THEN Len(rows) ELSE i
InListing(f) == f.layout = "list" \/ (f.layout = "split" /\ (~Split(f) \/ f.pane))

\* The rows of the panel that has the focus, and the selected one, before it is clamped.
Panel(f) == IF InListing(f) THEN Listing(f) ELSE TreeRows(f)
At(f) == IF InListing(f) THEN f.list ELSE f.tree
Selected(f) == Panel(f)[Bounded(At(f), Panel(f))]

\* file_render: the selections stay within their panels, the split layout lists
\* the directory the tree points at, and the focused panel shows a selection.
InTree(f) == [f EXCEPT !.tree = Bounded(@, TreeRows(f))]
Aimed(f) == IF Split(f) /\ TreeRows(f) # <<>> THEN FocusOn(f, TreeRows(f)[f.tree]) ELSE f
InList(f) == [f EXCEPT !.list = Bounded(@, Listing(f))]
Showing(f, rows) == [f EXCEPT !.shown = IF rows = <<>> THEN "" ELSE f.nodes[rows[At(f)]].name]
Drawn(f) == Showing(f, Panel(f))
PaintFiles(f) == Drawn(InList(Aimed(InTree(f))))

\* The row of a visible node becomes the selection of the tree.
PointAt(f, id) ==
  LET rows == TreeRows(f)
  IN  [f EXCEPT !.tree = IF Contains(rows, id) THEN CHOOSE i \in 1..Len(rows) : rows[i] = id ELSE @]

RepaintFiles(f) == files' = PaintFiles(f) /\ UNCHANGED picked

FilesClosed(f) ==
  [open |-> FALSE, layout |-> f.layout, wide |-> f.wide, nodes |-> <<>>, loaded |-> <<>>,
   expanded |-> {}, tree |-> 1, list |-> 1, dir |-> FirstNode, pane |-> FALSE, shown |-> "",
   asked |-> <<>>]

\* Esc and Ctrl-C tell the callback of no file.
FilesCancel ==
  /\ files.open
  /\ files' = FilesClosed(files) /\ picked' = Append(picked, "")

FilesTab == files.open /\ Split(files) /\ RepaintFiles([files EXCEPT !.pane = ~@])

\* Left and Backspace in the listing: to the parent, whose row the tree selects.
FilesUp ==
  /\ files.open /\ InListing(files)
  /\ LET parent == files.nodes[files.dir].parent
         there == FocusOn([files EXCEPT !.expanded = @ \cup {parent}], parent)
     IN  RepaintFiles(IF parent = NoParent THEN files ELSE PointAt(there, parent))

Moved(f, i) == IF InListing(f) THEN [f EXCEPT !.list = i] ELSE [f EXCEPT !.tree = i]

\* A folder is loaded and shown open, or folded if it was open already.
Opening(f, id, always) ==
  [Load(f, id) EXCEPT !.expanded = IF always \/ id \notin @ THEN @ \cup {id} ELSE @ \ {id}]
CanOpen(f, id) == IsFolder(f, id) /\ ~IsDisabled(f, id)

\* The cursor keys reach any row of the focused panel.
FilesSelect(i) == files.open /\ i \in 1..Len(Panel(files)) /\ RepaintFiles(Moved(files, i))

\* A click focuses the panel it hits; on the icon of a folder in the tree it
\* opens or folds that folder too.
FilesClick(inListing, i, onIcon) ==
  /\ files.open /\ (Split(files) \/ inListing = InListing(files))
  /\ LET f == [files EXCEPT !.pane = inListing]
     IN  /\ i \in 1..Len(Panel(f))
         /\ IF ~onIcon THEN RepaintFiles(Moved(f, i))
            ELSE ~inListing /\ CanOpen(f, Panel(f)[i])
                 /\ RepaintFiles(Opening(Moved(f, i), Panel(f)[i], FALSE))

\* Left in the tree: fold the folder, or go to the row of its parent.
FilesFold ==
  /\ files.open /\ ~InListing(files) /\ Panel(files) # <<>>
  /\ LET id == Selected(files)
     IN  RepaintFiles(IF id \in files.expanded THEN [files EXCEPT !.expanded = @ \ {id}]
                 ELSE PointAt(files, files.nodes[id].parent))

\* Right, Space and Enter on a folder; the listing enters it.
FilesOpenFolder(always) ==
  /\ files.open /\ Panel(files) # <<>> /\ (InListing(files) => always)
  /\ LET id == Selected(files)
         f == Opening(files, id, always)
     IN  /\ CanOpen(files, id)
         /\ RepaintFiles(IF InListing(files) THEN PointAt(FocusOn(f, id), id) ELSE f)

\* Enter on a file.
FilesPick ==
  /\ files.open /\ Panel(files) # <<>>
  /\ LET id == Selected(files)
     IN  /\ ~IsFolder(files, id) /\ ~IsDisabled(files, id)
         /\ picked' = Append(picked, files.nodes[id].name)
         /\ files' = FilesClosed(files)

\* Mutant: a resize that does not repaint.
FilesResizeQuiet == files.open /\ files' = [files EXCEPT !.wide = ~@] /\ UNCHANGED picked
\* ps_resize across the width the split layout needs.
FilesResize == files.open /\ RepaintFiles([files EXCEPT !.wide = ~@])

\* ps_file_browser_open loads the top and expands it.
FilesInit ==
  /\ \E layout \in {"tree", "list", "split"}, wide \in BOOLEAN :
       LET new == [FilesClosed([layout |-> layout, wide |-> wide])
                     EXCEPT !.open = TRUE, !.expanded = {FirstNode}, !.loaded = <<FALSE>>,
                            !.nodes = <<[name |-> TopFolder, parent |-> NoParent]>>]
       IN  files = PaintFiles(Load(new, FirstNode))
  /\ picked = <<>>

FilesNext ==
  \/ FilesCancel \/ FilesTab \/ FilesUp \/ FilesFold \/ FilesPick \/ FilesResize
  \/ \E b \in BOOLEAN : FilesOpenFolder(b)
  \/ \E i \in Ids(files) : FilesSelect(i) \/ \E b, c \in BOOLEAN : FilesClick(b, i, c)

-----------------------------------------------------------------------------
FilesTypeOK ==
  /\ \A i \in Ids(files) : files.nodes[i].parent < i
  /\ Len(files.loaded) = Len(files.nodes)
  /\ files.expanded \subseteq Ids(files)
  /\ Len(picked) = IF files.open THEN 0 ELSE 1

\* What the callback is told of is what the focused panel showed as selected,
\* through folding, switching panels and resizing; never a folder.
PicksWhatIsShown ==
  picked' # picked /\ Last(picked') # "" =>
       Last(picked') = files.shown /\ Last(picked') \notin Folders \cup Disabled

\* "Each directory is loaded once per open session", also one that failed.
LoadedOnce == IsInjective(files.asked)
=============================================================================
