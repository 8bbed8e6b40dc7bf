\* Keys may come before the board is drawn.
SPECIFICATION PanelsSpec
CONSTANTS
  Parts = {"control"}
  Pages <- MCPages
  Width = 3
  MaxMoves = 2
  Late = TRUE
  MaxLines = 3
  Bare = {"v"}
  Quoted = {"q"}
  Files <- MCFiles
  Drafts <- MCDrafts
  Keys = {"A"}
  Edits = 2
  Saves = 1
INVARIANT DraftGoesHome
