\* The control panel is drawn before every key; the file is changed by others.
SPECIFICATION PanelsSpec
CONSTANTS
  Parts = {"control", "env"}
  Pages <- MCPages
  Width = 3
  MaxMoves = 2
  Late = FALSE
  MaxLines = 3
  Bare = {"v"}
  Quoted = {"q"}
  Files <- MCFiles
  Drafts <- MCDrafts
  Keys = {"A"}
  Edits = 2
  Saves = 2
INVARIANT PanelsTypeOK
PROPERTIES KeysAskForTheNext EditsGoHome NothingOverwritten NothingIsLost
