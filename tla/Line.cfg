\* Five parts of the line, each from its initial state.
SPECIFICATION LineSpec
CONSTANTS
  Parts = {"history", "queue", "undo", "prompt", "editor"}
  Line = {ls, ps, w}
  Size = 4
  Blank = Blank
  Byte = {b0, b1}
  QueueCapacity = 5
  WordMod = 8
  Slots = 3
  Buffer = 3
  Ascii = {"a"}
  Recalled <- MCRecalled
  Char = {"a"}
  Length = 4
  Most = 2
  Remembered <- MCRemembered
  Commands <- MCCommands
  Builds <- MCBuilds
  Admitted <- MCAdmitted
  Names <- MCNames
INVARIANTS LineTypeOK EntriesAreCommands SuggestionsHold EditorShows
PROPERTIES Recalls QueueIsStream ComesBack Pastes
