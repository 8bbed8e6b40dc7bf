\* The event editor that keeps a journal and offers suggestions, as by default.
SPECIFICATION LineSpec
CONSTANTS
  Parts = {"editor"}
  Line = {ls, ps, w}
  Size = 4
  Blank = Blank
  Byte = {b0, b1}
  QueueCapacity = 5
  WordMod = 8
  Slots = 3
  Buffer = 3
  Ascii = {"a"}
  Recalled <- MCRecalled
  Char = {"a"}
  Length = 4
  Most = 2
  Remembered <- MCRemembered
  Commands <- MCCommands
  Builds <- BothBuilds
  Admitted <- MCAdmitted
  Names <- MCNames
INVARIANT SuggestionsHold
