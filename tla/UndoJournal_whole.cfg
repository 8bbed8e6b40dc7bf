\* The journal of the line, and letters of two bytes.
SPECIFICATION LineSpec
CONSTANTS
  Parts = {"undo"}
  Line = {ls, ps, w}
  Size = 4
  Blank = Blank
  Byte = {b0, b1}
  QueueCapacity = 5
  WordMod = 8
  Slots = 3
  Buffer = 3
  Ascii = {"a"}
  Recalled <- MCRecalled
  Char = {"a"}
  Length = 4
  Most = 2
  Remembered <- MCRemembered
  Commands <- MCCommands
  Builds <- MCBuilds
  Admitted <- MCAdmitted
  Names <- MCNames
INVARIANT WholeCharacters
