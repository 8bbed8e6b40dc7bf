\* A host that opens workspaces from its callbacks and from its loop, and a line whose
\* terminal types, asks for options and answers.
SPECIFICATION LoopSpec
CONSTANTS
  Parts = {"session", "link"}
  MaxDepth = 3
  Pages = 2
  BufSize = 6
  Limit = 3
  ClockMod = 6
  Option = {"echo", "naws", "ttype", "linemode"}
  Ours = {"echo"}
  Theirs = {"naws", "ttype"}
  SubMax = 2
  Kinds = {"serial", "telnet"}
  Eols <- LineEnds
  Toggles <- SomeToggles
  Sizes = {"w1", "IAC"}
  MaxGap = 1
  Spread = 1
  Pause = 5
  WireMax <- UnderWay
INVARIANTS TypeOK SurfacesAgree LinkTypes LinkAgrees
PROPERTIES DraftKept Settles
CHECK_DEADLOCK FALSE
