\* A relay, a pipeline of three, a server of two slots, a local session, a line.
SPECIFICATION HostsSpec
CONSTANTS
  Parts = {"relay", "pipeline", "server", "local", "language"}
  Typed = 3
  Chunk = 2
  InRoom = 5
  OutRoom = 4
  Extra = 1
  MayLeave = {TRUE, FALSE}
  Stages = 3
  Programs <- MCPrograms
  Redirects = {2}
  PipeRoom = 1
  Conns = 3
  Slots = 2
  Queue = 1
  Wire = 1
  Keys <- MCKeys
  Reply = 2
  Options <- MCOptions
  Inputs <- MCInputs
  ReadAhead = 3
  Readers = {"p"}
  Bye = "x"
  Saved <- MCSaved
  Kept = 3
  Entries <- MCEntries
  Scripts <- MCScripts
  Commands = 3
  Depth = 2
  Streams = {"echo"}
  Others = {"setenv", "exit", "source"}
INVARIANTS HostsTypeOK LeavesNothingBehind BytesAreTheirs LanguageHolds
PROPERTIES EverythingReturns LeavingIsFinal
CHECK_DEADLOCK FALSE
