\* The device view from the page of cells, with the screen it has by default.
SPECIFICATION ScreensSpec
CONSTANTS
  Parts = {"device"}
  Chars <- MCChars
  Capacity = 2
  Notes <- MCNotes
  Bytes = 2
  Columns = 2
  DigitOf <- MCDigitOf
  CodeOf <- MCCodeOf
  Images <- MCImages
  Fields <- MCFields
  Filled <- MCFilled
  Letters = {"x", "y"}
  Cells = 3
  Refuses <- MCRefuses
  Children <- MCChildren
  Folders = {"root", "sub", "inner", "bad", "link"}
  Disabled = {"link"}
  Unreadable = {"bad"}
  TopFolder = "root"
  Menus <- MCMenus
  TopMenu = "top"
  MenuDepth = 3
  Filters = {"o", "e"}
  Hits <- MCHits
  Digits = {0, 1}
  Snapshots <- MCCells
  Drafts = {"off"}
  Levels <- MCLevels
  TableLines = 2
  Batch = 1
  Matrix = TRUE
INVARIANT LinesAreCurrent
CHECK_DEADLOCK FALSE
