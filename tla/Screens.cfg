\* The dialogs of the session and the device view, each from its initial states.
SPECIFICATION ScreensSpec
CONSTANTS
  Parts = {"document", "hex", "form", "files", "menu", "device"}
  Chars <- MCChars
  Capacity = 2
  Notes <- MCNotes
  Bytes = 2
  Columns = 2
  DigitOf <- MCDigitOf
  CodeOf <- MCCodeOf
  Images <- MCImages
  Fields <- MCFields
  Filled <- MCFilled
  Letters = {"x", "y"}
  Cells = 3
  Refuses <- MCRefuses
  Children <- MCChildren
  Folders = {"root", "sub", "inner", "bad", "link"}
  Disabled = {"link"}
  Unreadable = {"bad"}
  TopFolder = "root"
  Menus <- MCMenus
  TopMenu = "top"
  MenuDepth = 3
  Filters = {"o", "e"}
  Hits <- MCHits
  Digits = {0, 1}
  Snapshots <- MCSnapshots
  Drafts = {"off"}
  Levels <- MCLevels
  TableLines = 2
  Batch = 1
  Matrix = TRUE
INVARIANTS ScreensTypeOK DraftsAreHonest OnlyValidLeaves ShowsWhatIs
PROPERTIES ActsOnWhatIsShown
CHECK_DEADLOCK FALSE
