SPECIFICATION Spec
CONSTANTS
  MAX_COL = 16
  MAX_ROW = 3
  Text = {"plain", "newline", "tab"}
  KeyCodes = {"plain", "enter", "tab", "backspace", "release"}
  MaxKeys = 3
INVARIANTS TypeOK CursorOnScreen WritesNearScreen
PROPERTY CharacterPrinted
