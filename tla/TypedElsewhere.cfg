SPECIFICATION CollabSpec
CONSTANTS
  Tabs = {c1, c2}
  Letters = {x, y}
  Keystrokes = 2
  MaxNames = 2
INVARIANT SameTextEverywhere
CHECK_DEADLOCK FALSE
