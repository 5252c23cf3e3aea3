\* Whether stored toggles fit the stored level: the default scope alone shows it.
CONSTANTS
  Cirvias = {}
  Chats = {}
  NoScope = NoScope
SPECIFICATION ScopesSpec
INVARIANT TogglesFitLevel
CHECK_DEADLOCK FALSE
