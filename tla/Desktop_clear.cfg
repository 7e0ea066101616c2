SPECIFICATION Spec
CONSTANTS
  MAX_WINDOWS = 2
  MaxOpened = 2
  Buffers = 2
  Types = {"Terminal"}
  Size = {"normal", "full"}
  MaxMatches = 1
PROPERTIES ClearsOnlyActive
