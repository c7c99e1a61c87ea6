CONSTANTS
  MaxCommands = 2
  Capacity = 1
SPECIFICATION Spec
INVARIANT CombinedOutput
