SPECIFICATION Spec
CONSTANTS
  MaxShims = 1
  MaxAsks = 2
INVARIANTS DiagnosedOnceStopped
