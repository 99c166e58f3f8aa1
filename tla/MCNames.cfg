SPECIFICATION Spec
CONSTANTS
  Procs = {"p1", "p2"}
  NoProc = NoProc
  NINODES = 4
  Names = {"a", "b"}
  Calls <- TwoRoles
INVARIANTS EntriesExact CallsProceed
CONSTRAINT ParentKept
PROPERTIES LinksBalanced FreedOnlyUnused
