SPECIFICATION Spec
CONSTANTS
  NUM = 7
  WORD = 14
  Procs = {p1, p2, p3}
  Blocks = {k1, k2, k3}
  Val = {v0, v1}
  Zero = v0
  None = None
INVARIANTS RingsSound NobodyForgotten
PROPERTIES IsDiskRequests
SYMMETRY Sym
