SPECIFICATION Spec
CONSTANTS
  NPROC = 4
  Cpus = {c1, c2}
  NoCpu = NoCpu
  PreemptAt = {"user", "wait", "fork_run"}
  KillPids = {3}
  MaxPid = 4
INVARIANTS OneCpuPerStack TableSound LockDiscipline NoOrphans NoLostWakeup
SYMMETRY Sym
