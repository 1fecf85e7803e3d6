SPECIFICATION Spec
CONSTANTS
  Tasks = {t1, t2, t3}
  NoTask = NoTask
  Program <- ControlProgram
  Enabled = {"cancel", "unplug", "del"}
  ReadSizes = {}
  SendSizes = {}
  MaxSends = 0
  OutCap = 1
  MaxIn = 0
  ReadChunk = 1
  Configs = {c1, c2}
INVARIANTS LockDiscipline
PROPERTIES ClosedIsFinal ConfigMatchesKernel
SYMMETRY TaskSymmetry
CHECK_DEADLOCK FALSE
