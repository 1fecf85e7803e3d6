SPECIFICATION Spec
CONSTANTS
  Tasks = {t1}
  NoTask = NoTask
  Program <- CloseProgram
  Enabled = {"cancel"}
  ReadSizes = {}
  SendSizes = {}
  MaxSends = 0
  OutCap = 1
  MaxIn = 0
  ReadChunk = 1
  Configs = {c1}
INVARIANTS AcloseCloses
