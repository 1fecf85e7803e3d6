SPECIFICATION Spec
CONSTANTS
  Tasks = {t1, t2}
  Ops = {1, 2}
  None = None
  Programs = {{"receive", "aclose"}}
  Chunk = 1
  SendLen = 1
  MaxIn = 1
  Configs = {c1}
INVARIANTS CloseRaisesClosed
CHECK_DEADLOCK FALSE
