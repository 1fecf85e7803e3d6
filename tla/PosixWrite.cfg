SPECIFICATION FairSpec
CONSTANTS
  Tasks = {1, 2}
  NoTask = NoTask
  Program <- WriteProgram
  Enabled = {"cancel", "unplug", "spurious"}
  ReadSizes = {}
  SendSizes = {0, 2}
  MaxSends = 2
  OutCap = 1
  MaxIn = 0
  ReadChunk = 1
  Configs = {c1}
INVARIANTS TypeOK 
PROPERTIES SendComplete WritesAStream OutputCallsReturn CancelEndsCalls
