SPECIFICATION FairSpec
CONSTANTS
  Tasks = {1, 2}
  NoTask = NoTask
  Program <- ReadProgram
  Enabled = {"cancel", "unplug"}
  ReadSizes = {0, 2}
  SendSizes = {}
  MaxSends = 0
  OutCap = 1
  MaxIn = 3
  ReadChunk = 1
  Configs = {c1}
INVARIANTS GuardsExact ClosedMeansReleased NoIOAfterClose InputConserved RawErrors BreakReleased
PROPERTIES CancelledMovesNothing ReadsAStream QueuedBytesAreRead CloseEndsCalls
