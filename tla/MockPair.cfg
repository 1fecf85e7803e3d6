SPECIFICATION FairSpec
CONSTANTS
  Ends = {"a", "b"}
  None = None
  Programs <- MCPrograms
  ReadSize = 1
  SendLen = 2
  Cap = 2
  MaxSends = 2
  MaxFaults = 2
INVARIANTS EndOfStreamIsTheEnd
PROPERTIES PairCarriesStreams CallsOutliveFaults
CHECK_DEADLOCK FALSE
