SPECIFICATION FairSpec
CONSTANTS
  Threads = {h1, h2}
  Ports = {p1, p2}
  Providers = {q1, q2}
  Backends = {a1, a2}
  None = None
  SharedClose = FALSE
  Features = {"start_fails", "open_fails", "timeout", "configure", "del"}
INVARIANTS LeasesExact OpenPortsAreServed PortalsAccounted
PROPERTIES CloseEndsMethods LastCloseStopsPortal
CHECK_DEADLOCK FALSE
