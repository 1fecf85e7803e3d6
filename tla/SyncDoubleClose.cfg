SPECIFICATION Spec
CONSTANTS
  Threads = {h1, h2}
  Ports = {p1, p2}
  Providers = {q1}
  Backends = {a1}
  None = None
  SharedClose = TRUE
  Features = {}
INVARIANTS OpenPortsAreServed
