SPECIFICATION Spec
CONSTANTS
  Backends = {b1, b2}
  Termios = {T1, T2}
  Rs485s = {R1}
  Policies = {"RAISE", "IGNORE"}
  Exclusive = TRUE
  MayFail = {"os_open", "tcsetattr", "low_latency", "not_ftdi", "ftdi_timer", "TIOCGRS485", "TIOCSRS485", "restore_flags", "restore_timer", "restore_rs485"}
  None = None
INVARIANTS ClosedHoldsNothing DeviceRestored ConfigApplied
SYMMETRY BackendSymmetry
