SPECIFICATION Spec
CONSTANTS
  Usb = {u1, u2}
  Boards = {b1}
  Names = {1, 2, 3}
  Consoles = {0}
  Locations = {l1, l2}
  Hub = Hub
  Null = Null
  MaxChanges = 3
INVARIANTS StayedPortsListed HandlesReleased
SYMMETRY UsbSymmetry
CHECK_DEADLOCK FALSE
