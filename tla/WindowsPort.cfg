SPECIFICATION FairSpec
CONSTANTS
  Tasks = {t1, t2}
  Ops = {1, 2}
  None = None
  Programs = {{"receive", "reset_input_buffer", "aclose", "cancel"},
              {"receive", "aclose", "unplug"},
              {"send", "reset_output_buffer", "aclose", "cancel", "unplug"},
              {"drain", "send_break", "modem_lines", "set_control_lines", "input_waiting",
               "output_waiting", "aclose", "cancel", "unplug"},
              {"wait_modem_event", "configure", "aclose", "cancel", "unplug"}}
  Chunk = 2
  SendLen = 2
  MaxIn = 2
  Configs = {c1, c2}
INVARIANTS MemoryPinned HandleReleased
PROPERTIES ErrorsHaveCause ReadsAStream CloseEndsCalls CancelEndsCalls
CHECK_DEADLOCK FALSE
