----------------------------- MODULE MCMockPair -----------------------------
(***************************************************************************)
(* Finite instances of MockPair.  The ends are a and b; what runs in one   *)
(* direction of the pair meets the other one only when an end is closed.   *)
(***************************************************************************)
EXTENDS MockPair

\* A writer whose sends are cut and interrupted, a reader that is interrupted,
\* either of which closes; the same with I/O errors and cancellation; a writer
\* against an end that resets, peeks and closes; both directions at once; and
\* the line controls.
MCPrograms ==
  {[a |-> {"send", "eintr_writes", "short_write_max", "aclose"},
    b |-> {"receive", "eagain_reads", "aclose"}],
   [a |-> {"send", "eagain_writes", "disconnected", "cancel"},
    b |-> {"receive", "eintr_reads", "raise_eio_on_read", "parity_errors",
      "disconnected", "cancel"}],
   [a |-> {"send", "receive", "aclose"},
    b |-> {"send", "receive", "reset_input_buffer", "input_waiting", "aclose"}],
   [a |-> {"set_control_lines", "modem_lines", "send_break", "drain",
      "reset_output_buffer", "aclose"},
    b |-> {"set_control_lines", "modem_lines", "send_break", "aclose"}]}
=============================================================================
