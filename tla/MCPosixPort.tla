---------------------------- MODULE MCPosixPort ----------------------------
(***************************************************************************)
(* Finite instances of PosixPort.  Each cfg sets how many tasks share the  *)
(* port, what each of them does and how long the streams are.              *)
(***************************************************************************)
EXTENDS PosixPort, TLC

\* Two readers; one also holds BREAK and waits for a worker thread, the other
\* flushes, queries and closes.
ReadProgram ==
  <<{"receive", "receive_into", "receive_available", "drain_exact",
     "send_break"},
    {"receive", "reset_input_buffer", "input_waiting", "output_waiting",
     "aclose"}>>

\* Two writers, one of which also flushes, handles the control lines and
\* closes.
WriteProgram ==
  <<{"send", "send_eof", "drain", "drain_exact"},
    {"send", "reset_output_buffer", "modem_lines", "set_control_lines",
     "aclose"}>>

\* Tasks that do everything a lock protects are interchangeable.
ControlProgram == [t \in Tasks |-> {"configure", "aclose"}]
CloseProgram == [t \in Tasks |-> {"aclose"}]
TaskSymmetry == Permutations(Tasks)
=============================================================================
