--------------------------- MODULE MCWindowsPort ---------------------------
(* Finite instances of WindowsPort: operations are numbered, so that FreeOp is
   the lowest free one. *)
EXTENDS WindowsPort
=============================================================================
