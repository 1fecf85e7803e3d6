--------------------------- MODULE MCLinuxBackend ---------------------------
(* Finite instances of LinuxBackend: two processes on one device. *)
EXTENDS LinuxBackend, TLC

BackendSymmetry == Permutations(Backends)
=============================================================================
