----------------------------- MODULE MCDiscovery -----------------------------
(* A finite instance of Discovery. *)
EXTENDS Discovery, TLC

UsbSymmetry == Permutations(Usb) \cup Permutations(Locations)
=============================================================================
