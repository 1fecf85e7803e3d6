----------------------------- MODULE OutputStream -----------------------------
(***************************************************************************)
(* What the writing side of a SerialPort promises: sends are served one at *)
(* a time, the kernel is given the bytes of the send in progress in order, *)
(* from the first one on, without a gap or a repetition, in as many pieces *)
(* as it likes, and nothing once the port is closed.  A send may end early *)
(* (cancelled, closed, failed), and then a prefix of it has been accepted. *)
(***************************************************************************)
EXTENDS Naturals, Sequences

VARIABLES
  open,     \* the kernel still takes bytes
  started,  \* number of sends that have begun
  current,  \* the number of the send in progress, 0 if there is none
  accepted  \* <<send, index>> of every byte the kernel has accepted, in order

vars == <<open, started, current, accepted>>

Init == open = TRUE /\ started = 0 /\ current = 0 /\ accepted = <<>>

Begin ==
  /\ open /\ current = 0
  /\ started' = started + 1
  /\ current' = started + 1
  /\ UNCHANGED accepted

\* How many bytes of the send in progress have been accepted.
Progress ==
  IF accepted # <<>> /\ accepted[Len(accepted)][1] = current
  THEN accepted[Len(accepted)][2] ELSE 0

\* The next k bytes of the send in progress; its last piece may end it.
Accept ==
  LET k == Len(accepted') - Len(accepted)
  IN  /\ open /\ current # 0
      /\ k > 0
      /\ accepted' = accepted \o [i \in 1..k |-> <<current, Progress + i>>]
      /\ current' \in {current, 0}
      /\ UNCHANGED started

End ==
  /\ current' = 0
  /\ UNCHANGED <<started, accepted>>

Next ==
  /\ open' \in BOOLEAN /\ (open' => open)
  /\ Begin \/ Accept \/ End \/ UNCHANGED <<started, current, accepted>>

Spec == Init /\ [][Next]_vars
=============================================================================
