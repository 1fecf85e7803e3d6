----------------------------- MODULE InputStream -----------------------------
(***************************************************************************)
(* What the reading side of every SerialPort promises, whatever it runs    *)
(* on: the bytes of the peer come out in the order they went in, each at   *)
(* most once, none out of nothing, and none after the port is closed.      *)
(* Bytes may be lost, but only where the port discards them in bulk (a     *)
(* flush, a hang-up, the close, a cancelled overlapped read): a run of     *)
(* neighbouring bytes goes, and the rest keeps its order.                  *)
(***************************************************************************)
EXTENDS Naturals, Sequences

VARIABLES
  open,     \* bytes can still be handed to a caller
  sent,     \* number of bytes the peer has sent
  pending,  \* bytes on their way, oldest first; they are numbered
  got,      \* bytes handed to callers, in the order of the calls
  gone      \* bytes discarded

vars == <<open, sent, pending, got, gone>>

Init == open = TRUE /\ sent = 0 /\ pending = <<>> /\ got = <<>> /\ gone = {}

\* The peer sends the next bytes, at least one.
Arrive ==
  /\ sent' \in Nat /\ sent' > sent
  /\ pending' = pending \o [i \in 1..(sent' - sent) |-> sent + i]
  /\ UNCHANGED <<got, gone>>

\* A call returns the oldest k bytes.
Deliver ==
  /\ open
  /\ \E k \in 1..Len(pending) :
       /\ got' = got \o SubSeq(pending, 1, k)
       /\ pending' = SubSeq(pending, k + 1, Len(pending))
  /\ UNCHANGED <<sent, gone>>

\* The bytes at positions i to j are discarded.
Lose ==
  /\ \E i, j \in 1..Len(pending) :
       /\ i <= j
       /\ pending' = SubSeq(pending, 1, i - 1) \o
                     SubSeq(pending, j + 1, Len(pending))
       /\ gone' = gone \cup {pending[n] : n \in i..j}
  /\ UNCHANGED <<sent, got>>

\* Closing may coincide with any of them and is final.
Next ==
  /\ open' \in BOOLEAN /\ (open' => open)
  /\ Arrive \/ Deliver \/ Lose \/ UNCHANGED <<sent, pending, got, gone>>

Spec == Init /\ [][Next]_vars
=============================================================================
