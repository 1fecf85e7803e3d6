------------------------------ MODULE MockPair ------------------------------
(***************************************************************************)
(* serial_port_pair() of testing.py: two _PosixSerialPort objects, each on *)
(* a MockBackend, joined by a socketpair.  What one end sends, the other   *)
(* one receives, through the same read and write loops that drive a real   *)
(* tty, while a test injects faults with faults_of().                      *)
(*                                                                         *)
(* Each end has one receive and one send in flight at most (the resource   *)
(* guards see to it, see PosixPort).  The sockets are external: a bounded  *)
(* queue per direction, EAGAIN, end of file and EPIPE behind a close, and  *)
(* ECONNRESET for an end whose peer closed with unread bytes.              *)
(***************************************************************************)
EXTENDS Naturals, Sequences

CONSTANTS
  Ends,       \* the two ends of the pair
  None,       \* FaultPlan.short_write_max = None
  Programs,   \* programs that use the pair: for each end the methods it calls
              \* and the fields of its FaultPlan that are set
  ReadSize,   \* max_bytes of a receive
  SendLen,    \* length of a payload
  Cap,        \* capacity of a socket's queue
  MaxSends,   \* bound on the number of sends of an end
  MaxFaults   \* bound on the number of times a test changes a plan

ASSUME EndsAssumption == \E a, b \in Ends : a # b /\ Ends = {a, b}
ASSUME SizeAssumption ==
  /\ ReadSize \in Nat \ {0} /\ SendLen \in Nat \ {0} /\ Cap \in Nat \ {0}
  /\ MaxSends \in Nat /\ MaxFaults \in Nat

VARIABLES
  program,   \* the program that runs
  closed,    \* closed[e]: _closed of the port, and its socket is closed
  queue,     \* queue[e]: bytes e can receive, numbered in the order of sending
  accepted,  \* accepted[e]: number of bytes the socket has taken from e
  got,       \* got[e]: bytes e's callers have received
  gone,      \* gone[e]: bytes for e a reset or the close discarded
  reset,     \* reset[e]: the next receive of e on an empty queue finds ECONNRESET
  faults,    \* faults[e]: the FaultPlan
  injected,  \* number of changes to the plans
  reader, writer,  \* what e's receive and send wait for, "idle" if there is none
  rest,      \* rest[e]: bytes of e's send that have not been written yet
  sends,     \* sends[e]: number of sends e has begun
  rts, dtr,  \* control lines of e
  brk,       \* break_asserted
  ended      \* the call that ended in the last step: its end, method and result

plan == <<faults, injected>>
streams == <<queue, accepted, got, gone, reset>>
lines == <<rts, dtr, brk>>
vars == <<program, closed, streams, plan, reader, writer, rest, sends, lines, ended>>

Peer(e) == CHOOSE f \in Ends : f # e

NoFaults ==
  [eagain_reads |-> 0, eagain_writes |-> 0, eintr_reads |-> 0, eintr_writes |-> 0,
   short_write_max |-> None, disconnected |-> FALSE, raise_eio_on_read |-> FALSE,
   parity_errors |-> 0]

NoCall == <<"none", "none", "none">>

\* MockBackend.pair, open on both ends and serial_port_pair have returned.
Init ==
  /\ program \in Programs
  /\ closed = [e \in Ends |-> FALSE]
  /\ queue = [e \in Ends |-> <<>>] /\ accepted = [e \in Ends |-> 0]
  /\ got = [e \in Ends |-> <<>>] /\ gone = [e \in Ends |-> {}]
  /\ reset = [e \in Ends |-> FALSE]
  /\ faults = [e \in Ends |-> NoFaults] /\ injected = 0
  /\ reader = [e \in Ends |-> "idle"] /\ writer = [e \in Ends |-> "idle"]
  /\ rest = [e \in Ends |-> <<>>] /\ sends = [e \in Ends |-> 0]
  /\ rts = [e \in Ends |-> FALSE] /\ dtr = [e \in Ends |-> FALSE]
  /\ brk = [e \in Ends |-> FALSE]
  /\ ended = NoCall

Elements(s) == {s[i] : i \in 1..Len(s)}
Smaller(a, b) == IF a <= b THEN a ELSE b

-----------------------------------------------------------------------------
(* faults_of(port): the test sets a field of the plan of end e. *)

NewValues(field) ==
  CASE field = "short_write_max" -> {None, 0, 1}
    [] field \in {"disconnected", "raise_eio_on_read"} -> BOOLEAN
    [] OTHER -> {2}

Inject(e, field) ==
  /\ field \in program[e] /\ injected < MaxFaults
  /\ \E v \in NewValues(field) :
       /\ faults[e][field] # v
       /\ faults' = [faults EXCEPT ![e][field] = v]
  /\ injected' = injected + 1
  /\ ended' = NoCall
  /\ UNCHANGED <<program, closed, streams, reader, writer, rest, sends, lines>>

-----------------------------------------------------------------------------
(* receive on MockBackend.read_nonblocking *)

ParkReader(e) == reader' = [reader EXCEPT ![e] = "wait"] /\ ended' = NoCall

EndReceive(e, r) ==
  /\ reader' = [reader EXCEPT ![e] = "idle"]
  /\ ended' = <<e, "receive", r>>

receive(e) ==
  /\ "receive" \in program[e] /\ reader[e] = "idle"
  /\ \/ closed[e] /\ EndReceive(e, "Closed")
     \/ ~closed[e] /\ ParkReader(e)
  /\ UNCHANGED <<program, closed, streams, plan, writer, rest, sends, lines>>

\* The socket of e is readable: bytes, the end of the stream or an error.
Readable(e) == queue[e] # <<>> \/ closed[Peer(e)]

\* A fault of the plan that answers instead of the socket, the first that is
\* active; a counter counts down and raise_eio_on_read is cleared.
ReadFault(f) ==
  CASE f.raise_eio_on_read -> "raise_eio_on_read"
    [] ~f.raise_eio_on_read /\ f.parity_errors > 0 -> "parity_errors"
    [] ~f.raise_eio_on_read /\ f.parity_errors = 0 /\ f.disconnected
         -> "disconnected"
    [] OTHER -> IF f.eintr_reads > 0 THEN "eintr_reads"
                ELSE IF f.eagain_reads > 0 THEN "eagain_reads" ELSE "none"

Spend(e, field) ==
  /\ faults' = [faults EXCEPT ![e][field] =
                  IF field = "raise_eio_on_read" THEN FALSE
                  ELSE IF field = "disconnected" THEN @ ELSE @ - 1]
  /\ UNCHANGED injected

\* Definitions named Bad... are faulty variants; the specification uses none
\* of them.  Here: looks for the end of the stream before it looks for bytes.
BadRecvInto(e) ==
  \/ /\ closed[Peer(e)]
     /\ EndReceive(e, "Disconnected")
     /\ UNCHANGED streams
  \/ /\ ~closed[Peer(e)] /\ queue[e] # <<>>
     /\ got' = [got EXCEPT ![e] = @ \o queue[e]]
     /\ queue' = [queue EXCEPT ![e] = <<>>]
     /\ EndReceive(e, "ok")
     /\ UNCHANGED <<accepted, gone, reset>>
  \/ /\ ~closed[Peer(e)] /\ queue[e] = <<>>
     /\ ParkReader(e)
     /\ UNCHANGED streams

\* recv_into: bytes, EAGAIN, ECONNRESET (once) or the end of the stream.
RecvInto(e) ==
  \/ /\ queue[e] # <<>>
     /\ LET k == Smaller(ReadSize, Len(queue[e]))
        IN  /\ got' = [got EXCEPT ![e] = @ \o SubSeq(queue[e], 1, k)]
            /\ queue' = [queue EXCEPT ![e] = SubSeq(@, k + 1, Len(@))]
     /\ EndReceive(e, "ok")
     /\ UNCHANGED <<accepted, gone, reset>>
  \/ /\ queue[e] = <<>> /\ ~closed[Peer(e)]
     /\ ParkReader(e)
     /\ UNCHANGED streams
  \/ /\ queue[e] = <<>> /\ closed[Peer(e)]
     /\ EndReceive(e, IF reset[e] THEN "SerialError" ELSE "Disconnected")
     /\ reset' = [reset EXCEPT ![e] = FALSE]
     /\ UNCHANGED <<queue, accepted, got, gone>>

ResumeReceive(e) ==
  LET fault == ReadFault(faults[e])
  IN  /\ reader[e] \in {"ready", "closing"}
      /\ \/ closed[e] /\ EndReceive(e, "Closed") /\ UNCHANGED <<streams, plan>>
         \/ ~closed[e] /\ fault = "none" /\ RecvInto(e) /\ UNCHANGED plan
         \/ /\ ~closed[e] /\ fault # "none"
            /\ Spend(e, fault)
            /\ IF fault \in {"eintr_reads", "eagain_reads"} THEN ParkReader(e)
               ELSE EndReceive(e, "Disconnected")
            /\ UNCHANGED streams
      /\ UNCHANGED <<program, closed, writer, rest, sends, lines>>

-----------------------------------------------------------------------------
(* send on MockBackend.write_nonblocking *)

ParkWriter(e) == writer' = [writer EXCEPT ![e] = "wait"] /\ ended' = NoCall

EndSend(e, r) ==
  /\ writer' = [writer EXCEPT ![e] = "idle"]
  /\ ended' = <<e, "send", r>>

\* A payload is the next SendLen bytes of the sender's stream.
send(e) ==
  /\ "send" \in program[e] /\ writer[e] = "idle"
  /\ \/ /\ closed[e] /\ EndSend(e, "Closed") /\ UNCHANGED <<rest, sends>>
     \/ /\ ~closed[e] /\ sends[e] < MaxSends
        /\ ParkWriter(e)
        /\ rest' = [rest EXCEPT ![e] = [i \in 1..SendLen |-> accepted[e] + i]]
        /\ sends' = [sends EXCEPT ![e] = @ + 1]
  /\ UNCHANGED <<program, closed, streams, plan, reader, lines>>

Writable(e) == Len(queue[Peer(e)]) < Cap \/ closed[Peer(e)]

WriteFault(f) ==
  IF f.disconnected THEN "disconnected"
  ELSE IF f.eintr_writes > 0 THEN "eintr_writes"
  ELSE IF f.eagain_writes > 0 THEN "eagain_writes" ELSE "none"

\* Faulty: after a short write the payload is sent from its start again.
BadAdvance(e, k) == UNCHANGED rest

Advance(e, k) == rest' = [rest EXCEPT ![e] = SubSeq(@, k + 1, Len(@))]

\* sock.send of the rest of the payload, cut to short_write_max: with a limit
\* of 0 nothing is offered and the loop goes round.
SockSend(e) ==
  LET p == Peer(e)
      max == faults[e].short_write_max
      offered == IF max = None THEN Len(rest[e]) ELSE Smaller(max, Len(rest[e]))
      k == Smaller(offered, Cap - Len(queue[p]))
  IN  \/ /\ offered = 0 \/ (~closed[p] /\ k = 0)   \* 0 bytes, or EAGAIN
         /\ ParkWriter(e)
         /\ UNCHANGED <<queue, accepted, rest>>
      \/ /\ offered > 0 /\ closed[p]               \* EPIPE
         /\ EndSend(e, "SerialError")
         /\ rest' = [rest EXCEPT ![e] = <<>>]
         /\ UNCHANGED <<queue, accepted>>
      \/ /\ offered > 0 /\ ~closed[p] /\ k > 0
         /\ queue' = [queue EXCEPT ![p] = @ \o SubSeq(rest[e], 1, k)]
         /\ accepted' = [accepted EXCEPT ![e] = @ + k]
         /\ Advance(e, k)
         /\ IF rest'[e] = <<>> THEN EndSend(e, "ok") ELSE ParkWriter(e)

ResumeSend(e) ==
  LET fault == WriteFault(faults[e])
      stop(r) == EndSend(e, r) /\ rest' = [rest EXCEPT ![e] = <<>>]
  IN  /\ writer[e] \in {"ready", "closing"}
      /\ \/ closed[e] /\ stop("Closed") /\ UNCHANGED <<queue, accepted, plan>>
         \/ /\ ~closed[e] /\ fault = "disconnected"      \* EPIPE
            /\ stop("SerialError")
            /\ UNCHANGED <<queue, accepted, plan>>
         \/ /\ ~closed[e] /\ fault \in {"eintr_writes", "eagain_writes"}
            /\ Spend(e, fault) /\ ParkWriter(e)
            /\ UNCHANGED <<queue, accepted, rest>>
         \/ ~closed[e] /\ fault = "none" /\ SockSend(e) /\ UNCHANGED plan
      /\ UNCHANGED <<program, closed, got, gone, reset, reader, sends, lines>>

-----------------------------------------------------------------------------
(* The other methods, and the waits *)

\* MockBackend.close: what e has not read goes with its socket, and Linux tells
\* the peer so; what e has sent stays readable.
Shutdown(e) ==
  /\ gone' = [gone EXCEPT ![e] = @ \cup Elements(queue[e])]
  /\ queue' = [queue EXCEPT ![e] = <<>>]
  /\ \E r \in {FALSE, queue[e] # <<>>} : reset' = [reset EXCEPT ![Peer(e)] = r]

\* Faulty: does not wake the calls in flight.
BadWoken(state) == state

\* anyio.notify_closing wakes what is parked.
Woken(state) == IF state = "wait" THEN "closing" ELSE state

aclose(e) ==
  /\ "aclose" \in program[e] /\ ~closed[e]
  /\ closed' = [closed EXCEPT ![e] = TRUE]
  /\ reader' = [reader EXCEPT ![e] = Woken(@)]
  /\ writer' = [writer EXCEPT ![e] = Woken(@)]
  /\ Shutdown(e)
  /\ ended' = <<e, "aclose", "ok">>
  /\ UNCHANGED <<program, accepted, got, plan, rest, sends, lines>>

\* A call without an await: Closed, or its effect with the result r.
Call(e, m, r) ==
  /\ m \in program[e]
  /\ ended' = <<e, m, IF closed[e] THEN "Closed" ELSE r>>
  /\ UNCHANGED <<program, closed, plan, reader, writer, rest, sends>>

\* MockBackend.reset_input_buffer receives until the socket has nothing more;
\* an ECONNRESET behind the bytes is spent and raised.
reset_input_buffer(e) ==
  /\ Call(e, "reset_input_buffer", IF reset[e] THEN "SerialError" ELSE "ok")
  /\ \/ closed[e] /\ UNCHANGED <<queue, gone, reset>>
     \/ /\ ~closed[e]
        /\ gone' = [gone EXCEPT ![e] = @ \cup Elements(queue[e])]
        /\ queue' = [queue EXCEPT ![e] = <<>>]
        /\ reset' = [reset EXCEPT ![e] = FALSE]
  /\ UNCHANGED <<accepted, got, lines>>

\* recv with MSG_PEEK: it takes no byte, but on an empty queue it does spend
\* the error, which the port does not map.
input_waiting(e) ==
  /\ Call(e, "input_waiting",
          IF reset[e] /\ queue[e] = <<>> THEN "OSError" ELSE "ok")
  /\ reset' = [reset EXCEPT ![e] = @ /\ (closed[e] \/ queue[e] # <<>>)]
  /\ UNCHANGED <<queue, accepted, got, gone, lines>>

\* output_waiting is 0, so drain returns at once; it asks for the guard first.
drain(e) ==
  /\ \/ writer[e] = "idle" /\ Call(e, "drain", "ok")
     \/ /\ writer[e] # "idle" /\ "drain" \in program[e]
        /\ ended' = <<e, "drain", "Busy">>
        /\ UNCHANGED <<program, closed, plan, reader, writer, rest, sends>>
  /\ UNCHANGED <<streams, lines>>

\* No output queue: a no-op.
reset_output_buffer(e) ==
  Call(e, "reset_output_buffer", "ok") /\ UNCHANGED <<streams, lines>>

\* None leaves a line as it is.
set_control_lines(e, r, d) ==
  /\ Call(e, "set_control_lines", "ok")
  /\ rts' = [rts EXCEPT ![e] = IF closed[e] \/ r = None THEN @ ELSE r]
  /\ dtr' = [dtr EXCEPT ![e] = IF closed[e] \/ d = None THEN @ ELSE d]
  /\ UNCHANGED <<streams, brk>>

\* cts is the peer's rts, dsr and cd are its dtr.
modem_lines(e) ==
  /\ Call(e, "modem_lines",
          IF rts[Peer(e)] THEN (IF dtr[Peer(e)] THEN "cts, dsr" ELSE "cts")
                          ELSE (IF dtr[Peer(e)] THEN "dsr" ELSE "ok"))
  /\ UNCHANGED <<streams, lines>>

\* send_break asserts, sleeps with the send guard and de-asserts in a finally.
send_break(e) ==
  /\ "send_break" \in program[e] /\ writer[e] = "idle"
  /\ \/ closed[e] /\ EndSend(e, "Closed") /\ UNCHANGED brk
     \/ /\ ~closed[e]
        /\ writer' = [writer EXCEPT ![e] = "break"]
        /\ brk' = [brk EXCEPT ![e] = TRUE]
        /\ ended' = NoCall
  /\ UNCHANGED <<program, closed, streams, plan, reader, rest, sends, rts, dtr>>

\* The sleep ends or is cancelled; set_break works on a closed mock, too.
ResumeBreak(e) ==
  /\ writer[e] = "break"
  /\ brk' = [brk EXCEPT ![e] = FALSE]
  /\ \E r \in {"ok", "Cancelled"} : EndSend(e, r)
  /\ UNCHANGED <<program, closed, streams, plan, reader, rest, sends, rts, dtr>>

\* The event loop finds the socket ready.
WakeReader(e) ==
  /\ reader[e] = "wait" /\ ~closed[e] /\ Readable(e)
  /\ reader' = [reader EXCEPT ![e] = "ready"]
  /\ ended' = NoCall
  /\ UNCHANGED <<program, closed, streams, plan, writer, rest, sends, lines>>

WakeWriter(e) ==
  /\ writer[e] = "wait" /\ ~closed[e] /\ Writable(e)
  /\ writer' = [writer EXCEPT ![e] = "ready"]
  /\ ended' = NoCall
  /\ UNCHANGED <<program, closed, streams, plan, reader, rest, sends, lines>>

\* A parked call is cancelled.
Cancel(e) ==
  /\ "cancel" \in program[e]
  /\ \/ /\ reader[e] = "wait" /\ EndReceive(e, "Cancelled")
        /\ UNCHANGED <<writer, rest>>
     \/ /\ writer[e] = "wait" /\ EndSend(e, "Cancelled")
        /\ rest' = [rest EXCEPT ![e] = <<>>] /\ UNCHANGED reader
  /\ UNCHANGED <<program, closed, streams, plan, sends, lines>>

-----------------------------------------------------------------------------
Calls(e) ==
  \/ receive(e) \/ send(e) \/ aclose(e) \/ reset_input_buffer(e)
  \/ input_waiting(e) \/ drain(e) \/ reset_output_buffer(e) \/ modem_lines(e)
  \/ send_break(e)
  \/ \E r, d \in {None, TRUE, FALSE} : set_control_lines(e, r, d)

Reading(e) == ResumeReceive(e) \/ WakeReader(e)
Writing(e) == ResumeSend(e) \/ ResumeBreak(e) \/ WakeWriter(e)

Next ==
  \E e \in Ends : \/ Calls(e) \/ Reading(e) \/ Writing(e) \/ Cancel(e)
                  \/ \E field \in DOMAIN NoFaults : Inject(e, field)

Spec == Init /\ [][Next]_vars

\* The event loop reports a ready socket and runs what it has woken.  Nothing
\* makes a test call, and nothing makes it take a fault back.
Fairness == \A e \in Ends : WF_vars(Reading(e)) /\ WF_vars(Writing(e))
FairSpec == Spec /\ Fairness

-----------------------------------------------------------------------------
(* Properties *)

Stream(e) == INSTANCE InputStream WITH
               open <- ~closed[e], sent <- accepted[Peer(e)],
               pending <- queue[e], got <- got[e], gone <- gone[e]

\* Between the ends run two byte streams: the bytes one end's sends were given
\* come out of the other end's receives in order and once, whatever short
\* writes, interrupted calls, I/O errors, resets and closes the test injects.
\* (This is Stream(e)!Spec for both ends.)
PairCarriesStreams ==
  /\ \A e \in Ends : Stream(e)!Init
  /\ [][\A e \in Ends : [Stream(e)!Next]_(Stream(e)!vars)]_vars

IOFaults == {"raise_eio_on_read", "parity_errors", "disconnected"}

\* Without an injected I/O fault a receive reports the end of the stream only
\* when it is the end: the peer is closed, and everything it had sent has been
\* received or discarded by a reset.
EndOfStreamIsTheEnd ==
  \A e \in Ends :
    ended = <<e, "receive", "Disconnected">> /\ program[e] \cap IOFaults = {}
      => /\ closed[Peer(e)]
         /\ Elements(got[e]) \cup gone[e] = 1..accepted[Peer(e)]

\* A call in flight ends although the plan makes it fail and try again: a
\* receive that has something to return, or whose port or peer is closed, and a
\* send as long as the peer's queue has room.  Only short_write_max = 0 keeps a
\* send going round for ever, and a send that was cut short by it goes on when
\* the test takes the limit away.
CallsOutliveFaults ==
  \A e \in Ends :
    /\ reader[e] # "idle" /\ (Readable(e) \/ closed[e])
         ~> reader[e] = "idle" \/ ~(Readable(e) \/ closed[e])
    /\ writer[e] # "idle" ~>
         \/ writer[e] = "idle" \/ faults[e].short_write_max = 0
         \/ ~Writable(e) /\ ~closed[e]
=============================================================================
