---------------------------- MODULE MockPairProofs ----------------------------
(***************************************************************************)
(* The two byte streams of serial_port_pair(): whatever faults a test      *)
(* injects, no byte is lost, doubled or moved between the ends, and the    *)
(* end of a stream is reported at its end.                                 *)
(***************************************************************************)
EXTENDS MockPair, ByteSequences

Typed ==
  /\ closed \in [Ends -> BOOLEAN]
  /\ queue \in [Ends -> Seq(Nat)] /\ got \in [Ends -> Seq(Nat)]
  /\ accepted \in [Ends -> Nat]
  /\ rest \in [Ends -> Seq(Nat)]
  /\ DOMAIN gone = Ends

\* What a plan contains that the program did not put there.
PlansOK ==
  /\ DOMAIN faults = Ends
  /\ \A e \in Ends :
       /\ DOMAIN faults[e] = DOMAIN NoFaults
       /\ faults[e].short_write_max \in Nat \cup {None}
       /\ "raise_eio_on_read" \in program[e] \/ faults[e].raise_eio_on_read = FALSE
       /\ "parity_errors" \in program[e] \/ faults[e].parity_errors = 0
       /\ "disconnected" \in program[e] \/ faults[e].disconnected = FALSE

\* What is left of a payload are the next bytes of the sender's stream.
RestOK == \A e \in Ends : \A i \in 1..Len(rest[e]) : rest[e][i] = accepted[e] + i

\* What one end's socket has taken is what the other end's callers have got,
\* what it has discarded, and what it can still receive.
Conserved ==
  \A e \in Ends :
    Elements(got[e]) \cup gone[e] \cup Elements(queue[e]) = 1..accepted[Peer(e)]

IInv == Typed /\ PlansOK /\ RestOK /\ Conserved

-----------------------------------------------------------------------------
(* The kinds of steps *)

NextPayload(e) == [i \in 1..SendLen |-> accepted[e] + i]

\* The streams stay; a payload may be dropped or a new one begun.
Keeps(e) ==
  /\ UNCHANGED <<closed, queue, accepted, got, gone>>
  /\ \/ rest' = rest
     \/ rest' = [rest EXCEPT ![e] = <<>>]
     \/ rest' = [rest EXCEPT ![e] = NextPayload(e)]

\* A call of e returns the oldest bytes of its queue.
Receives(e) ==
  /\ ~closed[e]
  /\ \E k \in 1..Len(queue[e]) :
       /\ got' = [got EXCEPT ![e] = got[e] \o SubSeq(queue[e], 1, k)]
       /\ queue' = [queue EXCEPT ![e] = SubSeq(queue[e], k + 1, Len(queue[e]))]
  /\ UNCHANGED <<closed, accepted, gone, rest>>

\* The socket takes the next bytes of e's payload.
Sends(e) ==
  /\ \E k \in 1..Len(rest[e]) :
       /\ queue' = [queue EXCEPT ![Peer(e)] = queue[Peer(e)] \o SubSeq(rest[e], 1, k)]
       /\ accepted' = [accepted EXCEPT ![e] = accepted[e] + k]
       /\ rest' = [rest EXCEPT ![e] = SubSeq(rest[e], k + 1, Len(rest[e]))]
  /\ UNCHANGED <<closed, got, gone>>

\* What e has not received yet is discarded; e may close with it.
Drops(e) ==
  /\ gone' = [gone EXCEPT ![e] = gone[e] \cup Elements(queue[e])]
  /\ queue' = [queue EXCEPT ![e] = <<>>]
  /\ UNCHANGED <<accepted, got, rest>>
  /\ closed' = closed \/ closed' = [closed EXCEPT ![e] = TRUE]

Effects(e) == Keeps(e) \/ Receives(e) \/ Sends(e) \/ Drops(e)

\* What a step of e does to the plans.
Plans(e) ==
  \/ faults' = faults
  \/ \E field \in DOMAIN NoFaults : \E v :
       /\ faults' = [faults EXCEPT ![e][field] = v]
       /\ field = "short_write_max" => v \in {None, 0, 1}
       /\ \/ field \in program[e]
          \/ field \notin {"raise_eio_on_read", "parity_errors", "disconnected"}
          \/ field = "disconnected" /\ v = faults[e].disconnected

LEMMA PeerFacts ==
  ASSUME NEW e \in Ends
  PROVE  /\ Peer(e) \in Ends /\ Peer(e) # e /\ Peer(Peer(e)) = e
         /\ \A f \in Ends : f = e \/ f = Peer(e)
<1>1. PICK a, b \in Ends : a # b /\ Ends = {a, b}
  BY EndsAssumption
<1>2. ASSUME NEW f \in Ends PROVE Peer(f) \in Ends /\ Peer(f) # f
  <2>1. \E g \in Ends : g # f
    BY <1>1
  <2> QED
    BY <2>1 DEF Peer
<1>3. Peer(e) \in Ends /\ Peer(e) # e /\ Peer(Peer(e)) \in Ends /\ Peer(Peer(e)) # Peer(e)
  BY <1>2
<1> QED
  BY <1>1, <1>3

\* The fault answers a receive of e or makes its send try again.
Answers(e, fault) ==
  /\ fault # "none"
  /\ \/ fault = ReadFault(faults[e])
     \/ fault = WriteFault(faults[e]) /\ fault # "disconnected"

LEMMA SpendPlans ==
  ASSUME IInv, NEW e \in Ends, NEW fault, Answers(e, fault), Spend(e, fault)
  PROVE  Plans(e)
<1>1. /\ faults[e].parity_errors > 0 => faults[e].parity_errors # 0
      /\ "raise_eio_on_read" \in program[e] \/ faults[e].raise_eio_on_read = FALSE
      /\ "parity_errors" \in program[e] \/ faults[e].parity_errors = 0
  BY DEF IInv, PlansOK
<1>2. fault \in DOMAIN NoFaults \ {"short_write_max"}
  BY DEF Answers, ReadFault, WriteFault, NoFaults
<1>3. fault = "raise_eio_on_read" => faults[e].raise_eio_on_read
  BY DEF Answers, ReadFault, WriteFault
<1>4. fault = "parity_errors" => faults[e].parity_errors > 0
  BY DEF Answers, ReadFault, WriteFault
<1>5. PICK v : v = IF fault = "raise_eio_on_read" THEN FALSE
                   ELSE IF fault = "disconnected" THEN faults[e][fault]
                   ELSE faults[e][fault] - 1
  OBVIOUS
<1>6. faults' = [faults EXCEPT ![e][fault] = v]
  BY <1>5 DEF Spend
<1>7. /\ \/ fault \in program[e]
         \/ fault \notin {"raise_eio_on_read", "parity_errors", "disconnected"}
         \/ fault = "disconnected" /\ v = faults[e].disconnected
  BY <1>1, <1>3, <1>4, <1>5
<1> QED
  BY <1>2, <1>6, <1>7 DEF Plans

LEMMA PlansKept ==
  ASSUME IInv, NEW e \in Ends, Plans(e), UNCHANGED program
  PROVE  PlansOK'
<1>1. CASE faults' = faults
  BY <1>1 DEF IInv, PlansOK
<1>2. CASE faults' # faults
  <2>0. PICK field \in DOMAIN NoFaults : \E v :
           /\ faults' = [faults EXCEPT ![e][field] = v]
           /\ field = "short_write_max" => v \in {None, 0, 1}
           /\ \/ field \in program[e]
              \/ field \notin {"raise_eio_on_read", "parity_errors", "disconnected"}
              \/ field = "disconnected" /\ v = faults[e].disconnected
    BY <1>2 DEF Plans
  <2>1. PICK v :
           /\ faults' = [faults EXCEPT ![e][field] = v]
           /\ field = "short_write_max" => v \in {None, 0, 1}
           /\ \/ field \in program[e]
              \/ field \notin {"raise_eio_on_read", "parity_errors", "disconnected"}
              \/ field = "disconnected" /\ v = faults[e].disconnected
    BY <2>0
  <2>2. DOMAIN faults = Ends /\ DOMAIN faults[e] = DOMAIN NoFaults
    BY DEF IInv, PlansOK
  <2>3. /\ DOMAIN faults' = Ends
        /\ \A f \in Ends \ {e} : faults'[f] = faults[f]
        /\ faults'[e] = [faults[e] EXCEPT ![field] = v]
    BY <2>1, <2>2
  <2>4. /\ DOMAIN faults'[e] = DOMAIN NoFaults /\ faults'[e][field] = v
        /\ \A g \in DOMAIN NoFaults \ {field} : faults'[e][g] = faults[e][g]
    BY <2>2, <2>3
  <2>5. {"short_write_max", "raise_eio_on_read", "parity_errors", "disconnected"}
          \subseteq DOMAIN NoFaults
    BY DEF NoFaults
  <2>6. /\ faults'[e].short_write_max \in Nat \cup {None}
        /\ "raise_eio_on_read" \in program[e] \/ faults'[e].raise_eio_on_read = FALSE
        /\ "parity_errors" \in program[e] \/ faults'[e].parity_errors = 0
        /\ "disconnected" \in program[e] \/ faults'[e].disconnected = FALSE
    <3>1. /\ faults[e].short_write_max \in Nat \cup {None}
          /\ "raise_eio_on_read" \in program[e] \/ faults[e].raise_eio_on_read = FALSE
          /\ "parity_errors" \in program[e] \/ faults[e].parity_errors = 0
          /\ "disconnected" \in program[e] \/ faults[e].disconnected = FALSE
      BY DEF IInv, PlansOK
    <3> QED
      BY <2>1, <2>4, <2>5, <3>1
  <2> QED
    BY <2>3, <2>4, <2>6 DEF IInv, PlansOK
<1> QED
  BY <1>1, <1>2

LEMMA SockSendEffect ==
  ASSUME IInv, NEW e \in Ends, SockSend(e), UNCHANGED <<closed, got, gone>>
  PROVE  Effects(e)
<1> DEFINE max == faults[e].short_write_max
           free == Cap - Len(queue[Peer(e)])
           offered == IF max = None THEN Len(rest[e]) ELSE Smaller(max, Len(rest[e]))
           k == Smaller(offered, free)
<1>1. /\ Len(rest[e]) \in Nat /\ Len(queue[Peer(e)]) \in Nat /\ Cap \in Nat
      /\ max \in Nat \cup {None}
  BY PeerFacts, SizeAssumption DEF IInv, Typed, PlansOK
<1>2. CASE k > 0 /\ queue' = [queue EXCEPT ![Peer(e)] = @ \o SubSeq(rest[e], 1, k)]
           /\ accepted' = [accepted EXCEPT ![e] = @ + k] /\ Advance(e, k)
  <2>1. offered \in Nat /\ offered <= Len(rest[e])
    BY <1>1 DEF Smaller
  <2>2. k \in 1..Len(rest[e])
    BY <1>1, <1>2, <2>1 DEF Smaller
  <2>3. PICK j \in 1..Len(rest[e]) : j = k
    BY <2>2
  <2>4. Sends(e)
    BY <1>2, <2>3 DEF Sends, Advance
  <2> QED
    BY <2>4 DEF Effects
<1>3. CASE UNCHANGED <<queue, accepted, rest>>
  BY <1>3 DEF Effects, Keeps
<1>4. CASE rest' = [rest EXCEPT ![e] = <<>>] /\ UNCHANGED <<queue, accepted>>
  BY <1>4 DEF Effects, Keeps
<1> QED
  BY <1>2, <1>3, <1>4 DEF SockSend

LEMMA RecvIntoEffect ==
  ASSUME IInv, NEW e \in Ends, RecvInto(e), ~closed[e], UNCHANGED <<closed, rest>>
  PROVE  Effects(e)
<1>1. CASE queue[e] # <<>> /\ UNCHANGED <<accepted, gone, reset>>
  <2>1. queue[e] \in Seq(Nat) /\ Len(queue[e]) \in Nat /\ Len(queue[e]) > 0
    BY <1>1 DEF IInv, Typed
  <2>2. PICK k : k = Smaller(ReadSize, Len(queue[e]))
    OBVIOUS
  <2>3. k \in 1..Len(queue[e])
    BY <2>1, <2>2, SizeAssumption DEF Smaller
  <2>4. /\ got' = [got EXCEPT ![e] = got[e] \o SubSeq(queue[e], 1, k)]
        /\ queue' = [queue EXCEPT ![e] = SubSeq(queue[e], k + 1, Len(queue[e]))]
    BY <1>1, <2>2 DEF RecvInto
  <2>5. Receives(e)
    BY <1>1, <2>3, <2>4 DEF Receives
  <2> QED
    BY <2>5 DEF Effects
<1>2. CASE UNCHANGED <<queue, accepted, got, gone>>
  BY <1>2 DEF Effects, Keeps
<1> QED
  BY <1>1, <1>2 DEF RecvInto, streams

\* Every step of an end has one of the effects on the streams, leaves the
\* program and changes the plans as Plans says.
LEMMA StepEffect ==
  ASSUME IInv, NEW e \in Ends,
         \/ Calls(e) \/ Reading(e) \/ Writing(e) \/ Cancel(e)
         \/ \E field \in DOMAIN NoFaults : Inject(e, field)
  PROVE  Effects(e) /\ Plans(e) /\ UNCHANGED program
<1>1. CASE receive(e)
  BY <1>1 DEF receive, streams, plan, Effects, Keeps, Plans
<1>2. CASE send(e)
  BY <1>2 DEF send, streams, plan, Effects, Keeps, Plans, NextPayload
<1>3. CASE aclose(e)
  BY <1>3 DEF aclose, Shutdown, plan, Effects, Drops, Plans
<1>4. CASE reset_input_buffer(e)
  BY <1>4 DEF reset_input_buffer, Call, plan, Effects, Keeps, Drops, Plans
<1>5. CASE \/ input_waiting(e) \/ drain(e) \/ reset_output_buffer(e) \/ modem_lines(e)
           \/ \E r, d \in {None, TRUE, FALSE} : set_control_lines(e, r, d)
  BY <1>5 DEF input_waiting, drain, reset_output_buffer, modem_lines, set_control_lines,
              Call, streams, plan, Effects, Keeps, Plans
<1>6. CASE send_break(e) \/ ResumeBreak(e)
  BY <1>6 DEF send_break, ResumeBreak, streams, plan, Effects, Keeps, Plans
<1>7. CASE WakeReader(e) \/ WakeWriter(e)
  BY <1>7 DEF WakeReader, WakeWriter, streams, plan, Effects, Keeps, Plans
<1>8. CASE Cancel(e)
  BY <1>8 DEF Cancel, streams, plan, Effects, Keeps, Plans
<1>9. CASE ResumeReceive(e)
  <2>1. UNCHANGED <<program, closed, rest>>
    BY <1>9 DEF ResumeReceive
  <2>2. CASE UNCHANGED streams /\ UNCHANGED plan
    BY <2>1, <2>2 DEF streams, plan, Effects, Keeps, Plans
  <2>3. CASE ~closed[e] /\ RecvInto(e) /\ UNCHANGED plan
    BY <2>1, <2>3, RecvIntoEffect DEF plan, Plans
  <2>4. CASE UNCHANGED streams /\ ReadFault(faults[e]) # "none"
             /\ Spend(e, ReadFault(faults[e]))
    <3>1. PICK fault : fault = ReadFault(faults[e])
      OBVIOUS
    <3>2. Answers(e, fault) /\ Spend(e, fault)
      BY <2>4, <3>1 DEF Spend, Answers
    <3>3. Plans(e)
      BY <3>2, SpendPlans
    <3> QED
      BY <2>1, <2>4, <3>3 DEF streams, Effects, Keeps
  <2> QED
    BY <1>9, <2>2, <2>3, <2>4 DEF ResumeReceive
<1>10. CASE ResumeSend(e)
  <2>1. UNCHANGED <<program, closed, got, gone>>
    BY <1>10 DEF ResumeSend
  <2>2. CASE rest' = [rest EXCEPT ![e] = <<>>] /\ UNCHANGED <<queue, accepted, plan>>
    BY <2>1, <2>2 DEF plan, Effects, Keeps, Plans
  <2>3. CASE SockSend(e) /\ UNCHANGED plan
    BY <2>1, <2>3, SockSendEffect DEF plan, Plans
  <2>4. CASE WriteFault(faults[e]) \in {"eintr_writes", "eagain_writes"}
             /\ Spend(e, WriteFault(faults[e])) /\ UNCHANGED <<queue, accepted, rest>>
    <3>1. PICK fault : fault = WriteFault(faults[e])
      OBVIOUS
    <3>2. Answers(e, fault) /\ Spend(e, fault)
      BY <2>4, <3>1 DEF Spend, Answers
    <3>3. Plans(e)
      BY <3>2, SpendPlans
    <3> QED
      BY <2>1, <2>4, <3>3 DEF Effects, Keeps
  <2> QED
    BY <1>10, <2>2, <2>3, <2>4 DEF ResumeSend
<1>11. CASE \E field \in DOMAIN NoFaults : Inject(e, field)
  <2>1. PICK field \in DOMAIN NoFaults : Inject(e, field)
    BY <1>11
  <2>2. PICK v \in NewValues(field) : faults' = [faults EXCEPT ![e][field] = v]
    BY <2>1 DEF Inject
  <2>3. field = "short_write_max" => v \in {None, 0, 1}
    BY <2>2 DEF NewValues
  <2>4. field \in program[e] /\ UNCHANGED <<program, closed, streams, rest>>
    BY <2>1 DEF Inject
  <2> QED
    BY <2>2, <2>3, <2>4 DEF Plans, Effects, Keeps, streams
<1> QED
  BY <1>1, <1>2, <1>3, <1>4, <1>5, <1>6, <1>7, <1>8, <1>9, <1>10, <1>11
  DEF Calls, Reading, Writing

-----------------------------------------------------------------------------
(* The inductive invariant *)

LEMMA InitInv == Init => IInv
<1> SUFFICES ASSUME Init PROVE IInv
  OBVIOUS
<1>1. Typed
  BY DEF Init, Typed
<1>2. PlansOK
  BY DEF Init, PlansOK, NoFaults
<1>3. RestOK
  BY DEF Init, RestOK
<1>4. Conserved
  <2> SUFFICES ASSUME NEW e \in Ends
               PROVE  Elements(got[e]) \cup gone[e] \cup Elements(queue[e]) = 1..accepted[Peer(e)]
    BY DEF Conserved
  <2>1. got[e] = <<>> /\ gone[e] = {} /\ queue[e] = <<>> /\ accepted[Peer(e)] = 0
    BY PeerFacts DEF Init
  <2>2. 1..0 = {}
    OBVIOUS
  <2>3. Elements(<<>>) = {}
    BY DEF Elements
  <2> QED
    BY <2>1, <2>2, <2>3
<1> QED
  BY <1>1, <1>2, <1>3, <1>4 DEF IInv

\* Elements of this module and of ByteSequences are the same.
LEMMA SameElements == \A s : Elements(s) = ElementsOf(s)
BY DEF Elements, ElementsOf

\* The bytes a short write cuts off the payload are the sender's next ones.
LEMMA PayloadPart ==
  ASSUME IInv, NEW e \in Ends, NEW k \in 1..Len(rest[e])
  PROVE  /\ SubSeq(rest[e], 1, k) = [i \in 1..k |-> accepted[e] + i]
         /\ SubSeq(rest[e], 1, k) \in Seq(Nat)
         /\ ElementsOf(SubSeq(rest[e], 1, k)) = (accepted[e] + 1)..(accepted[e] + k)
         /\ SubSeq(rest[e], k + 1, Len(rest[e])) \in Seq(Nat)
         /\ \A i \in 1..Len(SubSeq(rest[e], k + 1, Len(rest[e]))) :
              SubSeq(rest[e], k + 1, Len(rest[e]))[i] = accepted[e] + k + i
<1>1. PICK r \in Seq(Nat), a \in Nat : r = rest[e] /\ a = accepted[e]
  BY DEF IInv, Typed
<1>2. k \in Nat /\ k <= Len(r) /\ k > 0 /\ \A i \in 1..Len(r) : r[i] = a + i
  BY <1>1 DEF IInv, RestOK
<1>3. SubSeq(r, 1, k) \in Seq(Nat) /\ SubSeq(r, k + 1, Len(r)) \in Seq(Nat)
  BY <1>2, CutAndGlue
<1>4. SubSeq(r, 1, k) = [i \in 1..k |-> a + i]
  BY <1>2
<1>5. ElementsOf([i \in 1..k |-> a + i]) = (a + 1)..(a + k)
  <2>1. PICK f : f = [i \in 1..k |-> a + i]
    OBVIOUS
  <2>2. Len(f) = k /\ \A i \in 1..k : f[i] = a + i
    BY <1>2, <2>1
  <2>3. ASSUME NEW x \in (a + 1)..(a + k) PROVE x \in ElementsOf(f)
    <3>1. x - a \in 1..k /\ a + (x - a) = x
      OBVIOUS
    <3> QED
      BY <2>2, <3>1 DEF ElementsOf
  <2>4. ASSUME NEW x \in ElementsOf(f) PROVE x \in (a + 1)..(a + k)
    BY <1>2, <2>2 DEF ElementsOf
  <2> QED
    BY <2>1, <2>3, <2>4
<1>6. ASSUME NEW i \in 1..Len(SubSeq(r, k + 1, Len(r)))
      PROVE  SubSeq(r, k + 1, Len(r))[i] = a + k + i
  BY <1>2
<1> QED
  BY <1>1, <1>3, <1>4, <1>5, <1>6

LEMMA KeepsInv ==
  ASSUME IInv, NEW e \in Ends, Keeps(e)
  PROVE  (Typed /\ RestOK /\ Conserved)'
<1>1. PICK r : r = NextPayload(e)
  OBVIOUS
<1>2. accepted[e] \in Nat /\ SendLen \in Nat
  BY SizeAssumption DEF IInv, Typed
<1>3. /\ r \in Seq(Nat) /\ Len(r) = SendLen
      /\ \A i \in 1..Len(r) : r[i] = accepted[e] + i
  BY <1>1, <1>2 DEF NextPayload
<1>4. PICK z \in Seq(Nat) :
        /\ rest' = rest \/ rest' = [rest EXCEPT ![e] = z]
        /\ \A i \in 1..Len(z) : z[i] = accepted[e] + i
  <2>1. PICK z \in Seq(Nat) : z = <<>> /\ \A i \in 1..Len(z) : FALSE
    <3>1. <<>> \in Seq(Nat) /\ Len(<<>>) = 0
      OBVIOUS
    <3>2. \A i \in 1..0 : FALSE
      OBVIOUS
    <3>3. PICK z : z = <<>>
      OBVIOUS
    <3>4. z \in Seq(Nat) /\ \A i \in 1..Len(z) : FALSE
      BY <3>1, <3>2, <3>3
    <3> QED
      BY <3>3, <3>4
  <2>2. CASE rest' = [rest EXCEPT ![e] = r]
    BY <1>3, <2>2
  <2>3. CASE rest' = rest \/ rest' = [rest EXCEPT ![e] = <<>>]
    BY <2>1, <2>3
  <2> QED
    BY <1>1, <2>2, <2>3 DEF Keeps
<1>5. UNCHANGED <<closed, queue, accepted, got, gone>>
  BY DEF Keeps
<1>6. rest \in [Ends -> Seq(Nat)]
  BY DEF IInv, Typed
<1>7. Typed'
  <2>1. rest' \in [Ends -> Seq(Nat)]
    BY <1>4, <1>6
  <2> QED
    BY <1>5, <2>1 DEF IInv, Typed
<1>8. RestOK'
  <2> SUFFICES ASSUME NEW f \in Ends, NEW i \in 1..Len(rest'[f])
               PROVE  rest'[f][i] = accepted'[f] + i
    BY DEF RestOK
  <2>1. CASE rest'[f] = rest[f]
    BY <1>5, <2>1 DEF IInv, RestOK
  <2>2. CASE rest'[f] # rest[f]
    <3>1. f = e /\ rest'[f] = z
      BY <1>4, <1>6, <2>2
    <3> QED
      BY <1>4, <1>5, <3>1
  <2> QED
    BY <2>1, <2>2
<1>9. Conserved'
  BY DEF Keeps, IInv, Conserved
<1> QED
  BY <1>7, <1>8, <1>9

LEMMA ReceivesInv ==
  ASSUME IInv, NEW e \in Ends, Receives(e)
  PROVE  (Typed /\ RestOK /\ Conserved)'
<1>1. PICK k \in 1..Len(queue[e]) :
         /\ got' = [got EXCEPT ![e] = got[e] \o SubSeq(queue[e], 1, k)]
         /\ queue' = [queue EXCEPT ![e] = SubSeq(queue[e], k + 1, Len(queue[e]))]
  BY DEF Receives
<1>2. UNCHANGED <<closed, accepted, gone, rest>>
  BY DEF Receives
<1>3. PICK q \in Seq(Nat), g \in Seq(Nat) : q = queue[e] /\ g = got[e]
  BY DEF IInv, Typed
<1>4. PICK u, v : u = SubSeq(q, 1, k) /\ v = SubSeq(q, k + 1, Len(q))
  OBVIOUS
<1>5. u \in Seq(Nat) /\ v \in Seq(Nat) /\ u \o v = q
  <2>1. k \in Nat /\ k <= Len(q)
    BY <1>3
  <2> QED
    BY <1>3, <1>4, <2>1, CutAndGlue
<1>6. /\ got' = [got EXCEPT ![e] = g \o u] /\ queue' = [queue EXCEPT ![e] = v]
      /\ g \o u \in Seq(Nat)
  BY <1>1, <1>3, <1>4, <1>5, ConcatProperties
<1>7. Typed'
  BY <1>2, <1>5, <1>6 DEF IInv, Typed
<1>8. RestOK'
  BY <1>2 DEF IInv, RestOK
<1>9. Conserved'
  <2> SUFFICES ASSUME NEW f \in Ends
               PROVE  Elements(got'[f]) \cup gone'[f] \cup Elements(queue'[f])
                        = 1..accepted'[Peer(f)]
    BY DEF Conserved
  <2>1. Elements(got[f]) \cup gone[f] \cup Elements(queue[f]) = 1..accepted[Peer(f)]
    BY DEF IInv, Conserved
  <2>2. CASE f = e
    <3>1. got'[f] = g \o u /\ queue'[f] = v
      BY <1>6, <2>2 DEF IInv, Typed
    <3>2. /\ ElementsOf(g \o u) = ElementsOf(g) \cup ElementsOf(u)
          /\ ElementsOf(q) = ElementsOf(u) \cup ElementsOf(v)
      BY <1>5, ConcatElements
    <3>3. gone'[f] = gone[f] /\ accepted'[Peer(f)] = accepted[Peer(f)]
      BY <1>2
    <3> QED
      BY <1>3, <2>1, <2>2, <3>1, <3>2, <3>3, SameElements
  <2>3. CASE f # e
    BY <1>2, <1>6, <2>1, <2>3 DEF IInv, Typed
  <2> QED
    BY <2>2, <2>3
<1> QED
  BY <1>7, <1>8, <1>9

LEMMA SendsInv ==
  ASSUME IInv, NEW e \in Ends, Sends(e)
  PROVE  (Typed /\ RestOK /\ Conserved)'
<1>1. PICK k \in 1..Len(rest[e]) :
       /\ queue' = [queue EXCEPT ![Peer(e)] = queue[Peer(e)] \o SubSeq(rest[e], 1, k)]
       /\ accepted' = [accepted EXCEPT ![e] = accepted[e] + k]
       /\ rest' = [rest EXCEPT ![e] = SubSeq(rest[e], k + 1, Len(rest[e]))]
  BY DEF Sends
<1>2. UNCHANGED <<closed, got, gone>>
  BY DEF Sends
<1>3. PICK p \in Ends : p = Peer(e) /\ p # e /\ Peer(p) = e /\ \A f \in Ends : f = e \/ f = p
  BY PeerFacts
<1>4. PICK u, v : u = SubSeq(rest[e], 1, k) /\ v = SubSeq(rest[e], k + 1, Len(rest[e]))
  OBVIOUS
<1>5. PICK a \in Nat, q \in Seq(Nat) : a = accepted[e] /\ q = queue[p]
  BY DEF IInv, Typed
<1>6. /\ u \in Seq(Nat) /\ v \in Seq(Nat) /\ ElementsOf(u) = (a + 1)..(a + k)
      /\ \A i \in 1..Len(v) : v[i] = a + k + i
  BY <1>4, <1>5, PayloadPart
<1>7. k \in Nat /\ a + k \in Nat /\ q \o u \in Seq(Nat)
  <2>1. k \in Nat
    BY DEF IInv, Typed
  <2> QED
    BY <1>6, <2>1, ConcatProperties
<1>8. /\ queue' = [queue EXCEPT ![p] = q \o u]
      /\ accepted' = [accepted EXCEPT ![e] = a + k]
      /\ rest' = [rest EXCEPT ![e] = v]
  BY <1>1, <1>3, <1>4, <1>5
<1>9. /\ queue \in [Ends -> Seq(Nat)] /\ accepted \in [Ends -> Nat]
      /\ rest \in [Ends -> Seq(Nat)]
  BY DEF IInv, Typed
<1>10. Typed'
  <2>1. /\ queue' \in [Ends -> Seq(Nat)] /\ accepted' \in [Ends -> Nat]
        /\ rest' \in [Ends -> Seq(Nat)]
    BY <1>6, <1>7, <1>8, <1>9
  <2> QED
    BY <1>2, <2>1 DEF IInv, Typed
<1>11. RestOK'
  <2> SUFFICES ASSUME NEW f \in Ends, NEW i \in 1..Len(rest'[f])
               PROVE  rest'[f][i] = accepted'[f] + i
    BY DEF RestOK
  <2>1. CASE f = e
    BY <1>6, <1>8, <1>9, <2>1
  <2>2. CASE f # e
    <3>1. rest'[f] = rest[f] /\ accepted'[f] = accepted[f]
      BY <1>8, <1>9, <2>2
    <3> QED
      BY <3>1 DEF IInv, RestOK
  <2> QED
    BY <2>1, <2>2
<1>12. Conserved'
  <2> SUFFICES ASSUME NEW f \in Ends
               PROVE  Elements(got'[f]) \cup gone'[f] \cup Elements(queue'[f])
                        = 1..accepted'[Peer(f)]
    BY DEF Conserved
  <2>1. Elements(got[f]) \cup gone[f] \cup Elements(queue[f]) = 1..accepted[Peer(f)]
    BY DEF IInv, Conserved
  <2>2. CASE f = p
    <3>1. queue'[f] = q \o u /\ accepted'[Peer(f)] = a + k /\ accepted[Peer(f)] = a
      BY <1>3, <1>5, <1>8, <1>9, <2>2
    <3>2. ElementsOf(q \o u) = ElementsOf(q) \cup ((a + 1)..(a + k))
      BY <1>6, ConcatElements
    <3>3. 1..(a + k) = (1..a) \cup ((a + 1)..(a + k))
      BY <1>7
    <3>4. got'[f] = got[f] /\ gone'[f] = gone[f]
      BY <1>2
    <3>5. Elements(queue'[f]) = Elements(queue[f]) \cup ((a + 1)..(a + k))
      BY <1>5, <2>2, <3>1, <3>2, SameElements
    <3> QED
      BY <2>1, <3>1, <3>3, <3>4, <3>5
  <2>3. CASE f = e
    <3>1. queue'[f] = queue[f] /\ accepted'[Peer(f)] = accepted[Peer(f)]
      BY <1>3, <1>8, <1>9, <2>3
    <3> QED
      BY <1>2, <2>1, <3>1
  <2> QED
    BY <1>3, <2>2, <2>3
<1> QED
  BY <1>10, <1>11, <1>12

LEMMA DropsInv ==
  ASSUME IInv, NEW e \in Ends, Drops(e)
  PROVE  (Typed /\ RestOK /\ Conserved)'
<1>1. /\ gone' = [gone EXCEPT ![e] = gone[e] \cup Elements(queue[e])]
      /\ queue' = [queue EXCEPT ![e] = <<>>]
      /\ UNCHANGED <<accepted, got, rest>>
      /\ closed' = closed \/ closed' = [closed EXCEPT ![e] = TRUE]
  BY DEF Drops
<1>2. Typed'
  <2>1. <<>> \in Seq(Nat)
    OBVIOUS
  <2>2. closed' \in [Ends -> BOOLEAN]
    BY <1>1 DEF IInv, Typed
  <2>3. queue' \in [Ends -> Seq(Nat)] /\ DOMAIN gone' = Ends
    BY <1>1, <2>1 DEF IInv, Typed
  <2> QED
    BY <1>1, <2>2, <2>3 DEF IInv, Typed
<1>3. RestOK'
  BY <1>1 DEF IInv, RestOK
<1>4. Conserved'
  <2> SUFFICES ASSUME NEW f \in Ends
               PROVE  Elements(got'[f]) \cup gone'[f] \cup Elements(queue'[f])
                        = 1..accepted'[Peer(f)]
    BY DEF Conserved
  <2>1. Elements(got[f]) \cup gone[f] \cup Elements(queue[f]) = 1..accepted[Peer(f)]
    BY DEF IInv, Conserved
  <2>2. CASE f = e
    <3>1. gone'[f] = gone[f] \cup Elements(queue[f]) /\ queue'[f] = <<>>
      BY <1>1, <2>2 DEF IInv, Typed
    <3>2. Elements(<<>>) = {}
      BY DEF Elements
    <3> QED
      BY <1>1, <2>1, <3>1, <3>2
  <2>3. CASE f # e
    <3>1. gone'[f] = gone[f] /\ queue'[f] = queue[f]
      BY <1>1, <2>3 DEF IInv, Typed
    <3> QED
      BY <1>1, <2>1, <3>1
  <2> QED
    BY <2>2, <2>3
<1> QED
  BY <1>2, <1>3, <1>4

LEMMA StepInv == IInv /\ [Next]_vars => IInv'
<1> SUFFICES ASSUME IInv, [Next]_vars PROVE IInv'
  OBVIOUS
<1>1. CASE UNCHANGED vars
  BY <1>1 DEF vars, streams, plan, IInv, Typed, PlansOK, RestOK, Conserved
<1>2. CASE Next
  <2>1. PICK e \in Ends : Effects(e) /\ Plans(e) /\ UNCHANGED program
    BY <1>2, StepEffect DEF Next
  <2>2. (Typed /\ RestOK /\ Conserved)'
    BY <2>1, KeepsInv, ReceivesInv, SendsInv, DropsInv DEF Effects
  <2>3. PlansOK'
    BY <2>1, PlansKept
  <2> QED
    BY <2>2, <2>3 DEF IInv
<1> QED
  BY <1>1, <1>2

-----------------------------------------------------------------------------
(* The end of a stream *)

\* A receive answers with the end of the stream only when the queue is empty
\* behind a closed peer, unless a fault of the plan makes it.
LEMMA Reported ==
  ASSUME IInv, NEW e \in Ends, ResumeReceive(e), ended' = <<e, "receive", "Disconnected">>,
         program[e] \cap IOFaults = {}
  PROVE  /\ queue[e] = <<>> /\ closed[Peer(e)]
         /\ UNCHANGED <<program, closed, queue, accepted, got, gone>>
<1>1. UNCHANGED <<program, closed>>
  BY DEF ResumeReceive
<1>2. "Disconnected" # "Closed" /\ "Disconnected" # "ok" /\ "Disconnected" # "none"
  OBVIOUS
<1>3. CASE closed[e] /\ EndReceive(e, "Closed")
  BY <1>3 DEF EndReceive
<1>4. CASE ~closed[e] /\ RecvInto(e)
  <2>1. CASE queue[e] # <<>> /\ EndReceive(e, "ok")
    BY <2>1 DEF EndReceive
  <2>2. CASE ParkReader(e)
    BY <2>2 DEF ParkReader, NoCall
  <2>3. CASE queue[e] = <<>> /\ closed[Peer(e)] /\ UNCHANGED <<queue, accepted, got, gone>>
    BY <1>1, <2>3
  <2> QED
    BY <1>4, <2>1, <2>2, <2>3 DEF RecvInto
<1>5. CASE ReadFault(faults[e]) # "none"
           /\ (IF ReadFault(faults[e]) \in {"eintr_reads", "eagain_reads"} THEN ParkReader(e)
               ELSE EndReceive(e, "Disconnected"))
  <2>1. PICK f : f = faults[e]
    OBVIOUS
  <2>2. f.raise_eio_on_read = FALSE /\ f.parity_errors = 0 /\ f.disconnected = FALSE
    BY <2>1 DEF IInv, PlansOK, IOFaults
  <2>3. ReadFault(f) \in {"eintr_reads", "eagain_reads", "none"}
    <3>1. ~(f.parity_errors > 0)
      BY <2>2
    <3> QED
      BY <2>2, <3>1 DEF ReadFault
  <2>4. ParkReader(e)
    BY <1>5, <2>1, <2>3
  <2> QED
    BY <2>4 DEF ParkReader, NoCall
<1> QED
  BY <1>3, <1>4, <1>5 DEF ResumeReceive

\* No other step of any end reports a receive of e as Disconnected.
LEMMA OnlyReceives ==
  ASSUME NEW e \in Ends, NEW f \in Ends,
         \/ Calls(f) \/ Reading(f) \/ Writing(f) \/ Cancel(f)
         \/ \E field \in DOMAIN NoFaults : Inject(f, field),
         ended' = <<e, "receive", "Disconnected">>
  PROVE  f = e /\ ResumeReceive(e)
<1>1. ended' # NoCall
  BY DEF NoCall
<1>2. ASSUME NEW g, NEW m, NEW r, ended' = <<g, m, r>>
      PROVE  g = e /\ m = "receive" /\ r = "Disconnected"
  BY <1>2
<1>3. ~receive(f) /\ ~WakeReader(f) /\ ~WakeWriter(f) /\ ~aclose(f)
  BY <1>1, <1>2 DEF receive, WakeReader, WakeWriter, EndReceive, ParkReader, aclose
<1>4. \A r : ~EndSend(f, r)
  BY <1>2 DEF EndSend
<1>5. ~ParkWriter(f)
  BY <1>1 DEF ParkWriter
<1>6. ~send(f) /\ ~send_break(f) /\ ~ResumeBreak(f)
  BY <1>1, <1>4, <1>5 DEF send, send_break, ResumeBreak
<1>7. ~SockSend(f)
  <2>1. ASSUME SockSend(f) PROVE ParkWriter(f) \/ \E r : EndSend(f, r)
    BY <2>1 DEF SockSend
  <2> QED
    BY <1>4, <1>5, <2>1
<1>8. ~ResumeSend(f)
  BY <1>4, <1>5, <1>7 DEF ResumeSend
<1>9. \A m, r : Call(f, m, r) => m = "receive"
  BY <1>2 DEF Call
<1>10. /\ ~reset_input_buffer(f) /\ ~input_waiting(f) /\ ~reset_output_buffer(f)
       /\ ~modem_lines(f) /\ \A r, d : ~set_control_lines(f, r, d)
  BY <1>9 DEF reset_input_buffer, input_waiting, reset_output_buffer, modem_lines,
              set_control_lines
<1>11. ~drain(f)
  BY <1>2, <1>9 DEF drain
<1>12. ~Cancel(f)
  BY <1>2, <1>4 DEF Cancel, EndReceive
<1>13. \A field : ~Inject(f, field)
  BY <1>1 DEF Inject
<1>14. ResumeReceive(f)
  BY <1>3, <1>6, <1>8, <1>10, <1>11, <1>12, <1>13 DEF Calls, Reading, Writing
<1>15. ended' = NoCall \/ \E r : ended' = <<f, "receive", r>>
  BY <1>14 DEF ResumeReceive, RecvInto, EndReceive, ParkReader
<1> QED
  BY <1>1, <1>2, <1>14, <1>15

LEMMA EndStep ==
  IInv /\ EndOfStreamIsTheEnd /\ [Next]_vars => EndOfStreamIsTheEnd'
<1> SUFFICES ASSUME IInv, EndOfStreamIsTheEnd, [Next]_vars,
                    NEW e \in Ends, ended' = <<e, "receive", "Disconnected">>,
                    program'[e] \cap IOFaults = {}
             PROVE  /\ closed'[Peer(e)]
                    /\ Elements(got'[e]) \cup gone'[e] = 1..accepted'[Peer(e)]
  BY DEF EndOfStreamIsTheEnd
<1>1. CASE UNCHANGED vars
  BY <1>1 DEF vars, streams, EndOfStreamIsTheEnd
<1>2. CASE Next
  <2>1. PICK f \in Ends :
           \/ Calls(f) \/ Reading(f) \/ Writing(f) \/ Cancel(f)
           \/ \E field \in DOMAIN NoFaults : Inject(f, field)
    BY <1>2 DEF Next
  <2>2. ResumeReceive(e)
    BY <2>1, OnlyReceives
  <2>3. program' = program
    BY <2>2 DEF ResumeReceive
  <2>4. /\ queue[e] = <<>> /\ closed[Peer(e)]
        /\ UNCHANGED <<program, closed, queue, accepted, got, gone>>
    BY <2>2, <2>3, Reported
  <2>5. Elements(got[e]) \cup gone[e] \cup Elements(queue[e]) = 1..accepted[Peer(e)]
    BY DEF IInv, Conserved
  <2>6. Elements(<<>>) = {}
    BY DEF Elements
  <2> QED
    BY <2>4, <2>5, <2>6
<1> QED
  BY <1>1, <1>2

LEMMA Invariance == Spec => [](IInv /\ EndOfStreamIsTheEnd)
<1>1. Init => IInv /\ EndOfStreamIsTheEnd
  <2>1. ASSUME Init PROVE EndOfStreamIsTheEnd
    <3>1. ended = <<"none", "none", "none">>
      BY <2>1 DEF Init, NoCall
    <3> QED
      BY <3>1 DEF EndOfStreamIsTheEnd
  <2> QED
    BY <2>1, InitInv
<1> QED
  BY <1>1, StepInv, EndStep, PTL DEF Spec

\* A receive on either end of serial_port_pair() that reports the end of the
\* stream, with no I/O fault injected, reports it at the end: the peer is
\* closed and all it has sent was received or discarded by a reset
\* (MockBackend.read_nonblocking maps only an empty recv to a disconnect).
THEOREM EndOfStreamCorrect == Spec => []EndOfStreamIsTheEnd
BY Invariance, PTL

-----------------------------------------------------------------------------
(* The two streams *)

LEMMA NextOf ==
  ASSUME IInv, NEW e \in Ends, NEW f \in Ends, Effects(e),
         \/ Stream(f)!Arrive \/ Stream(f)!Deliver \/ Stream(f)!Lose
         \/ UNCHANGED <<accepted[Peer(f)], queue[f], got[f], gone[f]>>
  PROVE  Stream(f)!Next
<1>1. /\ closed \in [Ends -> BOOLEAN]
      /\ closed' = closed \/ closed' = [closed EXCEPT ![e] = TRUE]
  BY DEF IInv, Typed, Effects, Keeps, Receives, Sends, Drops
<1>2. closed'[f] \in BOOLEAN /\ (closed[f] => closed'[f])
  BY <1>1
<1>3. (~closed[f])' \in BOOLEAN /\ ((~closed[f])' => ~closed[f])
  BY <1>2
<1> QED
  BY <1>3 DEF Stream!Next

LEMMA StreamStep ==
  ASSUME IInv, NEW e \in Ends, Effects(e), NEW f \in Ends
  PROVE  \/ Stream(f)!Arrive \/ Stream(f)!Deliver \/ Stream(f)!Lose
         \/ UNCHANGED <<accepted[Peer(f)], queue[f], got[f], gone[f]>>
<1>1. CASE Keeps(e)
  BY <1>1 DEF Keeps
<1>2. CASE Receives(e)
  <2>1. /\ accepted' = accepted /\ gone' = gone /\ ~closed[e]
    BY <1>2 DEF Receives
  <2>2. PICK k \in 1..Len(queue[e]) :
           /\ got' = [got EXCEPT ![e] = got[e] \o SubSeq(queue[e], 1, k)]
           /\ queue' = [queue EXCEPT ![e] = SubSeq(queue[e], k + 1, Len(queue[e]))]
    BY <1>2 DEF Receives
  <2>3. e \in DOMAIN got /\ e \in DOMAIN queue
    BY DEF IInv, Typed
  <2>4. CASE f = e
    <3>1. /\ got'[f] = got[f] \o SubSeq(queue[f], 1, k)
          /\ queue'[f] = SubSeq(queue[f], k + 1, Len(queue[f]))
          /\ UNCHANGED <<accepted[Peer(f)], gone[f]>>
      BY <2>1, <2>2, <2>3, <2>4
    <3>2. Stream(f)!Deliver
      BY <2>1, <2>4, <3>1 DEF Stream!Deliver
    <3> QED
      BY <3>2
  <2>5. CASE f # e
    BY <2>1, <2>2, <2>5 DEF IInv, Typed
  <2> QED
    BY <2>4, <2>5
<1>3. CASE Sends(e)
  <2>1. got' = got /\ gone' = gone
    BY <1>3 DEF Sends
  <2>2. PICK k \in 1..Len(rest[e]) :
           /\ queue' = [queue EXCEPT ![Peer(e)] = queue[Peer(e)] \o SubSeq(rest[e], 1, k)]
           /\ accepted' = [accepted EXCEPT ![e] = accepted[e] + k]
    BY <1>3 DEF Sends
  <2>3. PICK p \in Ends : p = Peer(e) /\ p # e /\ Peer(p) = e /\ \A g \in Ends : g = e \/ g = p
    BY PeerFacts
  <2>4. queue \in [Ends -> Seq(Nat)] /\ accepted \in [Ends -> Nat] /\ k \in Nat /\ k > 0
    BY DEF IInv, Typed
  <2>5. CASE f = e
    BY <2>1, <2>2, <2>3, <2>4, <2>5
  <2>6. CASE f = p
    <3>1. PICK a \in Nat : a = accepted[e]
      BY <2>4
    <3>2. SubSeq(rest[e], 1, k) = [i \in 1..k |-> a + i]
      BY <3>1, PayloadPart
    <3>3. /\ accepted[Peer(f)] = a /\ accepted'[Peer(f)] = a + k
          /\ queue'[f] = queue[f] \o [i \in 1..k |-> a + i]
      BY <2>2, <2>3, <2>4, <2>6, <3>1, <3>2
    <3>4. accepted[Peer(f)]' = a + k
      BY <3>3
    <3>5. a + k \in Nat /\ a + k > a /\ (a + k) - a = k
      BY <2>4
    <3>6. queue'[f] = queue[f] \o [i \in 1..((a + k) - a) |-> a + i]
      BY <3>3, <3>5
    <3>7. UNCHANGED <<got[f], gone[f]>>
      BY <2>1
    <3>8. Stream(f)!Arrive
      BY <3>3, <3>4, <3>5, <3>6, <3>7 DEF Stream!Arrive
    <3> QED
      BY <3>8
  <2> QED
    BY <2>3, <2>5, <2>6
<1>4. CASE Drops(e)
  <2>1. /\ gone' = [gone EXCEPT ![e] = gone[e] \cup Elements(queue[e])]
        /\ queue' = [queue EXCEPT ![e] = <<>>]
        /\ accepted' = accepted /\ got' = got
    BY <1>4 DEF Drops
  <2>2. queue \in [Ends -> Seq(Nat)] /\ DOMAIN gone = Ends
    BY DEF IInv, Typed
  <2>3. CASE f # e
    BY <2>1, <2>2, <2>3
  <2>4. CASE f = e
    <3>1. PICK s \in Seq(Nat) : s = queue[f]
      BY <2>2
    <3>2. gone'[f] = gone[f] \cup ElementsOf(s) /\ queue'[f] = <<>>
      BY <2>1, <2>2, <2>4, <3>1, SameElements
    <3>3. CASE s = <<>>
      <4>1. ElementsOf(<<>>) = {}
        BY DEF ElementsOf
      <4> QED
        BY <2>1, <3>1, <3>2, <3>3, <4>1
    <3>4. CASE s # <<>>
      <4>1. <<>> \in Seq(Nat) /\ s = <<>> \o (s \o <<>>) /\ <<>> \o <<>> = <<>>
        BY ConcatEmptySeq
      <4>2. CutsOut(s, <<>> \o <<>>, ElementsOf(s))
        BY <3>4, <4>1, MiddleLost
      <4>3. CutsOut(s, <<>>, ElementsOf(s))
        BY <4>1, <4>2
      <4>4. PICK i, j \in 1..Len(s) :
               /\ i <= j
               /\ <<>> = SubSeq(s, 1, i - 1) \o SubSeq(s, j + 1, Len(s))
               /\ ElementsOf(s) = {s[n] : n \in i..j}
        BY <4>3 DEF CutsOut
      <4>5. /\ queue'[f] = SubSeq(queue[f], 1, i - 1) \o SubSeq(queue[f], j + 1, Len(queue[f]))
            /\ gone'[f] = gone[f] \cup {queue[f][n] : n \in i..j}
        BY <3>1, <3>2, <4>4
      <4>6. i \in 1..Len(queue[f]) /\ j \in 1..Len(queue[f])
        BY <3>1
      <4>7. UNCHANGED <<accepted[Peer(f)], got[f]>>
        BY <2>1
      <4>8. Stream(f)!Lose
        BY <4>4, <4>5, <4>6, <4>7, Zenon DEF Stream!Lose
      <4> QED
        BY <4>8
    <3> QED
      BY <3>3, <3>4
  <2> QED
    BY <2>3, <2>4
<1> QED
  BY <1>1, <1>2, <1>3, <1>4 DEF Effects

LEMMA StreamInit ==
  ASSUME Init, NEW f \in Ends
  PROVE  Stream(f)!Init
<1>1. /\ closed[f] = FALSE /\ queue[f] = <<>> /\ got[f] = <<>> /\ gone[f] = {}
      /\ accepted[Peer(f)] = 0
  BY PeerFacts DEF Init
<1> QED
  BY <1>1 DEF Stream!Init

LEMMA StreamNext ==
  ASSUME IInv, [Next]_vars, NEW f \in Ends
  PROVE  [Stream(f)!Next]_(Stream(f)!vars)
<1>1. CASE UNCHANGED vars
  BY <1>1 DEF vars, streams, Stream!vars
<1>2. CASE Next
  <2>1. PICK e \in Ends : Effects(e)
    BY <1>2, StepEffect DEF Next
  <2>2. Stream(f)!Next
    BY <2>1, StreamStep, NextOf
  <2> QED
    BY <2>2
<1> QED
  BY <1>1, <1>2

\* Between the ends of serial_port_pair() run two byte streams: what the
\* socket takes from one end's sends comes out of the other end's receives in
\* order and once, whatever short writes, interrupted calls, I/O errors,
\* resets and closes the test injects.
THEOREM PairRefinement == Spec => PairCarriesStreams
<1>1. Init => \A e \in Ends : Stream(e)!Init
  BY StreamInit
<1>2. IInv /\ [Next]_vars => [\A e \in Ends : [Stream(e)!Next]_(Stream(e)!vars)]_vars
  BY StreamNext
<1> QED
  BY <1>1, <1>2, Invariance, PTL DEF Spec, PairCarriesStreams
==============================================================================
