--------------------------- MODULE PosixPortProofs ---------------------------
(***************************************************************************)
(* Proofs about PosixPort, for every set of tasks, every capacity and      *)
(* every bound.  The first part is about its control: the locks, guards    *)
(* and watches of the calls, and what an error and a cancellation leave    *)
(* behind.  The second part is about its bytes, in both directions, and    *)
(* ends with the refinements of InputStream and OutputStream.              *)
(***************************************************************************)
EXTENDS PosixPort, ByteSequences

\* Dequeue yields a queue of tasks.
LEMMA DequeueType ==
  ASSUME NEW s \in Seq(Tasks), NEW t
  PROVE  Dequeue(s, t) \in Seq(Tasks)
BY DEF Dequeue

\* The bytes of a send are numbered pairs.
LEMMA BytesType ==
  ASSUME NEW m \in Nat, NEW a \in Nat, NEW b \in Nat, a >= 1
  PROVE  Bytes(m, a, b) \in Seq(Nat \X Nat)
BY DEF Bytes

\* Every variable has its type when the port has just been opened.
LEMMA TypeInit == Init => TypeOK
<1> SUFFICES ASSUME Init PROVE TypeOK
  OBVIOUS
<1>1. FlagsOK
  BY DEF Init, FlagsOK
<1>2. ConfigOK /\ LocksOK
  BY DEF Init, ConfigOK, LocksOK
<1>3. TasksOK
  BY DEF Init, TasksOK, Pcs, Wakes, Outcomes
<1>4. CallsOK
  BY DEF Init, CallsOK
<1>5. InputOK /\ OutputOK
  BY SizeAssumption DEF Init, InputOK, OutputOK, SizeAssumption
<1> QED
  BY <1>1, <1>2, <1>3, <1>4, <1>5 DEF TypeOK

-----------------------------------------------------------------------------
(***************************************************************************)
(* The actions by kind, and what the actions of each kind leave alone.     *)
(***************************************************************************)
ReadActions(t) ==
  \/ \E n \in ReadSizes : receive(t, n) \/ receive_into(t, n)
  \/ \E n \in ReadSizes \cup {NoLimit} : receive_available(t, n)
  \/ ResumeReceive(t)

WriteActions(t) == (\E n \in SendSizes : send(t, n)) \/ ResumeSend(t)

DrainActions(t) ==
  \/ drain(t) \/ send_eof(t) \/ ResumeDrain(t) \/ drain_exact(t)
  \/ DispatchDrain(t) \/ tcdrain_blocking(t) \/ TcdrainReturns(t)
  \/ ResumeDrainExact(t) \/ SleepEnds(t)

BreakActions(t) ==
  (\E valid \in BOOLEAN : send_break(t, valid)) \/ ResumeBreak(t)

LockActions(t) ==
  \/ (\E c \in Configs : configure(t, c)) \/ aclose(t)
  \/ ResumeConfigure(t) \/ ResumeClose(t)
  \/ \E l \in Locks : AbandonLock(t, l)

FlushActions(t) ==
  \/ reset_input_buffer(t) \/ reset_output_buffer(t)
  \/ modem_lines(t) \/ set_control_lines(t)
  \/ input_waiting(t) \/ output_waiting(t)

LoopActions(t) == Cancel(t) \/ DeliverCancel(t) \/ LeaveScope(t) \/ FdReady(t)

DeviceActions == PeerSends \/ Transmit \/ Unplug

\* Every step is of one of these kinds.
LEMMA NextKinds ==
  ASSUME Next
  PROVE  \/ \E t \in Tasks : \/ ReadActions(t) \/ WriteActions(t)
                             \/ DrainActions(t) \/ BreakActions(t)
                             \/ LockActions(t) \/ FlushActions(t)
                             \/ LoopActions(t)
         \/ Finalize \/ DeviceActions
BY Zenon DEF Next, Calls, Resume, Worker, Environment, ReadActions, WriteActions,
   DrainActions, BreakActions, LockActions, FlushActions, LoopActions,
   DeviceActions

\* The reads touch the input, the receive guard and their own call.
LEMMA ReadFrame ==
  ASSUME NEW t \in Tasks, ReadActions(t)
  PROVE  UNCHANGED <<portVars, sendGuard, lockVars, offset, msg, target,
                     cancelled, up, outVars>>
BY DEF ReadActions, receive, receive_into, receive_available, EnterReceive,
   RejectArgument, ResumeReceive, callVars, guardVars

\* send touches the output, the send guard and its own call.
LEMMA WriteFrame ==
  ASSUME NEW t \in Tasks, WriteActions(t)
  PROVE  UNCHANGED <<portVars, receiveGuard, lockVars, target, cancelled, up,
                     inVars, breakOn>>
BY DEF WriteActions, send, ResumeSend, Refused, callVars, guardVars, outVars

\* The drains and the worker thread move no byte.
LEMMA DrainFrame ==
  ASSUME NEW t \in Tasks, DrainActions(t)
  PROVE  UNCHANGED <<portVars, receiveGuard, lockVars, callVars, cancelled, up,
                     inVars, outVars>>
BY DEF DrainActions, drain, send_eof, ResumeDrain, drain_exact, DispatchDrain,
   tcdrain_blocking, TcdrainReturns, ResumeDrainExact, SleepEnds, Refused,
   RestUnchanged, guardVars

\* send_break touches the line and the send guard only.
LEMMA BreakFrame ==
  ASSUME NEW t \in Tasks, BreakActions(t)
  PROVE  UNCHANGED <<portVars, receiveGuard, lockVars, callVars, cancelled, up,
                     inVars, outq, written, sends>>
BY DEF BreakActions, send_break, RejectArgument, ResumeBreak, Refused,
   guardVars, outVars

\* configure and aclose leave guards and bytes alone.
LEMMA LockFrame ==
  ASSUME NEW t \in Tasks, LockActions(t)
  PROVE  UNCHANGED <<alive, guardVars, arg, offset, msg, cancelled, up, inVars,
                     outVars>>
BY DEF LockActions, configure, aclose, ResumeConfigure, ApplyConfig,
   ConfigureRefused, ConfigureHalfApplied, ConfigureAccepted, ResumeClose,
   AbandonLock, portVars, cfgVars, callVars

\* The flushes and the one-ioctl calls touch only the kernel queues.
LEMMA FlushFrame ==
  ASSUME NEW t \in Tasks, FlushActions(t)
  PROVE  UNCHANGED <<portVars, guardVars, lockVars, callVars, cancelled, up,
                     produced, received, written, sends, breakOn>>
BY DEF FlushActions, reset_input_buffer, reset_output_buffer, Flush, inVars,
   outVars, modem_lines, set_control_lines, input_waiting, output_waiting, Query

\* The event loop only wakes tasks and opens or leaves cancel scopes.
LEMMA LoopFrame ==
  ASSUME NEW t \in Tasks, LoopActions(t)
  PROVE  UNCHANGED <<portVars, guardVars, lockVars, op, pc, outcome, callVars,
                     up, inVars, outVars>>
BY DEF LoopActions, Cancel, DeliverCancel, LeaveScope, FdReady, OnlyWake

\* The finalizer touches only the object and its descriptor.
LEMMA FinalizeFrame ==
  ASSUME Finalize
  PROVE  UNCHANGED <<closed, cfgVars, guardVars, lockVars, taskVars,
                     callVars, cancelled, up, inVars, outVars>>
BY DEF Finalize

\* The peer and the device touch the kernel queues and the plug.
LEMMA DeviceFrame ==
  ASSUME DeviceActions
  PROVE  UNCHANGED <<portVars, guardVars, lockVars, taskVars, callVars,
                     cancelled, received, written, sends, breakOn>>
BY DEF DeviceActions, PeerSends, Transmit, Unplug, inVars, outVars

-----------------------------------------------------------------------------
(* Type correctness, one group of variables at a time. *)

\* Every step keeps the flags Boolean.
LEMMA FlagsStep ==
  ASSUME FlagsOK, Next
  PROVE  FlagsOK'
<1> USE DEF FlagsOK
<1>1. ASSUME NEW t \in Tasks, ReadActions(t) PROVE FlagsOK'
  BY <1>1, ReadFrame, ZenonT(150) DEF ReadActions, receive, receive_into,
     receive_available, EnterReceive, RejectArgument, ResumeReceive, ReadStep,
     LeaveReceive, guardVars, portVars, cfgVars, outVars
<1>2. ASSUME NEW t \in Tasks, WriteActions(t) PROVE FlagsOK'
  <2>1. CASE \E n \in SendSizes : send(t, n)
    BY <2>1, WriteFrame, ZenonT(60) DEF WriteActions, send, Refused, LeaveSend,
       WriteStep, Advance, guardVars, portVars, cfgVars
  <2>2. CASE ResumeSend(t)
    BY <2>2, WriteFrame, ZenonT(60) DEF WriteActions, ResumeSend, WriteStep,
       Advance, LeaveSend, guardVars, portVars, cfgVars
  <2> QED
    BY <1>2, <2>1, <2>2 DEF WriteActions
<1>3. ASSUME NEW t \in Tasks, DrainActions(t) PROVE FlagsOK'
  <2>1. sendGuard' \in BOOLEAN
    <3>1. CASE drain(t) \/ send_eof(t) \/ ResumeDrain(t)
      BY <3>1 DEF drain, send_eof, ResumeDrain, DrainProbe, Refused, LeaveSend,
         guardVars
    <3>2. CASE ~(drain(t) \/ send_eof(t) \/ ResumeDrain(t))
      BY <1>3, <3>2 DEF DrainActions, drain_exact, DispatchDrain,
         tcdrain_blocking, TcdrainReturns, ResumeDrainExact, SleepEnds, Refused,
         LeaveSend, guardVars
    <3> QED
      BY <3>1, <3>2
  <2> QED
    BY <1>3, <2>1, DrainFrame DEF portVars, cfgVars, outVars
<1>4. ASSUME NEW t \in Tasks, BreakActions(t) PROVE FlagsOK'
  BY <1>4, BreakFrame, ZenonT(60) DEF BreakActions, send_break, RejectArgument,
     ResumeBreak, Refused, LeaveSend, guardVars, portVars, cfgVars, outVars
<1>5. ASSUME NEW t \in Tasks, LockActions(t) PROVE FlagsOK'
  BY <1>5, LockFrame, ZenonT(60) DEF LockActions, configure, aclose,
     ResumeConfigure, ApplyConfig, ConfigureRefused, ConfigureHalfApplied,
     ConfigureAccepted, ResumeClose, AbandonLock, guardVars, portVars, cfgVars,
     outVars
<1>6. ASSUME NEW t \in Tasks, FlushActions(t) \/ LoopActions(t) PROVE FlagsOK'
  BY <1>6, FlushFrame, LoopFrame DEF guardVars, portVars, cfgVars, outVars
<1>7. ASSUME Finalize \/ DeviceActions PROVE FlagsOK'
  BY <1>7, FinalizeFrame, DeviceFrame DEF Finalize, DeviceActions, PeerSends,
     Transmit, Unplug, guardVars, portVars, cfgVars, outVars
<1> QED
  BY <1>1, <1>2, <1>3, <1>4, <1>5, <1>6, <1>7, NextKinds

\* Every step keeps the configurations among those the port may have.
LEMMA ConfigStep ==
  ASSUME ConfigOK, CallsOK, Next
  PROVE  ConfigOK'
<1> USE DEF ConfigOK
<1>1. ASSUME NEW t \in Tasks, LockActions(t) PROVE ConfigOK'
  BY <1>1 DEF LockActions, configure, aclose, ResumeConfigure, ApplyConfig,
     ConfigureRefused, ConfigureHalfApplied, ConfigureAccepted, ResumeClose,
     AbandonLock, portVars, cfgVars, CallsOK
<1>2. ASSUME NEW t \in Tasks, \/ ReadActions(t) \/ WriteActions(t)
                              \/ DrainActions(t) \/ BreakActions(t)
                              \/ FlushActions(t) \/ LoopActions(t)
      PROVE  ConfigOK'
  BY <1>2, ReadFrame, WriteFrame, DrainFrame, BreakFrame, FlushFrame, LoopFrame
     DEF portVars, cfgVars
<1>3. ASSUME Finalize \/ DeviceActions PROVE ConfigOK'
  BY <1>3, FinalizeFrame, DeviceFrame DEF portVars, cfgVars
<1> QED
  BY <1>1, <1>2, <1>3, NextKinds

\* Every step keeps the owners and queues of the locks well-typed.
LEMMA LocksStep ==
  ASSUME LocksOK, Next
  PROVE  LocksOK'
<1> USE DEF LocksOK
<1>1. ASSUME NEW t \in Tasks, (\E c \in Configs : configure(t, c)) \/ aclose(t)
      PROVE  LocksOK'
  <2>1. \E l \in Locks, o \in OpNames : Acquire(t, o, l)
    <3>1. CASE \E c \in Configs : configure(t, c)
      BY <3>1, Zenon DEF configure, Locks, OpNames
    <3>2. CASE aclose(t)
      BY <3>2, Zenon DEF aclose, Locks, OpNames
    <3> QED
      BY <1>1, <3>1, <3>2
  <2>2. PICK l \in Locks, o \in OpNames : Acquire(t, o, l)
    BY <2>1
  <2>3. \/ UNCHANGED lockVars
        \/ owner' = [owner EXCEPT ![l] = t] /\ UNCHANGED waiters
        \/ waiters' = [waiters EXCEPT ![l] = Append(@, t)] /\ UNCHANGED owner
    BY <2>2 DEF Acquire
  <2>4. waiters[l] \in Seq(Tasks) /\ Append(waiters[l], t) \in Seq(Tasks)
    OBVIOUS
  <2> QED
    BY <2>3, <2>4 DEF lockVars
<1>2. ASSUME NEW t \in Tasks, ResumeConfigure(t) \/ ResumeClose(t)
      PROVE  LocksOK'
  BY <1>2, DequeueType DEF ResumeConfigure, ApplyConfig, ConfigureRefused,
     ConfigureHalfApplied, ConfigureAccepted, ResumeClose, LeaveLock, Locks
<1>3. ASSUME NEW t \in Tasks, NEW l \in Locks, AbandonLock(t, l)
      PROVE  LocksOK'
  BY <1>3, DequeueType DEF AbandonLock
<1>4. ASSUME NEW t \in Tasks, \/ ReadActions(t) \/ WriteActions(t)
                              \/ DrainActions(t) \/ BreakActions(t)
                              \/ FlushActions(t) \/ LoopActions(t)
      PROVE  LocksOK'
  BY <1>4, ReadFrame, WriteFrame, DrainFrame, BreakFrame, FlushFrame, LoopFrame
     DEF lockVars
<1>5. ASSUME Finalize \/ DeviceActions PROVE LocksOK'
  BY <1>5, FinalizeFrame, DeviceFrame DEF lockVars
<1> QED
  BY <1>1, <1>2, <1>3, <1>4, <1>5, NextKinds DEF LockActions

\* Nothing but the worker thread wakes a task that waits for it: no
\* cancellation and no notify_closing reaches the shielded wait.
WorkerWakes ==
  \A t \in Tasks : pc[t] \in {"worker_queued", "tcdrain"} =>
    wake[t] \in {"none", "ready", "ValueError", "termios.error"}

\* A drain_exact in its worker thread is never woken by a cancellation.
LEMMA WorkerWakesStep ==
  ASSUME TasksOK, WorkerWakes, Next
  PROVE  WorkerWakes'
<1> USE DEF WorkerWakes, TasksOK, Suspend, Return, ReadPcs
<1>1. ASSUME NEW t \in Tasks, ReadActions(t) PROVE WorkerWakes'
  BY <1>1 DEF ReadActions, receive, receive_into, receive_available,
     EnterReceive, RejectArgument, ResumeReceive, ReadStep, LeaveReceive
<1>2. ASSUME NEW t \in Tasks, WriteActions(t) PROVE WorkerWakes'
  BY <1>2 DEF WriteActions, send, ResumeSend, WriteStep, Advance, Refused, LeaveSend
<1>3. ASSUME NEW t \in Tasks, DrainActions(t) PROVE WorkerWakes'
  BY <1>3 DEF DrainActions, drain, send_eof, ResumeDrain, DrainProbe,
     drain_exact, DispatchDrain, tcdrain_blocking, TcdrainReturns,
     ResumeDrainExact, SleepEnds, Refused, LeaveSend
<1>4. ASSUME NEW t \in Tasks, BreakActions(t) PROVE WorkerWakes'
  BY <1>4 DEF BreakActions, send_break, RejectArgument, ResumeBreak, Refused,
     LeaveSend
<1>5. ASSUME NEW t \in Tasks, LockActions(t) PROVE WorkerWakes'
  <2>1. CASE (\E c \in Configs : configure(t, c)) \/ aclose(t)
    BY <2>1 DEF configure, aclose, Acquire, Locks, LockPc
  <2>2. CASE ResumeConfigure(t) \/ ResumeClose(t)
    BY <2>2 DEF ResumeConfigure, ApplyConfig, ConfigureRefused,
       ConfigureHalfApplied, ConfigureAccepted, ResumeClose, LeaveLock,
       Handoff, NotifyClosing
  <2>3. CASE \E l \in Locks : AbandonLock(t, l)
    BY <2>3 DEF AbandonLock
  <2> QED
    BY <1>5, <2>1, <2>2, <2>3 DEF LockActions
<1>6. ASSUME NEW t \in Tasks, FlushActions(t) PROVE WorkerWakes'
  BY <1>6 DEF FlushActions, reset_input_buffer, reset_output_buffer, Flush,
     modem_lines, set_control_lines, input_waiting, output_waiting, Query,
     errno_to_exception
<1>7. ASSUME NEW t \in Tasks, LoopActions(t) PROVE WorkerWakes'
  BY <1>7 DEF LoopActions, Cancel, DeliverCancel, LeaveScope, FdReady, Parked,
     OnlyWake
<1>8. ASSUME Finalize \/ DeviceActions PROVE WorkerWakes'
  BY <1>8, FinalizeFrame, DeviceFrame DEF taskVars
<1> QED
  BY <1>1, <1>2, <1>3, <1>4, <1>5, <1>6, <1>7, <1>8, NextKinds

\* Every step keeps the state of the tasks well-typed.
LEMMA TasksStep ==
  ASSUME FlagsOK, TasksOK, WorkerWakes, Next
  PROVE  TasksOK'
<1> USE DEF TasksOK, Suspend, Return, Pcs, ReadPcs, SendPcs, OpNames, Reads,
            Controls, LineQueries, QueueQueries, Wakes, Outcomes,
            errno_to_exception
<1>1. ASSUME NEW t \in Tasks, ReadActions(t) PROVE TasksOK'
  <2>1. CASE ResumeReceive(t)
    BY <2>1, ZenonT(60) DEF ResumeReceive, ReadStep, LeaveReceive, WakeError
  <2>2. CASE ~ResumeReceive(t)
    BY <1>1, <2>2 DEF ReadActions, receive, receive_into, receive_available,
       EnterReceive, RejectArgument
  <2> QED
    BY <2>1, <2>2
<1>2. ASSUME NEW t \in Tasks, WriteActions(t) PROVE TasksOK'
  BY <1>2 DEF WriteActions, send, ResumeSend, WriteStep, Advance, Refused, LeaveSend,
     WakeError
<1>3. ASSUME NEW t \in Tasks, DrainActions(t) PROVE TasksOK'
  <2>1. CASE drain(t) \/ send_eof(t) \/ ResumeDrain(t)
    BY <2>1 DEF drain, send_eof, ResumeDrain, DrainProbe, Refused, LeaveSend,
       RestUnchanged
  <2>2. CASE ~(drain(t) \/ send_eof(t) \/ ResumeDrain(t))
    BY <1>3, <2>2 DEF DrainActions, drain_exact, DispatchDrain,
       tcdrain_blocking, TcdrainReturns, ResumeDrainExact, SleepEnds, Refused,
       LeaveSend, RestUnchanged, WorkerWakes
  <2> QED
    BY <2>1, <2>2
<1>4. ASSUME NEW t \in Tasks, BreakActions(t) PROVE TasksOK'
  BY <1>4, ZenonT(60) DEF BreakActions, send_break, RejectArgument,
     ResumeBreak, Refused, LeaveSend
<1>5. ASSUME NEW t \in Tasks, LockActions(t) PROVE TasksOK'
  <2>1. CASE (\E c \in Configs : configure(t, c)) \/ aclose(t)
    BY <2>1 DEF configure, aclose, Acquire, Locks, LockPc
  <2>2. CASE ResumeConfigure(t) \/ ResumeClose(t)
    BY <2>2 DEF ResumeConfigure, ApplyConfig, ConfigureRefused,
       ConfigureHalfApplied, ConfigureAccepted, ResumeClose, LeaveLock,
       Handoff, NotifyClosing
  <2>3. CASE \E l \in Locks : AbandonLock(t, l)
    BY <2>3 DEF AbandonLock
  <2> QED
    BY <1>5, <2>1, <2>2, <2>3 DEF LockActions
<1>6. ASSUME NEW t \in Tasks, FlushActions(t) PROVE TasksOK'
  BY <1>6 DEF FlushActions, reset_input_buffer, reset_output_buffer, Flush,
     modem_lines, set_control_lines, input_waiting, output_waiting, Query,
     errno_to_exception
<1>7. ASSUME NEW t \in Tasks, LoopActions(t) PROVE TasksOK'
  BY <1>7 DEF LoopActions, Cancel, DeliverCancel, LeaveScope, FdReady, OnlyWake
<1>8. ASSUME Finalize \/ DeviceActions PROVE TasksOK'
  BY <1>8, FinalizeFrame, DeviceFrame DEF taskVars
<1> QED
  BY <1>1, <1>2, <1>3, <1>4, <1>5, <1>6, <1>7, <1>8, NextKinds

\* Every step keeps the arguments of the calls well-typed.
LEMMA CallsStep ==
  ASSUME CallsOK, InputOK, OutputOK, Next
  PROVE  CallsOK'
<1> USE SizeAssumption DEF SizeAssumption, CallsOK
<1>1. ASSUME NEW t \in Tasks, ReadActions(t) PROVE CallsOK'
  <2>1. arg' \in [Tasks -> Nat]
    <3>1. CASE ResumeReceive(t)
      <4>1. AvailableSize(t) \in Nat
        BY DEF AvailableSize, Smaller, InputOK
      <4>2. \/ arg' = arg \/ arg' = [arg EXCEPT ![t] = 0]
            \/ arg' = [arg EXCEPT ![t] = arg[t]]
            \/ arg' = [arg EXCEPT ![t] = AvailableSize(t)]
        BY <3>1, Zenon DEF ResumeReceive, ReadStep, LeaveReceive
      <4> QED
        BY <4>1, <4>2
    <3>2. CASE ~ResumeReceive(t)
      BY <1>1, <3>2 DEF ReadActions, receive, receive_into, receive_available,
         EnterReceive, RejectArgument, NoLimit, callVars
    <3> QED
      BY <3>1, <3>2
  <2> QED
    BY <1>1, <2>1, ReadFrame
<1>2. ASSUME NEW t \in Tasks, WriteActions(t) PROVE CallsOK'
  <2>1. CASE \E n \in SendSizes : send(t, n)
    <3>1. PICK n \in SendSizes : send(t, n)
      BY <2>1
    <3>2. CASE UNCHANGED callVars
      BY <3>2 DEF callVars
    <3>3. CASE /\ msg' = [msg EXCEPT ![t] = sends + 1]
               /\ arg' = [arg EXCEPT ![t] = n]
               /\ offset' = [offset EXCEPT ![t] = 0]
               /\ UNCHANGED target
      BY <3>3 DEF OutputOK
    <3> QED
      BY <3>1, <3>2, <3>3 DEF send, Refused
  <2>2. CASE ResumeSend(t)
    <3> DEFINE k == Smaller(arg[t] - offset[t], OutCap - outq)
    <3>1. UNCHANGED <<arg, msg, target>>
      BY <2>2 DEF ResumeSend
    <3>2. CASE UNCHANGED offset
      BY <3>1, <3>2
    <3>3. CASE offset' = [offset EXCEPT ![t] = offset[t] + k]
      <4>1. offset[t] + k \in Nat
        BY DEF Smaller, OutputOK
      <4> HIDE DEF k
      <4> QED
        BY <3>1, <3>3, <4>1
    <3> QED
      BY <2>2, <3>2, <3>3 DEF ResumeSend, WriteStep, Advance
  <2> QED
    BY <1>2, <2>1, <2>2 DEF WriteActions
<1>3. ASSUME NEW t \in Tasks, LockActions(t) PROVE CallsOK'
  BY <1>3 DEF LockActions, configure, aclose, ResumeConfigure, ApplyConfig,
     ConfigureRefused, ConfigureHalfApplied, ConfigureAccepted, ResumeClose,
     AbandonLock, callVars
<1>4. ASSUME NEW t \in Tasks, \/ DrainActions(t) \/ BreakActions(t)
                              \/ FlushActions(t) \/ LoopActions(t)
      PROVE  CallsOK'
  BY <1>4, DrainFrame, BreakFrame, FlushFrame, LoopFrame DEF callVars
<1>5. ASSUME Finalize \/ DeviceActions PROVE CallsOK'
  BY <1>5, FinalizeFrame, DeviceFrame DEF callVars
<1> QED
  BY <1>1, <1>2, <1>3, <1>4, <1>5, NextKinds

\* The elements of a sequence of numbers are numbers.
LEMMA ElementsType ==
  ASSUME NEW s \in Seq(Nat)
  PROVE  Elements(s) \subseteq Nat
<1> SUFFICES ASSUME NEW x \in Elements(s) PROVE x \in Nat
  OBVIOUS
<1>1. PICK i \in 1..Len(s) : x = s[i]
  BY DEF Elements
<1> QED
  BY <1>1

\* A read moves a prefix of the kernel queue to the callers.
Delivers ==
  /\ UNCHANGED <<produced, dropped>>
  /\ \E k \in Nat : /\ k <= Len(inq)
                    /\ received' = received \o SubSeq(inq, 1, k)
                    /\ inq' = SubSeq(inq, k + 1, Len(inq))

\* Of all read actions only a successful read touches the input, and then it
\* delivers.
LEMMA ReadInput ==
  ASSUME InputOK, CallsOK, NEW t \in Tasks, ReadActions(t)
  PROVE  UNCHANGED inVars \/ Delivers
<1> USE SizeAssumption DEF SizeAssumption
<1>1. ASSUME NEW n \in Nat, NEW p, ReadStep(t, n, p)
      PROVE  UNCHANGED inVars \/ Delivers
  <2>1. Smaller(n, Len(inq)) \in Nat /\ Smaller(n, Len(inq)) <= Len(inq)
    BY DEF Smaller, InputOK
  <2> QED
    BY <1>1, <2>1 DEF ReadStep, Delivers
<1>2. arg[t] \in Nat /\ AvailableSize(t) \in Nat
  BY DEF CallsOK, InputOK, AvailableSize, Smaller
<1>3. CASE ResumeReceive(t)
  BY <1>1, <1>2, <1>3 DEF ResumeReceive
<1>4. CASE ~ResumeReceive(t)
  BY <1>4 DEF ReadActions, receive, receive_into, receive_available,
     EnterReceive, RejectArgument
<1> QED
  BY <1>3, <1>4

\* Every step keeps the input well-typed.
LEMMA InputStep ==
  ASSUME InputOK, CallsOK, Next
  PROVE  InputOK'
<1> USE SizeAssumption DEF SizeAssumption, InputOK, inVars
<1>1. ASSUME NEW t \in Tasks, ReadActions(t) PROVE InputOK'
  <2>1. UNCHANGED inVars \/ Delivers
    BY <1>1, ReadInput
  <2>2. CASE UNCHANGED inVars
    BY <2>2
  <2>3. CASE Delivers
    <3>1. PICK k \in Nat : /\ k <= Len(inq)
                           /\ received' = received \o SubSeq(inq, 1, k)
                           /\ inq' = SubSeq(inq, k + 1, Len(inq))
      BY <2>3 DEF Delivers
    <3>2. SubSeq(inq, 1, k) \in Seq(Nat) /\ SubSeq(inq, k + 1, Len(inq)) \in Seq(Nat)
      BY <3>1
    <3> QED
      BY <2>3, <3>1, <3>2 DEF Delivers
  <2> QED
    BY <2>1, <2>2, <2>3
<1>2. ASSUME NEW t \in Tasks, FlushActions(t) PROVE InputOK'
  <2>1. /\ UNCHANGED <<produced, received>>
        /\ inq' = <<>> \/ inq' = inq
        /\ dropped' = dropped \/ dropped' = dropped \cup Elements(inq)
    BY <1>2 DEF FlushActions, reset_input_buffer, reset_output_buffer,
     modem_lines, set_control_lines, input_waiting, output_waiting, Query,
     inVars, outVars
  <2>2. inq' \in Seq(Nat)
    <3>1. <<>> \in Seq(Nat)
      OBVIOUS
    <3> QED
      BY <2>1, <3>1, Zenon
  <2>3. dropped' \subseteq Nat
    BY <2>1, ElementsType
  <2> QED
    BY <2>1, <2>2, <2>3
<1>3. ASSUME DeviceActions PROVE InputOK'
  <2>1. CASE PeerSends
    BY <2>1 DEF PeerSends
  <2>2. CASE Transmit
    BY <2>2 DEF Transmit
  <2>3. CASE Unplug
    <3>1. dropped' \subseteq Nat
      BY <2>3, ElementsType DEF Unplug
    <3> QED
      BY <2>3, <3>1 DEF Unplug
  <2> QED
    BY <1>3, <2>1, <2>2, <2>3 DEF DeviceActions
<1>4. ASSUME NEW t \in Tasks, \/ WriteActions(t) \/ DrainActions(t)
                              \/ BreakActions(t) \/ LockActions(t)
                              \/ LoopActions(t)
      PROVE  InputOK'
  BY <1>4, WriteFrame, DrainFrame, BreakFrame, LockFrame, LoopFrame
<1>5. ASSUME Finalize PROVE InputOK'
  BY <1>5, FinalizeFrame
<1> QED
  BY <1>1, <1>2, <1>3, <1>4, <1>5, NextKinds

\* A send that is parked still has bytes to write.
SendUnfinished ==
  \A t \in Tasks : pc[t] = "wait_writable" => offset[t] < arg[t]

\* Every step keeps the output well-typed and within the capacity.
LEMMA OutputStep ==
  ASSUME OutputOK, CallsOK, SendUnfinished, Next
  PROVE  OutputOK'
<1> USE SizeAssumption DEF SizeAssumption, OutputOK, outVars
<1>1. ASSUME NEW t \in Tasks, WriteActions(t) PROVE OutputOK'
  <2>1. CASE \E n \in SendSizes : send(t, n)
    BY <2>1 DEF send, Refused
  <2>2. CASE ResumeSend(t)
    <3>1. CASE UNCHANGED <<outq, written, sends>>
      BY <3>1
    <3>2. CASE /\ outq < OutCap
               /\ UNCHANGED sends
               /\ LET k == Smaller(arg[t] - offset[t], OutCap - outq)
                  IN  /\ written' = written \o Bytes(msg[t], offset[t] + 1, offset[t] + k)
                      /\ outq' = outq + k
      <4> DEFINE k == Smaller(arg[t] - offset[t], OutCap - outq)
      <4>1. k \in Nat /\ k <= OutCap - outq
        BY <2>2, <3>2, SMTT(60) DEF Smaller, CallsOK, ResumeSend, SendUnfinished
      <4> HIDE DEF k
      <4>a. msg[t] \in Nat /\ offset[t] + 1 \in Nat /\ offset[t] + k \in Nat
            /\ offset[t] + 1 >= 1
        BY <4>1 DEF CallsOK
      <4>2. Bytes(msg[t], offset[t] + 1, offset[t] + k) \in Seq(Nat \X Nat)
        BY <4>a, BytesType
      <4> QED
        BY <3>2, <4>1, <4>2 DEF k
    <3> QED
      BY <2>2, <3>1, <3>2 DEF ResumeSend, WriteStep, Advance
  <2> QED
    BY <1>1, <2>1, <2>2 DEF WriteActions
<1>2. ASSUME NEW t \in Tasks, FlushActions(t) PROVE OutputOK'
  BY <1>2 DEF FlushActions, reset_input_buffer, reset_output_buffer,
     modem_lines, set_control_lines, input_waiting, output_waiting, Query,
     inVars, outVars
<1>3. ASSUME DeviceActions PROVE OutputOK'
  BY <1>3 DEF DeviceActions, PeerSends, Transmit, Unplug
<1>4. ASSUME NEW t \in Tasks, \/ ReadActions(t) \/ DrainActions(t)
                              \/ BreakActions(t) \/ LockActions(t)
                              \/ LoopActions(t)
      PROVE  OutputOK'
  BY <1>4, ReadFrame, DrainFrame, BreakFrame, LockFrame, LoopFrame
<1>5. ASSUME Finalize PROVE OutputOK'
  BY <1>5, FinalizeFrame
<1> QED
  BY <1>1, <1>2, <1>3, <1>4, <1>5, NextKinds

-----------------------------------------------------------------------------
(***************************************************************************)
(* What an action does to the place of the task that takes it.             *)
(***************************************************************************)

\* Only the acting task moves.
Moves(t) == pc' = [pc EXCEPT ![t] = pc'[t]]

\* Where the task of a read is after its step, and what it did to the guard.
LEMMA ReadPlaces ==
  ASSUME FlagsOK, TasksOK, NEW t \in Tasks, ReadActions(t)
  PROVE  /\ Moves(t)
         /\ \/ /\ pc[t] = "idle" /\ pc'[t] = "idle" /\ UNCHANGED receiveGuard
            \/ /\ pc[t] = "idle" /\ pc'[t] \in ReadPcs /\ wake'[t] = "none"
               /\ ~receiveGuard /\ receiveGuard' /\ ~closed /\ alive
            \/ /\ pc[t] \in ReadPcs /\ pc'[t] = "idle" /\ ~receiveGuard'
            \/ /\ pc[t] \in ReadPcs /\ pc'[t] \in ReadPcs /\ UNCHANGED receiveGuard
               /\ fdOpen /\ ~closed
         /\ \A u \in Tasks : u # t => wake'[u] = wake[u]
<1> USE DEF TasksOK, FlagsOK, Suspend, Return, Moves, ReadPcs
<1>1. CASE ResumeReceive(t)
  BY <1>1 DEF ResumeReceive, ReadStep, LeaveReceive, Overtaken, ClosedOnWake
<1>2. CASE ~ResumeReceive(t)
  BY <1>2 DEF ReadActions, receive, receive_into, receive_available, CanCall,
     EnterReceive, RejectArgument, guardVars
<1> QED
  BY <1>1, <1>2

\* The same for the task of a send.
LEMMA WritePlaces ==
  ASSUME FlagsOK, TasksOK, NEW t \in Tasks, WriteActions(t)
  PROVE  /\ Moves(t)
         /\ \/ /\ pc[t] = "idle" /\ pc'[t] = "idle" /\ UNCHANGED sendGuard
            \/ /\ pc[t] = "idle" /\ pc'[t] = "wait_writable" /\ wake'[t] = "none"
               /\ ~sendGuard /\ sendGuard' /\ ~closed /\ alive
            \/ /\ pc[t] = "wait_writable" /\ pc'[t] = "idle" /\ ~sendGuard'
            \/ /\ pc[t] = "wait_writable" /\ pc'[t] = "wait_writable"
               /\ UNCHANGED sendGuard
               /\ fdOpen /\ ~closed
         /\ \A u \in Tasks : u # t => wake'[u] = wake[u]
BY DEF TasksOK, FlagsOK, Suspend, Return, Moves, WriteActions, send, ResumeSend,
   WriteStep, Advance, Refused, LeaveSend, CanCall, guardVars, Overtaken, ClosedOnWake

\* The same for the task of a drain.
LEMMA DrainPlaces ==
  ASSUME FlagsOK, TasksOK, NEW t \in Tasks, DrainActions(t)
  PROVE  /\ Moves(t)
         /\ \/ /\ pc[t] = "idle" /\ pc'[t] = "idle"
               /\ sendGuard' <=> sendGuard
            \/ /\ pc[t] = "idle" /\ ~sendGuard /\ sendGuard' /\ alive
               /\ pc'[t] \in {"drain_sleep", "thread_checkpoint"}
            \/ /\ pc[t] \in SendPcs \ {"wait_writable", "break_sleep"}
               /\ pc'[t] = "idle" /\ ~sendGuard'
            \/ /\ pc[t] \in SendPcs \ {"wait_writable", "break_sleep"}
               /\ pc'[t] \in SendPcs \ {"wait_writable", "break_sleep"}
               /\ sendGuard => sendGuard'
            \/ /\ pc[t] = "break_sleep" /\ UNCHANGED <<pc, sendGuard>>
         /\ \A u \in Tasks : u # t => wake'[u] = wake[u]
<1> USE DEF TasksOK, FlagsOK, Suspend, Return, Moves, LeaveSend, SendPcs,
        CanCall, guardVars
<1>1. CASE drain(t) \/ send_eof(t)
  BY <1>1 DEF drain, send_eof, DrainProbe, Refused
<1>2. CASE ResumeDrain(t)
  BY <1>2 DEF ResumeDrain, DrainProbe
<1>3. CASE drain_exact(t)
  BY <1>3 DEF drain_exact, Refused
<1>4. CASE DispatchDrain(t) \/ tcdrain_blocking(t)
  BY <1>4 DEF DispatchDrain, tcdrain_blocking
<1>5. CASE TcdrainReturns(t) \/ ResumeDrainExact(t) \/ SleepEnds(t)
  BY <1>5 DEF TcdrainReturns, ResumeDrainExact, SleepEnds
<1> QED
  BY <1>1, <1>2, <1>3, <1>4, <1>5 DEF DrainActions

\* The same for the task of a send_break.
LEMMA BreakPlaces ==
  ASSUME FlagsOK, TasksOK, NEW t \in Tasks, BreakActions(t)
  PROVE  /\ Moves(t)
         /\ \/ /\ pc[t] = "idle" /\ pc'[t] = "idle"
               /\ sendGuard' <=> sendGuard
               /\ UNCHANGED breakOn
            \/ /\ pc[t] = "idle" /\ pc'[t] = "break_sleep"
               /\ ~sendGuard /\ sendGuard' /\ alive
            \/ /\ pc[t] = "break_sleep" /\ pc'[t] = "idle" /\ ~sendGuard'
               /\ ~breakOn' \/ ~fdOpen \/ ~up
         /\ \A u \in Tasks : u # t => wake'[u] = wake[u]
<1> USE DEF TasksOK, FlagsOK, Suspend, Return, Moves, LeaveSend
<1>1. CASE \E valid \in BOOLEAN : send_break(t, valid)
  BY <1>1 DEF send_break, RejectArgument, Refused, CanCall, guardVars, outVars
<1>2. CASE ResumeBreak(t)
  BY <1>2 DEF ResumeBreak
<1> QED
  BY <1>1, <1>2 DEF BreakActions

\* A lock step moves its task between idle and the lock.
LEMMA LockPlaces ==
  ASSUME TasksOK, NEW t \in Tasks, LockActions(t)
  PROVE  /\ Moves(t)
         /\ pc[t] \in {"idle", "close_lock", "configure_lock"}
         /\ pc'[t] \in {"idle", "close_lock", "configure_lock"}
<1> USE DEF TasksOK, Suspend, Return, Moves, Locks, LockPc
<1>1. CASE (\E c \in Configs : configure(t, c)) \/ aclose(t)
  BY <1>1 DEF configure, aclose, Acquire, CanCall
<1>2. CASE ResumeConfigure(t) \/ ResumeClose(t)
  BY <1>2 DEF ResumeConfigure, ApplyConfig, ConfigureRefused,
     ConfigureHalfApplied, ConfigureAccepted, ResumeClose, LeaveLock
<1>3. CASE \E l \in Locks : AbandonLock(t, l)
  BY <1>3 DEF AbandonLock
<1> QED
  BY <1>1, <1>2, <1>3 DEF LockActions

\* A flush leaves its task idle.
LEMMA FlushPlaces ==
  ASSUME TasksOK, NEW t \in Tasks, FlushActions(t)
  PROVE  /\ Moves(t) /\ pc[t] = "idle" /\ pc'[t] = "idle"
         /\ \A u \in Tasks : u # t => wake'[u] = wake[u]
BY DEF TasksOK, Return, Moves, FlushActions, reset_input_buffer,
   reset_output_buffer, Flush, modem_lines, set_control_lines, input_waiting,
   output_waiting, Query, CanCall

-----------------------------------------------------------------------------
(* The guards *)

\* A step in which no task enters or leaves a guarded section keeps them.
LEMMA GuardsKept ==
  ASSUME TasksOK, GuardsExact, UNCHANGED guardVars,
         \A u \in Tasks : /\ pc'[u] \in ReadPcs <=> pc[u] \in ReadPcs
                          /\ pc'[u] \in SendPcs <=> pc[u] \in SendPcs
  PROVE  GuardsExact'
BY DEF GuardsExact, Receiving, Sending, guardVars

\* Every step keeps the guards exact.
LEMMA GuardsStep ==
  ASSUME FlagsOK, TasksOK, GuardsExact, Next
  PROVE  GuardsExact'
<1> USE DEF Moves, TasksOK
<1>1. ASSUME NEW t \in Tasks, ReadActions(t) PROVE GuardsExact'
  BY <1>1, ReadPlaces, ReadFrame
     DEF GuardsExact, Receiving, Sending, ReadPcs, SendPcs
<1>2. ASSUME NEW t \in Tasks, WriteActions(t) PROVE GuardsExact'
  BY <1>2, WritePlaces, WriteFrame
     DEF GuardsExact, Receiving, Sending, ReadPcs, SendPcs
<1>3. ASSUME NEW t \in Tasks, DrainActions(t) PROVE GuardsExact'
  BY <1>3, DrainPlaces, DrainFrame
     DEF GuardsExact, Receiving, Sending, ReadPcs, SendPcs
<1>4. ASSUME NEW t \in Tasks, BreakActions(t) PROVE GuardsExact'
  BY <1>4, BreakPlaces, BreakFrame
     DEF GuardsExact, Receiving, Sending, ReadPcs, SendPcs
<1>5. ASSUME NEW t \in Tasks, LockActions(t) PROVE GuardsExact'
  BY <1>5, LockPlaces, LockFrame, GuardsKept DEF ReadPcs, SendPcs
<1>6. ASSUME NEW t \in Tasks, FlushActions(t) PROVE GuardsExact'
  BY <1>6, FlushPlaces, FlushFrame, GuardsKept
<1>7. ASSUME NEW t \in Tasks, LoopActions(t) PROVE GuardsExact'
  BY <1>7, LoopFrame, GuardsKept
<1>8. ASSUME Finalize \/ DeviceActions PROVE GuardsExact'
  BY <1>8, FinalizeFrame, DeviceFrame, GuardsKept DEF taskVars
<1> QED
  BY <1>1, <1>2, <1>3, <1>4, <1>5, <1>6, <1>7, <1>8, NextKinds

-----------------------------------------------------------------------------
(* Closing *)

\* A collected port has no descriptor and no call in flight.
Collected == ~alive => ~fdOpen /\ \A t \in Tasks : pc[t] = "idle"

Waiting == ReadPcs \cup {"wait_writable"}

\* A step that parks no task on the descriptor and opens nothing.
LEMMA ReleasedKept ==
  ASSUME FlagsOK, ClosedMeansReleased, UNCHANGED <<closed, fdOpen, alive>>,
         \A u \in Tasks : Parked(u, Waiting)' => Parked(u, Waiting) \/ fdOpen
  PROVE  ClosedMeansReleased'
BY DEF ClosedMeansReleased, Waiting, FlagsOK

\* Every step keeps a closed descriptor free of parked tasks.
LEMMA ReleasedStep ==
  ASSUME FlagsOK, TasksOK, ClosedMeansReleased, Collected, Next
  PROVE  ClosedMeansReleased'
<1> USE DEF Parked, Waiting, Moves, TasksOK, portVars, cfgVars
<1>1. ASSUME NEW t \in Tasks, ReadActions(t) PROVE ClosedMeansReleased'
  <2>1. ASSUME NEW u \in Tasks, Parked(u, Waiting)'
        PROVE  Parked(u, Waiting) \/ fdOpen
    BY <1>1, <2>1, ReadPlaces DEF ClosedMeansReleased, ReadPcs
  <2> QED
    BY <1>1, <2>1, ReadFrame, ReleasedKept
<1>2. ASSUME NEW t \in Tasks, WriteActions(t) PROVE ClosedMeansReleased'
  <2>1. ASSUME NEW u \in Tasks, Parked(u, Waiting)'
        PROVE  Parked(u, Waiting) \/ fdOpen
    BY <1>2, <2>1, WritePlaces DEF ClosedMeansReleased, ReadPcs
  <2> QED
    BY <1>2, <2>1, WriteFrame, ReleasedKept
<1>3. ASSUME NEW t \in Tasks, DrainActions(t) PROVE ClosedMeansReleased'
  <2>1. ASSUME NEW u \in Tasks, Parked(u, Waiting)'
        PROVE  Parked(u, Waiting) \/ fdOpen
    BY <1>3, <2>1, DrainPlaces DEF SendPcs, ReadPcs
  <2> QED
    BY <1>3, <2>1, DrainFrame, ReleasedKept
<1>4. ASSUME NEW t \in Tasks, BreakActions(t) PROVE ClosedMeansReleased'
  <2>1. ASSUME NEW u \in Tasks, Parked(u, Waiting)'
        PROVE  Parked(u, Waiting) \/ fdOpen
    BY <1>4, <2>1, BreakPlaces DEF SendPcs, ReadPcs
  <2> QED
    BY <1>4, <2>1, BreakFrame, ReleasedKept
<1>5. ASSUME NEW t \in Tasks, LockActions(t) PROVE ClosedMeansReleased'
  <2>1. CASE (\E c \in Configs : configure(t, c)) \/ aclose(t)
    BY <2>1, ReleasedKept DEF configure, aclose, Acquire, Suspend, Return,
       Locks, LockPc, ReadPcs
  <2>2. CASE ResumeConfigure(t)
    BY <2>2, ReleasedKept DEF ResumeConfigure, ApplyConfig, ConfigureRefused,
       ConfigureHalfApplied, ConfigureAccepted, LeaveLock, Handoff, ReadPcs
  <2>3. CASE ResumeClose(t) /\ closed
    <3>1. PICK n \in Tasks \cup {NoTask} :
            /\ LeaveLock(t, "close", n, "ok")
            /\ wake' = Handoff(wake, t, n)
            /\ UNCHANGED <<closed, fdOpen, alive>>
      BY <2>3 DEF ResumeClose
    <3>2. ASSUME NEW u \in Tasks, Parked(u, Waiting)'
          PROVE  Parked(u, Waiting)
      BY <3>1, <3>2 DEF LeaveLock, Handoff, ReadPcs
    <3> QED
      BY <3>1, <3>2, ReleasedKept
  <2>4. CASE ResumeClose(t) /\ ~closed
    BY <2>4 DEF ResumeClose, LeaveLock, Handoff, NotifyClosing,
       ClosedMeansReleased, ReadPcs
  <2>5. CASE \E l \in Locks : AbandonLock(t, l)
    BY <2>5, ReleasedKept DEF AbandonLock, Return, ReadPcs
  <2> QED
    BY <1>5, <2>1, <2>2, <2>3, <2>4, <2>5 DEF LockActions
<1>6. ASSUME NEW t \in Tasks, FlushActions(t) PROVE ClosedMeansReleased'
  BY <1>6, FlushPlaces, FlushFrame, ReleasedKept DEF ReadPcs
<1>7. ASSUME NEW t \in Tasks, LoopActions(t) PROVE ClosedMeansReleased'
  <2>1. ASSUME NEW u \in Tasks, Parked(u, Waiting)'
        PROVE  Parked(u, Waiting)
    BY <1>7, <2>1, LoopFrame DEF LoopActions, Cancel, DeliverCancel,
       LeaveScope, FdReady
  <2> QED
    BY <1>7, <2>1, LoopFrame, ReleasedKept
<1>8. ASSUME Finalize PROVE ClosedMeansReleased'
  BY <1>8 DEF Finalize, ClosedMeansReleased, taskVars, ReadPcs
<1>9. ASSUME DeviceActions PROVE ClosedMeansReleased'
  BY <1>9, DeviceFrame, ReleasedKept DEF taskVars
<1> QED
  BY <1>1, <1>2, <1>3, <1>4, <1>5, <1>6, <1>7, <1>8, <1>9, NextKinds

\* After the finalizer has run, no task is in a call and the descriptor is
\* closed.
LEMMA CollectedStep ==
  ASSUME FlagsOK, TasksOK, Collected, Next
  PROVE  Collected'
<1> USE DEF Collected, Moves, TasksOK, portVars, cfgVars
<1>1. ASSUME NEW t \in Tasks, ReadActions(t) PROVE Collected'
  BY <1>1, ReadPlaces, ReadFrame DEF ReadPcs
<1>2. ASSUME NEW t \in Tasks, WriteActions(t) PROVE Collected'
  BY <1>2, WritePlaces, WriteFrame
<1>3. ASSUME NEW t \in Tasks, DrainActions(t) PROVE Collected'
  BY <1>3, DrainPlaces, DrainFrame DEF SendPcs
<1>4. ASSUME NEW t \in Tasks, BreakActions(t) PROVE Collected'
  BY <1>4, BreakPlaces, BreakFrame
<1>5. ASSUME NEW t \in Tasks, LockActions(t) PROVE Collected'
  <2>1. CASE (\E c \in Configs : configure(t, c)) \/ aclose(t)
    BY <2>1 DEF configure, aclose, CanCall
  <2>2. CASE ResumeConfigure(t) \/ ResumeClose(t)
    BY <2>2 DEF ResumeConfigure, ApplyConfig, ConfigureRefused,
       ConfigureHalfApplied, ConfigureAccepted, ResumeClose
  <2>3. CASE \E l \in Locks : AbandonLock(t, l)
    BY <2>3 DEF AbandonLock, Return
  <2> QED
    BY <1>5, <2>1, <2>2, <2>3 DEF LockActions
<1>6. ASSUME NEW t \in Tasks, FlushActions(t) \/ LoopActions(t) PROVE Collected'
  BY <1>6, FlushPlaces, FlushFrame, LoopFrame
<1>7. ASSUME Finalize \/ DeviceActions PROVE Collected'
  BY <1>7, DeviceFrame DEF Finalize, taskVars
<1> QED
  BY <1>1, <1>2, <1>3, <1>4, <1>5, <1>6, <1>7, NextKinds

-----------------------------------------------------------------------------
(* Sends, the BREAK condition and the configuration *)

\* Every step leaves a parked send with bytes to write.
LEMMA SendUnfinishedStep ==
  ASSUME FlagsOK, TasksOK, CallsOK, OutputOK, SendUnfinished, Next
  PROVE  SendUnfinished'
<1> USE DEF SendUnfinished, Moves, TasksOK
<1>1. ASSUME NEW t \in Tasks, ReadActions(t) PROVE SendUnfinished'
  <2>1. \A u \in Tasks : u # t => arg'[u] = arg[u]
    BY <1>1 DEF ReadActions, receive, receive_into, receive_available,
       EnterReceive, RejectArgument, ResumeReceive, ReadStep, LeaveReceive,
       CallsOK, callVars
  <2> QED
    BY <1>1, <2>1, ReadPlaces, ReadFrame DEF ReadPcs
<1>2. ASSUME NEW t \in Tasks, WriteActions(t) PROVE SendUnfinished'
  <2>1. CASE \E n \in SendSizes : send(t, n)
    BY <2>1, SizeAssumption DEF send, Refused, Suspend, Return, callVars,
       CallsOK, SizeAssumption
  <2>2. CASE ResumeSend(t)
    <3> DEFINE k == Smaller(arg[t] - offset[t], OutCap - outq)
    <3>1. k \in Int
      BY SizeAssumption DEF Smaller, CallsOK, OutputOK, SizeAssumption
    <3>2. arg' = arg /\ pc[t] = "wait_writable"
      BY <2>2 DEF ResumeSend
    <3>3. \/ UNCHANGED offset
          \/ /\ offset' = [offset EXCEPT ![t] = @ + k]
             /\ offset[t] + k >= arg[t] => pc'[t] = "idle"
      BY <2>2 DEF ResumeSend, WriteStep, Advance, LeaveSend, Return
    <3>4. pc' = [pc EXCEPT ![t] = pc'[t]]
      BY <2>2, WritePlaces DEF WriteActions
    <3> HIDE DEF k
    <3> QED
      BY <3>1, <3>2, <3>3, <3>4 DEF CallsOK
  <2> QED
    BY <1>2, <2>1, <2>2 DEF WriteActions
<1>3. ASSUME NEW t \in Tasks, DrainActions(t) PROVE SendUnfinished'
  BY <1>3, DrainPlaces, DrainFrame DEF SendPcs, callVars
<1>4. ASSUME NEW t \in Tasks, BreakActions(t) PROVE SendUnfinished'
  BY <1>4, BreakPlaces, BreakFrame DEF callVars
<1>5. ASSUME NEW t \in Tasks, LockActions(t) PROVE SendUnfinished'
  BY <1>5, LockPlaces, LockFrame
<1>6. ASSUME NEW t \in Tasks, FlushActions(t) \/ LoopActions(t)
      PROVE  SendUnfinished'
  BY <1>6, FlushPlaces, FlushFrame, LoopFrame DEF callVars
<1>7. ASSUME Finalize \/ DeviceActions PROVE SendUnfinished'
  BY <1>7, FinalizeFrame, DeviceFrame DEF taskVars, callVars
<1> QED
  BY <1>1, <1>2, <1>3, <1>4, <1>5, <1>6, <1>7, NextKinds

\* A step that neither asserts BREAK nor ends a send_break, and revives
\* neither the descriptor nor the device.
LEMMA BreakKept ==
  ASSUME BreakReleased, UNCHANGED breakOn, fdOpen' => fdOpen, up' => up,
         \A u \in Tasks : pc[u] = "break_sleep" => pc'[u] = "break_sleep"
  PROVE  BreakReleased'
BY DEF BreakReleased

\* Every step keeps BREAK within the sleep of a send_break.
LEMMA BreakStep ==
  ASSUME FlagsOK, TasksOK, BreakReleased, Next
  PROVE  BreakReleased'
<1> USE DEF Moves, TasksOK, portVars, cfgVars, outVars
<1>1. ASSUME NEW t \in Tasks, ReadActions(t) PROVE BreakReleased'
  BY <1>1, ReadPlaces, ReadFrame, BreakKept DEF ReadPcs
<1>2. ASSUME NEW t \in Tasks, WriteActions(t) PROVE BreakReleased'
  BY <1>2, WritePlaces, WriteFrame, BreakKept
<1>3. ASSUME NEW t \in Tasks, DrainActions(t) PROVE BreakReleased'
  BY <1>3, DrainPlaces, DrainFrame, BreakKept DEF SendPcs
<1>4. ASSUME NEW t \in Tasks, BreakActions(t) PROVE BreakReleased'
  BY <1>4, BreakPlaces, BreakFrame DEF BreakReleased
<1>5. ASSUME NEW t \in Tasks, LockActions(t) PROVE BreakReleased'
  <2>1. fdOpen' => fdOpen
    BY <1>5 DEF LockActions, configure, aclose, ResumeConfigure, ApplyConfig,
       ConfigureRefused, ConfigureHalfApplied, ConfigureAccepted, ResumeClose,
       AbandonLock
  <2> QED
    BY <1>5, <2>1, LockPlaces, LockFrame, BreakKept
<1>6. ASSUME NEW t \in Tasks, FlushActions(t) PROVE BreakReleased'
  BY <1>6, FlushPlaces, FlushFrame, BreakKept
<1>7. ASSUME NEW t \in Tasks, LoopActions(t) PROVE BreakReleased'
  BY <1>7, LoopFrame, BreakKept
<1>8. ASSUME Finalize \/ DeviceActions PROVE BreakReleased'
  <2>1. /\ UNCHANGED <<pc, breakOn>>
        /\ fdOpen' => fdOpen
        /\ up' => up
    BY <1>8 DEF Finalize, DeviceActions, PeerSends, Transmit, Unplug, taskVars
  <2> QED
    BY <2>1, BreakKept
<1> QED
  BY <1>1, <1>2, <1>3, <1>4, <1>5, <1>6, <1>7, <1>8, NextKinds

\* Without a half-applied configuration, port.config is what the kernel has.
SettingsAgree == ~halfApplied => config = termiosCfg

\* Every step keeps port.config and the kernel together.
LEMMA SettingsStep ==
  ASSUME SettingsAgree, Next
  PROVE  SettingsAgree'
<1> USE DEF SettingsAgree, portVars, cfgVars
<1>1. ASSUME NEW t \in Tasks, LockActions(t) PROVE SettingsAgree'
  BY <1>1 DEF LockActions, configure, aclose, ResumeConfigure, ApplyConfig,
     ConfigureRefused, ConfigureHalfApplied, ConfigureAccepted, ResumeClose,
     AbandonLock
<1>2. ASSUME NEW t \in Tasks, \/ ReadActions(t) \/ WriteActions(t)
                              \/ DrainActions(t) \/ BreakActions(t)
                              \/ FlushActions(t) \/ LoopActions(t)
      PROVE  SettingsAgree'
  BY <1>2, ReadFrame, WriteFrame, DrainFrame, BreakFrame, FlushFrame, LoopFrame
<1>3. ASSUME Finalize \/ DeviceActions PROVE SettingsAgree'
  BY <1>3, FinalizeFrame, DeviceFrame
<1> QED
  BY <1>1, <1>2, <1>3, NextKinds

-----------------------------------------------------------------------------
(* The locks *)

Distinct(s) == \A i, j \in 1..Len(s) : i # j => s[i] # s[j]

\* Dequeue takes t out of a queue without repetitions and adds nothing.
LEMMA DequeueQueue ==
  ASSUME NEW s \in Seq(Tasks), NEW t, Distinct(s)
  PROVE  LET q == Dequeue(s, t)
         IN  /\ Distinct(q)
             /\ \A i \in 1..Len(q) : q[i] # t /\ \E j \in 1..Len(s) : q[i] = s[j]
<1>1. CASE \E i \in 1..Len(s) : s[i] = t
  <2> DEFINE m == CHOOSE i \in 1..Len(s) : s[i] = t
             q == SubSeq(s, 1, m - 1) \o SubSeq(s, m + 1, Len(s))
  <2>1. m \in 1..Len(s) /\ s[m] = t
    BY <1>1
  <2>2. Dequeue(s, t) = q
    BY <1>1 DEF Dequeue
  <2> HIDE DEF m
  <2> DEFINE a == SubSeq(s, 1, m - 1)
             b == SubSeq(s, m + 1, Len(s))
  <2>3. /\ a \in Seq(Tasks) /\ Len(a) = m - 1
        /\ \A i \in 1..(m - 1) : a[i] = s[i]
    BY <2>1
  <2>4. /\ b \in Seq(Tasks) /\ Len(b) = Len(s) - m
        /\ \A i \in 1..(Len(s) - m) : b[i] = s[m + i]
    BY <2>1
  <2> HIDE DEF a, b
  <2>5. /\ Len(a \o b) = Len(s) - 1
        /\ \A i \in 1..Len(a \o b) :
             (a \o b)[i] = IF i < m THEN a[i] ELSE b[i - (m - 1)]
    BY <2>1, <2>3, <2>4
  <2>6. \A i \in 1..(Len(s) - 1) : (a \o b)[i] = s[IF i < m THEN i ELSE i + 1]
    BY <2>1, <2>3, <2>4, <2>5
  <2>7. q = a \o b
    BY DEF a, b
  <2> HIDE DEF q
  <2>8. /\ Len(q) = Len(s) - 1
        /\ \A i \in 1..Len(q) : q[i] = s[IF i < m THEN i ELSE i + 1]
    BY <2>5, <2>6, <2>7
  <2>9. \A i \in 1..Len(q) : (IF i < m THEN i ELSE i + 1) \in 1..Len(s) \ {m}
    BY <2>1, <2>8
  <2>10. \A i \in 1..Len(q) : q[i] # t /\ \E j \in 1..Len(s) : q[i] = s[j]
    BY <2>1, <2>8, <2>9 DEF Distinct
  <2>11. Distinct(q)
    BY <2>1, <2>8, <2>9 DEF Distinct
  <2> QED
    BY <2>2, <2>10, <2>11
<1>2. CASE ~\E i \in 1..Len(s) : s[i] = t
  BY <1>2 DEF Dequeue, Distinct
<1> QED
  BY <1>1, <1>2

LockPcs == {"close_lock", "configure_lock"}

\* A step that leaves the locks, and the tasks that wait for or hold one.
LEMMA LockKept ==
  ASSUME LocksOK, LockDiscipline, UNCHANGED lockVars,
         \A u \in Tasks :
           /\ pc[u] \in LockPcs \/ pc'[u] \in LockPcs => pc'[u] = pc[u]
           /\ pc[u] \in LockPcs => (wake'[u] = "ready" <=> wake[u] = "ready")
  PROVE  LockDiscipline'
<1>1. \A l \in Locks : LockPc[l] \in LockPcs
  BY DEF Locks, LockPc, LockPcs
<1>2. owner' = owner /\ waiters' = waiters
  BY DEF lockVars
<1>3. \A l \in Locks : \A i \in 1..Len(waiters[l]) : waiters[l][i] \in Tasks
  BY DEF LocksOK
<1>4. \A l \in Locks : \A t \in Tasks : 
         (pc'[t] = LockPc[l] /\ wake'[t] = "ready")
           <=> (pc[t] = LockPc[l] /\ wake[t] = "ready")
  BY <1>1
<1>5. \A l \in Locks : \A t \in Tasks : pc[t] = LockPc[l] => pc'[t] = LockPc[l]
  BY <1>1
<1> QED
  BY <1>2, <1>3, <1>4, <1>5 DEF LockDiscipline

\* The two locks are waited for in different places.
LEMMA LockPcInjective ==
  \A k, l \in Locks : LockPc[k] = LockPc[l] => k = l
BY DEF Locks, LockPc

\* Acquiring a lock keeps the discipline.
LEMMA AcquireKeepsLocks ==
  ASSUME LocksOK, TasksOK, LockDiscipline, NEW t \in Tasks, NEW o,
         NEW l \in Locks, pc[t] = "idle", Acquire(t, o, l)
  PROVE  LockDiscipline'
<1> USE TaskAssumption DEF TaskAssumption, TasksOK, LocksOK
<1>1. \A k \in Locks : LockPc[k] # "idle"
  BY DEF Locks, LockPc
<1>2. \A k \in Locks : \A i \in 1..Len(waiters[k]) :
        waiters[k][i] \in Tasks /\ waiters[k][i] # t
  BY <1>1 DEF LockDiscipline
<1>3. CASE Return(t, o, "Cancelled") /\ UNCHANGED lockVars
  BY <1>3, LockKept DEF Return, LockPcs
<1>4. CASE /\ Free(l) /\ Suspend(t, o, LockPc[l], "ready")
           /\ owner' = [owner EXCEPT ![l] = t] /\ UNCHANGED waiters
  <2>1. ASSUME NEW k \in Locks, NEW u \in Tasks
        PROVE  owner'[k] = u <=> pc'[u] = LockPc[k] /\ wake'[u] = "ready"
    BY <1>1, <1>4, LockPcInjective DEF Suspend, Free, LockDiscipline
  <2>2. \A k \in Locks : \A i \in 1..Len(waiters[k]) :
           pc'[waiters[k][i]] = LockPc[k]
    BY <1>2, <1>4 DEF Suspend, LockDiscipline
  <2> QED
    BY <1>4, <2>1, <2>2 DEF LockDiscipline
<1>5. CASE /\ Suspend(t, o, LockPc[l], "none")
           /\ waiters' = [waiters EXCEPT ![l] = Append(@, t)]
           /\ UNCHANGED owner
  <2>1. ASSUME NEW k \in Locks, NEW u \in Tasks
        PROVE  owner'[k] = u <=> pc'[u] = LockPc[k] /\ wake'[u] = "ready"
    BY <1>1, <1>5 DEF Suspend, LockDiscipline
  <2>2. ASSUME NEW k \in Locks
        PROVE  /\ \A i, j \in 1..Len(waiters'[k]) :
                     i # j => waiters'[k][i] # waiters'[k][j]
               /\ \A i \in 1..Len(waiters'[k]) : pc'[waiters'[k][i]] = LockPc[k]
    <3>1. CASE k = l
      <4>1. /\ Len(waiters'[k]) = Len(waiters[k]) + 1
            /\ \A i \in 1..Len(waiters[k]) : waiters'[k][i] = waiters[k][i]
            /\ waiters'[k][Len(waiters[k]) + 1] = t
        BY <1>5, <3>1
      <4> QED
        BY <1>2, <1>5, <3>1, <4>1 DEF Suspend, LockDiscipline
    <3>2. CASE k # l
      BY <1>2, <1>5, <3>2 DEF Suspend, LockDiscipline
    <3> QED
      BY <3>1, <3>2
  <2> QED
    BY <2>1, <2>2 DEF LockDiscipline
<1> QED
  BY <1>3, <1>4, <1>5 DEF Acquire

\* The queues once t has left the place of lock l and its queue.
LEMMA QueueWithout ==
  ASSUME LocksOK, TasksOK, LockDiscipline, NEW t \in Tasks, NEW l \in Locks,
         pc[t] = LockPc[l], pc' = [pc EXCEPT ![t] = "idle"],
         waiters' = [waiters EXCEPT ![l] = Dequeue(@, t)]
  PROVE  \A k \in Locks :
           /\ \A i, j \in 1..Len(waiters'[k]) : i # j => waiters'[k][i] # waiters'[k][j]
           /\ \A i \in 1..Len(waiters'[k]) : pc'[waiters'[k][i]] = LockPc[k]
<1> USE DEF TasksOK, LocksOK
<1> TAKE k \in Locks
<1>1. waiters[k] \in Seq(Tasks) /\ Distinct(waiters[k])
  BY DEF LockDiscipline, Distinct
<1>2. CASE k = l
  <2> DEFINE q == Dequeue(waiters[k], t)
  <2>1. waiters'[k] = q /\ q \in Seq(Tasks)
    BY <1>1, <1>2, DequeueType
  <2>2. /\ Distinct(q)
        /\ \A i \in 1..Len(q) : /\ q[i] # t
                                /\ \E j \in 1..Len(waiters[k]) : q[i] = waiters[k][j]
    BY <1>1, DequeueQueue
  <2> HIDE DEF q
  <2>3. \A i \in 1..Len(q) : q[i] \in Tasks /\ pc[q[i]] = LockPc[k]
    BY <2>1, <2>2 DEF LockDiscipline
  <2>4. \A i \in 1..Len(q) : pc'[q[i]] = LockPc[k]
    BY <2>2, <2>3
  <2>5. \A i, j \in 1..Len(q) : i # j => q[i] # q[j]
    BY <2>2 DEF Distinct
  <2> QED
    BY <2>1, <2>4, <2>5
<1>3. CASE k # l
  <2>1. waiters'[k] = waiters[k]
    BY <1>3
  <2>2. \A i \in 1..Len(waiters[k]) :
          waiters[k][i] \in Tasks /\ pc[waiters[k][i]] = LockPc[k]
    BY <1>1 DEF LockDiscipline
  <2>3. LockPc[k] # LockPc[l]
    BY <1>3, LockPcInjective
  <2> QED
    BY <1>1, <2>1, <2>2, <2>3 DEF Distinct
<1> QED
  BY <1>2, <1>3

\* The task that gets the lock was waiting for it, and is not the leaving one.
LEMMA NextOwnerWaits ==
  ASSUME LocksOK, LockDiscipline, NEW t \in Tasks, NEW l \in Locks,
         NEW n \in Tasks, NextOwner(Dequeue(waiters[l], t), n)
  PROVE  n # t /\ pc[n] = LockPc[l]
<1>1. waiters[l] \in Seq(Tasks) /\ Distinct(waiters[l])
  BY DEF LockDiscipline, Distinct, LocksOK
<1> DEFINE q == Dequeue(waiters[l], t)
<1>2. \A i \in 1..Len(q) : q[i] # t /\ \E j \in 1..Len(waiters[l]) : q[i] = waiters[l][j]
  BY <1>1, DequeueQueue
<1>3. \E i \in 1..Len(q) : n = q[i]
  BY TaskAssumption DEF NextOwner, TaskAssumption
<1> QED
  BY <1>2, <1>3 DEF LockDiscipline

\* Leaving a lock, with or without a hand-over, keeps the discipline.
LEMMA LeaveKeepsLocks ==
  ASSUME LocksOK, TasksOK, LockDiscipline, NEW t \in Tasks, NEW l \in Locks,
         NEW n \in Tasks \cup {NoTask}, NEW r, NEW w,
         pc[t] = LockPc[l], wake[t] = "ready",
         LeaveLock(t, l, n, r), wake' = Handoff(w, t, n),
         \A u \in Tasks : pc[u] \in LockPcs => w[u] = wake[u]
  PROVE  LockDiscipline'
<1> USE TaskAssumption DEF TaskAssumption, TasksOK, LocksOK
<1>1. owner[l] = t
  BY DEF LockDiscipline
<1>2. n \in Tasks => n # t /\ pc[n] = LockPc[l]
  BY NextOwnerWaits DEF LeaveLock
<1>3. /\ pc' = [pc EXCEPT ![t] = "idle"]
      /\ owner' = [owner EXCEPT ![l] = n]
      /\ waiters' = [waiters EXCEPT ![l] = Dequeue(@, t)]
  BY DEF LeaveLock
<1>4. \A k \in Locks : LockPc[k] \in LockPcs /\ LockPc[k] # "idle"
  BY DEF Locks, LockPc, LockPcs
<1>5. ASSUME NEW k \in Locks, NEW u \in Tasks
      PROVE  owner'[k] = u <=> pc'[u] = LockPc[k] /\ wake'[u] = "ready"
  <2>1. CASE u = t
    BY <1>1, <1>2, <1>3, <1>4, <2>1, LockPcInjective DEF LockDiscipline
  <2>2. CASE u # t /\ u = n
    BY <1>2, <1>3, <1>4, <2>2, LockPcInjective DEF LockDiscipline, Handoff
  <2>3. CASE u # t /\ u # n
    <3>1. pc'[u] = pc[u] /\ wake'[u] = w[u]
      BY <1>3, <2>3 DEF Handoff
    <3>2. CASE k = l
      BY <1>1, <1>3, <1>4, <2>3, <3>1, <3>2 DEF LockDiscipline
    <3>3. CASE k # l
      BY <1>3, <1>4, <3>1, <3>3 DEF LockDiscipline
    <3> QED
      BY <3>2, <3>3
  <2> QED
    BY <2>1, <2>2, <2>3
<1>6. \A k \in Locks :
        /\ \A i, j \in 1..Len(waiters'[k]) : i # j => waiters'[k][i] # waiters'[k][j]
        /\ \A i \in 1..Len(waiters'[k]) : pc'[waiters'[k][i]] = LockPc[k]
  BY <1>3, QueueWithout
<1> QED
  BY <1>5, <1>6 DEF LockDiscipline

\* Every step keeps the lock discipline.
LEMMA LockStep ==
  ASSUME FlagsOK, TasksOK, LocksOK, LockDiscipline, Next
  PROVE  LockDiscipline'
<1> USE DEF Moves, TasksOK, LockPcs
<1>1. ASSUME NEW t \in Tasks, ReadActions(t) PROVE LockDiscipline'
  BY <1>1, ReadPlaces, ReadFrame, LockKept DEF ReadPcs
<1>2. ASSUME NEW t \in Tasks, WriteActions(t) PROVE LockDiscipline'
  BY <1>2, WritePlaces, WriteFrame, LockKept
<1>3. ASSUME NEW t \in Tasks, DrainActions(t) PROVE LockDiscipline'
  BY <1>3, DrainPlaces, DrainFrame, LockKept DEF SendPcs
<1>4. ASSUME NEW t \in Tasks, BreakActions(t) PROVE LockDiscipline'
  BY <1>4, BreakPlaces, BreakFrame, LockKept
<1>5. ASSUME NEW t \in Tasks, LockActions(t) PROVE LockDiscipline'
  <2>1. CASE \E c \in Configs : configure(t, c)
    BY <2>1, AcquireKeepsLocks DEF configure, CanCall, Locks
  <2>2. CASE aclose(t)
    BY <2>2, AcquireKeepsLocks DEF aclose, CanCall, Locks
  <2>3. CASE ResumeConfigure(t)
    <3>1. PICK n \in Tasks \cup {NoTask}, r \in Outcomes :
            LeaveLock(t, "configure", n, r) /\ wake' = Handoff(wake, t, n)
      BY <2>3 DEF ResumeConfigure, ApplyConfig, ConfigureRefused,
         ConfigureHalfApplied, ConfigureAccepted
    <3>2. /\ "configure" \in Locks /\ pc[t] = LockPc["configure"]
          /\ wake[t] = "ready"
      BY <2>3 DEF ResumeConfigure, ApplyConfig, ConfigureRefused,
         ConfigureHalfApplied, ConfigureAccepted, Locks, LockPc
    <3> QED
      BY <3>1, <3>2, LeaveKeepsLocks
  <2>4. CASE ResumeClose(t)
    <3>1. PICK n \in Tasks \cup {NoTask} :
            /\ LeaveLock(t, "close", n, "ok")
            /\ \/ wake' = Handoff(wake, t, n)
               \/ wake' = Handoff(NotifyClosing, t, n)
      BY <2>4 DEF ResumeClose
    <3>2. /\ "close" \in Locks /\ pc[t] = LockPc["close"]
          /\ wake[t] = "ready"
      BY <2>4 DEF ResumeClose, Locks, LockPc
    <3>3. \A u \in Tasks : pc[u] \in LockPcs => NotifyClosing[u] = wake[u]
      BY DEF NotifyClosing, ReadPcs
    <3> QED
      BY <3>1, <3>2, <3>3, LeaveKeepsLocks
  <2>5. CASE \E l \in Locks : AbandonLock(t, l)
    <3>1. PICK l \in Locks : AbandonLock(t, l)
      BY <2>5
    <3>2. /\ pc[t] = LockPc[l] /\ wake[t] = "cancelled" /\ owner' = owner
          /\ pc' = [pc EXCEPT ![t] = "idle"]
          /\ wake' = [wake EXCEPT ![t] = "none"]
          /\ waiters' = [waiters EXCEPT ![l] = Dequeue(@, t)]
      BY <3>1 DEF AbandonLock, Return
    <3>3. \A k \in Locks : LockPc[k] # "idle"
      BY DEF Locks, LockPc
    <3>4. ASSUME NEW k \in Locks, NEW u \in Tasks
          PROVE  owner'[k] = u <=> pc'[u] = LockPc[k] /\ wake'[u] = "ready"
      <4>1. owner[k] = u <=> pc[u] = LockPc[k] /\ wake[u] = "ready"
        BY DEF LockDiscipline
      <4>2. CASE u = t
        BY <3>2, <3>3, <4>1, <4>2
      <4>3. CASE u # t
        BY <3>2, <4>1, <4>3
      <4> QED
        BY <4>2, <4>3
    <3>5. \A k \in Locks :
            /\ \A i, j \in 1..Len(waiters'[k]) :
                 i # j => waiters'[k][i] # waiters'[k][j]
            /\ \A i \in 1..Len(waiters'[k]) : pc'[waiters'[k][i]] = LockPc[k]
      BY <3>2, QueueWithout
    <3> QED
      BY <3>4, <3>5 DEF LockDiscipline
  <2> QED
    BY <1>5, <2>1, <2>2, <2>3, <2>4, <2>5 DEF LockActions
<1>6. ASSUME NEW t \in Tasks, FlushActions(t) PROVE LockDiscipline'
  BY <1>6, FlushPlaces, FlushFrame, LockKept
<1>7. ASSUME NEW t \in Tasks, LoopActions(t) PROVE LockDiscipline'
  <2>1. \A u \in Tasks : pc[u] \in LockPcs => (wake'[u] = "ready" <=> wake[u] = "ready")
    BY <1>7 DEF LoopActions, Cancel, DeliverCancel, LeaveScope, FdReady, Parked,
       ReadPcs
  <2> QED
    BY <1>7, <2>1, LoopFrame, LockKept
<1>8. ASSUME Finalize \/ DeviceActions PROVE LockDiscipline'
  BY <1>8, FinalizeFrame, DeviceFrame, LockKept DEF taskVars
<1> QED
  BY <1>1, <1>2, <1>3, <1>4, <1>5, <1>6, <1>7, <1>8, NextKinds

-----------------------------------------------------------------------------
(* No system call on a closed descriptor *)

\* Who waits for the configure lock is a configure call.
ConfigureWaits == \A t \in Tasks : pc[t] = "configure_lock" => op[t] = "configure"

\* The operation and the outcome of every task other than t stay.
OthersKeep(t) == \A u \in Tasks : u # t => op'[u] = op[u] /\ outcome'[u] = outcome[u]

IOOps == Reads \cup {"send", "drain", "send_eof"}

\* A step that only changes the outcome of one task can only break the property
\* for that task.
LEMMA NoIOByOne ==
  ASSUME NoIOAfterClose, NEW t \in Tasks, OthersKeep(t), up' => up,
         op'[t] \in IOOps /\ outcome'[t] = "SerialError" => ~up'
  PROVE  NoIOAfterClose'
BY DEF NoIOAfterClose, OthersKeep, IOOps

\* A port that is not closed has its descriptor while a call is in flight.
LEMMA OpenWhileBusy ==
  ASSUME FlagsOK, ClosedMeansReleased, Collected, NEW t \in Tasks,
         pc[t] # "idle" \/ alive, ~closed
  PROVE  fdOpen
BY DEF FlagsOK, ClosedMeansReleased, Collected

\* No step of a read, a send or a drain ends with a system call on a closed
\* descriptor.
LEMMA NoIOStep ==
  ASSUME FlagsOK, TasksOK, ClosedMeansReleased, Collected, ConfigureWaits,
         WorkerWakes, NoIOAfterClose, Next
  PROVE  NoIOAfterClose' /\ ConfigureWaits'
<1> USE DEF TasksOK, ConfigureWaits, OthersKeep, Suspend, Return
<1>1. ASSUME NEW t \in Tasks, ReadActions(t) PROVE NoIOAfterClose' /\ ConfigureWaits'
  <2>1. CASE ResumeReceive(t)
    <3>1. ~closed => fdOpen
      BY <2>1, OpenWhileBusy DEF ResumeReceive, ReadPcs
    <3>2. OthersKeep(t) /\ outcome'[t] # "SerialError"
      BY <2>1, <3>1 DEF ResumeReceive, ReadStep, LeaveReceive, WakeError,
         Overtaken, ClosedOnWake, Errno, errno_to_exception
    <3>3. ConfigureWaits'
      BY <2>1 DEF ResumeReceive, ReadStep, LeaveReceive, ReadPcs
    <3>4. UNCHANGED up
      BY <1>1, ReadFrame
    <3> QED
      BY <3>2, <3>3, <3>4, NoIOByOne
  <2>2. CASE ~ResumeReceive(t)
    <3>1. OthersKeep(t) /\ outcome'[t] # "SerialError" /\ ConfigureWaits'
      BY <1>1, <2>2 DEF ReadActions, receive, receive_into, receive_available,
         EnterReceive, RejectArgument
    <3>2. UNCHANGED up
      BY <1>1, ReadFrame
    <3> QED
      BY <3>1, <3>2, NoIOByOne
  <2> QED
    BY <2>1, <2>2
<1>2. ASSUME NEW t \in Tasks, WriteActions(t) PROVE NoIOAfterClose' /\ ConfigureWaits'
  <2>1. ResumeSend(t) /\ ~closed => fdOpen
    BY OpenWhileBusy DEF ResumeSend
  <2>2. OthersKeep(t) /\ outcome'[t] # "SerialError"
    BY <1>2, <2>1 DEF WriteActions, send, ResumeSend, WriteStep, Advance, Refused,
       LeaveSend, WakeError, Overtaken, ClosedOnWake, Errno, errno_to_exception
  <2>3. ConfigureWaits'
    BY <1>2 DEF WriteActions, send, ResumeSend, WriteStep, Advance, Refused, LeaveSend
  <2> QED
    BY <1>2, <2>2, <2>3, WriteFrame, NoIOByOne
<1>3. ASSUME NEW t \in Tasks, DrainActions(t) PROVE NoIOAfterClose' /\ ConfigureWaits'
  <2>1. UNCHANGED up
    BY <1>3, DrainFrame
  <2>2. CASE drain(t) \/ send_eof(t) \/ ResumeDrain(t)
    <3>1. ~closed => fdOpen
      BY <2>2, OpenWhileBusy DEF drain, send_eof, ResumeDrain, CanCall
    <3>2. OthersKeep(t) /\ (outcome'[t] = "SerialError" => ~up)
      BY <2>2, <3>1 DEF drain, send_eof, ResumeDrain, DrainProbe, Refused,
         LeaveSend
    <3>3. ConfigureWaits'
      BY <2>2 DEF drain, send_eof, ResumeDrain, DrainProbe, Refused, LeaveSend
    <3> QED
      BY <2>1, <3>2, <3>3, NoIOByOne
  <2>3. CASE drain_exact(t) \/ DispatchDrain(t) \/ ResumeDrainExact(t)
    <3>1. OthersKeep(t) /\ op'[t] = "drain_exact" /\ ConfigureWaits'
      BY <2>3 DEF drain_exact, DispatchDrain, ResumeDrainExact, Refused, LeaveSend
    <3> QED
      BY <2>1, <3>1, NoIOByOne DEF IOOps, Reads
  <2>4. CASE tcdrain_blocking(t) \/ TcdrainReturns(t) \/ SleepEnds(t)
    BY <2>1, <2>4 DEF tcdrain_blocking, TcdrainReturns, SleepEnds, NoIOAfterClose
  <2> QED
    BY <1>3, <2>2, <2>3, <2>4 DEF DrainActions
<1>4. ASSUME NEW t \in Tasks, BreakActions(t) PROVE NoIOAfterClose' /\ ConfigureWaits'
  <2>1. OthersKeep(t) /\ op'[t] = "send_break" /\ ConfigureWaits'
    BY <1>4 DEF BreakActions, send_break, RejectArgument, ResumeBreak, Refused,
       LeaveSend
  <2> QED
    BY <1>4, <2>1, BreakFrame, NoIOByOne DEF IOOps, Reads
<1>5. ASSUME NEW t \in Tasks, LockActions(t) PROVE NoIOAfterClose' /\ ConfigureWaits'
  <2>1. UNCHANGED up
    BY <1>5, LockFrame
  <2>2. CASE (\E c \in Configs : configure(t, c)) \/ aclose(t)
    <3>1. OthersKeep(t) /\ outcome'[t] # "SerialError" /\ ConfigureWaits'
      BY <2>2 DEF configure, aclose, Acquire, Locks, LockPc
    <3> QED
      BY <2>1, <3>1, NoIOByOne
  <2>3. CASE ResumeConfigure(t)
    <3>1. OthersKeep(t) /\ op'[t] = "configure" /\ ConfigureWaits'
      BY <2>3 DEF ResumeConfigure, ApplyConfig, ConfigureRefused,
         ConfigureHalfApplied, ConfigureAccepted, LeaveLock
    <3> QED
      BY <2>1, <3>1, NoIOByOne DEF IOOps, Reads
  <2>4. CASE ResumeClose(t)
    <3>1. OthersKeep(t) /\ outcome'[t] = "ok" /\ ConfigureWaits'
      BY <2>4 DEF ResumeClose, LeaveLock
    <3> QED
      BY <2>1, <3>1, NoIOByOne
  <2>5. CASE \E l \in Locks : AbandonLock(t, l)
    <3>1. OthersKeep(t) /\ outcome'[t] = "Cancelled" /\ ConfigureWaits'
      BY <2>5 DEF AbandonLock
    <3> QED
      BY <2>1, <3>1, NoIOByOne
  <2> QED
    BY <1>5, <2>2, <2>3, <2>4, <2>5 DEF LockActions
<1>6. ASSUME NEW t \in Tasks, FlushActions(t) PROVE NoIOAfterClose' /\ ConfigureWaits'
  <2>1. OthersKeep(t) /\ op'[t] \notin IOOps /\ ConfigureWaits'
    BY <1>6 DEF FlushActions, reset_input_buffer, reset_output_buffer, Flush,
       modem_lines, set_control_lines, input_waiting, output_waiting, Query,
       IOOps, Reads
  <2> QED
    BY <1>6, <2>1, FlushFrame, NoIOByOne
<1>7. ASSUME NEW t \in Tasks, LoopActions(t) PROVE NoIOAfterClose' /\ ConfigureWaits'
  BY <1>7, LoopFrame DEF NoIOAfterClose
<1>8. ASSUME Finalize \/ DeviceActions PROVE NoIOAfterClose' /\ ConfigureWaits'
  <2>1. UNCHANGED <<op, pc, outcome>> /\ (up' => up)
    BY <1>8 DEF Finalize, DeviceActions, PeerSends, Transmit, Unplug, taskVars
  <2> QED
    BY <2>1 DEF NoIOAfterClose
<1> QED
  BY <1>1, <1>2, <1>3, <1>4, <1>5, <1>6, <1>7, <1>8, NextKinds

-----------------------------------------------------------------------------
(***************************************************************************)
(* The inductive invariant and what follows from it.                       *)
(***************************************************************************)
IInv ==
  /\ TypeOK /\ WorkerWakes /\ SendUnfinished
  /\ GuardsExact
  /\ ClosedMeansReleased /\ Collected
  /\ BreakReleased
  /\ SettingsAgree
  /\ LockDiscipline
  /\ ConfigureWaits /\ NoIOAfterClose

\* The inductive invariant holds when the port has just been opened.
LEMMA IInvInit == Init => IInv
<1> SUFFICES ASSUME Init PROVE IInv
  OBVIOUS
<1>1. TypeOK
  BY TypeInit
<1>2. WorkerWakes /\ SendUnfinished /\ ConfigureWaits
  BY DEF Init, WorkerWakes, SendUnfinished, ConfigureWaits
<1>3. GuardsExact
  BY DEF Init, GuardsExact, Receiving, Sending, ReadPcs, SendPcs
<1>4. ClosedMeansReleased /\ Collected /\ BreakReleased
  BY DEF Init, ClosedMeansReleased, Collected, BreakReleased
<1>5. SettingsAgree
  BY DEF Init, SettingsAgree
<1>6. LockDiscipline
  BY TaskAssumption DEF Init, LockDiscipline, TaskAssumption
<1>7. NoIOAfterClose
  BY DEF Init, NoIOAfterClose
<1> QED
  BY <1>1, <1>2, <1>3, <1>4, <1>5, <1>6, <1>7 DEF IInv

\* Every step keeps the inductive invariant.
LEMMA IInvNext == IInv /\ [Next]_vars => IInv'
<1> SUFFICES ASSUME IInv, [Next]_vars PROVE IInv'
  OBVIOUS
<1>1. CASE Next
  <2>1. /\ FlagsOK /\ ConfigOK /\ LocksOK /\ TasksOK /\ CallsOK /\ InputOK
        /\ OutputOK /\ WorkerWakes /\ SendUnfinished /\ GuardsExact
        /\ ClosedMeansReleased /\ Collected /\ BreakReleased
        /\ SettingsAgree /\ LockDiscipline /\ ConfigureWaits
        /\ NoIOAfterClose
    BY DEF IInv, TypeOK
  <2>2. TypeOK'
    BY <1>1, <2>1, FlagsStep, ConfigStep, LocksStep, TasksStep, CallsStep,
       InputStep, OutputStep DEF TypeOK
  <2>3. WorkerWakes' /\ SendUnfinished' /\ GuardsExact'
    BY <1>1, <2>1, WorkerWakesStep, SendUnfinishedStep, GuardsStep
  <2>4. ClosedMeansReleased' /\ Collected'
    BY <1>1, <2>1, ReleasedStep, CollectedStep
  <2>5. BreakReleased' /\ SettingsAgree' /\ LockDiscipline'
    BY <1>1, <2>1, BreakStep, SettingsStep, LockStep
  <2>6. NoIOAfterClose' /\ ConfigureWaits'
    BY <1>1, <2>1, NoIOStep
  <2> QED
    BY <2>2, <2>3, <2>4, <2>5, <2>6 DEF IInv
<1>2. CASE UNCHANGED vars
  <2> USE <1>2 DEF vars, portVars, cfgVars, guardVars, lockVars, taskVars,
     callVars, inVars, outVars
  <2>1. TypeOK'
    BY DEF IInv, TypeOK, FlagsOK, ConfigOK, LocksOK, TasksOK, CallsOK, InputOK,
       OutputOK
  <2>2. WorkerWakes' /\ SendUnfinished' /\ ConfigureWaits'
    BY DEF IInv, WorkerWakes, SendUnfinished, ConfigureWaits
  <2>3. GuardsExact'
    BY DEF IInv, GuardsExact, Receiving, Sending
  <2>4. ClosedMeansReleased' /\ Collected'
    BY DEF IInv, ClosedMeansReleased, Collected, Parked
  <2>5. BreakReleased' /\ SettingsAgree'
    BY DEF IInv, BreakReleased, SettingsAgree
  <2>6. LockDiscipline'
    BY DEF IInv, LockDiscipline
  <2>7. NoIOAfterClose'
    BY DEF IInv, NoIOAfterClose
  <2> QED
    BY <2>1, <2>2, <2>3, <2>4, <2>5, <2>6, <2>7 DEF IInv
<1> QED
  BY <1>1, <1>2

\* Every reachable state of the port satisfies the inductive invariant.
THEOREM Invariance == Spec => []IInv
BY IInvInit, IInvNext, PTL DEF Spec

\* Type correctness: the variables of the port, its tasks and the device keep
\* their types, and the output queue never exceeds its capacity.
THEOREM TypeCorrect == Spec => []TypeOK
<1>1. IInv => TypeOK
  BY DEF IInv
<1> QED
  BY <1>1, Invariance, PTL

\* The guards of receive* and send*/drain*/send_break are held exactly while
\* one task is in the guarded section, on every way out of it.
THEOREM GuardsCorrect == Spec => []GuardsExact
<1>1. IInv => GuardsExact
  BY DEF IInv
<1> QED
  BY <1>1, Invariance, PTL

\* aclose wakes every task parked on the descriptor before it closes it, and
\* _closed and the descriptor agree.
THEOREM CloseReleases == Spec => []ClosedMeansReleased
<1>1. IInv => ClosedMeansReleased
  BY DEF IInv
<1> QED
  BY <1>1, Invariance, PTL

\* No read, write or drain that aclose overtakes reaches the kernel with
\* descriptor -1.
THEOREM NoIOOnClosedPort == Spec => []NoIOAfterClose
<1>1. IInv => NoIOAfterClose
  BY DEF IInv
<1> QED
  BY <1>1, Invariance, PTL

\* send_break never leaves the line in BREAK while the port is open.
THEOREM BreakIsReleased == Spec => []BreakReleased
<1>1. IInv => BreakReleased
  BY DEF IInv
<1> QED
  BY <1>1, Invariance, PTL

\* The close and configure locks have an owner exactly while one task runs
\* their body, and a queue without repetitions or strangers.
THEOREM LocksCorrect == Spec => []LockDiscipline
<1>1. IInv => LockDiscipline
  BY DEF IInv
<1> QED
  BY <1>1, Invariance, PTL

-----------------------------------------------------------------------------
(* A closed port stays closed and moves nothing. *)

StaysClosed ==
  closed => /\ closed' /\ ~fdOpen'
            /\ UNCHANGED <<cfgVars, received, written>>

\* Every step of a closed port keeps it closed.
LEMMA ClosedStep ==
  ASSUME IInv, Next
  PROVE  StaysClosed
<1> SUFFICES ASSUME closed
             PROVE  /\ closed' /\ ~fdOpen'
                    /\ UNCHANGED <<cfgVars, received, written>>
  BY DEF StaysClosed
<1> DEFINE Kept == /\ closed' /\ ~fdOpen'
                   /\ UNCHANGED <<cfgVars, received, written>>
<1>1. ~fdOpen
  BY DEF IInv, ClosedMeansReleased, Collected, TypeOK, FlagsOK
<1>0. ASSUME UNCHANGED <<portVars, received, written>>
      PROVE  Kept
  BY <1>0, <1>1 DEF portVars, cfgVars
<1> HIDE DEF Kept
<1> USE <1>1 DEF portVars, cfgVars, inVars, outVars
<1>2. ASSUME NEW t \in Tasks, ReadActions(t)
      PROVE  UNCHANGED <<portVars, received, written>>
  BY <1>2, ReadFrame DEF ReadActions, receive, receive_into, receive_available,
     EnterReceive, RejectArgument, ResumeReceive, Overtaken, ClosedOnWake
<1>3. ASSUME NEW t \in Tasks, WriteActions(t)
      PROVE  UNCHANGED <<portVars, received, written>>
  BY <1>3, WriteFrame DEF WriteActions, send, Refused, ResumeSend, Overtaken,
     ClosedOnWake
<1>4. ASSUME NEW t \in Tasks, LockActions(t)
      PROVE  UNCHANGED <<portVars, received, written>>
  BY <1>4, LockFrame DEF LockActions, configure, aclose, ResumeConfigure,
     ApplyConfig, ConfigureRefused, ConfigureHalfApplied, ConfigureAccepted,
     ResumeClose, AbandonLock
<1>5. ASSUME NEW t \in Tasks, \/ DrainActions(t) \/ BreakActions(t)
                              \/ FlushActions(t) \/ LoopActions(t)
      PROVE  UNCHANGED <<portVars, received, written>>
  BY <1>5, DrainFrame, BreakFrame, FlushFrame, LoopFrame
<1>6. ASSUME Finalize
      PROVE  Kept
  BY <1>6 DEF Finalize, Kept
<1>7. ASSUME DeviceActions
      PROVE  UNCHANGED <<portVars, received, written>>
  BY <1>7, DeviceFrame
<1>8. Kept
  BY <1>0, <1>2, <1>3, <1>4, <1>5, <1>6, <1>7, NextKinds, Zenon
<1> QED
  BY <1>8 DEF Kept

\* Once closed, always closed: no step reopens the port, changes its
\* configuration or moves a byte through it.
THEOREM ClosedForEver == Spec => ClosedIsFinal
<1>1. IInv /\ [Next]_vars => [StaysClosed]_vars
  BY ClosedStep
<1>2. StaysClosed <=> (closed => /\ closed' /\ ~fdOpen'
                                 /\ UNCHANGED <<cfgVars, received, written>>)
  BY DEF StaysClosed
<1> QED
  BY <1>1, <1>2, Invariance, PTL DEF Spec, ClosedIsFinal

-----------------------------------------------------------------------------
(* port.config and the device. *)

SettingsMove ==
  /\ ~halfApplied' => config' = termiosCfg'
  /\ cfgVars' # cfgVars =>
       \E t \in Tasks :
         /\ op[t] = "configure" /\ pc[t] # "idle" /\ pc'[t] = "idle"
         /\ \/ outcome'[t] = "ok" /\ ~halfApplied'
            \/ outcome'[t] = "SerialError" /\ halfApplied' /\ config' = config

\* A step that moves port.config or the device ends a configure, whose result
\* says whether both moved.
LEMMA SettingsMoveStep ==
  ASSUME IInv, Next
  PROVE  SettingsMove
<1>1. TasksOK /\ ConfigureWaits /\ SettingsAgree /\ SettingsAgree'
  BY SettingsStep DEF IInv, TypeOK
<1>2. CASE UNCHANGED cfgVars
  BY <1>1, <1>2 DEF SettingsMove, SettingsAgree
<1>3. CASE \E t \in Tasks : ResumeConfigure(t)
  <2> PICK t \in Tasks : ResumeConfigure(t)
    BY <1>3
  <2>1. op[t] = "configure" /\ pc[t] # "idle" /\ pc'[t] = "idle"
    BY <1>1 DEF ResumeConfigure, LeaveLock, ConfigureWaits, TasksOK
  <2>2. \/ UNCHANGED cfgVars
        \/ outcome'[t] = "ok" /\ ~halfApplied'
        \/ outcome'[t] = "SerialError" /\ halfApplied' /\ config' = config
    BY <1>1 DEF ResumeConfigure, LeaveLock, ApplyConfig, ConfigureRefused,
       ConfigureHalfApplied, ConfigureAccepted, TasksOK
  <2> QED
    BY <1>1, <1>2, <2>1, <2>2 DEF SettingsMove, SettingsAgree
<1>4. ASSUME NEW t \in Tasks, \/ ReadActions(t) \/ WriteActions(t)
                              \/ DrainActions(t) \/ BreakActions(t)
                              \/ FlushActions(t) \/ LoopActions(t)
      PROVE  UNCHANGED cfgVars
  BY <1>4, ReadFrame, WriteFrame, DrainFrame, BreakFrame, FlushFrame, LoopFrame
     DEF portVars
<1>5. ASSUME NEW t \in Tasks, LockActions(t), ~ResumeConfigure(t)
      PROVE  UNCHANGED cfgVars
  BY <1>5 DEF LockActions, configure, aclose, ResumeClose, AbandonLock, portVars
<1>6. ASSUME Finalize \/ DeviceActions PROVE UNCHANGED cfgVars
  BY <1>6, FinalizeFrame, DeviceFrame DEF portVars
<1> QED
  BY <1>2, <1>3, <1>4, <1>5, <1>6, NextKinds

\* port.config and the device move only when a configure ends: together, or,
\* when the configure fails behind tcsetattr and raises SerialError, the line
\* settings alone.
THEOREM ConfigAgrees == Spec => ConfigMatchesKernel
<1>1. IInv /\ [Next]_vars => [SettingsMove]_vars
  BY SettingsMoveStep
<1>2. SettingsMove <=>
        /\ ~halfApplied' => config' = termiosCfg'
        /\ cfgVars' # cfgVars =>
             \E t \in Tasks :
               /\ op[t] = "configure" /\ pc[t] # "idle" /\ pc'[t] = "idle"
               /\ \/ outcome'[t] = "ok" /\ ~halfApplied'
                  \/ outcome'[t] = "SerialError" /\ halfApplied' /\ config' = config
  BY DEF SettingsMove
<1> QED
  BY <1>1, <1>2, Invariance, PTL DEF Spec, ConfigMatchesKernel

-----------------------------------------------------------------------------
(* Errors: what the worker thread saw, and where raw errors come from. *)

\* A worker thread that met no descriptor did so on a closed port, one that
\* met no device on an unplugged one.
WakeCause ==
  \A t \in Tasks : pc[t] \in {"worker_queued", "tcdrain"} =>
    /\ wake[t] = "ValueError" => closed
    /\ wake[t] = "termios.error" => ~up

\* A port never reopens and a device never comes back.
LEMMA Irreversible ==
  ASSUME IInv, Next
  PROVE  (closed => closed') /\ (up' => up)
<1>1. closed => closed'
  BY ClosedStep DEF StaysClosed
<1>2. ASSUME NEW t \in Tasks, \/ ReadActions(t) \/ WriteActions(t)
                              \/ DrainActions(t) \/ BreakActions(t)
                              \/ LockActions(t) \/ FlushActions(t)
                              \/ LoopActions(t)
      PROVE  UNCHANGED up
  BY <1>2, ReadFrame, WriteFrame, DrainFrame, BreakFrame, LockFrame, FlushFrame,
     LoopFrame
<1>3. ASSUME Finalize \/ DeviceActions PROVE up' => up
  BY <1>3, FinalizeFrame DEF DeviceActions, PeerSends, Transmit, Unplug
<1> QED
  BY <1>1, <1>2, <1>3, NextKinds

\* A task in a worker thread keeps its wake-up; one that was idle has none.
LEMMA WakeCauseStep ==
  ASSUME IInv, WakeCause, Next
  PROVE  WakeCause'
<1>1. /\ FlagsOK /\ TasksOK /\ WorkerWakes /\ ClosedMeansReleased /\ Collected
      /\ (closed => closed') /\ (up' => up)
  BY Irreversible DEF IInv, TypeOK
<1> USE <1>1 DEF TasksOK, Suspend, Return, Moves
<1>0. ASSUME \A u \in Tasks :
               pc'[u] \in {"worker_queued", "tcdrain"} =>
                 \/ pc[u] = pc'[u] /\ wake[u] = wake'[u]
                 \/ wake'[u] \in {"none", "ready"}
      PROVE  WakeCause'
  BY <1>0 DEF WakeCause
<1>2. ASSUME NEW t \in Tasks, ReadActions(t) PROVE WakeCause'
  BY <1>0, <1>2, ReadPlaces DEF ReadPcs
<1>3. ASSUME NEW t \in Tasks, WriteActions(t) PROVE WakeCause'
  BY <1>0, <1>3, WritePlaces
<1>4. ASSUME NEW t \in Tasks, DrainActions(t) PROVE WakeCause'
  <2>1. CASE tcdrain_blocking(t)
    <3>1. ~fdOpen => closed
      BY <2>1, OpenWhileBusy DEF tcdrain_blocking
    <3>2. UNCHANGED <<closed, up>>
      BY <1>4, DrainFrame DEF portVars, cfgVars
    <3> QED
      BY <2>1, <3>1, <3>2 DEF tcdrain_blocking, WakeCause, FlagsOK
  <2>2. CASE ~tcdrain_blocking(t)
    <3>1. /\ pc'[t] \in {"worker_queued", "tcdrain"}
             => wake'[t] \in {"none", "ready"}
          /\ \A u \in Tasks : u # t => pc'[u] = pc[u] /\ wake'[u] = wake[u]
      BY <1>4, <2>2 DEF DrainActions, drain, send_eof, ResumeDrain, DrainProbe,
         drain_exact, DispatchDrain, TcdrainReturns, ResumeDrainExact, SleepEnds,
         Refused, LeaveSend
    <3> QED
      BY <1>0, <3>1
  <2> QED
    BY <2>1, <2>2
<1>5. ASSUME NEW t \in Tasks, BreakActions(t) PROVE WakeCause'
  BY <1>0, <1>5, BreakPlaces
<1>6. ASSUME NEW t \in Tasks, LockActions(t) PROVE WakeCause'
  <2>1. CASE (\E c \in Configs : configure(t, c)) \/ aclose(t)
    BY <1>0, <2>1 DEF configure, aclose, Acquire, Locks, LockPc
  <2>2. CASE ResumeConfigure(t) \/ ResumeClose(t)
    BY <1>0, <2>2 DEF ResumeConfigure, ApplyConfig, ConfigureRefused,
       ConfigureHalfApplied, ConfigureAccepted, ResumeClose, LeaveLock,
       Handoff, NotifyClosing, ReadPcs
  <2>3. CASE \E l \in Locks : AbandonLock(t, l)
    BY <1>0, <2>3 DEF AbandonLock
  <2> QED
    BY <1>6, <2>1, <2>2, <2>3 DEF LockActions
<1>7. ASSUME NEW t \in Tasks, FlushActions(t) PROVE WakeCause'
  BY <1>0, <1>7, FlushPlaces
<1>8. ASSUME NEW t \in Tasks, LoopActions(t) PROVE WakeCause'
  BY <1>0, <1>8 DEF LoopActions, Cancel, DeliverCancel, LeaveScope, FdReady,
     Parked, OnlyWake
<1>9. ASSUME Finalize \/ DeviceActions PROVE WakeCause'
  BY <1>0, <1>9, FinalizeFrame, DeviceFrame DEF taskVars
<1> QED
  BY <1>2, <1>3, <1>4, <1>5, <1>6, <1>7, <1>8, <1>9, NextKinds

\* RawErrors for one task.
RawCause(t) ==
  /\ outcome[t] = "BadArgument" =>
       op[t] \in {"receive", "receive_into", "send_break"}
  /\ outcome[t] = "ValueError" =>
       op[t] \in {"send_break", "drain_exact"} /\ closed
  /\ outcome[t] = "OSError" =>
       op[t] \in QueueQueries \cup {"receive_available"} /\ ~up
  /\ outcome[t] = "termios.error" =>
       \/ op[t] = "configure"
       \/ op[t] \in Controls \cup {"drain_exact"} /\ ~up

\* The errors outside the hierarchy.
RawOutcomes == {"BadArgument", "ValueError", "OSError", "termios.error"}

\* Every step keeps the causes of the raw errors.
LEMMA RawErrorsStep ==
  ASSUME IInv, WakeCause, RawErrors, Next
  PROVE  RawErrors'
<1>1. /\ FlagsOK /\ TasksOK /\ WorkerWakes /\ ClosedMeansReleased /\ Collected
      /\ ConfigureWaits
      /\ (closed => closed') /\ (up' => up)
  BY Irreversible DEF IInv, TypeOK
<1>0. ASSUME NEW t \in Tasks, OthersKeep(t), RawCause(t)' PROVE RawErrors'
  BY <1>0, <1>1 DEF RawErrors, RawCause, OthersKeep
<1>a. ASSUME UNCHANGED <<op, outcome>> PROVE RawErrors'
  BY <1>1, <1>a DEF RawErrors
<1>b. ASSUME NEW t, outcome'[t] \notin RawOutcomes PROVE RawCause(t)'
  BY <1>b DEF RawCause, RawOutcomes
<1> USE DEF TasksOK, Suspend, Return, OthersKeep
<1>2. ASSUME NEW t \in Tasks, ReadActions(t) PROVE RawErrors'
  <2>1. OthersKeep(t)
    BY <1>1, <1>2 DEF ReadActions, receive, receive_into, receive_available,
       EnterReceive, RejectArgument, ResumeReceive, ReadStep, LeaveReceive
  <2>2. UNCHANGED up
    BY <1>2, ReadFrame
  <2>3. CASE ResumeReceive(t)
    <3>1. \/ outcome'[t] \notin RawOutcomes
          \/ outcome'[t] = "OSError" /\ op'[t] = "receive_available" /\ ~up
      BY <1>1, <2>3 DEF ResumeReceive, ReadStep, LeaveReceive, WakeError,
         Errno, errno_to_exception, RawOutcomes
    <3> QED
      BY <1>0, <1>b, <2>1, <2>2, <3>1 DEF RawCause
  <2>4. CASE ~ResumeReceive(t)
    <3>1. \/ outcome'[t] \notin RawOutcomes
          \/ outcome'[t] = "BadArgument" /\ op'[t] \in {"receive", "receive_into"}
      BY <1>1, <1>2, <2>4 DEF ReadActions, receive, receive_into,
         receive_available, EnterReceive, RejectArgument, RawOutcomes
    <3> QED
      BY <1>0, <1>b, <2>1, <3>1 DEF RawCause
  <2> QED
    BY <2>3, <2>4
<1>3. ASSUME NEW t \in Tasks, WriteActions(t) PROVE RawErrors'
  <2>1. OthersKeep(t) /\ outcome'[t] \notin RawOutcomes
    BY <1>1, <1>3 DEF WriteActions, send, ResumeSend, WriteStep, Refused,
       LeaveSend, WakeError, Errno, errno_to_exception, RawOutcomes
  <2> QED
    BY <1>0, <1>b, <2>1
<1>4. ASSUME NEW t \in Tasks, DrainActions(t) PROVE RawErrors'
  <2>1. UNCHANGED <<closed, up>>
    BY <1>4, DrainFrame DEF portVars, cfgVars
  <2>2. CASE ResumeDrainExact(t)
    <3>1. /\ OthersKeep(t) /\ op'[t] = "drain_exact"
          /\ outcome'[t] \in RawOutcomes => outcome'[t] = wake[t]
          /\ wake[t] \in {"ready", "ValueError", "termios.error"}
      BY <1>1, <2>2 DEF ResumeDrainExact, LeaveSend, RawOutcomes, WorkerWakes
    <3>2. (wake[t] = "ValueError" => closed) /\ (wake[t] = "termios.error" => ~up)
      BY <2>2 DEF ResumeDrainExact, WakeCause
    <3>3. RawCause(t)'
      BY <1>b, <2>1, <3>1, <3>2 DEF RawCause
    <3> QED
      BY <1>0, <3>1, <3>3
  <2>3. CASE drain(t) \/ send_eof(t) \/ ResumeDrain(t) \/ drain_exact(t)
             \/ DispatchDrain(t)
    <3>1. OthersKeep(t) /\ outcome'[t] \notin RawOutcomes
      BY <1>1, <2>3 DEF drain, send_eof, ResumeDrain, DrainProbe, drain_exact,
         DispatchDrain, Refused, LeaveSend, Errno, errno_to_exception, RawOutcomes
    <3> QED
      BY <1>0, <1>b, <3>1
  <2>4. CASE tcdrain_blocking(t) \/ TcdrainReturns(t) \/ SleepEnds(t)
    BY <1>a, <2>4 DEF tcdrain_blocking, TcdrainReturns, SleepEnds
  <2> QED
    BY <1>4, <2>2, <2>3, <2>4 DEF DrainActions
<1>5. ASSUME NEW t \in Tasks, BreakActions(t) PROVE RawErrors'
  <2>1. OthersKeep(t) /\ UNCHANGED closed
    BY <1>1, <1>5 DEF BreakActions, send_break, RejectArgument, ResumeBreak,
       Refused, LeaveSend, portVars, cfgVars
  <2>2. CASE \E valid \in BOOLEAN : send_break(t, valid)
    <3>1. \/ outcome'[t] \notin RawOutcomes
          \/ outcome'[t] = "BadArgument" /\ op'[t] = "send_break"
      BY <1>1, <2>2 DEF send_break, RejectArgument, Refused, LeaveSend, Errno,
         errno_to_exception, RawOutcomes
    <3> QED
      BY <1>0, <1>b, <2>1, <3>1 DEF RawCause
  <2>3. CASE ResumeBreak(t)
    <3>1. ~fdOpen => closed
      BY <1>1, <2>3, OpenWhileBusy DEF ResumeBreak
    <3>2. \/ outcome'[t] \notin RawOutcomes
          \/ outcome'[t] = "ValueError" /\ op'[t] = "send_break" /\ ~fdOpen
      BY <1>1, <2>3 DEF ResumeBreak, LeaveSend, RawOutcomes
    <3> QED
      BY <1>0, <1>b, <2>1, <3>1, <3>2 DEF RawCause
  <2> QED
    BY <1>5, <2>2, <2>3 DEF BreakActions
<1>6. ASSUME NEW t \in Tasks, LockActions(t) PROVE RawErrors'
  <2>1. CASE (\E c \in Configs : configure(t, c)) \/ aclose(t)
    <3>1. OthersKeep(t) /\ outcome'[t] \notin RawOutcomes
      BY <1>1, <2>1 DEF configure, aclose, Acquire, RawOutcomes
    <3> QED
      BY <1>0, <1>b, <3>1
  <2>2. CASE ResumeConfigure(t)
    <3>1. /\ OthersKeep(t) /\ op'[t] = "configure"
          /\ outcome'[t] \in {"Closed", "SerialError", "termios.error", "ok"}
      BY <1>1, <2>2 DEF ResumeConfigure, LeaveLock, ApplyConfig,
         ConfigureHalfApplied, ConfigureAccepted, ConfigureRefused,
         ConfigureWaits
    <3> QED
      BY <1>0, <3>1 DEF RawCause
  <2>3. CASE ResumeClose(t) \/ \E l \in Locks : AbandonLock(t, l)
    <3>1. OthersKeep(t) /\ outcome'[t] \notin RawOutcomes
      BY <1>1, <2>3 DEF ResumeClose, LeaveLock, AbandonLock, RawOutcomes
    <3> QED
      BY <1>0, <1>b, <3>1
  <2> QED
    BY <1>6, <2>1, <2>2, <2>3 DEF LockActions
<1>7. ASSUME NEW t \in Tasks, FlushActions(t) PROVE RawErrors'
  <2>1. OthersKeep(t) /\ UNCHANGED up
    BY <1>1, <1>7 DEF FlushActions, reset_input_buffer, reset_output_buffer,
       Flush, modem_lines, set_control_lines, input_waiting, output_waiting, Query
  <2>2. ~closed /\ alive => fdOpen
    BY <1>1, OpenWhileBusy
  <2>3. CASE modem_lines(t) \/ set_control_lines(t)
    <3>1. outcome'[t] \notin RawOutcomes
      BY <1>1, <2>3 DEF modem_lines, set_control_lines, Query, Errno,
         errno_to_exception, RawOutcomes
    <3> QED
      BY <1>0, <1>b, <2>1, <3>1
  <2>4. CASE input_waiting(t) \/ output_waiting(t)
    <3>1. \/ outcome'[t] \notin RawOutcomes
          \/ outcome'[t] = "OSError" /\ op'[t] \in QueueQueries /\ ~up
      BY <1>1, <2>2, <2>4 DEF input_waiting, output_waiting, Query, CanCall,
         QueueQueries, RawOutcomes
    <3> QED
      BY <1>0, <1>b, <2>1, <3>1 DEF RawCause
  <2>5. CASE reset_input_buffer(t) \/ reset_output_buffer(t)
    <3>1. \/ outcome'[t] \notin RawOutcomes
          \/ outcome'[t] = "termios.error" /\ op'[t] \in Controls /\ ~up
      BY <1>1, <2>2, <2>5 DEF reset_input_buffer, reset_output_buffer, Flush,
         CanCall, Controls, RawOutcomes
    <3> QED
      BY <1>0, <1>b, <2>1, <3>1 DEF RawCause
  <2> QED
    BY <1>7, <2>3, <2>4, <2>5 DEF FlushActions
<1>8. ASSUME NEW t \in Tasks, LoopActions(t) PROVE RawErrors'
  BY <1>8, <1>a, LoopFrame
<1>9. ASSUME Finalize \/ DeviceActions PROVE RawErrors'
  BY <1>9, <1>a, FinalizeFrame, DeviceFrame DEF taskVars
<1> QED
  BY <1>2, <1>3, <1>4, <1>5, <1>6, <1>7, <1>8, <1>9, NextKinds

\* An error outside the documented hierarchy has one of the documented causes:
\* a bad argument, a BREAK or a drain thread that the close overtook, or a
\* device that is gone or refuses the settings.
THEOREM RawErrorsHaveCause == Spec => []RawErrors
<1>1. Init => WakeCause /\ RawErrors
  BY DEF Init, WakeCause, RawErrors
<1>2. IInv /\ WakeCause /\ RawErrors /\ [Next]_vars => WakeCause' /\ RawErrors'
  <2> SUFFICES ASSUME IInv, WakeCause, RawErrors, [Next]_vars
               PROVE  WakeCause' /\ RawErrors'
    OBVIOUS
  <2>1. CASE UNCHANGED vars
    BY <2>1 DEF vars, taskVars, portVars, cfgVars, WakeCause, RawErrors
  <2>2. CASE Next
    BY <2>2, WakeCauseStep, RawErrorsStep
  <2> QED
    BY <2>1, <2>2
<1> QED
  BY <1>1, <1>2, Invariance, PTL DEF Spec

-----------------------------------------------------------------------------
(* A cancelled call leaves nothing behind. *)

LeavesNothing ==
  \A t \in Tasks :
    pc[t] # "idle" /\ pc'[t] = "idle" /\ outcome'[t] = "Cancelled"
      => UNCHANGED <<closed, fdOpen, cfgVars, inq, received,
                     outq, written>>

\* No step that ends a call with its cancellation moves a byte or changes the
\* port.
LEMMA CancelledStep ==
  ASSUME IInv, Next
  PROVE  LeavesNothing
<1>1. FlagsOK /\ TasksOK
  BY DEF IInv, TypeOK
<1> SUFFICES ASSUME NEW t \in Tasks, pc[t] # "idle", pc'[t] = "idle",
                    outcome'[t] = "Cancelled"
             PROVE  UNCHANGED <<closed, fdOpen, cfgVars, inq, received,
                                outq, written>>
  BY DEF LeavesNothing
<1> USE DEF portVars, cfgVars, inVars, outVars
<1>0. ASSUME NEW u \in Tasks, Moves(u) PROVE u = t
  BY <1>0, <1>1 DEF Moves, TasksOK
<1>2. ASSUME NEW u \in Tasks, ReadActions(u)
      PROVE  UNCHANGED <<portVars, inq, received, outVars>>
  <2>1. u = t
    BY <1>0, <1>1, <1>2, ReadPlaces
  <2>2. ResumeReceive(t)
    BY <1>2, <2>1 DEF ReadActions, receive, receive_into, receive_available,
       CanCall
  <2>3. UNCHANGED inVars
    BY <1>1, <2>2 DEF ResumeReceive, ReadStep, LeaveReceive, Return, Suspend,
       errno_to_exception, TasksOK
  <2> QED
    BY <1>2, <2>3, ReadFrame
<1>3. ASSUME NEW u \in Tasks, WriteActions(u)
      PROVE  UNCHANGED <<portVars, inq, received, outq, written>>
  <2>1. u = t
    BY <1>0, <1>1, <1>3, WritePlaces
  <2>2. ResumeSend(t)
    BY <1>3, <2>1 DEF WriteActions, send, CanCall
  <2>3. UNCHANGED <<outq, written>>
    BY <1>1, <2>2 DEF ResumeSend, WriteStep, LeaveSend, Return, Suspend,
       errno_to_exception, TasksOK
  <2> QED
    BY <1>3, <2>3, WriteFrame
<1>4. ASSUME NEW u \in Tasks, LockActions(u)
      PROVE  UNCHANGED <<portVars, inq, received, outq, written>>
  <2>1. u = t
    BY <1>0, <1>1, <1>4, LockPlaces
  <2>2. \E l \in Locks : AbandonLock(t, l)
    BY <1>1, <1>4, <2>1 DEF LockActions, configure, aclose, CanCall,
       ResumeConfigure, ApplyConfig, ConfigureHalfApplied, ConfigureAccepted,
       ConfigureRefused, ResumeClose, LeaveLock, TasksOK
  <2> QED
    BY <2>2 DEF AbandonLock
<1>5. ASSUME NEW u \in Tasks, DrainActions(u) \/ BreakActions(u)
      PROVE  UNCHANGED <<portVars, inq, received, outq, written>>
  BY <1>5, DrainFrame, BreakFrame
<1>6. ~\E u \in Tasks : FlushActions(u) \/ LoopActions(u)
  BY <1>0, <1>1, FlushPlaces, LoopFrame
<1>7. ~(Finalize \/ DeviceActions)
  BY FinalizeFrame, DeviceFrame DEF taskVars
<1> QED
  BY <1>2, <1>3, <1>4, <1>5, <1>6, <1>7, NextKinds

\* Cancelling a call, wherever it is parked, moves no byte, leaves the
\* configuration and does not close the port.
THEOREM CancelledLeavesNothing == Spec => CancelledMovesNothing
<1>1. IInv /\ [Next]_vars => [LeavesNothing]_vars
  BY CancelledStep
<1>2. LeavesNothing <=>
        \A t \in Tasks :
          pc[t] # "idle" /\ pc'[t] = "idle" /\ outcome'[t] = "Cancelled"
            => UNCHANGED <<closed, fdOpen, cfgVars, inq, received,
                           outq, written>>
  BY DEF LeavesNothing
<1> QED
  BY <1>1, <1>2, Invariance, PTL DEF Spec, CancelledMovesNothing

-----------------------------------------------------------------------------
(* The bytes.  Input: every byte the peer sent is in exactly one place and *)
(* in order, and the port implements InputStream.  Output: a send that     *)
(* returns has put its whole payload in, and the port implements           *)
(* OutputStream.                                                           *)

\* The elements of a sequence, as ByteSequences knows them.
LEMMA ElementsConcat ==
  ASSUME NEW a \in Seq(Nat), NEW b \in Seq(Nat)
  PROVE  Elements(a \o b) = Elements(a) \cup Elements(b)
BY ConcatElements DEF Elements, ElementsOf

LEMMA ElementsAppend ==
  ASSUME NEW s \in Seq(Nat), NEW x \in Nat
  PROVE  Elements(Append(s, x)) = Elements(s) \cup {x}
BY AppendElements DEF Elements, ElementsOf

\* An increasing concatenation has an increasing first part, and no element
\* of the first part in the second.
LEMMA IncreasingParts ==
  ASSUME NEW a \in Seq(Nat), NEW b \in Seq(Nat), Increasing(a \o b)
  PROVE  Increasing(a) /\ Elements(a) \cap Elements(b) = {}
<1>1. /\ Len(a \o b) = Len(a) + Len(b)
      /\ \A i \in 1..(Len(a) + Len(b)) :
           (a \o b)[i] = IF i <= Len(a) THEN a[i] ELSE b[i - Len(a)]
  BY ConcatProperties
<1>2. Increasing(a)
  <2> SUFFICES ASSUME NEW i \in 1..Len(a), NEW j \in 1..Len(a), i < j
               PROVE  a[i] < a[j]
    BY DEF Increasing
  <2>1. i \in 1..Len(a \o b) /\ j \in 1..Len(a \o b)
    BY <1>1
  <2>2. (a \o b)[i] = a[i] /\ (a \o b)[j] = a[j]
    BY <1>1
  <2> QED
    BY <2>1, <2>2 DEF Increasing
<1>3. ASSUME NEW x \in Elements(a), x \in Elements(b) PROVE FALSE
  <2>1. PICK i \in 1..Len(a) : x = a[i]
    BY DEF Elements
  <2>2. PICK j \in 1..Len(b) : x = b[j]
    BY <1>3 DEF Elements
  <2>3. /\ i \in 1..Len(a \o b) /\ j + Len(a) \in 1..Len(a \o b)
        /\ i < j + Len(a)
    BY <1>1
  <2>4. (a \o b)[i] = x /\ (a \o b)[j + Len(a)] = x
    <3>1. j + Len(a) > Len(a) /\ (j + Len(a)) - Len(a) = j
      OBVIOUS
    <3>2. (a \o b)[j + Len(a)] = b[j]
      BY <1>1, <2>3, <3>1
    <3>3. i \in 1..(Len(a) + Len(b)) /\ i <= Len(a)
      OBVIOUS
    <3>4. (a \o b)[i] = a[i]
      BY <1>1, <3>3
    <3> QED
      BY <2>1, <2>2, <3>2, <3>4
  <2>5. (a \o b)[i] < (a \o b)[j + Len(a)]
    BY <2>3 DEF Increasing
  <2>6. x \in Nat
    BY <2>1
  <2> QED
    BY <2>4, <2>5, <2>6
<1> QED
  BY <1>2, <1>3

\* A new greatest element keeps a sequence increasing.
LEMMA IncreasingAppend ==
  ASSUME NEW s \in Seq(Nat), NEW x \in Nat, Increasing(s),
         \A y \in Elements(s) : y < x
  PROVE  Increasing(Append(s, x))
<1>1. /\ Len(Append(s, x)) = Len(s) + 1
      /\ \A i \in 1..Len(s) : Append(s, x)[i] = s[i]
      /\ Append(s, x)[Len(s) + 1] = x
  BY AppendProperties
<1> SUFFICES ASSUME NEW i \in 1..(Len(s) + 1), NEW j \in 1..(Len(s) + 1), i < j
             PROVE  Append(s, x)[i] < Append(s, x)[j]
  BY <1>1 DEF Increasing
<1>2. i \in 1..Len(s) /\ Append(s, x)[i] = s[i]
  BY <1>1
<1>3. CASE j \in 1..Len(s)
  BY <1>1, <1>2, <1>3 DEF Increasing
<1>4. CASE j = Len(s) + 1
  <2>1. s[i] \in Elements(s)
    BY <1>2 DEF Elements
  <2> QED
    BY <1>1, <1>2, <1>4, <2>1
<1> QED
  BY <1>3, <1>4

-----------------------------------------------------------------------------
(* The four things a step can do to the input. *)

\* A flush or a hang-up discards what is queued.
Discards ==
  /\ UNCHANGED <<produced, received>>
  /\ inq' = <<>> /\ dropped' = dropped \cup Elements(inq)

\* Every step leaves the input alone, delivers a prefix of the queue, discards
\* the queue, or is the arrival of a byte.
LEMMA InputSteps ==
  ASSUME InputOK, CallsOK, Next
  PROVE  UNCHANGED inVars \/ Delivers \/ Discards \/ PeerSends
<1>1. ASSUME NEW t \in Tasks, ReadActions(t)
      PROVE  UNCHANGED inVars \/ Delivers
  BY <1>1, ReadInput
<1>2. ASSUME NEW t \in Tasks, FlushActions(t)
      PROVE  UNCHANGED inVars \/ Discards
  BY <1>2 DEF FlushActions, reset_input_buffer, reset_output_buffer, inVars,
     modem_lines, set_control_lines, input_waiting, output_waiting, Query,
     Discards
<1>3. ASSUME NEW t \in Tasks, \/ WriteActions(t) \/ DrainActions(t)
                              \/ BreakActions(t) \/ LockActions(t)
                              \/ LoopActions(t)
      PROVE  UNCHANGED inVars
  BY <1>3, WriteFrame, DrainFrame, BreakFrame, LockFrame, LoopFrame
<1>4. ASSUME Finalize PROVE UNCHANGED inVars
  BY <1>4, FinalizeFrame
<1>5. ASSUME DeviceActions
      PROVE  UNCHANGED inVars \/ Discards \/ PeerSends
  BY <1>5 DEF DeviceActions, Transmit, Unplug, Discards, inVars
<1> QED
  BY <1>1, <1>2, <1>3, <1>4, <1>5, NextKinds

\* A delivery moves the border between what callers have and what is queued,
\* and nothing else.
LEMMA DeliveryConserves ==
  ASSUME InputOK, InputConserved, Delivers
  PROVE  InputConserved'
<1>1. PICK k \in Nat : /\ k <= Len(inq)
                       /\ received' = received \o SubSeq(inq, 1, k)
                       /\ inq' = SubSeq(inq, k + 1, Len(inq))
  BY DEF Delivers
<1> DEFINE a == SubSeq(inq, 1, k)
           b == SubSeq(inq, k + 1, Len(inq))
<1>2. a \in Seq(Nat) /\ b \in Seq(Nat) /\ a \o b = inq
  BY <1>1, CutAndGlue DEF InputOK
<1>3. received \in Seq(Nat) /\ inq \in Seq(Nat)
  BY DEF InputOK
<1> HIDE DEF a, b
<1>4. received' = received \o a /\ inq' = b
  BY <1>1 DEF a, b
<1>5. (received \o a) \o b = received \o inq
  <2>1. (received \o a) \o b = received \o (a \o b)
    BY <1>2, <1>3, GlueAssociative, ZenonT(60)
  <2> QED
    BY <1>2, <2>1
<1>6. /\ Elements(inq) = Elements(a) \cup Elements(b)
      /\ Elements(received \o a) = Elements(received) \cup Elements(a)
  BY <1>2, <1>3, ElementsConcat
<1>7. Increasing(received' \o inq')
  BY <1>4, <1>5 DEF InputConserved
<1>8. /\ Elements(received') = Elements(received) \cup Elements(a)
      /\ Elements(inq') = Elements(b)
  BY <1>4, <1>6
<1>9. UNCHANGED <<produced, dropped>>
  BY DEF Delivers
<1> QED
  BY <1>6, <1>7, <1>8, <1>9, Zenon DEF InputConserved

\* A discard moves what is queued to what is dropped.
LEMMA DiscardConserves ==
  ASSUME InputOK, InputConserved, Discards
  PROVE  InputConserved'
<1>1. received \in Seq(Nat) /\ inq \in Seq(Nat)
  BY DEF InputOK
<1>2. Increasing(received) /\ Elements(received) \cap Elements(inq) = {}
  BY <1>1, IncreasingParts DEF InputConserved
<1>3. received \o <<>> = received
  BY <1>1, ConcatEmptySeq
<1>4. Elements(<<>>) = {}
  BY DEF Elements
<1> QED
  BY <1>2, <1>3, <1>4 DEF InputConserved, Discards

\* An arriving byte is newer than all others.
LEMMA ArrivalConserves ==
  ASSUME InputOK, InputConserved, PeerSends
  PROVE  InputConserved'
<1> DEFINE n == produced + 1
<1>1. /\ received \in Seq(Nat) /\ inq \in Seq(Nat) /\ produced \in Nat /\ n \in Nat
      /\ received \o inq \in Seq(Nat)
  BY DEF InputOK
<1>2. /\ inq' = Append(inq, n) /\ produced' = n
      /\ UNCHANGED <<received, dropped>>
  BY DEF PeerSends
<1>3. \A y \in 1..produced : y < n
  BY <1>1
<1>4. 1..n = (1..produced) \cup {n} /\ n \notin 1..produced
  BY <1>1
<1>5. received \o Append(inq, n) = Append(received \o inq, n)
  BY <1>1
<1>6. Elements(received \o inq) = Elements(received) \cup Elements(inq)
  BY <1>1, ElementsConcat
<1> HIDE DEF n
<1>7. Increasing(Append(received \o inq, n))
  <2>1. \A y \in Elements(received \o inq) : y < n
    BY <1>3, <1>6 DEF InputConserved
  <2> QED
    BY <1>1, <2>1, IncreasingAppend DEF InputConserved
<1>8. Elements(inq') = Elements(inq) \cup {n}
  BY <1>1, <1>2, ElementsAppend
<1> QED
  BY <1>2, <1>4, <1>5, <1>7, <1>8 DEF InputConserved

\* Every step conserves the input.
LEMMA InputConservedStep ==
  ASSUME IInv, InputConserved, [Next]_vars
  PROVE  InputConserved'
<1>1. InputOK /\ CallsOK
  BY DEF IInv, TypeOK
<1>2. CASE UNCHANGED inVars
  BY <1>2 DEF inVars, InputConserved
<1>3. CASE UNCHANGED vars
  BY <1>3 DEF vars, inVars, InputConserved
<1>4. CASE Next
  BY <1>1, <1>2, <1>4, InputSteps, DeliveryConserves, DiscardConserves,
     ArrivalConserves
<1> QED
  BY <1>3, <1>4

\* Every byte the peer sent is with a caller, in the kernel queue or dropped
\* by a flush or a hang-up, in exactly one of them and in order, whatever
\* reads were cancelled, woken in vain or overtaken by aclose.
THEOREM InputIsConserved == Spec => []InputConserved
<1>1. Init => InputConserved
  <2>1. Elements(<<>>) = {}
    BY DEF Elements
  <2>2. <<>> \o <<>> = <<>> /\ Increasing(<<>>)
    BY DEF Increasing
  <2>3. 1..0 = {}
    OBVIOUS
  <2> QED
    BY <2>1, <2>2, <2>3 DEF Init, InputConserved
<1>2. IInv /\ InputConserved /\ [Next]_vars => InputConserved'
  BY InputConservedStep
<1> QED
  BY <1>1, <1>2, Invariance, PTL DEF Spec

-----------------------------------------------------------------------------
(* The port implements InputStream. *)

\* Every step leaves the descriptor or closes it.
LEMMA DescriptorStep ==
  ASSUME FlagsOK, Next
  PROVE  fdOpen' \in BOOLEAN /\ (fdOpen' => fdOpen)
<1> USE DEF FlagsOK, portVars, cfgVars
<1>1. ASSUME NEW t \in Tasks, LockActions(t)
      PROVE  fdOpen' = fdOpen \/ fdOpen' = FALSE
  BY <1>1 DEF LockActions, configure, aclose, ResumeConfigure, ApplyConfig,
     ConfigureRefused, ConfigureHalfApplied, ConfigureAccepted, ResumeClose,
     AbandonLock
<1>2. ASSUME NEW t \in Tasks, \/ ReadActions(t) \/ WriteActions(t)
                              \/ DrainActions(t) \/ BreakActions(t)
                              \/ FlushActions(t) \/ LoopActions(t)
      PROVE  fdOpen' = fdOpen
  BY <1>2, ReadFrame, WriteFrame, DrainFrame, BreakFrame, FlushFrame, LoopFrame
<1>3. ASSUME Finalize PROVE fdOpen' = FALSE
  BY <1>3 DEF Finalize
<1>4. ASSUME DeviceActions PROVE fdOpen' = fdOpen
  BY <1>4, DeviceFrame
<1>5. fdOpen' = fdOpen \/ fdOpen' = FALSE
  BY <1>1, <1>2, <1>3, <1>4, NextKinds, Zenon
<1>6. fdOpen \in BOOLEAN
  OBVIOUS
<1>7. CASE fdOpen' = fdOpen
  BY <1>6, <1>7, Zenon
<1>8. CASE fdOpen' = FALSE
  BY <1>8, Zenon
<1> QED
  BY <1>5, <1>7, <1>8, Zenon

\* Nothing is handed to a caller without the descriptor: a closed port moves
\* nothing, and a collected one has no call in flight.
LEMMA NothingWithoutDescriptor ==
  ASSUME IInv, Next, ~fdOpen
  PROVE  UNCHANGED received
<1>1. CASE closed
  BY <1>1, ClosedStep DEF StaysClosed
<1>2. CASE ~closed
  <2>1. ~alive /\ \A t \in Tasks : pc[t] = "idle"
    BY <1>2 DEF IInv, ClosedMeansReleased, Collected, TypeOK, FlagsOK
  <2>2. ASSUME NEW t \in Tasks, ReadActions(t) PROVE UNCHANGED received
    BY <2>1, <2>2 DEF ReadActions, receive, receive_into, receive_available,
       EnterReceive, RejectArgument, ResumeReceive, ReadPcs, inVars
  <2>3. ASSUME NEW t \in Tasks, \/ WriteActions(t) \/ DrainActions(t)
                                \/ BreakActions(t) \/ LockActions(t)
                                \/ FlushActions(t) \/ LoopActions(t)
        PROVE  UNCHANGED received
    BY <2>3, WriteFrame, DrainFrame, BreakFrame, LockFrame, FlushFrame,
       LoopFrame DEF inVars
  <2>4. ASSUME Finalize \/ DeviceActions PROVE UNCHANGED received
    BY <2>4, FinalizeFrame, DeviceFrame DEF inVars
  <2> QED
    BY <2>2, <2>3, <2>4, NextKinds
<1> QED
  BY <1>1, <1>2

\* A delivery is Deliver of the abstract stream, or nothing if it is empty.
LEMMA DeliveryRefines ==
  ASSUME InputOK, Delivers, fdOpen \/ UNCHANGED received
  PROVE  Input!Deliver \/ UNCHANGED inVars
<1>1. PICK k \in Nat : /\ k <= Len(inq)
                       /\ received' = received \o SubSeq(inq, 1, k)
                       /\ inq' = SubSeq(inq, k + 1, Len(inq))
  BY DEF Delivers
<1>2. received \in Seq(Nat) /\ inq \in Seq(Nat) /\ UNCHANGED <<produced, dropped>>
  BY DEF InputOK, Delivers
<1>3. CASE k = 0
  <2>1. SubSeq(inq, 1, 0) = <<>> /\ SubSeq(inq, 1, Len(inq)) = inq
    BY <1>2
  <2>2. received \o <<>> = received
    BY <1>2, ConcatEmptySeq
  <2> QED
    BY <1>1, <1>2, <1>3, <2>1, <2>2 DEF inVars
<1>4. CASE k # 0
  <2>1. k \in 1..Len(inq)
    BY <1>1, <1>2, <1>4
  <2>2. fdOpen
    <3> DEFINE a == SubSeq(inq, 1, k)
    <3>1. a \in Seq(Nat) /\ Len(a) = k
      BY <1>1, <1>2
    <3> HIDE DEF a
    <3>2. Len(received \o a) = Len(received) + k
      BY <1>2, <3>1, ConcatProperties
    <3>3. Len(received') # Len(received)
      <4>1. received' = received \o a
        BY <1>1 DEF a
      <4>2. Len(received) \in Nat
        BY <1>2
      <4> QED
        BY <1>4, <3>2, <4>1, <4>2
    <3> QED
      BY <3>3
  <2> QED
    BY <1>1, <1>2, <2>1, <2>2 DEF Input!Deliver
<1> QED
  BY <1>3, <1>4

\* A discard is the loss of the whole queue, or nothing if it is empty.
LEMMA DiscardRefines ==
  ASSUME InputOK, Discards
  PROVE  Input!Lose \/ UNCHANGED inVars
<1>1. inq \in Seq(Nat) /\ Len(inq) \in Nat
  BY DEF InputOK
<1>2. CASE inq = <<>>
  BY <1>2 DEF Discards, Elements, inVars
<1>3. CASE inq # <<>>
  <2>1. 1 \in 1..Len(inq) /\ Len(inq) \in 1..Len(inq) /\ 1 <= Len(inq)
    BY <1>1, <1>3
  <2>2. SubSeq(inq, 1, 1 - 1) \o SubSeq(inq, Len(inq) + 1, Len(inq)) = <<>>
    BY <1>1
  <2>3. Elements(inq) = {inq[n] : n \in 1..Len(inq)}
    BY DEF Elements
  <2>4. /\ inq' = SubSeq(inq, 1, 1 - 1) \o SubSeq(inq, Len(inq) + 1, Len(inq))
        /\ dropped' = dropped \cup {inq[n] : n \in 1..Len(inq)}
        /\ UNCHANGED <<produced, received>>
    BY <2>2, <2>3 DEF Discards
  <2> QED
    BY <2>1, <2>4, Zenon DEF Input!Lose
<1> QED
  BY <1>2, <1>3

\* A byte that arrives is Arrive of the abstract stream.
LEMMA ArrivalRefines ==
  ASSUME InputOK, PeerSends
  PROVE  Input!Arrive
<1>1. inq \in Seq(Nat) /\ produced \in Nat
  BY DEF InputOK
<1>2. /\ inq' = Append(inq, produced + 1) /\ produced' = produced + 1
      /\ UNCHANGED <<received, dropped>>
  BY DEF PeerSends
<1>3. produced' \in Nat /\ produced' > produced /\ produced' - produced = 1
  BY <1>1, <1>2
<1>4. inq' = inq \o [i \in 1..1 |-> produced + i]
  BY <1>1, <1>2
<1> QED
  BY <1>2, <1>3, <1>4 DEF Input!Arrive

\* Every step of the port is a step of the abstract stream or leaves it alone.
LEMMA InputRefines ==
  ASSUME IInv, [Next]_vars
  PROVE  [Input!Next]_(Input!vars)
<1>1. InputOK /\ CallsOK /\ FlagsOK
  BY DEF IInv, TypeOK
<1>2. CASE UNCHANGED vars
  BY <1>2 DEF vars, portVars, cfgVars, inVars, Input!vars
<1>3. CASE Next
  <2>1. fdOpen' \in BOOLEAN /\ (fdOpen' => fdOpen)
    BY <1>1, <1>3, DescriptorStep
  <2>2. fdOpen \/ UNCHANGED received
    BY <1>3, NothingWithoutDescriptor
  <2>3. \/ Input!Arrive \/ Input!Deliver \/ Input!Lose
        \/ UNCHANGED inVars
    BY <1>1, <1>3, <2>2, InputSteps, DeliveryRefines, DiscardRefines,
       ArrivalRefines
  <2> QED
    BY <2>1, <2>3 DEF Input!Next, inVars
<1> QED
  BY <1>2, <1>3

\* Reading from the port is reading from a byte stream: callers get what the
\* peer sent, in order and at most once, and nothing from a closed port,
\* whatever the tasks do and however the reads end.
THEOREM InputRefinement == Spec => ReadsAStream
<1>1. Init => Input!Init
  BY DEF Init, Input!Init
<1>2. IInv /\ [Next]_vars => [Input!Next]_(Input!vars)
  BY InputRefines
<1> QED
  BY <1>1, <1>2, Invariance, PTL DEF Spec, ReadsAStream, Input!Spec

-----------------------------------------------------------------------------
(* The output: what a parked send knows about the bytes written so far. *)

Writer(t) == pc[t] = "wait_writable"

\* The number of the last byte accepted of the newest send, 0 if there is none.
Written == IF written # <<>> /\ written[Len(written)][1] = sends
           THEN written[Len(written)][2] ELSE 0

\* Bytes belong to sends that have begun; a parked send is the newest, its
\* offset tells what has been accepted of it last, and that nothing before it
\* is missing.
OutputInv ==
  /\ \A i \in 1..Len(written) : written[i][1] <= sends
  /\ \A t \in Tasks : Writer(t) =>
       /\ sends > 0 /\ msg[t] = sends /\ offset[t] = Written
       /\ \A i \in 1..offset[t] : <<sends, i>> \in Elements(written)

\* What a step must leave alone to keep it.
outputView == <<written, sends, msg, offset>>

\* Appending k bytes of a send, pointwise.
LEMMA BytesAppended ==
  ASSUME NEW w \in Seq(Nat \X Nat), NEW m \in Nat, NEW o \in Nat,
         NEW k \in Nat, k > 0
  PROVE  LET v == w \o Bytes(m, o + 1, o + k)
         IN  /\ v \in Seq(Nat \X Nat) /\ Len(v) = Len(w) + k
             /\ \A i \in 1..Len(w) : v[i] = w[i]
             /\ \A i \in 1..k : v[Len(w) + i] = <<m, o + i>>
<1> DEFINE b == Bytes(m, o + 1, o + k)
           v == w \o b
<1>1. /\ b \in Seq(Nat \X Nat) /\ Len(b) = k
      /\ \A i \in 1..k : b[i] = <<m, o + i>>
  <2>1. b = [i \in 1..k |-> <<m, o + i>>]
    <3>1. (o + k) + 1 - (o + 1) = k /\ \A i \in 1..k : (o + 1) + i - 1 = o + i
      OBVIOUS
    <3> QED
      BY <3>1 DEF Bytes
  <2> HIDE DEF b
  <2>2. \A i \in 1..k : <<m, o + i>> \in Nat \X Nat
    OBVIOUS
  <2> QED
    BY <2>1, <2>2
<1> HIDE DEF b, v
<1>2. v = w \o b
  BY DEF v
<1>3. v \in Seq(Nat \X Nat) /\ Len(v) = Len(w) + k
  BY <1>1, <1>2, ConcatProperties
<1>4. \A i \in 1..(Len(w) + k) : v[i] = IF i <= Len(w) THEN w[i] ELSE b[i - Len(w)]
  <2>1. \A i \in 1..(Len(w) + Len(b)) :
          (w \o b)[i] = IF i <= Len(w) THEN w[i] ELSE b[i - Len(w)]
    BY <1>1, ConcatProperties
  <2> QED
    BY <1>1, <1>2, <2>1, Zenon
<1>5. ASSUME NEW i \in 1..Len(w) PROVE v[i] = w[i]
  <2>1. i \in 1..(Len(w) + k) /\ i <= Len(w)
    OBVIOUS
  <2> QED
    BY <1>4, <2>1, Zenon
<1>6. ASSUME NEW i \in 1..k PROVE v[Len(w) + i] = <<m, o + i>>
  <2>1. /\ Len(w) \in Nat /\ Len(w) + i \in 1..(Len(w) + k)
        /\ ~(Len(w) + i <= Len(w)) /\ (Len(w) + i) - Len(w) = i
    OBVIOUS
  <2> QED
    BY <1>1, <1>4, <2>1
<1> QED
  BY <1>3, <1>5, <1>6, Zenon DEF v, b

\* The parts of a write that makes progress.
Accepts(t) ==
  \E k \in Nat :
    /\ k > 0 /\ k <= arg[t] - offset[t]
    /\ fdOpen /\ Writer(t)
    /\ written' = written \o Bytes(msg[t], offset[t] + 1, offset[t] + k)
    /\ offset' = [offset EXCEPT ![t] = @ + k]
    /\ UNCHANGED <<msg, arg, sends>>
    /\ \/ pc'[t] = "idle" /\ offset[t] + k = arg[t]
       \/ pc'[t] = "wait_writable"

\* A send begins, its task is refused or gets nothing in, it makes progress,
\* or it ends without.
LEMMA WriteSteps ==
  ASSUME FlagsOK, TasksOK, CallsOK, OutputOK, SendUnfinished, GuardsExact,
         NEW t \in Tasks, WriteActions(t)
  PROVE  \/ UNCHANGED <<outputView, pc>>
         \/ /\ ~closed /\ alive /\ \A u \in Tasks : ~Writer(u)
            /\ pc'[t] = "wait_writable" /\ sends' = sends + 1
            /\ msg' = [msg EXCEPT ![t] = sends + 1]
            /\ offset' = [offset EXCEPT ![t] = 0]
            /\ UNCHANGED written
         \/ Accepts(t)
         \/ /\ UNCHANGED outputView
            /\ Writer(t) /\ pc'[t] = "idle" /\ outcome'[t] # "ok"
<1> USE DEF outputView, Writer
<1>1. CASE \E n \in SendSizes : send(t, n)
  <2>1. PICK n \in SendSizes : send(t, n)
    BY <1>1
  <2>2. CASE pc'[t] = "idle"
    <3>1. UNCHANGED <<pc, callVars, written, sends>>
      BY <2>1, <2>2 DEF send, Refused, Return, Suspend, CanCall, TasksOK, outVars
    <3> QED
      BY <3>1 DEF callVars
  <2>3. CASE pc'[t] # "idle"
    <3>1. /\ ~sendGuard /\ ~closed /\ alive
          /\ pc' = [pc EXCEPT ![t] = "wait_writable"]
          /\ sends' = sends + 1
          /\ msg' = [msg EXCEPT ![t] = sends + 1]
          /\ offset' = [offset EXCEPT ![t] = 0]
          /\ UNCHANGED written
      BY <2>1, <2>3 DEF send, Refused, Return, Suspend, CanCall, TasksOK
    <3>2. \A u \in Tasks : ~Writer(u)
      BY <3>1 DEF GuardsExact, Sending, SendPcs
    <3> QED
      BY <3>1, <3>2 DEF TasksOK
  <2> QED
    BY <2>2, <2>3
<1>2. CASE ResumeSend(t)
  <2>1. Writer(t) /\ UNCHANGED <<arg, msg, sends>>
    BY <1>2 DEF ResumeSend
  <2>2. CASE UNCHANGED <<written, offset>>
    <3>1. pc'[t] = "idle" => outcome'[t] # "ok"
      <4>1. CASE Overtaken(t)
        BY <1>2, <4>1 DEF ResumeSend, LeaveSend, Return, WakeError, TasksOK
      <4>2. CASE ~Overtaken(t) /\ (\/ outq >= OutCap \/ ~(fdOpen /\ up))
        BY <1>2, <4>2, SizeAssumption DEF ResumeSend, WriteStep, LeaveSend, Return,
           Suspend, TasksOK, errno_to_exception, OutputOK, SizeAssumption
      <4>3. CASE ~Overtaken(t) /\ fdOpen /\ up /\ outq < OutCap
        <5> DEFINE k == Smaller(arg[t] - offset[t], OutCap - outq)
        <5>1. k \in Nat /\ k > 0
          BY <2>1, <4>3, SizeAssumption DEF Smaller, CallsOK, OutputOK,
             SendUnfinished, SizeAssumption
        <5>2. offset' = [offset EXCEPT ![t] = @ + k]
          <6>1. ~(outq >= OutCap)
            BY <4>3, SizeAssumption DEF OutputOK, SizeAssumption
          <6> QED
            BY <1>2, <4>3, <6>1 DEF ResumeSend, WriteStep, Advance
        <5> HIDE DEF k
        <5> QED
          BY <2>2, <5>1, <5>2 DEF CallsOK
      <4> QED
        BY <4>1, <4>2, <4>3, SizeAssumption DEF OutputOK, SizeAssumption
    <3>2. pc' = [pc EXCEPT ![t] = pc'[t]] /\ pc'[t] \in {"idle", "wait_writable"}
      BY <1>2, <2>1, WritePlaces DEF WriteActions, Moves
    <3> QED
      BY <2>1, <2>2, <3>1, <3>2 DEF TasksOK
  <2>3. CASE ~UNCHANGED <<written, offset>>
    <3> DEFINE k == Smaller(arg[t] - offset[t], OutCap - outq)
    <3>a. ~Overtaken(t) /\ WriteStep(t) /\ UNCHANGED <<arg, msg, sends>>
      BY <1>2, <2>3 DEF ResumeSend
    <3>1. /\ fdOpen /\ outq < OutCap
          /\ written' = written \o Bytes(msg[t], offset[t] + 1, offset[t] + k)
          /\ offset' = [offset EXCEPT ![t] = @ + k]
          /\ IF offset[t] + k >= arg[t] THEN pc' = [pc EXCEPT ![t] = "idle"]
                                        ELSE pc' = [pc EXCEPT ![t] = "wait_writable"]
      BY <2>3, <3>a DEF WriteStep, Advance, LeaveSend, Return, Suspend
    <3>2. k \in Nat /\ k > 0 /\ k <= arg[t] - offset[t]
      BY <2>1, <3>1, SizeAssumption DEF Smaller, CallsOK, OutputOK,
         SendUnfinished, SizeAssumption
    <3> HIDE DEF k
    <3>3. \/ pc'[t] = "idle" /\ offset[t] + k = arg[t]
          \/ pc'[t] = "wait_writable"
      <4>1. arg[t] \in Nat /\ offset[t] \in Nat /\ t \in DOMAIN pc
        BY DEF CallsOK, TasksOK
      <4>2. CASE offset[t] + k >= arg[t]
        <5>1. pc'[t] = "idle"
          BY <3>1, <4>1, <4>2, Zenon
        <5>2. offset[t] + k = arg[t]
          BY <3>2, <4>1, <4>2
        <5> QED
          BY <5>1, <5>2
      <4>3. CASE ~(offset[t] + k >= arg[t])
        BY <3>1, <4>1, <4>3, Zenon
      <4> QED
        BY <4>2, <4>3
    <3> QED
      BY <2>1, <3>1, <3>2, <3>3 DEF Accepts
  <2> QED
    BY <2>2, <2>3
<1> QED
  BY <1>1, <1>2 DEF WriteActions

\* No other step touches a parked send or the bytes written.
LEMMA OutputFrame ==
  ASSUME FlagsOK, TasksOK, Next, \A t \in Tasks : ~WriteActions(t)
  PROVE  /\ UNCHANGED outputView
         /\ \A u \in Tasks : Writer(u)' <=> Writer(u)
<1> USE DEF outputView, Writer, callVars, outVars, Moves, TasksOK
<1>1. ASSUME NEW t \in Tasks, ReadActions(t)
      PROVE  UNCHANGED outputView /\ \A u \in Tasks : Writer(u)' <=> Writer(u)
  BY <1>1, ReadFrame, ReadPlaces DEF ReadPcs
<1>2. ASSUME NEW t \in Tasks, DrainActions(t)
      PROVE  UNCHANGED outputView /\ \A u \in Tasks : Writer(u)' <=> Writer(u)
  BY <1>2, DrainFrame, DrainPlaces DEF SendPcs
<1>3. ASSUME NEW t \in Tasks, BreakActions(t)
      PROVE  UNCHANGED outputView /\ \A u \in Tasks : Writer(u)' <=> Writer(u)
  BY <1>3, BreakFrame, BreakPlaces
<1>4. ASSUME NEW t \in Tasks, LockActions(t)
      PROVE  UNCHANGED outputView /\ \A u \in Tasks : Writer(u)' <=> Writer(u)
  BY <1>4, LockFrame, LockPlaces
<1>5. ASSUME NEW t \in Tasks, FlushActions(t)
      PROVE  UNCHANGED outputView /\ \A u \in Tasks : Writer(u)' <=> Writer(u)
  BY <1>5, FlushFrame, FlushPlaces
<1>6. ASSUME NEW t \in Tasks, LoopActions(t)
      PROVE  UNCHANGED outputView /\ \A u \in Tasks : Writer(u)' <=> Writer(u)
  BY <1>6, LoopFrame
<1>7. ASSUME Finalize \/ DeviceActions
      PROVE  UNCHANGED outputView /\ \A u \in Tasks : Writer(u)' <=> Writer(u)
  BY <1>7, FinalizeFrame, DeviceFrame DEF taskVars
<1> QED
  BY <1>1, <1>2, <1>3, <1>4, <1>5, <1>6, <1>7, NextKinds

\* A step that leaves the bytes alone and parks no new send keeps it.
LEMMA OutputKept ==
  ASSUME OutputInv, UNCHANGED outputView,
         \A u \in Tasks : Writer(u)' => Writer(u)
  PROVE  OutputInv'
BY DEF OutputInv, outputView, Written

\* The first piece of a send has nothing behind it.
LEMMA OutputBegins ==
  ASSUME TasksOK, OutputOK, CallsOK, OutputInv, NEW t \in Tasks,
         \A u \in Tasks : ~Writer(u), Moves(t),
         sends' = sends + 1, msg' = [msg EXCEPT ![t] = sends + 1],
         offset' = [offset EXCEPT ![t] = 0], UNCHANGED written
  PROVE  OutputInv' /\ Written' = 0
<1> USE DEF OutputOK, CallsOK
<1>1. \A i \in 1..Len(written) : written'[i][1] < sends'
  <2> SUFFICES ASSUME NEW i \in 1..Len(written) PROVE written'[i][1] < sends'
    OBVIOUS
  <2>1. written[i] \in Nat \X Nat /\ written[i][1] <= sends
    BY DEF OutputInv
  <2> QED
    BY <2>1, SMTT(30)
<1>2. Written' = 0
  <2>1. CASE written = <<>>
    BY <2>1 DEF Written
  <2>2. CASE written # <<>>
    <3>1. Len(written) \in 1..Len(written)
      BY <2>2
    <3>2. written'[Len(written')][1] # sends'
      <4>1. written[Len(written)] \in Nat \X Nat
        BY <3>1
      <4>2. written'[Len(written)][1] < sends' /\ sends' \in Nat
        BY <1>1, <3>1
      <4> QED
        BY <4>1, <4>2
    <3> QED
      BY <3>2 DEF Written
  <2> QED
    BY <2>1, <2>2
<1>3. \A i \in 1..Len(written') : written'[i][1] <= sends'
  <2> SUFFICES ASSUME NEW i \in 1..Len(written) PROVE written'[i][1] <= sends'
    OBVIOUS
  <2>1. written[i] \in Nat \X Nat /\ written[i][1] <= sends
    BY DEF OutputInv
  <2> QED
    BY <2>1
<1>4. ASSUME NEW u \in Tasks, Writer(u)' PROVE u = t
  BY <1>4 DEF Writer, Moves, TasksOK
<1>5. msg'[t] = sends' /\ offset'[t] = 0 /\ sends' > 0
  OBVIOUS
<1>6. \A i \in 1..0 : <<sends', i>> \in Elements(written')
  OBVIOUS
<1> QED
  BY <1>2, <1>3, <1>4, <1>5, <1>6, Zenon DEF OutputInv

\* The bytes a parked send has accepted extend what it had accepted before,
\* up to the new offset.
LEMMA OutputAccepts ==
  ASSUME TasksOK, OutputOK, CallsOK, GuardsExact, OutputInv, NEW t \in Tasks,
         Moves(t), NEW k \in Nat, k > 0, Writer(t),
         written' = written \o Bytes(msg[t], offset[t] + 1, offset[t] + k),
         offset' = [offset EXCEPT ![t] = @ + k], UNCHANGED <<msg, sends>>
  PROVE  /\ OutputInv' /\ Written' = Written + k
         /\ Len(written') = Len(written) + k
         /\ \A i \in 1..(offset[t] + k) : <<msg[t], i>> \in Elements(written')
<1> DEFINE o == offset[t]
<1>1. /\ o \in Nat /\ sends \in Nat /\ sends > 0 /\ msg[t] = sends /\ o = Written
      /\ \A i \in 1..o : <<sends, i>> \in Elements(written)
      /\ written \in Seq(Nat \X Nat) /\ Len(written) \in Nat
      /\ \A i \in 1..Len(written) : written[i][1] <= sends
  BY SMTT(30) DEF OutputOK, CallsOK, OutputInv
<1>2. offset'[t] = o + k /\ \A u \in Tasks : u # t => offset'[u] = offset[u]
  BY DEF CallsOK
<1>3. written' = written \o Bytes(sends, o + 1, o + k)
  BY <1>1
<1> HIDE DEF o
<1>4. /\ written' \in Seq(Nat \X Nat) /\ Len(written') = Len(written) + k
      /\ \A i \in 1..Len(written) : written'[i] = written[i]
      /\ \A i \in 1..k : written'[Len(written) + i] = <<sends, o + i>>
  <2> DEFINE v == written \o Bytes(sends, o + 1, o + k)
  <2>1. /\ v \in Seq(Nat \X Nat) /\ Len(v) = Len(written) + k
        /\ \A i \in 1..Len(written) : v[i] = written[i]
        /\ \A i \in 1..k : v[Len(written) + i] = <<sends, o + i>>
    <3>1. /\ written \in Seq(Nat \X Nat) /\ sends \in Nat /\ o \in Nat
          /\ k \in Nat /\ k > 0
      BY <1>1
    <3> QED
      BY <3>1, BytesAppended, ZenonT(40)
  <2> QED
    BY <1>3, <2>1
<1>5. Written' = o + k
  <2>1. written' # <<>> /\ Len(written') \in Nat
    BY <1>1, <1>4
  <2>2. k \in 1..k
    OBVIOUS
  <2>3. written'[Len(written')] = <<sends, o + k>>
    BY <1>4, <2>2
  <2> QED
    BY <2>1, <2>3 DEF Written
<1>6. \A i \in 1..Len(written') : written'[i][1] <= sends'
  <2> SUFFICES ASSUME NEW i \in 1..Len(written') PROVE written'[i][1] <= sends
    OBVIOUS
  <2>1. CASE i \in 1..Len(written)
    BY <1>1, <1>4, <2>1
  <2>2. CASE i \notin 1..Len(written)
    <3>1. i - Len(written) \in 1..k /\ Len(written) + (i - Len(written)) = i
      BY <1>1, <1>4, <2>2
    <3>2. written'[i] = <<sends, o + (i - Len(written))>>
      BY <1>4, <3>1
    <3> QED
      BY <1>1, <3>2
  <2> QED
    BY <2>1, <2>2
<1>7. ASSUME NEW i \in 1..(o + k) PROVE <<sends, i>> \in Elements(written')
  <2>1. CASE i \in 1..o
    <3>1. PICK j \in 1..Len(written) : <<sends, i>> = written[j]
      BY <1>1, <2>1 DEF Elements
    <3>2. written'[j] = <<sends, i>>
      BY <1>4, <3>1
    <3>3. j \in 1..Len(written')
      BY <1>1, <1>4
    <3> QED
      BY <3>2, <3>3 DEF Elements
  <2>2. CASE i \notin 1..o
    <3>1. i - o \in 1..k /\ o + (i - o) = i
      BY <1>1, <2>2
    <3>2. written'[Len(written) + (i - o)] = <<sends, i>>
      BY <1>4, <3>1
    <3>3. Len(written) + (i - o) \in 1..Len(written')
      BY <1>1, <1>4, <3>1
    <3> QED
      BY <3>2, <3>3 DEF Elements
  <2> QED
    BY <2>1, <2>2
<1>8. ASSUME NEW u \in Tasks, Writer(u)' PROVE u = t
  BY <1>8 DEF Writer, Moves, TasksOK, GuardsExact, Sending, SendPcs
<1>9. msg'[t] = sends' /\ sends' > 0
  BY <1>1
<1>10. OutputInv'
  BY <1>2, <1>5, <1>6, <1>7, <1>8, <1>9, Zenon DEF OutputInv
<1> QED
  BY <1>1, <1>4, <1>5, <1>7, <1>10 DEF o

\* Every step keeps what parked sends know.
LEMMA OutputInvStep ==
  ASSUME IInv, OutputInv, [Next]_vars
  PROVE  OutputInv'
<1>1. /\ FlagsOK /\ TasksOK /\ CallsOK /\ OutputOK
      /\ SendUnfinished /\ GuardsExact
  BY DEF IInv, TypeOK
<1>2. CASE UNCHANGED vars
  BY <1>2, OutputKept DEF vars, taskVars, callVars, outVars, outputView, Writer
<1>3. CASE Next /\ \A t \in Tasks : ~WriteActions(t)
  BY <1>1, <1>3, OutputFrame, OutputKept
<1>4. ASSUME NEW t \in Tasks, WriteActions(t) PROVE OutputInv'
  <2>1. Moves(t)
    BY <1>1, <1>4, WritePlaces
  <2>2. CASE UNCHANGED <<outputView, pc>>
    BY <2>2, OutputKept DEF Writer
  <2>3. CASE /\ \A u \in Tasks : ~Writer(u)
             /\ sends' = sends + 1 /\ msg' = [msg EXCEPT ![t] = sends + 1]
             /\ offset' = [offset EXCEPT ![t] = 0] /\ UNCHANGED written
    BY <1>1, <2>1, <2>3, OutputBegins
  <2>4. CASE Accepts(t)
    BY <1>1, <2>1, <2>4, OutputAccepts DEF Accepts
  <2>5. CASE UNCHANGED outputView /\ Writer(t) /\ pc'[t] = "idle"
    <3>1. \A u \in Tasks : Writer(u)' => Writer(u)
      BY <1>1, <2>1, <2>5 DEF Moves, Writer, TasksOK
    <3> QED
      BY <2>5, <3>1, OutputKept
  <2> QED
    BY <1>1, <1>4, <2>2, <2>3, <2>4, <2>5, WriteSteps
<1> QED
  BY <1>2, <1>3, <1>4

\* Bytes and sends agree in every reachable state.
LEMMA OutputInvariance == Spec => []OutputInv
<1>1. Init => OutputInv
  BY DEF Init, OutputInv, Writer
<1>2. IInv /\ OutputInv /\ [Next]_vars => OutputInv'
  BY OutputInvStep
<1> QED
  BY <1>1, <1>2, Invariance, PTL DEF Spec

\* A parked send only ends normally with its last byte accepted.
CompletesSends ==
  \A t \in Tasks :
    pc[t] = "wait_writable" /\ pc'[t] = "idle" /\ outcome'[t] = "ok"
      => \A i \in 1..arg[t] : <<msg[t], i>> \in Elements(written')

\* Every step completes the send it ends.
LEMMA SendCompleteStep ==
  ASSUME IInv, OutputInv, Next
  PROVE  CompletesSends
<1>1. /\ FlagsOK /\ TasksOK /\ CallsOK /\ OutputOK
      /\ SendUnfinished /\ GuardsExact
  BY DEF IInv, TypeOK
<1> SUFFICES ASSUME NEW t \in Tasks, Writer(t), pc'[t] = "idle",
                    outcome'[t] = "ok"
             PROVE  \A i \in 1..arg[t] : <<msg[t], i>> \in Elements(written')
  BY DEF CompletesSends, Writer
<1>2. PICK u \in Tasks : WriteActions(u)
  BY <1>1, OutputFrame DEF Writer
<1>3. Moves(u)
  BY <1>1, <1>2, WritePlaces
<1>4. u = t
  BY <1>1, <1>3 DEF Moves, Writer, TasksOK
<1>5. Accepts(t) /\ pc'[t] # "wait_writable"
  BY <1>1, <1>2, <1>4, WriteSteps DEF Writer
<1>6. PICK k \in Nat :
        /\ k > 0 /\ offset[t] + k = arg[t]
        /\ written' = written \o Bytes(msg[t], offset[t] + 1, offset[t] + k)
        /\ offset' = [offset EXCEPT ![t] = @ + k]
        /\ UNCHANGED <<msg, sends>>
  BY <1>5 DEF Accepts
<1> QED
  BY <1>1, <1>3, <1>4, <1>6, OutputAccepts

\* When send returns normally the kernel has accepted every byte of the
\* payload, whatever partial writes and full queues came before.
THEOREM SendsComplete == Spec => SendComplete
<1>1. IInv /\ OutputInv /\ [Next]_vars => [CompletesSends]_vars
  BY SendCompleteStep
<1>2. CompletesSends <=>
        \A t \in Tasks :
          pc[t] = "wait_writable" /\ pc'[t] = "idle" /\ outcome'[t] = "ok"
            => \A i \in 1..arg[t] : <<msg[t], i>> \in Elements(written')
  BY DEF CompletesSends
<1> QED
  BY <1>1, <1>2, Invariance, OutputInvariance, PTL DEF Spec, SendComplete

-----------------------------------------------------------------------------
(* The port implements OutputStream. *)

Busy == \E t \in Tasks : Writer(t)

\* Whichever parked send CHOOSE takes, it has the same number.
LEMMA ChosenNumber ==
  ASSUME NEW T, NEW p, NEW m, NEW s,
         \A t \in T : p[t] = "wait_writable" => m[t] = s
  PROVE  (IF \E t \in T : p[t] = "wait_writable"
          THEN m[CHOOSE t \in T : p[t] = "wait_writable"] ELSE 0)
         = IF \E t \in T : p[t] = "wait_writable" THEN s ELSE 0
<1> DEFINE u == CHOOSE t \in T : p[t] = "wait_writable"
<1>1. CASE \E t \in T : p[t] = "wait_writable"
  <2>1. u \in T /\ p[u] = "wait_writable"
    BY <1>1
  <2> QED
    BY <1>1, <2>1
<1>2. CASE ~\E t \in T : p[t] = "wait_writable"
  BY <1>2
<1> QED
  BY <1>1, <1>2

\* The send in progress is the newest one, if there is one at all.
LEMMA CurrentValue ==
  ASSUME OutputInv, OutputInv'
  PROVE  /\ CurrentSend = IF Busy THEN sends ELSE 0
         /\ CurrentSend' = IF Busy' THEN sends' ELSE 0
<1>1. \A t \in Tasks : pc[t] = "wait_writable" => msg[t] = sends
  BY DEF OutputInv, Writer
<1>2. \A t \in Tasks : pc'[t] = "wait_writable" => msg'[t] = sends'
  BY DEF OutputInv, Writer
<1>3. CurrentSend = IF Busy THEN sends ELSE 0
  BY <1>1, ChosenNumber, Zenon DEF CurrentSend, Busy, Writer
<1>4. CurrentSend' = IF Busy' THEN sends' ELSE 0
  BY <1>2, ChosenNumber, Zenon DEF CurrentSend, Busy, Writer
<1> QED
  BY <1>3, <1>4

\* A send that gets the guard is Begin of the abstract stream.
LEMMA BeginRefines ==
  ASSUME OutputOK, OutputInv, OutputInv', ~Busy, Busy', fdOpen,
         sends' = sends + 1, UNCHANGED written
  PROVE  Output!Begin
BY CurrentValue DEF Output!Begin

\* A write that makes progress is Accept of the abstract stream.
LEMMA AcceptRefines ==
  ASSUME TasksOK, OutputOK, CallsOK, GuardsExact, OutputInv, OutputInv',
         NEW t \in Tasks, Moves(t), Accepts(t)
  PROVE  Output!Accept
<1>1. PICK k \in Nat :
        /\ k > 0 /\ fdOpen /\ Writer(t)
        /\ written' = written \o Bytes(msg[t], offset[t] + 1, offset[t] + k)
        /\ offset' = [offset EXCEPT ![t] = @ + k]
        /\ UNCHANGED <<msg, sends>>
  BY DEF Accepts
<1>2. /\ sends > 0 /\ msg[t] = sends /\ offset[t] = Written
      /\ sends \in Nat /\ offset[t] \in Nat /\ Len(written) \in Nat
  BY <1>1 DEF OutputInv, OutputOK, CallsOK
<1>3. Len(written') = Len(written) + k
  BY <1>1, OutputAccepts
<1>4. Len(written') - Len(written) = k
  BY <1>2, <1>3
<1>5. Busy
  BY <1>1 DEF Busy
<1>6. CurrentSend = sends /\ CurrentSend' \in {sends, 0}
  BY <1>1, <1>5, CurrentValue
<1>7. Output!Progress = Written
  BY <1>6 DEF Output!Progress, Written
<1>8. written' = written \o [i \in 1..k |-> <<sends, Written + i>>]
  <2> DEFINE o == offset[t]
  <2>1. /\ (o + k) + 1 - (o + 1) = k
        /\ \A i \in 1..k : (o + 1) + i - 1 = o + i
    BY <1>2
  <2> HIDE DEF o
  <2>2. Bytes(sends, o + 1, o + k) = [i \in 1..k |-> <<sends, o + i>>]
    BY <2>1 DEF Bytes
  <2>3. written' = written \o Bytes(sends, o + 1, o + k)
    BY <1>1, <1>2 DEF o
  <2>4. o = Written
    BY <1>2 DEF o
  <2> QED
    BY <2>2, <2>3, <2>4
<1>9. UNCHANGED sends /\ fdOpen /\ CurrentSend # 0
  BY <1>1, <1>2, <1>6
<1> HIDE DEF CurrentSend, Written
<1>10. written' = written \o
         [i \in 1..(Len(written') - Len(written)) |-> <<CurrentSend, Output!Progress + i>>]
  BY <1>4, <1>6, <1>7, <1>8
<1>11. Len(written') - Len(written) > 0 /\ CurrentSend' \in {CurrentSend, 0}
  BY <1>1, <1>4, <1>6
<1> QED
  BY <1>9, <1>10, <1>11, Zenon DEF Output!Accept

\* Every step of the port is a step of the abstract stream or leaves it alone.
LEMMA OutputRefines ==
  ASSUME IInv, OutputInv, OutputInv', [Next]_vars
  PROVE  [Output!Next]_(Output!vars)
<1> DEFINE Idle == UNCHANGED <<sends, CurrentSend, written>>
<1>1. /\ FlagsOK /\ TasksOK /\ CallsOK /\ OutputOK /\ SendUnfinished
      /\ GuardsExact /\ ClosedMeansReleased /\ Collected
  BY DEF IInv, TypeOK
<1>2. ASSUME UNCHANGED <<sends, written>>, Busy' <=> Busy PROVE Idle
  BY <1>2, CurrentValue
<1>3. CASE UNCHANGED vars
  <2>1. UNCHANGED <<sends, written, pc, fdOpen>>
    BY <1>3 DEF vars, taskVars, outVars, portVars, cfgVars
  <2>2. Idle
    BY <1>2, <2>1 DEF Busy, Writer
  <2> QED
    BY <2>1, <2>2 DEF Output!vars
<1>4. CASE Next
  <2>1. Output!Begin \/ Output!Accept \/ Output!End \/ Idle
    <3>1. CASE \A t \in Tasks : ~WriteActions(t)
      <4>1. UNCHANGED outputView /\ \A u \in Tasks : Writer(u)' <=> Writer(u)
        BY <1>1, <1>4, <3>1, OutputFrame
      <4> QED
        BY <1>2, <4>1 DEF outputView, Busy
    <3>2. ASSUME NEW t \in Tasks, WriteActions(t)
          PROVE  Output!Begin \/ Output!Accept \/ Output!End \/ Idle
      <4>1. Moves(t)
        BY <1>1, <3>2, WritePlaces
      <4>2. CASE UNCHANGED <<outputView, pc>>
        BY <1>2, <4>2 DEF outputView, Busy, Writer
      <4>3. CASE /\ ~closed /\ alive /\ \A u \in Tasks : ~Writer(u)
                 /\ pc'[t] = "wait_writable" /\ sends' = sends + 1
                 /\ UNCHANGED written
        <5>1. fdOpen
          BY <1>1, <4>3, OpenWhileBusy
        <5>2. ~Busy /\ Busy'
          BY <4>3 DEF Busy, Writer
        <5> QED
          BY <1>1, <4>3, <5>1, <5>2, BeginRefines
      <4>4. CASE Accepts(t)
        BY <1>1, <4>1, <4>4, AcceptRefines
      <4>5. CASE UNCHANGED outputView /\ Writer(t) /\ pc'[t] = "idle"
        <5>1. ~Busy'
          BY <1>1, <4>1, <4>5
             DEF Busy, Writer, Moves, TasksOK, GuardsExact, Sending, SendPcs
        <5> QED
          BY <4>5, <5>1, CurrentValue DEF outputView, Output!End
      <4> QED
        BY <1>1, <3>2, <4>2, <4>3, <4>4, <4>5, WriteSteps
    <3> QED
      BY <3>1, <3>2
  <2>2. fdOpen' \in BOOLEAN /\ (fdOpen' => fdOpen)
    BY <1>1, <1>4, DescriptorStep
  <2> QED
    BY <2>1, <2>2 DEF Output!Next
<1> QED
  BY <1>3, <1>4

\* Writing to the port is writing to a byte stream: sends are served one after
\* the other, and partial writes and full queues neither repeat nor skip a
\* byte of any of them.
THEOREM OutputRefinement == Spec => WritesAStream
<1>1. Init => Output!Init
  BY DEF Init, Output!Init, CurrentSend
<1>2. IInv /\ OutputInv /\ OutputInv' /\ [Next]_vars => [Output!Next]_(Output!vars)
  BY OutputRefines
<1> QED
  BY <1>1, <1>2, Invariance, OutputInvariance, PTL
     DEF Spec, WritesAStream, Output!Spec
=============================================================================
