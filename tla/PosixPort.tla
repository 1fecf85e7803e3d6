------------------------------ MODULE PosixPort ------------------------------
(***************************************************************************)
(* One open serial port of class _PosixSerialPort (stream.py) on top of a  *)
(* PosixBackend, used by several tasks of one event loop.  A step of a     *)
(* task runs from one await to the next, so it is atomic; what interleaves *)
(* is what happens between a task being parked, being woken and running    *)
(* again.  The device, the kernel queues and the peer are environment      *)
(* steps; drain_exact's worker thread is a process of its own.             *)
(*                                                                         *)
(* AnyIO is external.  Its primitives are modelled from the way stream.py  *)
(* uses them: ResourceGuard (a flag), Lock (an owner and a queue of        *)
(* waiters), wait_readable / wait_writable (a parked task and the reason   *)
(* it was woken), notify_closing, sleep and to_thread.run_sync.            *)
(***************************************************************************)
EXTENDS Naturals, Sequences

CONSTANTS
  Tasks,      \* tasks of the event loop that share the port
  NoTask,     \* "no owner" of a lock
  Program,    \* Program[t]: the operations task t may call
  Enabled,    \* environment events of this instance
  ReadSizes,  \* max_bytes / limit / len(buffer) a caller may pass
  SendSizes,  \* lengths of the payloads a caller may send
  MaxSends,   \* bound: number of non-empty sends that get the guard
  OutCap,     \* capacity of the kernel output queue, in bytes
  MaxIn,      \* bound: number of bytes the peer sends
  ReadChunk,  \* SerialConfig.read_chunk_size
  Configs     \* the configurations the port may be given

Reads    == {"receive", "receive_into", "receive_available"}
Controls == {"reset_input_buffer", "reset_output_buffer"}
LineQueries  == {"modem_lines", "set_control_lines"}
QueueQueries == {"input_waiting", "output_waiting"}
OpNames  == Reads \cup Controls \cup LineQueries \cup QueueQueries \cup
            {"send", "send_eof", "drain", "drain_exact", "send_break",
             "configure", "aclose"}
Events   == {"cancel", "unplug", "spurious", "del"}

Locks == {"close", "configure"}

ASSUME TaskAssumption == NoTask \notin Tasks
ASSUME OpAssumption ==
  Program \in [Tasks -> SUBSET OpNames] /\ Enabled \subseteq Events
ASSUME SizeAssumption ==
  /\ ReadSizes \subseteq Nat
  /\ SendSizes \subseteq Nat
  /\ MaxSends \in Nat
  /\ OutCap \in Nat \ {0}
  /\ MaxIn \in Nat
  /\ ReadChunk \in Nat \ {0}
  /\ Configs # {}

VARIABLES
  closed,     \* SerialPort._closed
  config,     \* SerialPort._config
  receiveGuard, sendGuard,  \* ResourceGuard._guarded of the two guards
  owner,      \* owner[l]: the task that holds lock l
  waiters,    \* waiters[l]: the queue of lock l
  alive,      \* FALSE once the port object has been collected
  fdOpen,     \* PosixBackend._fd >= 0
  termiosCfg, \* the configuration whose line settings the kernel has
  halfApplied,\* TRUE when what follows tcsetattr failed for termiosCfg
  op,         \* op[t]: the current or last operation of t
  pc,         \* pc[t]: where t is suspended, "idle" between operations
  wake,       \* wake[t]: why t was woken, "none" while it is parked
  outcome,    \* outcome[t]: how the last operation of t ended
  arg,        \* arg[t]: size of t's read or send, or 0
  offset,     \* offset[t]: bytes of t's send already written
  msg,        \* msg[t]: number of t's current send
  target,     \* target[t]: the configuration t applies
  cancelled,  \* tasks whose enclosing cancel scope is cancelled
  up,         \* FALSE once the device has been unplugged
  inq,        \* kernel input queue: numbers of the bytes queued
  produced,   \* number of bytes the peer has sent
  received,   \* bytes handed to callers, in the order of the calls
  dropped,    \* bytes a flush or a hang-up discarded
  outq,       \* number of bytes in the kernel output queue
  written,    \* <<send, index>> of every byte the kernel accepted
  sends,      \* number of sends started
  breakOn     \* the BREAK condition on the line

cfgVars == <<config, termiosCfg, halfApplied>>
portVars == <<closed, alive, fdOpen, cfgVars>>
guardVars == <<receiveGuard, sendGuard>>
lockVars == <<owner, waiters>>
taskVars == <<op, pc, wake, outcome>>
callVars == <<arg, offset, msg, target>>
inVars == <<inq, produced, received, dropped>>
outVars == <<outq, written, sends, breakOn>>
vars == <<portVars, guardVars, lockVars, taskVars, callVars, cancelled, up,
          inVars, outVars>>

Outcomes == {"none", "ok", "Busy", "Closed", "Cancelled", "Disconnected",
             "SerialError", "OSError", "BadArgument", "ValueError",
             "termios.error"}
Wakes    == {"none", "ready", "closing", "cancelled", "ValueError",
             "termios.error"}
ReadPcs  == {"wait_readable", "rewait_readable"}
SendPcs  == {"wait_writable", "drain_sleep", "break_sleep",
             "thread_checkpoint", "worker_queued", "tcdrain"}
LockPc   == [l \in Locks |-> IF l = "close" THEN "close_lock"
                                            ELSE "configure_lock"]
Pcs      == {"idle", "close_lock", "configure_lock"} \cup ReadPcs \cup SendPcs

FlagsOK ==
  /\ closed \in BOOLEAN /\ alive \in BOOLEAN /\ fdOpen \in BOOLEAN
  /\ receiveGuard \in BOOLEAN /\ sendGuard \in BOOLEAN
  /\ up \in BOOLEAN /\ breakOn \in BOOLEAN /\ halfApplied \in BOOLEAN

ConfigOK == config \in Configs /\ termiosCfg \in Configs

LocksOK ==
  /\ owner \in [Locks -> Tasks \cup {NoTask}]
  /\ waiters \in [Locks -> Seq(Tasks)]

TasksOK ==
  /\ op \in [Tasks -> OpNames \cup {"none"}]
  /\ pc \in [Tasks -> Pcs]
  /\ wake \in [Tasks -> Wakes]
  /\ outcome \in [Tasks -> Outcomes]
  /\ cancelled \subseteq Tasks

CallsOK ==
  /\ arg \in [Tasks -> Nat]
  /\ offset \in [Tasks -> Nat]
  /\ msg \in [Tasks -> Nat]
  /\ target \in [Tasks -> Configs]

InputOK ==
  /\ inq \in Seq(Nat) /\ received \in Seq(Nat)
  /\ produced \in Nat
  /\ dropped \subseteq Nat

OutputOK ==
  /\ outq \in 0..OutCap /\ sends \in Nat
  /\ written \in Seq(Nat \X Nat)

\* Every variable has its type, and the kernel's output queue never holds more
\* than it can.
TypeOK ==
  FlagsOK /\ ConfigOK /\ LocksOK /\ TasksOK /\ CallsOK /\ InputOK /\ OutputOK

(***************************************************************************)
(* open_serial_port has just returned: the descriptor is open, the config  *)
(* is applied and nothing is in flight.                                    *)
(***************************************************************************)
Init ==
  /\ closed = FALSE /\ alive = TRUE /\ fdOpen = TRUE
  /\ config \in Configs /\ termiosCfg = config /\ halfApplied = FALSE
  /\ receiveGuard = FALSE /\ sendGuard = FALSE
  /\ owner = [l \in Locks |-> NoTask]
  /\ waiters = [l \in Locks |-> <<>>]
  /\ op = [t \in Tasks |-> "none"]
  /\ pc = [t \in Tasks |-> "idle"]
  /\ wake = [t \in Tasks |-> "none"]
  /\ outcome = [t \in Tasks |-> "none"]
  /\ arg = [t \in Tasks |-> 0]
  /\ offset = [t \in Tasks |-> 0]
  /\ msg = [t \in Tasks |-> 0]
  /\ target = [t \in Tasks |-> config]
  /\ cancelled = {}
  /\ up = TRUE
  /\ inq = <<>> /\ produced = 0 /\ received = <<>> /\ dropped = {}
  /\ outq = 0 /\ written = <<>> /\ sends = 0
  /\ breakOn = FALSE

-----------------------------------------------------------------------------
(* What a step does to the task that takes it. *)

CanCall(t, o) == alive /\ pc[t] = "idle" /\ o \in Program[t]

Suspend(t, o, p, w) ==
  /\ op' = [op EXCEPT ![t] = o]
  /\ pc' = [pc EXCEPT ![t] = p]
  /\ wake' = [wake EXCEPT ![t] = w]
  /\ outcome' = [outcome EXCEPT ![t] = "none"]

Return(t, o, r) ==
  /\ op' = [op EXCEPT ![t] = o]
  /\ pc' = [pc EXCEPT ![t] = "idle"]
  /\ wake' = [wake EXCEPT ![t] = "none"]
  /\ outcome' = [outcome EXCEPT ![t] = r]

\* What a system call on a device that is gone, or on descriptor -1, raises;
\* and errno_to_exception in the two contexts of an open port.
Errno == IF fdOpen THEN "EIO" ELSE "EBADF"
errno_to_exception(err, context) ==
  IF context = "io" /\ err \in {"EIO", "ENXIO"} THEN "Disconnected"
  ELSE "SerialError"

\* Faulty variants of definitions are named Bad...; the specification uses
\* none of them.  Here: a wake-up by the close is taken for a normal end.
BadWakeError(t) == IF wake[t] = "cancelled" THEN "Cancelled" ELSE "ok"

\* _raise_if_closed after a wake-up, and the errors the wait itself raises.
ClosedOnWake(t) == closed \/ wake[t] = "closing"
WakeError(t) == IF wake[t] = "cancelled" THEN "Cancelled" ELSE "Closed"
\* Faulty: no second _raise_if_closed after the wait.
BadOvertaken(t) == wake[t] \in {"cancelled", "closing"}

Overtaken(t) == wake[t] = "cancelled" \/ ClosedOnWake(t)

-----------------------------------------------------------------------------
(* AnyIO Lock.  An uncontended acquire first raises a pending cancellation,
   then takes the lock and yields while it holds it.  A contended acquire
   joins the queue; its entry stays there until the waiter itself runs again,
   so a free lock with a leftover entry counts as contended. *)

Free(l) == owner[l] = NoTask /\ waiters[l] = <<>>

Acquire(t, o, l) ==
  \/ /\ Free(l) /\ t \in cancelled
     /\ Return(t, o, "Cancelled")
     /\ UNCHANGED lockVars
  \/ /\ Free(l) /\ t \notin cancelled
     /\ Suspend(t, o, LockPc[l], "ready")
     /\ owner' = [owner EXCEPT ![l] = t]
     /\ UNCHANGED waiters
  \/ /\ ~Free(l)
     /\ Suspend(t, o, LockPc[l], "none")
     /\ waiters' = [waiters EXCEPT ![l] = Append(@, t)]
     /\ UNCHANGED owner

\* The entry of t, if it has one, leaves the queue when t runs again.
Dequeue(s, t) ==
  IF \E i \in 1..Len(s) : s[i] = t
  THEN LET i == CHOOSE i \in 1..Len(s) : s[i] = t
       IN  SubSeq(s, 1, i - 1) \o SubSeq(s, i + 1, Len(s))
  ELSE s

\* Lock.release hands the lock to the first waiter that is not cancelled.
NextOwner(q, n) ==
  \/ /\ n = NoTask
     /\ \A i \in 1..Len(q) : wake[q[i]] = "cancelled"
  \/ \E i \in 1..Len(q) :
        /\ n = q[i]
        /\ wake[n] # "cancelled"
        /\ \A j \in 1..(i - 1) : wake[q[j]] = "cancelled"

\* t ran with lock l and leaves it with result r; the lock goes to n.
LeaveLock(t, l, n, r) ==
  /\ NextOwner(Dequeue(waiters[l], t), n)
  /\ owner' = [owner EXCEPT ![l] = n]
  /\ waiters' = [waiters EXCEPT ![l] = Dequeue(@, t)]
  /\ pc' = [pc EXCEPT ![t] = "idle"]
  /\ outcome' = [outcome EXCEPT ![t] = r]
  /\ UNCHANGED op

\* The wake-ups w after t has left a lock to n.
Handoff(w, t, n) ==
  [u \in Tasks |-> IF u = t THEN "none" ELSE IF u = n THEN "ready" ELSE w[u]]

\* A waiter whose wait was cancelled: it never had the lock.
AbandonLock(t, l) ==
  /\ pc[t] = LockPc[l] /\ wake[t] = "cancelled"
  /\ Return(t, op[t], "Cancelled")
  /\ waiters' = [waiters EXCEPT ![l] = Dequeue(@, t)]
  /\ UNCHANGED <<portVars, guardVars, owner, callVars, cancelled, up, inVars,
                 outVars>>

-----------------------------------------------------------------------------
(* receive, receive_into, receive_available *)

EnterReceive(t, o, n) ==
  /\ \/ /\ receiveGuard \/ closed
        /\ Return(t, o, IF receiveGuard THEN "Busy" ELSE "Closed")
        /\ UNCHANGED <<receiveGuard, arg>>
     \/ /\ ~receiveGuard /\ ~closed
        /\ Suspend(t, o, "wait_readable", "none")
        /\ receiveGuard' = TRUE
        /\ arg' = [arg EXCEPT ![t] = n]
  /\ UNCHANGED <<portVars, sendGuard, lockVars, offset, msg, target,
                 cancelled, up, inVars, outVars>>

\* The ValueError of an operation's own argument check, raised before it
\* looks at its guard or at the closed flag.  ("ValueError" is the one that
\* termios and fcntl raise for descriptor -1.)
RejectArgument(t, o) ==
  /\ Return(t, o, "BadArgument")
  /\ UNCHANGED <<portVars, guardVars, lockVars, callVars, cancelled, up,
                 inVars, outVars>>

receive(t, n) ==
  /\ CanCall(t, "receive")
  /\ \/ n = 0 /\ RejectArgument(t, "receive")
     \/ n > 0 /\ EnterReceive(t, "receive", n)

receive_into(t, n) ==
  /\ CanCall(t, "receive_into")
  /\ \/ n = 0 /\ RejectArgument(t, "receive_into")
     \/ n > 0 /\ EnterReceive(t, "receive_into", n)

\* limit is only looked at after the first wake-up; None is no bound at all.
NoLimit == MaxIn + ReadChunk
receive_available(t, limit) ==
  /\ CanCall(t, "receive_available")
  /\ EnterReceive(t, "receive_available", limit)

\* Faulty: a cancelled read keeps the guard.
BadLeaveReceive(t, r) ==
  /\ Return(t, op[t], r)
  /\ receiveGuard' = (r = "Cancelled")
  /\ arg' = [arg EXCEPT ![t] = 0]

LeaveReceive(t, r) ==
  /\ Return(t, op[t], r)
  /\ receiveGuard' = FALSE
  /\ arg' = [arg EXCEPT ![t] = 0]

Smaller(a, b) == IF a <= b THEN a ELSE b

\* Faulty: waits until as many bytes as asked for are there.
BadReadStep(t, n, retryPc) ==
  \/ /\ fdOpen /\ Len(inq) >= n
     /\ received' = received \o SubSeq(inq, 1, n)
     /\ inq' = SubSeq(inq, n + 1, Len(inq))
     /\ LeaveReceive(t, "ok")
     /\ UNCHANGED <<produced, dropped>>
  \/ /\ fdOpen /\ Len(inq) < n /\ up
     /\ Suspend(t, op[t], retryPc, "none")
     /\ arg' = [arg EXCEPT ![t] = n]
     /\ UNCHANGED <<inVars, receiveGuard>>

\* read_nonblocking of up to n bytes on a port that is not closed, and what
\* the caller does with its result.
ReadStep(t, n, retryPc) ==
  \/ /\ fdOpen /\ inq # <<>>
     /\ LET k == Smaller(n, Len(inq))
        IN  /\ received' = received \o SubSeq(inq, 1, k)
            /\ inq' = SubSeq(inq, k + 1, Len(inq))
     /\ LeaveReceive(t, "ok")
     /\ UNCHANGED <<produced, dropped>>
  \/ /\ fdOpen /\ inq = <<>> /\ up           \* EAGAIN: park again
     /\ Suspend(t, op[t], retryPc, "none")
     /\ arg' = [arg EXCEPT ![t] = n]
     /\ UNCHANGED <<inVars, receiveGuard>>
  \/ /\ ~(fdOpen /\ (inq # <<>> \/ up))      \* EOF / EIO, or EBADF
     /\ LeaveReceive(t, errno_to_exception(Errno, "io"))
     /\ UNCHANGED inVars

\* Bytes receive_available asks for: TIOCINQ, the chunk size if the queue is
\* empty, never more than the limit.
AvailableSize(t) ==
  Smaller(IF inq # <<>> THEN Len(inq) ELSE ReadChunk, arg[t])

\* Faulty: reads a byte first and looks at the cancellation and the close
\* afterwards.
BadResumeReceive(t) ==
  /\ pc[t] \in ReadPcs /\ wake[t] # "none"
  /\ IF Overtaken(t)
     THEN /\ LeaveReceive(t, WakeError(t))
          /\ inq' = IF inq = <<>> THEN inq ELSE Tail(inq)
          /\ UNCHANGED <<produced, received, dropped>>
     ELSE ReadStep(t, arg[t], pc[t])
  /\ UNCHANGED <<portVars, sendGuard, lockVars, offset, msg, target,
                 cancelled, up, outVars>>

ResumeReceive(t) ==
  /\ pc[t] \in ReadPcs /\ wake[t] # "none"
  /\ \/ Overtaken(t) /\ LeaveReceive(t, WakeError(t)) /\ UNCHANGED inVars
     \/ /\ ~Overtaken(t)
        /\ op[t] # "receive_available" \/ pc[t] = "rewait_readable"
        /\ ReadStep(t, arg[t], pc[t])
     \/ /\ ~Overtaken(t)
        /\ op[t] = "receive_available" /\ pc[t] = "wait_readable"
        /\ IF ~up                           \* TIOCINQ fails: not mapped
           THEN LeaveReceive(t, "OSError") /\ UNCHANGED inVars
           ELSE IF AvailableSize(t) = 0
           THEN LeaveReceive(t, "ok") /\ UNCHANGED inVars
           ELSE ReadStep(t, AvailableSize(t), "rewait_readable")
  /\ UNCHANGED <<portVars, sendGuard, lockVars, offset, msg, target,
                 cancelled, up, outVars>>

-----------------------------------------------------------------------------
(* send, drain, send_eof, drain_exact, send_break: they share the send guard *)

\* What a caller that is refused at the door gets; the guard is asked first.
Refused(t, o) ==
  /\ sendGuard \/ closed
  /\ Return(t, o, IF sendGuard THEN "Busy" ELSE "Closed")
  /\ UNCHANGED <<portVars, guardVars, lockVars, callVars, cancelled, up,
                 inVars, outVars>>

LeaveSend(t, o, r) ==
  /\ Return(t, o, r)
  /\ sendGuard' = FALSE

send(t, n) ==
  /\ CanCall(t, "send")
  /\ \/ /\ n = 0                             \* an empty write skips the guard
        /\ Return(t, "send", IF closed THEN "Closed" ELSE "ok")
        /\ UNCHANGED <<portVars, guardVars, lockVars, callVars, cancelled, up,
                       inVars, outVars>>
     \/ n > 0 /\ Refused(t, "send")
     \/ /\ n > 0 /\ ~sendGuard /\ ~closed /\ sends < MaxSends
        /\ Suspend(t, "send", "wait_writable", "none")
        /\ sendGuard' = TRUE
        /\ sends' = sends + 1
        /\ msg' = [msg EXCEPT ![t] = sends + 1]
        /\ arg' = [arg EXCEPT ![t] = n]
        /\ offset' = [offset EXCEPT ![t] = 0]
        /\ UNCHANGED <<portVars, receiveGuard, lockVars, target, cancelled, up,
                       inVars, outq, written, breakOn>>

\* The bytes of send m with indices from a to b.
Bytes(m, a, b) == [i \in 1..(b + 1 - a) |-> <<m, a + i - 1>>]

\* Faulty: after a partial write the payload is sent from its start again.
BadAdvance(t, k) == UNCHANGED offset

Advance(t, k) == offset' = [offset EXCEPT ![t] = @ + k]

\* write_nonblocking of the rest of the payload; the kernel takes what fits.
WriteStep(t) ==
  LET k == Smaller(arg[t] - offset[t], OutCap - outq)
  IN  \/ /\ fdOpen /\ up /\ outq < OutCap
         /\ written' = written \o Bytes(msg[t], offset[t] + 1, offset[t] + k)
         /\ outq' = outq + k
         /\ Advance(t, k)
         /\ IF offset[t] + k >= arg[t]
            THEN LeaveSend(t, "send", "ok")
            ELSE Suspend(t, "send", "wait_writable", "none") /\ UNCHANGED sendGuard
      \/ /\ fdOpen /\ up /\ outq >= OutCap   \* EAGAIN: park again
         /\ Suspend(t, "send", "wait_writable", "none")
         /\ UNCHANGED <<sendGuard, offset, outq, written>>
      \/ /\ ~(fdOpen /\ up)                  \* EIO, or EBADF
         /\ LeaveSend(t, "send", errno_to_exception(Errno, "io"))
         /\ UNCHANGED <<offset, outq, written>>

ResumeSend(t) ==
  /\ pc[t] = "wait_writable" /\ wake[t] # "none"
  /\ \/ /\ Overtaken(t)
        /\ LeaveSend(t, "send", WakeError(t))
        /\ UNCHANGED <<offset, outq, written>>
     \/ ~Overtaken(t) /\ WriteStep(t)
  /\ UNCHANGED <<portVars, receiveGuard, lockVars, arg, msg, target, cancelled,
                 up, inVars, sends, breakOn>>

\* One probe of drain's loop: closed check, TIOCOUTQ, return or sleep.
DrainProbe(t, o) ==
  IF closed THEN LeaveSend(t, o, "Closed")
  ELSE IF ~(fdOpen /\ up)
  THEN LeaveSend(t, o, errno_to_exception(Errno, "ioctl"))
  ELSE IF outq = 0 THEN LeaveSend(t, o, "ok")
  ELSE Suspend(t, o, "drain_sleep", "none") /\ sendGuard' = TRUE

RestUnchanged ==
  UNCHANGED <<portVars, receiveGuard, lockVars, callVars, cancelled, up,
              inVars, outVars>>

drain(t) ==
  /\ CanCall(t, "drain")
  /\ \/ Refused(t, "drain")
     \/ ~sendGuard /\ ~closed /\ DrainProbe(t, "drain") /\ RestUnchanged

send_eof(t) ==
  /\ CanCall(t, "send_eof")
  /\ \/ /\ closed /\ Return(t, "send_eof", "ok")
        /\ UNCHANGED guardVars /\ RestUnchanged
     \/ ~closed /\ Refused(t, "send_eof")
     \/ ~sendGuard /\ ~closed /\ DrainProbe(t, "send_eof") /\ RestUnchanged

\* Faulty: swallows the cancellation of its sleep.
BadResumeDrain(t) ==
  /\ pc[t] = "drain_sleep" /\ wake[t] # "none"
  /\ DrainProbe(t, op[t])
  /\ RestUnchanged

ResumeDrain(t) ==
  /\ pc[t] = "drain_sleep" /\ wake[t] # "none"
  /\ IF wake[t] = "cancelled" THEN LeaveSend(t, op[t], "Cancelled")
                              ELSE DrainProbe(t, op[t])
  /\ RestUnchanged

drain_exact(t) ==
  /\ CanCall(t, "drain_exact")
  /\ \/ Refused(t, "drain_exact")
     \/ /\ ~sendGuard /\ ~closed
        /\ Suspend(t, "drain_exact", "thread_checkpoint", "none")
        /\ sendGuard' = TRUE
        /\ RestUnchanged

\* to_thread.run_sync: a checkpoint, then the call is queued for a worker
\* thread and awaited in a shielded scope.
DispatchDrain(t) ==
  /\ pc[t] = "thread_checkpoint" /\ wake[t] # "none"
  /\ IF wake[t] = "cancelled"
     THEN LeaveSend(t, "drain_exact", "Cancelled")
     ELSE Suspend(t, "drain_exact", "worker_queued", "none") /\ UNCHANGED sendGuard
  /\ RestUnchanged

\* The worker thread reads self._fd and calls termios.tcdrain on it ...
tcdrain_blocking(t) ==
  /\ pc[t] = "worker_queued" /\ wake[t] = "none"
  /\ IF fdOpen /\ up
     THEN pc' = [pc EXCEPT ![t] = "tcdrain"] /\ UNCHANGED wake
     ELSE /\ wake' = [wake EXCEPT ![t] = IF fdOpen THEN "termios.error"
                                                   ELSE "ValueError"]
          /\ UNCHANGED pc
  /\ UNCHANGED <<op, outcome, guardVars>>
  /\ RestUnchanged

\* ... which returns when the output queue is empty.
TcdrainReturns(t) ==
  /\ pc[t] = "tcdrain" /\ wake[t] = "none" /\ outq = 0
  /\ wake' = [wake EXCEPT ![t] = "ready"]
  /\ UNCHANGED <<op, pc, outcome, guardVars>>
  /\ RestUnchanged

\* Faulty: hands on whatever the worker thread left.
BadResumeDrainExact(t) ==
  /\ pc[t] \in {"worker_queued", "tcdrain"} /\ wake[t] # "none"
  /\ LeaveSend(t, "drain_exact", wake[t])
  /\ RestUnchanged

ResumeDrainExact(t) ==
  /\ pc[t] \in {"worker_queued", "tcdrain"} /\ wake[t] # "none"
  /\ LeaveSend(t, "drain_exact", IF wake[t] = "ready" THEN "ok" ELSE wake[t])
  /\ RestUnchanged

\* The duration check (valid: not negative, not NaN), set_break(on=True) and
\* the sleep; ResumeBreak is the finally that de-asserts.
send_break(t, valid) ==
  /\ CanCall(t, "send_break")
  /\ \/ ~valid /\ RejectArgument(t, "send_break")
     \/ valid /\ Refused(t, "send_break")
     \/ /\ valid /\ ~sendGuard /\ ~closed
        /\ IF fdOpen /\ up
           THEN /\ Suspend(t, "send_break", "break_sleep", "none")
                /\ sendGuard' = TRUE /\ breakOn' = TRUE
           ELSE /\ LeaveSend(t, "send_break", errno_to_exception(Errno, "ioctl"))
                /\ UNCHANGED breakOn
        /\ UNCHANGED <<portVars, receiveGuard, lockVars, callVars, cancelled,
                       up, inVars, outq, written, sends>>

\* Faulty: de-asserts behind the sleep instead of in a finally.
BadResumeBreak(t) ==
  /\ pc[t] = "break_sleep" /\ wake[t] # "none"
  /\ LeaveSend(t, "send_break", IF wake[t] = "cancelled" THEN "Cancelled" ELSE "ok")
  /\ breakOn' = IF wake[t] # "cancelled" /\ fdOpen /\ up THEN FALSE ELSE breakOn
  /\ UNCHANGED <<portVars, receiveGuard, lockVars, callVars, cancelled, up,
                 inVars, outq, written, sends>>

\* With _fd = -1 fcntl.ioctl raises ValueError, which is not suppressed and
\* replaces the cancellation; an OSError of the device is suppressed.
ResumeBreak(t) ==
  /\ pc[t] = "break_sleep" /\ wake[t] # "none"
  /\ LeaveSend(t, "send_break",
               IF ~fdOpen THEN "ValueError"
               ELSE IF wake[t] = "cancelled" THEN "Cancelled" ELSE "ok")
  /\ breakOn' = IF fdOpen /\ up THEN FALSE ELSE breakOn
  /\ UNCHANGED <<portVars, receiveGuard, lockVars, callVars, cancelled, up,
                 inVars, outq, written, sends>>

\* anyio.sleep and checkpoint() end by themselves.
SleepEnds(t) ==
  /\ pc[t] \in {"drain_sleep", "break_sleep", "thread_checkpoint"}
  /\ wake[t] = "none"
  /\ wake' = [wake EXCEPT ![t] = "ready"]
  /\ UNCHANGED <<op, pc, outcome, guardVars>>
  /\ RestUnchanged

-----------------------------------------------------------------------------
(* configure, aclose, the buffer resets and the finalizer *)

configure(t, c) ==
  /\ CanCall(t, "configure")
  /\ Acquire(t, "configure", "configure")
  /\ target' = [target EXCEPT ![t] = c]
  /\ UNCHANGED <<portVars, guardVars, arg, offset, msg, cancelled, up, inVars,
                 outVars>>

\* Before the commit: the builders may refuse, which surfaces as SerialError,
\* and so may tcgetattr and tcsetattr, whose termios.error is not an OSError
\* and passes through.  Nothing has changed.
ConfigureRefused(r) ==
  /\ r \in {"SerialError", "termios.error"}
  /\ UNCHANGED cfgVars

\* Behind the commit: tcsetattr has set the line, and the ioctl that completes
\* the configuration (TIOCSRS485 on Linux, IOSSIOSPEED on macOS) fails.
\* Nothing takes the line settings back.
ConfigureHalfApplied(t, r) ==
  /\ up /\ r = "SerialError"
  /\ termiosCfg' = target[t] /\ halfApplied' = TRUE
  /\ UNCHANGED config

ConfigureAccepted(t, r) ==
  /\ up /\ r = "ok"
  /\ termiosCfg' = target[t] /\ halfApplied' = FALSE
  /\ config' = target[t]

\* Faulty: does not look whether the port was closed while it waited.
BadClosedApplyConfig(t, r) ==
  ConfigureRefused(r) \/ ConfigureHalfApplied(t, r) \/ ConfigureAccepted(t, r)

\* Faulty: records the configuration before the backend has accepted it.
BadOrderApplyConfig(t, r) ==
  \/ closed /\ r = "Closed" /\ UNCHANGED cfgVars
  \/ /\ ~closed /\ config' = target[t]
     /\ \/ /\ r \in {"SerialError", "termios.error"}
           /\ UNCHANGED <<termiosCfg, halfApplied>>
        \/ ConfigureAccepted(t, r)

\* The body of configure, under the lock, and its result.
ApplyConfig(t, r) ==
  \/ closed /\ r = "Closed" /\ UNCHANGED cfgVars
  \/ ~closed /\ ConfigureRefused(r)
  \/ ~closed /\ ConfigureHalfApplied(t, r)
  \/ ~closed /\ ConfigureAccepted(t, r)

\* Faulty: acquire and release instead of async with: the error path of a
\* closed port leaves with the lock.
BadResumeConfigure(t) ==
  /\ pc[t] = "configure_lock" /\ wake[t] = "ready"
  /\ \/ /\ closed
        /\ Return(t, op[t], "Closed")
        /\ UNCHANGED <<lockVars, cfgVars>>
     \/ /\ ~closed
        /\ \E n \in Tasks \cup {NoTask}, r \in Outcomes :
             /\ LeaveLock(t, "configure", n, r)
             /\ wake' = Handoff(wake, t, n)
             /\ ApplyConfig(t, r)
  /\ UNCHANGED <<closed, alive, fdOpen, guardVars, callVars, cancelled, up,
                 inVars, outVars>>

ResumeConfigure(t) ==
  /\ pc[t] = "configure_lock" /\ wake[t] = "ready"
  /\ \E n \in Tasks \cup {NoTask}, r \in Outcomes :
       /\ LeaveLock(t, "configure", n, r)
       /\ wake' = Handoff(wake, t, n)
       /\ ApplyConfig(t, r)
  /\ UNCHANGED <<closed, alive, fdOpen, guardVars, callVars, cancelled, up,
                 inVars, outVars>>

aclose(t) ==
  /\ CanCall(t, "aclose")
  /\ Acquire(t, "aclose", "close")
  /\ UNCHANGED <<portVars, guardVars, callVars, cancelled, up, inVars, outVars>>

\* anyio.notify_closing(fd) wakes every task parked on the descriptor.
NotifyClosing ==
  [u \in Tasks |-> IF pc[u] \in ReadPcs \cup {"wait_writable"} /\ wake[u] = "none"
                   THEN "closing" ELSE wake[u]]

\* Faulty: closes the descriptor without notify_closing.
BadResumeClose(t) ==
  /\ pc[t] = "close_lock" /\ wake[t] = "ready"
  /\ \E n \in Tasks \cup {NoTask} :
       /\ LeaveLock(t, "close", n, "ok")
       /\ wake' = Handoff(wake, t, n)
  /\ closed' = TRUE /\ fdOpen' = FALSE
  /\ UNCHANGED <<cfgVars, alive, guardVars, callVars, cancelled, up,
                 inVars, outVars>>

ResumeClose(t) ==
  /\ pc[t] = "close_lock" /\ wake[t] = "ready"
  /\ \E n \in Tasks \cup {NoTask} :
       /\ LeaveLock(t, "close", n, "ok")
       /\ \/ /\ closed
             /\ wake' = Handoff(wake, t, n)
             /\ UNCHANGED <<closed, fdOpen>>
          \/ /\ ~closed
             /\ closed' = TRUE
             /\ wake' = Handoff(NotifyClosing, t, n)
             /\ fdOpen' = FALSE
  /\ UNCHANGED <<cfgVars, alive, guardVars, callVars, cancelled, up,
                 inVars, outVars>>

\* Faulty: a flush that does not look whether the port is closed.
BadFlush(t, o) ==
  /\ CanCall(t, o)
  /\ Return(t, o, IF fdOpen /\ up THEN "ok" ELSE "termios.error")
  /\ UNCHANGED <<portVars, guardVars, lockVars, callVars, cancelled, up>>

\* tcflush(TCIFLUSH / TCOFLUSH): no guard, no lock, no await.
Flush(t, o) ==
  /\ CanCall(t, o)
  /\ Return(t, o, IF closed THEN "Closed"
                  ELSE IF fdOpen /\ up THEN "ok" ELSE "termios.error")
  /\ UNCHANGED <<portVars, guardVars, lockVars, callVars, cancelled, up>>

Flushes == ~closed /\ fdOpen /\ up
Elements(s) == {s[i] : i \in 1..Len(s)}

reset_input_buffer(t) ==
  /\ Flush(t, "reset_input_buffer")
  /\ inq' = IF Flushes THEN <<>> ELSE inq
  /\ dropped' = IF Flushes THEN dropped \cup Elements(inq) ELSE dropped
  /\ UNCHANGED <<produced, received, outVars>>

reset_output_buffer(t) ==
  /\ Flush(t, "reset_output_buffer")
  /\ outq' = IF Flushes THEN 0 ELSE outq
  /\ UNCHANGED <<inVars, written, sends, breakOn>>

\* One ioctl behind a closed check; no guard, no lock, no await.  The levels
\* of the control lines are not modelled.
Query(t, o, error) ==
  /\ CanCall(t, o)
  /\ Return(t, o, IF closed THEN "Closed"
                  ELSE IF fdOpen /\ up THEN "ok" ELSE error)
  /\ UNCHANGED <<portVars, guardVars, lockVars, callVars, cancelled, up,
                 inVars, outVars>>

modem_lines(t) ==
  Query(t, "modem_lines", errno_to_exception(Errno, "ioctl"))
set_control_lines(t) ==
  Query(t, "set_control_lines", errno_to_exception(Errno, "ioctl"))
input_waiting(t) == Query(t, "input_waiting", "OSError")   \* not mapped
output_waiting(t) == Query(t, "output_waiting", "OSError")

\* __del__: no task holds the port any more; a port left open is closed.
Finalize ==
  /\ "del" \in Enabled /\ alive
  /\ \A t \in Tasks : pc[t] = "idle"
  /\ alive' = FALSE
  /\ fdOpen' = FALSE
  /\ UNCHANGED <<closed, cfgVars, guardVars, lockVars, taskVars,
                 callVars, cancelled, up, inVars, outVars>>

-----------------------------------------------------------------------------
(* The environment: cancel scopes, readiness, the peer and the device. *)

OnlyWake == UNCHANGED <<portVars, guardVars, lockVars, op, pc, outcome,
                        callVars, up, inVars, outVars>>

Cancel(t) ==
  /\ "cancel" \in Enabled /\ t \notin cancelled
  /\ cancelled' = cancelled \cup {t}
  /\ UNCHANGED wake /\ OnlyWake

\* The Cancelled exception is thrown into a task that is still parked, never
\* into one that has been woken, and not into a shielded wait.
DeliverCancel(t) ==
  /\ t \in cancelled
  /\ pc[t] \notin {"idle", "worker_queued", "tcdrain"} /\ wake[t] = "none"
  /\ wake' = [wake EXCEPT ![t] = "cancelled"]
  /\ UNCHANGED cancelled /\ OnlyWake

LeaveScope(t) ==
  /\ t \in cancelled /\ pc[t] = "idle"
  /\ cancelled' = cancelled \ {t}
  /\ UNCHANGED wake /\ OnlyWake

Parked(t, pcs) == pc[t] \in pcs /\ wake[t] = "none"

FdReady(t) ==
  /\ fdOpen
  /\ \/ Parked(t, ReadPcs) /\ (inq # <<>> \/ ~up)
     \/ Parked(t, {"wait_writable"}) /\ (outq < OutCap \/ ~up)
     \/ Parked(t, ReadPcs \cup {"wait_writable"}) /\ "spurious" \in Enabled
  /\ wake' = [wake EXCEPT ![t] = "ready"]
  /\ UNCHANGED cancelled /\ OnlyWake

PeerSends ==
  /\ fdOpen /\ up /\ produced < MaxIn
  /\ produced' = produced + 1
  /\ inq' = Append(inq, produced + 1)
  /\ UNCHANGED <<portVars, guardVars, lockVars, taskVars, callVars, cancelled,
                 up, received, dropped, outVars>>

Transmit ==
  /\ up /\ outq > 0
  /\ outq' = outq - 1
  /\ UNCHANGED <<portVars, guardVars, lockVars, taskVars, callVars, cancelled,
                 up, inVars, written, sends, breakOn>>

\* A hang-up: the kernel discards what it had queued.
Unplug ==
  /\ "unplug" \in Enabled /\ up
  /\ up' = FALSE
  /\ inq' = <<>> /\ dropped' = dropped \cup Elements(inq)
  /\ outq' = 0
  /\ UNCHANGED <<portVars, guardVars, lockVars, taskVars, callVars, cancelled,
                 produced, received, written, sends, breakOn>>

-----------------------------------------------------------------------------
Calls(t) ==
  \/ \E n \in ReadSizes : receive(t, n)
  \/ \E n \in ReadSizes : receive_into(t, n)
  \/ \E n \in ReadSizes \cup {NoLimit} : receive_available(t, n)
  \/ \E n \in SendSizes : send(t, n)
  \/ drain(t) \/ send_eof(t) \/ drain_exact(t)
  \/ \E valid \in BOOLEAN : send_break(t, valid)
  \/ \E c \in Configs : configure(t, c)
  \/ aclose(t) \/ reset_input_buffer(t) \/ reset_output_buffer(t)
  \/ modem_lines(t) \/ set_control_lines(t)
  \/ input_waiting(t) \/ output_waiting(t)

\* A woken task runs to its next await or to its end.
Resume(t) ==
  \/ ResumeReceive(t) \/ ResumeSend(t) \/ ResumeDrain(t) \/ DispatchDrain(t)
  \/ ResumeDrainExact(t) \/ ResumeBreak(t) \/ ResumeConfigure(t)
  \/ ResumeClose(t) \/ (\E l \in Locks : AbandonLock(t, l))

Worker(t) == tcdrain_blocking(t) \/ TcdrainReturns(t)

Environment(t) ==
  Cancel(t) \/ DeliverCancel(t) \/ LeaveScope(t) \/ FdReady(t) \/ SleepEnds(t)

Next ==
  \/ \E t \in Tasks : Calls(t) \/ Resume(t) \/ Worker(t) \/ Environment(t)
  \/ Finalize \/ PeerSends \/ Transmit \/ Unplug

Spec == Init /\ [][Next]_vars

-----------------------------------------------------------------------------
(* Safety *)

Receiving(t) == pc[t] \in ReadPcs
Sending(t)   == pc[t] \in SendPcs

\* A guard is set exactly while one task is inside the section it protects:
\* whichever way a call ends (data, error, cancellation, close), it gives the
\* guard back, and no two reads or two writes are ever in flight together.
GuardsExact ==
  /\ receiveGuard <=> \E t \in Tasks : Receiving(t)
  /\ sendGuard <=> \E t \in Tasks : Sending(t)
  /\ \A t, u \in Tasks : Receiving(t) /\ Receiving(u) => t = u
  /\ \A t, u \in Tasks : Sending(t) /\ Sending(u) => t = u

\* The descriptor is never closed under a task that still waits on it: once
\* aclose has run, every task that was parked in wait_readable or
\* wait_writable has been woken (docs/cancellation.md, "notify_closing and
\* parked waits"), and as long as the port object exists _closed tells
\* exactly whether the descriptor is gone.
ClosedMeansReleased ==
  /\ ~fdOpen => \A t \in Tasks : ~Parked(t, ReadPcs \cup {"wait_writable"})
  /\ alive => (closed <=> ~fdOpen)

\* A read, write or drain that aclose overtakes ends with the closed error or
\* its cancellation; none of them issues a system call on descriptor -1,
\* which would surface as EBADF (a plain SerialError).
NoIOAfterClose ==
  \A t \in Tasks :
    op[t] \in Reads \cup {"send", "drain", "send_eof"} /\ outcome[t] = "SerialError"
      => ~up

\* Where an error outside the documented hierarchy reaches a caller, and when
\* only: the argument checks of receive, receive_into and send_break, whatever
\* the state of the port; the BREAK teardown and drain_exact's thread that a
\* close overtakes (descriptor -1 is a ValueError); the queue sizes and tcflush
\* on an unplugged device; and whatever tcsetattr refuses.  In particular a
\* call with good arguments that starts on a closed port gets nothing but the
\* closed error.
RawErrors ==
  \A t \in Tasks :
    /\ outcome[t] = "BadArgument" =>
         op[t] \in {"receive", "receive_into", "send_break"}
    /\ outcome[t] = "ValueError" =>
         op[t] \in {"send_break", "drain_exact"} /\ closed
    /\ outcome[t] = "OSError" =>
         op[t] \in QueueQueries \cup {"receive_available"} /\ ~up
    /\ outcome[t] = "termios.error" =>
         \/ op[t] = "configure"
         \/ op[t] \in Controls \cup {"drain_exact"} /\ ~up

Increasing(s) == \A i, j \in 1..Len(s) : i < j => s[i] < s[j]

\* Every byte the peer sent is in exactly one place, in order: handed to a
\* caller, still queued in the kernel, or dropped by a flush or a hang-up.
\* A cancelled or failed read takes nothing with it.
InputConserved ==
  /\ Increasing(received \o inq)
  /\ Elements(received) \cap dropped = {}
  /\ Elements(inq) \cap dropped = {}
  /\ Elements(received) \cup Elements(inq) \cup dropped = 1..produced

\* While the port is open, BREAK is asserted only while a send_break sleeps:
\* cancellation or an early wake-up never leaves the line held.
BreakReleased ==
  breakOn /\ fdOpen /\ up => \E t \in Tasks : pc[t] = "break_sleep"

\* A lock has an owner exactly while one task is about to run its body, and
\* the owner is not also waiting for it.
LockDiscipline ==
  \A l \in Locks :
    /\ \A t \in Tasks : owner[l] = t <=> pc[t] = LockPc[l] /\ wake[t] = "ready"
    /\ \A i, j \in 1..Len(waiters[l]) : i # j => waiters[l][i] # waiters[l][j]
    /\ \A i \in 1..Len(waiters[l]) : pc[waiters[l][i]] = LockPc[l]

-----------------------------------------------------------------------------
(* What a step may never do *)

\* port.config and the device move only together, in the step in which a
\* configure returns normally, with one exception that the caller is told of:
\* a configure that fails behind tcsetattr leaves the new line settings in the
\* kernel and the old ones in port.config, and raises SerialError.  Whatever
\* configure calls were refused before it, were cancelled, waited for the lock
\* or met a closed port, the next one that returns normally makes the two
\* agree again.  (docs/runtime-reconfiguration.md, "Failure semantics", denies
\* the exception: "No half-applied state is visible to the caller.")
ConfigMatchesKernel ==
  [][/\ ~halfApplied' => config' = termiosCfg'
     /\ cfgVars' # cfgVars =>
          \E t \in Tasks :
            /\ op[t] = "configure" /\ pc[t] # "idle" /\ pc'[t] = "idle"
            /\ \/ outcome'[t] = "ok" /\ ~halfApplied'
               \/ outcome'[t] = "SerialError" /\ halfApplied' /\ config' = config
    ]_vars

\* Once closed, always closed: nothing reopens the port or touches the device
\* through it.
ClosedIsFinal ==
  [][closed => /\ closed' /\ ~fdOpen'
               /\ UNCHANGED <<cfgVars, received, written>>]_vars

\* When a send returns normally, the kernel has accepted every byte of its
\* payload, however many partial writes, full queues and flushes it met.
SendComplete ==
  [][\A t \in Tasks :
       pc[t] = "wait_writable" /\ pc'[t] = "idle" /\ outcome'[t] = "ok"
         => \A i \in 1..arg[t] : <<msg[t], i>> \in Elements(written')]_vars

\* Cancelling changes nothing a later call could see: the step in which a
\* task leaves with Cancelled moves no byte and leaves the configuration.
CancelledMovesNothing ==
  [][\A t \in Tasks :
       pc[t] # "idle" /\ pc'[t] = "idle" /\ outcome'[t] = "Cancelled"
         => UNCHANGED <<closed, fdOpen, cfgVars, inq, received, outq,
                        written>>]_vars

-----------------------------------------------------------------------------
(* What the port implements *)

Input == INSTANCE InputStream WITH
           open <- fdOpen, sent <- produced, pending <- inq, got <- received,
           gone <- dropped

\* The send in progress: the one whose task waits for the descriptor.
CurrentSend ==
  IF \E t \in Tasks : pc[t] = "wait_writable"
  THEN msg[CHOOSE t \in Tasks : pc[t] = "wait_writable"] ELSE 0

Output == INSTANCE OutputStream WITH
            open <- fdOpen, started <- sends, current <- CurrentSend,
            accepted <- written

\* Reading from a port is reading from a byte stream: whatever the tasks, the
\* flushes, the close and the device do, the bytes that come out are the ones
\* that went in, in order and at most once, and none comes out of a closed port.
ReadsAStream == Input!Spec

\* Writing to a port is writing to a byte stream: concurrent sends are served
\* one after the other, and partial writes and full queues neither repeat nor
\* skip a byte of any of them.
WritesAStream == Output!Spec

-----------------------------------------------------------------------------
(* Liveness.  The event loop runs what is runnable: a woken task is resumed,
   a due timer and a pending cancellation are delivered, a ready descriptor
   is reported, and a worker thread is scheduled by the operating system.
   A cancelled scope retries delivery in every iteration of the loop, so a
   task that keeps parking is reached even if it is also woken again and
   again (strong fairness).  Nothing makes a caller call, a peer send or the device transmit. *)

LoopFairness ==
  \A t \in Tasks : /\ WF_vars(Resume(t)) /\ WF_vars(Worker(t))
                   /\ WF_vars(SleepEnds(t)) /\ WF_vars(FdReady(t))
                   /\ SF_vars(DeliverCancel(t))

FairSpec == Spec /\ LoopFairness

\* aclose ends every call in flight: readers and writers are woken, a drain
\* or a break notices at the end of its sleep.  (A drain_exact waits for the
\* device.)
CloseEndsCalls ==
  \A t \in Tasks :
    closed /\ pc[t] \in ReadPcs \cup {"wait_writable", "drain_sleep", "break_sleep"}
      ~> pc[t] = "idle"

\* A cancelled call ends, wherever it is parked: cancelling never has to wait
\* for the device, the peer or the holder of a lock.  (The worker thread of
\* drain_exact is the exception.)
CancelEndsCalls ==
  \A t \in Tasks :
    t \in cancelled /\ pc[t] \notin {"worker_queued", "tcdrain"}
      ~> pc[t] \in {"idle", "worker_queued"}

\* Output calls end once the device keeps transmitting: send gets its last
\* byte in, drain sees the queue empty, drain_exact's thread comes back.
OutputCallsReturn ==
  WF_vars(Transmit) => \A t \in Tasks : Sending(t) ~> pc[t] = "idle"

\* A reader parked while bytes are queued is not forgotten: it returns, unless
\* a flush takes the bytes first.
QueuedBytesAreRead ==
  \A t \in Tasks : Receiving(t) /\ inq # <<>> ~> pc[t] = "idle" \/ inq = <<>>

-----------------------------------------------------------------------------
(* A statement of the documentation that the code does not keep. *)

\* docs/cancellation.md: "`async with` exit always completes aclose": an
\* aclose call that has ended leaves the port closed.
AcloseCloses ==
  \A t \in Tasks : op[t] = "aclose" /\ pc[t] = "idle" => closed
=============================================================================
