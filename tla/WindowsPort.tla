----------------------------- MODULE WindowsPort -----------------------------
(***************************************************************************)
(* A serial port on Windows: _AsyncBackendSerialPort of stream.py over the *)
(* overlapped-I/O backend of _windows/, on asyncio's proactor or on Trio.  *)
(* Tasks of one event loop call the port; a step runs from one await to    *)
(* the next.  An overlapped operation goes through three steps that other  *)
(* tasks can get between: the kernel finishes it and queues a packet, the  *)
(* event loop takes the packet and wakes the task, and the task runs.      *)
(*                                                                         *)
(* The kernel, asyncio's proactor and Trio's completion port are external. *)
(* They differ in one point: asyncio ends a cancelled call at once and     *)
(* leaves its operation to the proactor's cache, Trio asks the kernel to   *)
(* cancel and keeps the call waiting for the packet.                       *)
(***************************************************************************)
EXTENDS Naturals, Sequences, FiniteSets

CONSTANTS
  Tasks,      \* tasks that use the port
  Ops,        \* overlapped operations (bound on how many exist at a time)
  None,       \* no task
  Programs,   \* programs that use the port: the methods each one calls, and
              \* whether "cancel" and "unplug" happen in it
  Chunk,      \* max_bytes of a receive
  SendLen,    \* length of the data of a send
  MaxIn,      \* bound on the bytes that arrive
  Configs     \* configurations; the port is opened with one of them

ASSUME NoneAssumption == None \notin Tasks
ASSUME SizeAssumption ==
  /\ Chunk \in Nat \ {0} /\ SendLen \in Nat \ {0} /\ MaxIn \in Nat

VARIABLES
  program,    \* the program that runs
  runtime,    \* _runtime: "asyncio" or "trio"
  open,       \* the backend's _open, and ~_closed of the port
  handle,     \* the HANDLE is open in the process
  opened,     \* how open() ended; "no" before it
  removed,    \* the device is unplugged
  brk,        \* BREAK is asserted
  dcb,        \* the configuration the driver has
  config,     \* _config of the port and of the backend
  rx,         \* the driver's input queue; bytes are numbered as they arrive
  arrived,    \* number of bytes that have arrived
  delivered,  \* the bytes calls have returned, in order
  lost,       \* bytes dropped with a cancelled operation
  cleared,    \* bytes discarded by reset_input_buffer or aclose
  op,         \* op[o]: the overlapped operation o
  pc, call,   \* where task t is, in which method
  offset,     \* offset of the send in progress
  cancel,     \* cancel[t]: t's scope is cancelled during the call
  ended       \* the call that ended in the last step: its method and result

portVars == <<program, runtime, open, handle, opened>>
configVars == <<dcb, config>>
inVars == <<rx, arrived, delivered, lost, cleared>>
vars == <<portVars, removed, brk, configVars, inVars, op, pc, call, cancel,
          offset, ended>>

Runtimes == {"asyncio", "trio"}  \* what detect_runtime can return
Methods == {"receive", "send", "drain", "send_break", "wait_modem_event",
            "configure", "modem_lines", "set_control_lines", "input_waiting",
            "output_waiting", "reset_input_buffer", "reset_output_buffer",
            "aclose"}
Results == {"none", "ok", "Cancelled", "SerialClosedError", "BusyResourceError",
            "SerialDisconnectedError", "UnsupportedConfigurationError",
            "SerialError", "AssertionError", "trio.ClosedResourceError",
            "ValueError"}

NoCall == [call |-> "none", result |-> "none"]

\* No operation: task is the task that waits for it, pin what keeps its memory
\* from being freed, abort who asked the kernel to end it, n a write's count.
Free == [st |-> "free", kind |-> "none", task |-> None, pin |-> "frame",
         abort |-> "no", status |-> "none", data |-> <<>>, n |-> 0]

OpRecords ==
  [st : {"free", "pending", "done", "ready"},
   kind : {"none", "read", "write", "comm"}, task : Tasks \cup {None},
   pin : {"frame", "cache", "abandoned"},
   abort : {"no", "cancel", "purge"},
   status : {"none", "ok", "aborted", "removed"},
   data : Seq(1..MaxIn), n : 0..SendLen]

\* Every variable has its type, and a task waits in I/O exactly when it owns
\* one operation.
TypeOK ==
  /\ program \in Programs
  /\ runtime \in Runtimes
  /\ open \in BOOLEAN /\ handle \in BOOLEAN
  /\ opened \in {"no", "lookup", "cancelled", "ok", "create", "setup", "register", "mask"}
  /\ removed \in BOOLEAN /\ brk \in BOOLEAN
  /\ dcb \in Configs /\ config \in Configs
  /\ rx \in Seq(1..MaxIn) /\ arrived \in 0..MaxIn
  /\ delivered \in Seq(1..MaxIn)
  /\ lost \subseteq 1..MaxIn /\ cleared \subseteq 1..MaxIn
  /\ op \in [Ops -> OpRecords]
  /\ pc \in [Tasks -> {"idle", "io", "lock", "queued", "flush", "sleep"}]
  /\ call \in [Tasks -> Methods \cup {"none"}]
  /\ offset \in 0..SendLen
  /\ cancel \in [Tasks -> BOOLEAN]
  /\ ended \in [call : Methods \cup {"none", "open"}, result : Results]
  /\ \A t \in Tasks :
       Cardinality({o \in Ops : op[o].task = t}) = IF pc[t] = "io" THEN 1 ELSE 0

Init ==
  /\ program \in Programs
  /\ runtime \in Runtimes
  /\ open = FALSE /\ handle = FALSE /\ opened = "no"
  /\ removed = FALSE /\ brk = FALSE
  /\ dcb = (CHOOSE c \in Configs : TRUE) /\ config = dcb
  /\ rx = <<>> /\ arrived = 0 /\ delivered = <<>> /\ lost = {} /\ cleared = {}
  /\ op = [o \in Ops |-> Free]
  /\ pc = [t \in Tasks |-> "idle"]
  /\ call = [t \in Tasks |-> "none"]
  /\ offset = 0
  /\ cancel = [t \in Tasks |-> FALSE]
  /\ ended = NoCall

Bytes(s) == {s[i] : i \in 1..Len(s)}

-----------------------------------------------------------------------------
(* Calls *)

Park(t, m, at) ==
  /\ pc' = [pc EXCEPT ![t] = at]
  /\ call' = [call EXCEPT ![t] = m]
  /\ ended' = NoCall
  /\ UNCHANGED cancel

\* No task moves.
Stay == UNCHANGED <<pc, call, cancel>> /\ ended' = NoCall

Return(t, m, r) ==
  /\ pc' = [pc EXCEPT ![t] = "idle"]
  /\ call' = [call EXCEPT ![t] = "none"]
  /\ cancel' = [cancel EXCEPT ![t] = FALSE]
  /\ ended' = [call |-> m, result |-> r]

\* A call of m on a port that exists, by a task that is not in one.
Invoke(t, m) == m \in program /\ opened = "ok" /\ pc[t] = "idle"

\* An argument check fails, before anything else is looked at: max_bytes of
\* receive, the buffer of receive_into, the duration of send_break.
RejectArgument(t) ==
  /\ \E m \in {"receive", "send_break"} : Invoke(t, m) /\ Return(t, m, "ValueError")
  /\ UNCHANGED <<portVars, removed, brk, configVars, inVars, op, offset>>

\* AnyIO's resource guards: _receive_guard and _send_guard.
ReceiveBusy == \E u \in Tasks : call[u] = "receive"
SendBusy == \E u \in Tasks : call[u] \in {"send", "drain", "send_break"}

OpOf(t) == CHOOSE o \in Ops : op[o].task = t
FreeOp == CHOOSE o \in Ops : op[o].st = "free"
HaveOp == \E o \in Ops : op[o].st = "free"

\* ReadFile, WriteFile or WaitCommEvent is pending: the memory it uses is held
\* by the proactor's cache (asyncio's reads and writes), else only by the call.
Pending(t, kind) ==
  [Free EXCEPT !.st = "pending", !.kind = kind, !.task = t,
               !.pin = IF runtime = "asyncio" /\ kind # "comm"
                       THEN "cache" ELSE "frame"]

\* An overlapped operation of t's method m is issued in slot o.  The backend
\* reads its handle at this moment: a port closed since the call began has no
\* HandleWrapper (asyncio) or the handle 0 (Trio).
Issue(t, m, kind, o) ==
  \/ /\ ~open
     /\ Return(t, m, IF runtime = "asyncio" THEN "AssertionError"
                     ELSE "SerialClosedError")
     /\ op' = [op EXCEPT ![o] = Free]
  \/ /\ open /\ removed
     /\ Return(t, m, "SerialDisconnectedError")
     /\ op' = [op EXCEPT ![o] = Free]
  \/ /\ open
     /\ Park(t, m, "io")
     /\ op' = [op EXCEPT ![o] = Pending(t, kind)]

\* The result winerror_to_exception or Trio makes of an operation the kernel
\* ended: only Trio tells its own cancellation from somebody else's.
IOError(o) ==
  CASE op[o].status = "removed" -> "SerialDisconnectedError"
    [] op[o].status = "aborted" /\ runtime = "asyncio" -> "SerialClosedError"
    [] op[o].status = "aborted" /\ runtime = "trio" /\ op[o].abort = "cancel"
         -> "Cancelled"
    [] OTHER -> "trio.ClosedResourceError"

-----------------------------------------------------------------------------
(* open and aclose *)

\* open_serial_port looks up the metadata of the port first, in a worker thread.
open_serial_port ==
  /\ opened = "no" /\ opened' = "lookup"
  /\ ended' = NoCall
  /\ UNCHANGED <<program, runtime, open, handle, removed, brk, configVars, inVars,
                 op, pc, call, cancel, offset>>

\* The call is cancelled before the thread has started; no later step of it
\* can be.
CancelLookup ==
  /\ opened = "lookup" /\ "cancel" \in program
  /\ opened' = "cancelled"
  /\ ended' = [call |-> "open", result |-> "Cancelled"]
  /\ UNCHANGED <<program, runtime, open, handle, removed, brk, configVars, inVars,
                 op, pc, call, cancel, offset>>

\* Definitions named Bad... are faulty variants; the specification uses none
\* of them.  Here: a failed set-up keeps the handle.
BadOpen(at) ==
  /\ opened = "lookup"
  /\ opened' = at
  /\ open' = (at = "ok")
  /\ handle' = (at # "create")
  /\ ended' = [call |-> "open", result |-> IF at = "ok" THEN "ok" ELSE "SerialError"]
  /\ UNCHANGED <<program, runtime, removed, brk, configVars, inVars, op, pc, call,
                 cancel, offset>>

\* The steps of WindowsBackend.open run without an await; "at" is the one that
\* fails, "ok" if none does.  A failure of the last two leaves the handle open.
Open(at) ==
  /\ opened = "lookup"
  /\ opened' = at
  /\ open' = (at = "ok")
  /\ handle' = (at \in {"ok", "register", "mask"})
  /\ ended' = [call |-> "open", result |-> IF at = "ok" THEN "ok" ELSE "SerialError"]
  /\ UNCHANGED <<program, runtime, removed, brk, configVars, inVars, op, pc, call, cancel, offset>>

\* PurgeComm with the ABORT flags of these kinds; for "comm", SetCommMask(0).
Purge(kinds) ==
  [o \in Ops |-> IF op[o].st = "pending" /\ op[o].kind \in kinds
                    /\ op[o].abort # "cancel"
                 THEN [op[o] EXCEPT !.abort = "purge"] ELSE op[o]]

aclose(t) ==
  /\ Invoke(t, "aclose")
  /\ Park(t, "aclose", "lock")
  /\ UNCHANGED <<portVars, removed, brk, configVars, inVars, op, offset>>

\* Faulty: without SetCommMask(handle, 0).
BadCloseBackend ==
  /\ open' = FALSE /\ handle' = FALSE /\ brk' = FALSE
  /\ op' = Purge({"read", "write"})
  /\ cleared' = cleared \cup Bytes(rx) /\ rx' = <<>>
  /\ UNCHANGED <<arrived, delivered, lost, program, runtime, opened>>

\* WindowsBackend.aclose, shielded and without an await.  SetCommMask(0) ends
\* WaitCommEvent, the purge reads and writes; closing the handle ends none.
CloseBackend ==
  /\ open' = FALSE /\ handle' = FALSE /\ brk' = FALSE
  /\ op' = Purge({"read", "write", "comm"})
  /\ cleared' = cleared \cup Bytes(rx) /\ rx' = <<>>
  /\ UNCHANGED <<arrived, delivered, lost, program, runtime, opened>>

\* The task has the close lock; a second close finds the port closed.
ResumeClose(t) ==
  /\ pc[t] = "lock" /\ call[t] = "aclose"
  /\ \/ ~open /\ UNCHANGED <<portVars, brk, configVars, inVars, op>>
     \/ open /\ CloseBackend
  /\ Return(t, "aclose", "ok")
  /\ UNCHANGED <<removed, configVars, offset>>

-----------------------------------------------------------------------------
(* receive, receive_into, receive_available *)

\* A timeout is an empty completion for asyncio and an error for Trio, which
\* readinto turns into one.
EmptyRead(o) == op[o].status = "ok" /\ op[o].data = <<>>

receive(t) ==
  /\ Invoke(t, "receive") /\ HaveOp
  /\ \/ ReceiveBusy /\ Return(t, "receive", "BusyResourceError") /\ UNCHANGED op
     \/ /\ ~ReceiveBusy /\ ~open
        /\ Return(t, "receive", "SerialClosedError") /\ UNCHANGED op
     \/ /\ ~ReceiveBusy /\ open
        /\ Issue(t, "receive", "read", FreeOp)
  /\ UNCHANGED <<portVars, removed, brk, configVars, inVars, offset>>

\* Faulty: a completion in a cancelled scope raises, and its bytes are dropped.
BadCancelResumeReceive(t) ==
  LET o == OpOf(t)
  IN  /\ pc[t] = "io" /\ call[t] = "receive" /\ op[o].st = "ready"
      /\ \/ cancel[t] /\ Return(t, "receive", "Cancelled") /\ UNCHANGED delivered
         \/ /\ ~cancel[t] /\ Return(t, "receive", "ok")
            /\ delivered' = delivered \o op[o].data
      /\ op' = [op EXCEPT ![o] = Free]
      /\ UNCHANGED <<portVars, removed, brk, configVars, rx, arrived, lost, cleared,
                     offset>>

\* Faulty: an empty completion is taken for the end of the port.
BadEmptyResumeReceive(t) ==
  LET o == OpOf(t)
  IN  /\ pc[t] = "io" /\ call[t] = "receive" /\ op[o].st = "ready"
      /\ delivered' = delivered \o op[o].data
      /\ Return(t, "receive", IF op[o].status # "ok" THEN IOError(o)
                              ELSE IF op[o].data # <<>> THEN "ok"
                              ELSE "SerialClosedError")
      /\ op' = [op EXCEPT ![o] = Free]
      /\ UNCHANGED <<portVars, removed, brk, configVars, rx, arrived, lost, cleared,
                     offset>>

\* Faulty: every failed read is issued again, not only an empty one.
BadRetryResumeReceive(t) ==
  LET o == OpOf(t)
  IN  /\ pc[t] = "io" /\ call[t] = "receive" /\ op[o].st = "ready"
      /\ delivered' = delivered \o op[o].data
      /\ \/ /\ op[o].data # <<>> /\ Return(t, "receive", "ok")
            /\ op' = [op EXCEPT ![o] = Free]
         \/ op[o].data = <<>> /\ Issue(t, "receive", "read", o)
      /\ UNCHANGED <<portVars, removed, brk, configVars, rx, arrived, lost, cleared,
                     offset>>

\* The driver's 1 ms timeout, in both runtimes a count of 0: read again.
ResumeReceive(t) ==
  LET o == OpOf(t)
  IN  /\ pc[t] = "io" /\ call[t] = "receive" /\ op[o].st = "ready"
      /\ \/ /\ op[o].status = "ok" /\ op[o].data # <<>>
            /\ delivered' = delivered \o op[o].data
            /\ Return(t, "receive", "ok")
            /\ op' = [op EXCEPT ![o] = Free]
         \/ /\ EmptyRead(o)
            /\ Issue(t, "receive", "read", o)
            /\ UNCHANGED delivered
         \/ /\ op[o].status # "ok"
            /\ Return(t, "receive", IOError(o))
            /\ op' = [op EXCEPT ![o] = Free]
            /\ UNCHANGED delivered
      /\ UNCHANGED <<portVars, removed, brk, configVars, rx, arrived, lost, cleared,
                     offset>>

-----------------------------------------------------------------------------
(* send, drain, send_break *)

send(t) ==
  /\ Invoke(t, "send") /\ HaveOp
  /\ \/ SendBusy /\ Return(t, "send", "BusyResourceError")
        /\ UNCHANGED <<op, offset>>
     \/ /\ ~SendBusy /\ ~open
        /\ Return(t, "send", "SerialClosedError") /\ UNCHANGED <<op, offset>>
     \/ /\ ~SendBusy /\ open
        /\ offset' = 0
        /\ Issue(t, "send", "write", FreeOp)
  /\ UNCHANGED <<portVars, removed, brk, configVars, inVars>>

\* A short write is continued, an empty one taken for a disconnect.
ResumeSend(t) ==
  LET o == OpOf(t)
      done == op' = [op EXCEPT ![o] = Free]
  IN  /\ pc[t] = "io" /\ call[t] = "send" /\ op[o].st = "ready"
      /\ offset' = offset + op[o].n
      /\ \/ op[o].status # "ok" /\ Return(t, "send", IOError(o)) /\ done
         \/ /\ op[o].status = "ok" /\ op[o].n = 0
            /\ Return(t, "send", "SerialDisconnectedError") /\ done
         \/ /\ op[o].status = "ok" /\ op[o].n > 0 /\ offset' < SendLen
            /\ Issue(t, "send", "write", o)
         \/ /\ op[o].status = "ok" /\ op[o].n > 0 /\ offset' >= SendLen
            /\ Return(t, "send", "ok") /\ done
      /\ UNCHANGED <<portVars, removed, brk, configVars, inVars>>

\* drain and drain_exact: FlushFileBuffers in a worker thread.
drain(t) ==
  /\ Invoke(t, "drain")
  /\ \/ SendBusy /\ Return(t, "drain", "BusyResourceError")
     \/ ~SendBusy /\ ~open /\ Return(t, "drain", "SerialClosedError")
     \/ ~SendBusy /\ open /\ Park(t, "drain", "queued")
  /\ UNCHANGED <<portVars, removed, brk, configVars, inVars, op, offset>>

\* The thread reads the handle when it starts, which may be after a close.
StartFlush(t) ==
  /\ pc[t] = "queued"
  /\ \/ open /\ Park(t, "drain", "flush")
     \/ ~open /\ Return(t, "drain", "SerialClosedError")
  /\ UNCHANGED <<portVars, removed, brk, configVars, inVars, op, offset>>

\* FlushFileBuffers returns (external): when the line has taken every byte, which
\* flow control may put off for ever, or when the close has purged the output
\* or the device is gone.
ResumeDrain(t) ==
  /\ pc[t] = "flush"
  /\ \/ open /\ ~removed /\ Return(t, "drain", "ok")
     \/ removed /\ Return(t, "drain", "SerialDisconnectedError")
     \/ ~open /\ \E r \in {"ok", "SerialClosedError"} : Return(t, "drain", r)
  /\ UNCHANGED <<portVars, removed, brk, configVars, inVars, op, offset>>

send_break(t) ==
  /\ Invoke(t, "send_break")
  /\ \/ SendBusy /\ Return(t, "send_break", "BusyResourceError") /\ UNCHANGED brk
     \/ /\ ~SendBusy /\ ~open
        /\ Return(t, "send_break", "SerialClosedError") /\ UNCHANGED brk
     \/ /\ ~SendBusy /\ open /\ removed
        /\ Return(t, "send_break", "SerialDisconnectedError") /\ UNCHANGED brk
     \/ /\ ~SendBusy /\ open /\ ~removed
        /\ brk' = TRUE
        /\ Park(t, "send_break", "sleep")
  /\ UNCHANGED <<portVars, removed, configVars, inVars, op, offset>>

\* ClearCommBreak, in a finally; its errors are suppressed.
ResumeBreak(t) ==
  /\ pc[t] = "sleep"
  /\ brk' = FALSE
  /\ Return(t, "send_break", "ok")
  /\ UNCHANGED <<portVars, removed, configVars, inVars, op, offset>>

-----------------------------------------------------------------------------
(* configure, the resets, wait_modem_event *)

configure(t) ==
  /\ Invoke(t, "configure")
  /\ Park(t, "configure", "lock")
  /\ UNCHANGED <<portVars, removed, brk, configVars, inVars, op, offset>>

\* The task has the configure lock: GetCommState, overlay, SetCommState, and
\* the new configuration is remembered if the driver takes it.
ApplyConfig(t, c) ==
  /\ pc[t] = "lock" /\ call[t] = "configure"
  /\ \/ ~open /\ Return(t, "configure", "SerialClosedError") /\ UNCHANGED configVars
     \/ /\ open /\ removed
        /\ Return(t, "configure", "SerialDisconnectedError") /\ UNCHANGED configVars
     \/ /\ open /\ ~removed
        /\ Return(t, "configure", "UnsupportedConfigurationError")
        /\ UNCHANGED configVars
     \/ /\ open /\ ~removed
        /\ dcb' = c /\ config' = c
        /\ Return(t, "configure", "ok")
  /\ UNCHANGED <<portVars, removed, brk, inVars, op, offset>>

\* No await: a purge of a port that another task reads aborts its read.
reset_input_buffer(t) ==
  /\ Invoke(t, "reset_input_buffer")
  /\ \/ ~open /\ Return(t, "reset_input_buffer", "SerialClosedError")
        /\ UNCHANGED <<rx, cleared, op>>
     \/ /\ open /\ removed /\ Return(t, "reset_input_buffer", "SerialDisconnectedError")
        /\ UNCHANGED <<rx, cleared, op>>
     \/ /\ open /\ ~removed /\ Return(t, "reset_input_buffer", "ok")
        /\ op' = Purge({"read"})
        /\ cleared' = cleared \cup Bytes(rx) /\ rx' = <<>>
  /\ UNCHANGED <<portVars, removed, brk, configVars, arrived, delivered, lost,
                 offset>>

reset_output_buffer(t) ==
  /\ Invoke(t, "reset_output_buffer")
  /\ \/ ~open /\ Return(t, "reset_output_buffer", "SerialClosedError") /\ UNCHANGED op
     \/ /\ open /\ removed
        /\ Return(t, "reset_output_buffer", "SerialDisconnectedError") /\ UNCHANGED op
     \/ /\ open /\ ~removed /\ Return(t, "reset_output_buffer", "ok")
        /\ op' = Purge({"write"})
  /\ UNCHANGED <<portVars, removed, brk, configVars, inVars, offset>>

\* One call into the driver behind a closed check.
Query(t, m) ==
  /\ Invoke(t, m)
  /\ \/ ~open /\ Return(t, m, "SerialClosedError")
     \/ open /\ removed /\ Return(t, m, "SerialDisconnectedError")
     \/ open /\ ~removed /\ Return(t, m, "ok")
  /\ UNCHANGED <<portVars, removed, brk, configVars, inVars, op, offset>>

modem_lines(t) == Query(t, "modem_lines")
set_control_lines(t) == Query(t, "set_control_lines")
_comstat(t) == Query(t, "input_waiting") \/ Query(t, "output_waiting")

wait_modem_event(t) ==
  /\ Invoke(t, "wait_modem_event") /\ HaveOp
  /\ \/ ~open /\ Return(t, "wait_modem_event", "SerialClosedError") /\ UNCHANGED op
     \/ open /\ Issue(t, "wait_modem_event", "comm", FreeOp)
  /\ UNCHANGED <<portVars, removed, brk, configVars, inVars, offset>>

\* Faulty: the event wait returns and its operation stays registered.
BadResumeEvent(t) ==
  /\ pc[t] = "io" /\ call[t] = "wait_modem_event" /\ op[OpOf(t)].st = "ready"
  /\ Return(t, "wait_modem_event", "ok")
  /\ UNCHANGED <<portVars, removed, brk, configVars, inVars, op, offset>>

\* On asyncio the event object says only that the operation ended, and the
\* mask is returned whatever its status is.
ResumeEvent(t) ==
  LET o == OpOf(t)
  IN  /\ pc[t] = "io" /\ call[t] = "wait_modem_event" /\ op[o].st = "ready"
      /\ Return(t, "wait_modem_event",
                IF op[o].status = "ok" \/ runtime = "asyncio" THEN "ok" ELSE IOError(o))
      /\ op' = [op EXCEPT ![o] = Free]
      /\ UNCHANGED <<portVars, removed, brk, configVars, inVars, offset>>

-----------------------------------------------------------------------------
(* Cancellation *)

\* The scope around t's call is cancelled.
Cancel(t) ==
  /\ "cancel" \in program /\ pc[t] # "idle" /\ ~cancel[t]
  /\ cancel' = [cancel EXCEPT ![t] = TRUE] /\ ended' = NoCall
  /\ UNCHANGED <<portVars, removed, brk, configVars, inVars, op, pc, call, offset>>

\* asyncio, a read or a write: _OverlappedFuture.cancel (external) calls
\* CancelIoEx and ends the call; the proactor keeps the operation.
OrphanIO(t) ==
  LET o == OpOf(t)
  IN  /\ cancel[t] /\ pc[t] = "io" /\ runtime = "asyncio"
      /\ op[o].kind # "comm" /\ op[o].st # "ready"
      /\ op' = [op EXCEPT ![o].task = None, ![o].abort = "cancel"]
      /\ Return(t, call[t], "Cancelled")
      /\ UNCHANGED <<portVars, removed, brk, configVars, inVars, offset>>

\* Faulty: frees the memory without waiting for the kernel.
BadCancelComm(t) ==
  LET o == OpOf(t)
  IN  /\ cancel[t] /\ pc[t] = "io" /\ runtime = "asyncio"
      /\ op[o].kind = "comm" /\ op[o].st # "ready"
      /\ op' = [op EXCEPT ![o].task = None, ![o].abort = "cancel"]
      /\ Return(t, call[t], "Cancelled")
      /\ UNCHANGED <<portVars, removed, brk, configVars, inVars, offset>>

\* asyncio, WaitCommEvent: the handler calls CancelIoEx and blocks the loop
\* until the kernel is done; after _CANCEL_WAIT_MS it gives up and pins the
\* memory in _abandoned_waits.
CancelComm(t) ==
  LET o == OpOf(t)
  IN  /\ cancel[t] /\ pc[t] = "io" /\ runtime = "asyncio"
      /\ op[o].kind = "comm" /\ op[o].st # "ready"
      /\ \/ op' = [op EXCEPT ![o] = Free]
         \/ /\ op[o].st = "pending"
            /\ op' = [op EXCEPT ![o].task = None, ![o].abort = "cancel",
                                ![o].pin = "abandoned"]
      /\ Return(t, call[t], "Cancelled")
      /\ UNCHANGED <<portVars, removed, brk, configVars, inVars, offset>>

\* Trio's wait_overlapped (external): CancelIoEx, and the call goes on waiting.
RequestAbort(t) ==
  LET o == OpOf(t)
  IN  /\ cancel[t] /\ pc[t] = "io" /\ runtime = "trio"
      /\ op[o].st # "ready" /\ op[o].abort # "cancel"
      /\ op' = [op EXCEPT ![o].abort = "cancel"]
      /\ Stay
      /\ UNCHANGED <<portVars, removed, brk, configVars, inVars, offset>>

\* Faulty: a cancelled send_break does not clear the line.
BadCancelWait(t) ==
  /\ cancel[t] /\ pc[t] \in {"lock", "queued", "sleep"}
  /\ Return(t, call[t], "Cancelled")
  /\ UNCHANGED <<portVars, removed, brk, configVars, inVars, op, offset>>

\* A wait for a lock or a worker thread, or the sleep of a BREAK; a running
\* worker thread is waited for.
CancelWait(t) ==
  /\ cancel[t] /\ pc[t] \in {"lock", "queued", "sleep"}
  /\ brk' = (brk /\ pc[t] # "sleep")
  /\ Return(t, call[t], "Cancelled")
  /\ UNCHANGED <<portVars, removed, configVars, inVars, op, offset>>

-----------------------------------------------------------------------------
(* The kernel and the event loop: external *)

Complete(o, s) == [op[o] EXCEPT !.st = "done", !.status = s]

ByteArrives ==
  /\ "receive" \in program /\ open /\ ~removed /\ arrived < MaxIn
  /\ arrived' = arrived + 1
  /\ rx' = Append(rx, arrived + 1)
  /\ Stay
  /\ UNCHANGED <<portVars, removed, brk, configVars, delivered, lost, cleared, op, offset>>

\* A read takes what is queued, or ends empty after 1 ms.  That is longer than
\* a loop takes to deliver a cancellation that is due.
KernelRead(o) ==
  LET k == IF Len(rx) < Chunk THEN Len(rx) ELSE Chunk
  IN  /\ op[o].st = "pending" /\ op[o].kind = "read" /\ open /\ ~removed
      /\ rx = <<>> => \A t \in Tasks : op[o].task = t => ~cancel[t]
      /\ op' = [op EXCEPT ![o] = [Complete(o, "ok") EXCEPT !.data = SubSeq(rx, 1, k)]]
      /\ rx' = SubSeq(rx, k + 1, Len(rx))
      /\ Stay
      /\ UNCHANGED <<portVars, removed, brk, configVars, arrived, delivered, lost,
                     cleared, offset>>

KernelWrite(o) ==
  /\ op[o].st = "pending" /\ op[o].kind = "write" /\ open /\ ~removed
  /\ \E n \in 0..(SendLen - offset) :
       op' = [op EXCEPT ![o] = [Complete(o, "ok") EXCEPT !.n = n]]
  /\ Stay
  /\ UNCHANGED <<portVars, removed, brk, configVars, inVars, offset>>

KernelEvent(o) ==
  /\ op[o].st = "pending" /\ op[o].kind = "comm" /\ open /\ ~removed
  /\ op' = [op EXCEPT ![o] = Complete(o, "ok")]
  /\ Stay
  /\ UNCHANGED <<portVars, removed, brk, configVars, inVars, offset>>

\* An operation that was cancelled or purged ends, sooner or later; a
\* WaitCommEvent ended by SetCommMask ends well, with an empty mask.
KernelAbort(o) ==
  /\ op[o].st = "pending" /\ op[o].abort # "no"
  /\ op' = [op EXCEPT ![o] =
              Complete(o, IF op[o].kind = "comm" /\ op[o].abort = "purge"
                          THEN "ok" ELSE "aborted")]
  /\ Stay
  /\ UNCHANGED <<portVars, removed, brk, configVars, inVars, offset>>

KernelFail(o) ==
  /\ op[o].st = "pending" /\ removed
  /\ op' = [op EXCEPT ![o] = Complete(o, "removed")]
  /\ Stay
  /\ UNCHANGED <<portVars, removed, brk, configVars, inVars, offset>>

Unplug ==
  /\ "unplug" \in program /\ open /\ ~removed
  /\ removed' = TRUE /\ brk' = FALSE
  /\ Stay
  /\ UNCHANGED <<portVars, configVars, inVars, op, offset>>

\* The loop takes a packet and wakes the task.  The packet of an orphaned
\* operation ends it, and what it has read is gone.
Dequeue(o) ==
  /\ op[o].st = "done"
  /\ op' = [op EXCEPT ![o] = IF op[o].task = None THEN Free
                             ELSE [op[o] EXCEPT !.st = "ready"]]
  /\ lost' = IF op[o].task = None THEN lost \cup Bytes(op[o].data) ELSE lost
  /\ Stay
  /\ UNCHANGED <<portVars, removed, brk, configVars, rx, arrived, delivered,
                 cleared, offset>>

-----------------------------------------------------------------------------
Request(t) ==
  \/ RejectArgument(t)
  \/ receive(t) \/ send(t) \/ drain(t) \/ send_break(t) \/ wait_modem_event(t)
  \/ configure(t) \/ reset_input_buffer(t) \/ reset_output_buffer(t)
  \/ modem_lines(t) \/ set_control_lines(t) \/ _comstat(t)
  \/ aclose(t) \/ Cancel(t)

\* What the event loop does for a task inside a call, and the start of its
\* worker thread.
Run(t) ==
  \/ ResumeReceive(t) \/ ResumeSend(t) \/ StartFlush(t)
  \/ ResumeBreak(t) \/ ResumeEvent(t) \/ ResumeClose(t)
  \/ \E c \in Configs : ApplyConfig(t, c)

\* A cancelled scope reaches the call.
Deliver(t) == OrphanIO(t) \/ CancelComm(t) \/ RequestAbort(t) \/ CancelWait(t)

\* What must happen to an operation: it ends when it was told to or when the
\* device is gone, and its packet is taken.
Settle(o) == KernelAbort(o) \/ KernelFail(o) \/ Dequeue(o)

Kernel(o) == KernelRead(o) \/ KernelWrite(o) \/ KernelEvent(o)

Next ==
  \/ open_serial_port \/ CancelLookup
  \/ \E at \in {"ok", "create", "setup", "register", "mask"} : Open(at)
  \/ \E t \in Tasks : Request(t) \/ Run(t) \/ ResumeDrain(t) \/ Deliver(t)
  \/ \E o \in Ops : Kernel(o) \/ Settle(o)
  \/ ByteArrives \/ Unplug

Spec == Init /\ [][Next]_vars
-----------------------------------------------------------------------------
(* Properties *)

\* The kernel never writes into memory Python may have freed: an operation that
\* is still pending after its call has ended is kept alive by the proactor's
\* cache or by _abandoned_waits.
MemoryPinned ==
  \A o \in Ops : op[o].st = "pending" /\ op[o].pin = "frame" => op[o].task # None

\* The operation whose bytes a call is about to return, and those nobody
\* waits for any more.
Live == {o \in Ops : op[o].task # None /\ op[o].data # <<>>}
Orphans == {o \in Ops : op[o].task = None}

\* A byte is on its way while it is in a completed read or in the driver's
\* queue; a read that completed before the close is still returned after it.
Input == INSTANCE InputStream WITH
           open <- opened \in {"no", "lookup"} \/ open \/ Live # {},
           sent <- arrived,
           pending <- IF Live = {} THEN rx
                      ELSE op[CHOOSE o \in Live : TRUE].data \o rx,
           got <- delivered,
           gone <- lost \cup cleared \cup
                   UNION {Bytes(op[o].data) : o \in Orphans}

\* The port reads a byte stream on Windows too, on both runtimes: what
\* completed, cancelled, purged and abandoned reads leave behind is never
\* returned twice, out of order or to a later caller.  Bytes a cancelled call
\* takes with it are lost on asyncio only.
ReadsAStream == Input!Spec /\ [](lost # {} => runtime = "asyncio")

\* The end of a receive or a send whose operation a purge has told to end.
PurgedCallEnds ==
  \E t \in Tasks, o \in Ops :
    /\ op[o].task = t /\ op[o].abort = "purge" /\ pc'[t] = "idle"
    /\ ended'.call = call[t] /\ call[t] \in {"receive", "send"}

\* An idle device is never taken for an unplugged one.  A call says that the port
\* is closed, in its own words or in Trio's, only if it is, or if it is a read or
\* a write whose operation the reset of another task has purged: it never
\* says so of an open port that nobody has touched.  Only a closed port fails an
\* assertion.
ErrorsHaveCause ==
  [][/\ ended'.call = "receive" /\ ended'.result = "SerialDisconnectedError" => removed
     /\ ended'.result \in {"SerialClosedError", "trio.ClosedResourceError"}
          => ~open \/ PurgedCallEnds
     /\ ended'.result = "AssertionError" => ~open /\ runtime = "asyncio"]_vars

\* A port that is not open has given its handle back, also one whose open was
\* cancelled while it looked up the metadata, except after an open that
\* failed behind the registration with the event loop.
HandleReleased == handle /\ ~open => opened \in {"register", "mask"}

\* The event loop runs its tasks, delivers cancellation and takes its packets,
\* and the kernel ends what it was told to end and what a removed device cannot
\* do.  Nothing makes data or modem events come, and nothing makes an open port
\* send what a flush waits for: FlushFileBuffers returns for certain only when
\* the close has purged the output, or when the device is gone.
Fairness ==
  /\ \A t \in Tasks : /\ WF_vars(Run(t)) /\ WF_vars(Deliver(t))
                       /\ WF_vars((~open \/ removed) /\ ResumeDrain(t))
  /\ \A o \in Ops : WF_vars(Settle(o))
FairSpec == Spec /\ Fairness

\* aclose ends every call, also one of the backend's wait_modem_event and a
\* drain whose thread waits in FlushFileBuffers.
CloseEndsCalls ==
  \A t \in Tasks : (opened = "ok" /\ ~open /\ pc[t] # "idle") ~> pc[t] = "idle"

\* A cancelled call ends, though an idle receive never stops to issue reads.
\* (drain waits for its thread without abandoning it: once that is in
\* FlushFileBuffers the call ends with the flush, which flow control may hold
\* up, and not with the cancellation.)
CancelEndsCalls ==
  \A t \in Tasks : cancel[t] /\ pc[t] # "flush" ~> ~cancel[t] \/ pc[t] = "flush"

\* What stream.py says of its aclose: a call that close ends gets AnyIO's
\* ClosedResourceError, here SerialClosedError.
CloseRaisesClosed ==
  ~open => ended.result \notin {"AssertionError", "trio.ClosedResourceError"}
=============================================================================
