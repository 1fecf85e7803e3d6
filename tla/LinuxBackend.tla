---------------------------- MODULE LinuxBackend ----------------------------
(***************************************************************************)
(* LinuxBackend objects of independent processes on one tty device, step   *)
(* by step: open, configure and close with the low-latency and RS-485      *)
(* settings they save, change and put back.  Within a process the calls    *)
(* are synchronous; steps of different processes interleave, one step per  *)
(* setting (the read of a setting and the write that follows it are one    *)
(* step).  The port above the backend records its config after a           *)
(* successful call.                                                        *)
(***************************************************************************)
EXTENDS Naturals

CONSTANTS
  Backends,    \* LinuxBackend instances, each in a process of its own
  Termios,     \* line settings (baud rate, framing, flow control)
  Rs485s,      \* RS485Config values a caller may ask for
  Policies,    \* unsupported_policy values in use
  Exclusive,   \* SerialConfig.exclusive of every caller
  MayFail,     \* system calls that may fail in this instance
  None         \* Python's None: no saved value, no RS-485, no lock holder

ASSUME BackendAssumption == None \notin Backends
ASSUME ConfigAssumption ==
  /\ Termios # {}
  /\ None \notin Rs485s
  /\ Policies \subseteq {"RAISE", "WARN", "IGNORE"}
  /\ Exclusive \in BOOLEAN

Config == [termios : Termios, lowLatency : BOOLEAN, rs485 : Rs485s \cup {None},
           policy : Policies]

\* struct serial_rs485: the fields an RS485Config owns (mode flags, delays)
\* and those it must preserve (bus termination, addresses).
KernelRs485 == [owned : Rs485s \cup {"factory"}, other : {"factory"}]

TimerTarget == 1     \* _FTDI_LATENCY_TIMER_TARGET_MS
TimerDefault == 16   \* what the FTDI driver starts with
Timers == {TimerDefault, TimerTarget}

\* A saved value is never None.
ASSUME NoneAssumption ==
  None \notin BOOLEAN /\ None \notin Timers /\ None \notin KernelRs485

VARIABLES
  pc,       \* pc[b]: the next system call of b, "closed" or "open" when idle
  call,     \* call[b]: the method b executes or executed last
  req,      \* req[b]: its config argument, None once it has ended
  result,   \* result[b]: how that method ended, "none" while it runs
  fd,       \* fd[b]: b holds an open descriptor
  portCfg,  \* portCfg[b]: SerialPort._config
  savedFlags, savedTimer, savedRs485,  \* the originals b remembers, or None
  holder,   \* the backend that holds the flock, or None
  lowLatency, timer, rs485, termios,   \* the device
  original, \* the device settings before anyserial first touched them
  stuck     \* settings a restore could not write back (history)

savedVars == <<savedFlags, savedTimer, savedRs485>>
device == <<lowLatency, timer, rs485, termios>>
vars == <<pc, call, req, result, fd, portCfg, savedVars, holder, device,
          original, stuck>>

Idle == {"closed", "open"}
Steps == {"flock", "tcsetattr", "low_latency", "ftdi_timer", "rs485",
          "drop_rs485", "restore_flags", "restore_timer", "restore_rs485",
          "os_close"}

\* Every variable has its type; in particular the device only ever has
\* settings somebody chose, never Python's None.
TypeOK ==
  /\ pc \in [Backends -> Idle \cup Steps]
  /\ call \in [Backends -> {"none", "open", "configure", "close"}]
  /\ req \in [Backends -> Config \cup {None}]
  /\ result \in [Backends -> {"none", "ok", "error"}]
  /\ fd \in [Backends -> BOOLEAN]
  /\ portCfg \in [Backends -> Config \cup {None}]
  /\ savedFlags \in [Backends -> BOOLEAN \cup {None}]
  /\ savedTimer \in [Backends -> Timers \cup {None}]
  /\ savedRs485 \in [Backends -> KernelRs485 \cup {None}]
  /\ holder \in Backends \cup {None}
  /\ lowLatency \in BOOLEAN /\ timer \in Timers
  /\ rs485 \in KernelRs485 /\ termios \in Termios
  /\ original \in [lowLatency : BOOLEAN, timer : Timers, rs485 : KernelRs485]
  /\ stuck \subseteq {"flags", "timer", "rs485"}

Init ==
  /\ pc = [b \in Backends |-> "closed"]
  /\ call = [b \in Backends |-> "none"]
  /\ req = [b \in Backends |-> None]
  /\ result = [b \in Backends |-> "none"]
  /\ fd = [b \in Backends |-> FALSE]
  /\ portCfg = [b \in Backends |-> None]
  /\ savedFlags = [b \in Backends |-> None]
  /\ savedTimer = [b \in Backends |-> None]
  /\ savedRs485 = [b \in Backends |-> None]
  /\ holder = None
  /\ lowLatency \in BOOLEAN /\ timer = TimerDefault
  /\ rs485 = [owned |-> "factory", other |-> "factory"]
  /\ termios \in Termios
  /\ original = [lowLatency |-> lowLatency, timer |-> timer, rs485 |-> rs485]
  /\ stuck = {}

-----------------------------------------------------------------------------
\* Whether a step may fail (with an OSError) in this instance.
Fails(step) == step \in MayFail

Goto(b, p) == pc' = [pc EXCEPT ![b] = p] /\ UNCHANGED <<result, req>>
Done(b, p, r) ==
  /\ pc' = [pc EXCEPT ![b] = p]
  /\ result' = [result EXCEPT ![b] = r]
  /\ req' = [req EXCEPT ![b] = None]

Continue(b, p) == Goto(b, p) /\ UNCHANGED portCfg

Start(b, m, c, p) ==
  /\ pc' = [pc EXCEPT ![b] = p]
  /\ call' = [call EXCEPT ![b] = m]
  /\ req' = [req EXCEPT ![b] = c]
  /\ result' = [result EXCEPT ![b] = "none"]

\* Definitions named Bad... are faulty variants; the specification uses none
\* of them.  Here: a failed open closes the descriptor without the restores.
BadUnsupported(b, next) ==
  IF req[b].policy # "RAISE" THEN next
  ELSE IF call[b] = "open"
       THEN Continue(b, "os_close")
       ELSE Done(b, "open", "error") /\ UNCHANGED portCfg

\* _handle_unsupported: RAISE turns the failure into UnsupportedFeatureError.
\* A failed open then runs close(), which restores what was saved so far; a
\* failed configure leaves the port open and port.config as it was.
Unsupported(b, next) ==
  IF req[b].policy # "RAISE" THEN next
  ELSE IF call[b] = "open"
       THEN Continue(b, "restore_flags")
       ELSE Done(b, "open", "error") /\ UNCHANGED portCfg

\* The method returns normally and the port records its config.
Succeed(b) ==
  /\ Done(b, "open", "ok")
  /\ portCfg' = [portCfg EXCEPT ![b] = req[b]]

AfterTimer(b) == IF req[b].rs485 # None THEN Continue(b, "rs485") ELSE Succeed(b)

-----------------------------------------------------------------------------
(* open *)

\* os.open; PosixBackend.open and the tty itself know no other refusal here.
open(b, c) ==
  /\ pc[b] = "closed"
  /\ \/ /\ Start(b, "open", c, IF Exclusive THEN "flock" ELSE "tcsetattr")
        /\ fd' = [fd EXCEPT ![b] = TRUE]
     \/ /\ Fails("os_open")
        /\ call' = [call EXCEPT ![b] = "open"]
        /\ result' = [result EXCEPT ![b] = "error"]
        /\ UNCHANGED <<pc, req, fd>>
  /\ UNCHANGED <<portCfg, savedVars, holder, device, original, stuck>>

\* Faulty: a refused flock leaves the descriptor open.
BadAbortOpen(b) == Done(b, "closed", "error") /\ UNCHANGED <<fd, holder>>

\* A failure before _fd is set closes the descriptor, which drops the flock.
AbortOpen(b) ==
  /\ Done(b, "closed", "error")
  /\ fd' = [fd EXCEPT ![b] = FALSE]
  /\ holder' = IF holder = b THEN None ELSE holder

_acquire_exclusive_lock(b) ==
  /\ pc[b] = "flock"
  /\ \/ holder = None /\ holder' = b /\ Goto(b, "tcsetattr") /\ UNCHANGED fd
     \/ holder # None /\ AbortOpen(b)
  /\ UNCHANGED <<call, portCfg, savedVars, device, original, stuck>>

\* _apply_config_to_fd: one tcsetattr (or TCSETS2) commits every line setting.
_apply_config_to_fd(b) ==
  /\ pc[b] = "tcsetattr"
  /\ \/ /\ termios' = req[b].termios
        /\ UNCHANGED <<fd, holder>>
        /\ \/ /\ call[b] = "open" /\ req[b].lowLatency
              /\ Continue(b, "low_latency")
           \/ /\ ~(call[b] = "open" /\ req[b].lowLatency)
              /\ req[b].rs485 # None
              /\ Continue(b, "rs485")
           \/ /\ ~(call[b] = "open" /\ req[b].lowLatency)
              /\ req[b].rs485 = None
              /\ IF savedRs485[b] # None THEN Continue(b, "drop_rs485")
                                         ELSE Succeed(b)
     \/ /\ Fails("tcsetattr")
        /\ IF call[b] = "open" THEN AbortOpen(b)
           ELSE Done(b, "open", "error") /\ UNCHANGED <<fd, holder>>
        /\ UNCHANGED <<termios, portCfg>>
  /\ UNCHANGED <<call, savedVars, lowLatency, timer, rs485, original, stuck>>

\* First half of _enable_low_latency: read the flags, set the bit unless it
\* is set, remember the flags as read.
enable_low_latency(b) ==
  /\ pc[b] = "low_latency"
  /\ \/ /\ savedFlags' = [savedFlags EXCEPT ![b] = lowLatency]
        /\ lowLatency' = TRUE
        /\ Continue(b, "ftdi_timer")
     \/ /\ Fails("low_latency")
        /\ Unsupported(b, Continue(b, "ftdi_timer"))
        /\ UNCHANGED <<savedFlags, lowLatency>>
  /\ UNCHANGED <<call, fd, savedTimer, savedRs485, holder, timer, rs485,
                 termios, original, stuck>>

\* Second half: the FTDI latency timer, where there is one.
tune_ftdi_latency_timer(b) ==
  /\ pc[b] = "ftdi_timer"
  /\ \/ /\ savedTimer' = [savedTimer EXCEPT ![b] = timer]
        /\ timer' = TimerTarget
        /\ AfterTimer(b)
     \/ /\ "not_ftdi" \in MayFail
        /\ AfterTimer(b)
        /\ UNCHANGED <<savedTimer, timer>>
     \/ /\ Fails("ftdi_timer")
        /\ Unsupported(b, AfterTimer(b))
        /\ UNCHANGED <<savedTimer, timer>>
  /\ UNCHANGED <<call, fd, savedFlags, savedRs485, holder, lowLatency,
                 rs485, termios, original, stuck>>

\* Faulty: builds the structure afresh instead of changing the one it read.
Bad_with_flags_from(state, c) == [owned |-> c, other |-> "zero"]

\* RS485State.with_flags_from: only the fields the config owns are replaced.
with_flags_from(state, c) == [state EXCEPT !.owned = c]

\* Faulty: remembers the state of every read, not only of the first.
Bad_apply_rs485(b) ==
  /\ pc[b] = "rs485"
  /\ savedRs485' = [savedRs485 EXCEPT ![b] = rs485]
  /\ rs485' = with_flags_from(rs485, req[b].rs485)
  /\ Succeed(b)
  /\ UNCHANGED <<call, fd, savedFlags, savedTimer, holder, lowLatency,
                 timer, termios, original, stuck>>

\* _apply_rs485: the state as first read is remembered even if the write that
\* follows fails.
_apply_rs485(b) ==
  /\ pc[b] = "rs485"
  /\ \/ /\ Fails("TIOCGRS485")
        /\ Unsupported(b, Succeed(b))
        /\ UNCHANGED <<savedRs485, rs485>>
     \/ /\ savedRs485' = [savedRs485 EXCEPT ![b] = IF @ = None THEN rs485 ELSE @]
        /\ \/ rs485' = with_flags_from(rs485, req[b].rs485) /\ Succeed(b)
           \/ /\ Fails("TIOCSRS485")
              /\ Unsupported(b, Succeed(b))
              /\ UNCHANGED rs485
  /\ UNCHANGED <<call, fd, savedFlags, savedTimer, holder, lowLatency,
                 timer, termios, original, stuck>>

-----------------------------------------------------------------------------
(* configure and close *)

configure(b, c) ==
  /\ pc[b] = "open"
  /\ Start(b, "configure", c, "tcsetattr")
  /\ UNCHANGED <<fd, portCfg, savedVars, holder, device, original, stuck>>

\* A restore that fails is swallowed: the setting keeps what anyserial wrote.
GivesUp(step, setting, v) ==
  /\ Fails(step)
  /\ stuck' = stuck \cup {setting}
  /\ UNCHANGED v

\* configure(rs485=None) after RS-485 was written: a failing restore is
\* swallowed and the remembered state forgotten either way.
DropRs485(b) ==
  /\ pc[b] = "drop_rs485"
  /\ \/ rs485' = savedRs485[b] /\ UNCHANGED stuck
     \/ GivesUp("restore_rs485", "rs485", rs485)
  /\ savedRs485' = [savedRs485 EXCEPT ![b] = None]
  /\ Succeed(b)
  /\ UNCHANGED <<call, fd, savedFlags, savedTimer, holder, lowLatency,
                 timer, termios, original>>

close(b) ==
  /\ pc[b] = "open"
  /\ Start(b, "close", None, "restore_flags")
  /\ UNCHANGED <<fd, portCfg, savedVars, holder, device, original, stuck>>

\* Faulty: restores without asking whether anything was saved.
Bad_restore_serial_flags(b) ==
  /\ pc[b] = "restore_flags"
  /\ lowLatency' = savedFlags[b]
  /\ savedFlags' = [savedFlags EXCEPT ![b] = None]
  /\ Goto(b, "restore_timer")
  /\ UNCHANGED <<call, fd, portCfg, savedTimer, savedRs485, holder, timer,
                 rs485, termios, original, stuck>>

restore_serial_flags(b) ==
  /\ pc[b] = "restore_flags"
  /\ \/ savedFlags[b] = None /\ UNCHANGED <<lowLatency, stuck>>
     \/ savedFlags[b] # None /\ lowLatency' = savedFlags[b] /\ UNCHANGED stuck
     \/ savedFlags[b] # None /\ GivesUp("restore_flags", "flags", lowLatency)
  /\ savedFlags' = [savedFlags EXCEPT ![b] = None]
  /\ Goto(b, "restore_timer")
  /\ UNCHANGED <<call, fd, portCfg, savedTimer, savedRs485, holder, timer,
                 rs485, termios, original>>

restore_ftdi_latency_timer(b) ==
  /\ pc[b] = "restore_timer"
  /\ \/ savedTimer[b] = None /\ UNCHANGED <<timer, stuck>>
     \/ savedTimer[b] # None /\ timer' = savedTimer[b] /\ UNCHANGED stuck
     \/ savedTimer[b] # None /\ GivesUp("restore_timer", "timer", timer)
  /\ savedTimer' = [savedTimer EXCEPT ![b] = None]
  /\ Goto(b, "restore_rs485")
  /\ UNCHANGED <<call, fd, portCfg, savedFlags, savedRs485, holder,
                 lowLatency, rs485, termios, original>>

_restore_rs485(b) ==
  /\ pc[b] = "restore_rs485"
  /\ \/ savedRs485[b] = None /\ UNCHANGED <<rs485, stuck>>
     \/ savedRs485[b] # None /\ rs485' = savedRs485[b] /\ UNCHANGED stuck
     \/ savedRs485[b] # None /\ GivesUp("restore_rs485", "rs485", rs485)
  /\ savedRs485' = [savedRs485 EXCEPT ![b] = None]
  /\ Goto(b, "os_close")
  /\ UNCHANGED <<call, fd, portCfg, savedFlags, savedTimer, holder,
                 lowLatency, timer, termios, original>>

\* PosixBackend.close: the descriptor goes, and with it the flock; the port
\* is not used any more.
os_close(b) ==
  /\ pc[b] = "os_close"
  /\ Done(b, "closed", IF call[b] = "open" THEN "error" ELSE "ok")
  /\ fd' = [fd EXCEPT ![b] = FALSE]
  /\ holder' = IF holder = b THEN None ELSE holder
  /\ portCfg' = [portCfg EXCEPT ![b] = None]
  /\ UNCHANGED <<call, savedVars, device, original, stuck>>

Next ==
  \E b \in Backends :
    \/ \E c \in Config : open(b, c) \/ configure(b, c)
    \/ _acquire_exclusive_lock(b) \/ _apply_config_to_fd(b)
    \/ enable_low_latency(b) \/ tune_ftdi_latency_timer(b) \/ _apply_rs485(b)
    \/ DropRs485(b) \/ close(b) \/ restore_serial_flags(b)
    \/ restore_ftdi_latency_timer(b) \/ _restore_rs485(b) \/ os_close(b)

Spec == Init /\ [][Next]_vars

-----------------------------------------------------------------------------
(* Properties *)

\* A backend that is not open holds nothing: whichever step of open or close
\* failed, the descriptor, the flock and the remembered settings are gone.
ClosedHoldsNothing ==
  \A b \in Backends : pc[b] = "closed" =>
    /\ ~fd[b] /\ holder # b
    /\ savedFlags[b] = None /\ savedTimer[b] = None /\ savedRs485[b] = None

\* When the last backend has closed, or failed to open, the device has the
\* low-latency flag, the latency timer and the RS-485 state it had before
\* (DESIGN.md 18.1, "Restore on close"), except for a setting the driver
\* refused to take back: one failing restore does not stop the others.
DeviceRestored ==
  (\A b \in Backends : pc[b] = "closed") =>
    /\ lowLatency = original.lowLatency \/ "flags" \in stuck
    /\ timer = original.timer \/ "timer" \in stuck
    /\ rs485 = original.rs485 \/ "rs485" \in stuck

Remembers(saved, now, before) ==
  saved = before \/ (saved = None /\ now = before)

\* What a backend remembers is what the device had before anyserial touched
\* it, never a value anyserial wrote itself; a setting it does not remember
\* it has not changed.
SavedIsOriginal ==
  \A b \in Backends : fd[b] /\ pc[b] # "flock" =>
    /\ "flags" \in stuck \/ Remembers(savedFlags[b], lowLatency, original.lowLatency)
    /\ "timer" \in stuck \/ Remembers(savedTimer[b], timer, original.timer)
    /\ "rs485" \in stuck \/ Remembers(savedRs485[b], rs485, original.rs485)

\* After an open or a configure that returned normally the device has the
\* line settings and the RS-485 mode of port.config, and keeps the fields of
\* the RS-485 structure a config does not own; with rs485=None it has the
\* state from before.  (A policy other than RAISE lets the call return
\* without RS-485.)
ConfigApplied ==
  \A b \in Backends : pc[b] = "open" /\ result[b] = "ok" =>
    /\ termios = portCfg[b].termios
    /\ portCfg[b].rs485 = None => rs485 = original.rs485 \/ "rs485" \in stuck
    /\ portCfg[b].rs485 # None /\ portCfg[b].policy = "RAISE"
         => rs485 = [original.rs485 EXCEPT !.owned = portCfg[b].rs485]
=============================================================================
