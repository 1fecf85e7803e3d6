------------------------- MODULE LinuxBackendProofs -------------------------
(***************************************************************************)
(* The settings LinuxBackend objects save, change and put back: a closed   *)
(* backend holds nothing, however many processes use the device at once;   *)
(* as long as no two do, it is configured as asked and restored, whatever  *)
(* fails.  No two ever do with the lock (Exclusive), however many compete. *)
(***************************************************************************)
EXTENDS LinuxBackend, TLAPS

\* b has its descriptor, and with Exclusive the flock.
Active(b) == pc[b] \notin {"closed", "flock"}

\* No two backends use the device at once.
Alone == \A a, b \in Backends : Active(a) /\ Active(b) => a = b

\* b is at a step of open before the one that saves a setting.
Opening(b) ==
  pc[b] \in {"closed", "flock"} \/ (pc[b] = "tcsetattr" /\ call[b] = "open")

Applying == {"tcsetattr", "low_latency", "ftdi_timer", "rs485", "drop_rs485"}

\* Which call a step belongs to, and what it has to do.
CallsOK ==
  \A b \in Backends :
    /\ pc[b] \in {"flock", "low_latency", "ftdi_timer"} => call[b] = "open"
    /\ pc[b] \in {"flock"} \cup Applying =>
         call[b] \in {"open", "configure"} /\ req[b] \in Config
    /\ pc[b] = "rs485" => req[b].rs485 # None
    /\ pc[b] = "drop_rs485" => req[b].rs485 = None

\* What a backend remembers at each step.
SavedOK ==
  \A b \in Backends :
    /\ Opening(b) \/ pc[b] \in {"low_latency", "restore_timer", "restore_rs485",
                                "os_close"} => savedFlags[b] = None
    /\ Opening(b) \/ pc[b] \in {"low_latency", "ftdi_timer", "restore_rs485",
                                "os_close"} => savedTimer[b] = None
    /\ Opening(b) \/ pc[b] \in {"low_latency", "ftdi_timer", "os_close"}
         => savedRs485[b] = None
    /\ pc[b] = "drop_rs485" => savedRs485[b] # None

LockOK ==
  \A b \in Backends :
    /\ fd[b] <=> pc[b] # "closed"
    /\ holder = b => Active(b)
    /\ Exclusive /\ Active(b) => holder = b
    /\ pc[b] = "flock" => Exclusive

\* With and without the lock.
IInv == TypeOK /\ CallsOK /\ SavedOK /\ LockOK

\* The device, as a backend that has it alone finds it and leaves it.
Untouched ==
  /\ lowLatency = original.lowLatency \/ "flags" \in stuck
  /\ timer = original.timer \/ "timer" \in stuck
  /\ rs485 = original.rs485 \/ "rs485" \in stuck

Remembered(b) ==
  /\ "flags" \in stuck \/ Remembers(savedFlags[b], lowLatency, original.lowLatency)
  /\ "timer" \in stuck \/ Remembers(savedTimer[b], timer, original.timer)
  /\ "rs485" \in stuck \/ Remembers(savedRs485[b], rs485, original.rs485)

DeviceOK ==
  /\ (\A b \in Backends : ~Active(b)) => Untouched
  /\ \A b \in Backends : Active(b) => Remembered(b)

AppliedOK ==
  \A b \in Backends :
    pc[b] \in Applying \ {"tcsetattr"} => termios = req[b].termios

\* As long as no two backends use the device at once.
DInv == IInv /\ DeviceOK /\ AppliedOK /\ ConfigApplied

-----------------------------------------------------------------------------
(* Steps *)

\* A step of b.
StepOf(b) ==
  \/ \E c \in Config : open(b, c) \/ configure(b, c)
  \/ _acquire_exclusive_lock(b) \/ _apply_config_to_fd(b)
  \/ enable_low_latency(b) \/ tune_ftdi_latency_timer(b) \/ _apply_rs485(b)
  \/ DropRs485(b) \/ close(b) \/ restore_serial_flags(b)
  \/ restore_ftdi_latency_timer(b) \/ _restore_rs485(b) \/ os_close(b)

\* What a step of b does to b's own control: where it goes, and with which
\* request and result.
Moves(b) ==
  \E p \in Idle \cup Steps, m \in {"open", "configure", "close"},
     c \in Config \cup {None}, r \in {"none", "ok", "error"} :
    /\ pc' = [pc EXCEPT ![b] = p]
    /\ call' = [call EXCEPT ![b] = m] \/ UNCHANGED call
    /\ req' = [req EXCEPT ![b] = c] \/ UNCHANGED req
    /\ result' = [result EXCEPT ![b] = r] \/ UNCHANGED result
    /\ portCfg' = [portCfg EXCEPT ![b] = req[b]] \/ UNCHANGED portCfg
       \/ portCfg' = [portCfg EXCEPT ![b] = None]

LEMMA MovesStep ==
  ASSUME TypeOK, NEW b \in Backends, StepOf(b)
  PROVE  Moves(b)
<1> USE DEF TypeOK, Moves, Idle, Steps, Goto, Done, Continue, Start, Unsupported,
            Succeed, AfterTimer, AbortOpen
<1>0. pc = [pc EXCEPT ![b] = pc[b]]
  OBVIOUS
<1>1. CASE \E c \in Config : open(b, c) \/ configure(b, c)
  BY <1>1 DEF open, configure
<1>2. CASE _acquire_exclusive_lock(b)
  BY <1>2 DEF _acquire_exclusive_lock
<1>3. CASE _apply_config_to_fd(b)
  BY <1>3 DEF _apply_config_to_fd
<1>4. CASE enable_low_latency(b)
  BY <1>4 DEF enable_low_latency
<1>5. CASE tune_ftdi_latency_timer(b)
  BY <1>5 DEF tune_ftdi_latency_timer
<1>6. CASE _apply_rs485(b)
  BY <1>6 DEF _apply_rs485
<1>7. CASE DropRs485(b) \/ close(b)
  BY <1>7 DEF DropRs485, close
<1>8. CASE restore_serial_flags(b) \/ restore_ftdi_latency_timer(b) \/ _restore_rs485(b)
  BY <1>8 DEF restore_serial_flags, restore_ftdi_latency_timer, _restore_rs485
<1>9. CASE os_close(b)
  BY <1>9 DEF os_close
<1> QED
  BY <1>1, <1>2, <1>3, <1>4, <1>5, <1>6, <1>7, <1>8, <1>9 DEF StepOf

\* The control of the other backends stays as it is.
LEMMA OthersStay ==
  ASSUME TypeOK, NEW b \in Backends, Moves(b)
  PROVE  \A a \in Backends \ {b} :
           /\ pc'[a] = pc[a] /\ call'[a] = call[a] /\ req'[a] = req[a]
           /\ result'[a] = result[a] /\ portCfg'[a] = portCfg[a]
BY DEF TypeOK, Moves

\* What it does to the descriptor, the lock and what b remembers.
Keeps(b) ==
  /\ UNCHANGED fd \/ fd' = [fd EXCEPT ![b] = pc'[b] # "closed"]
  /\ UNCHANGED holder \/ holder' = b
     \/ holder' = IF holder = b THEN None ELSE holder
  /\ UNCHANGED savedFlags \/ savedFlags' = [savedFlags EXCEPT ![b] = None]
     \/ savedFlags' = [savedFlags EXCEPT ![b] = lowLatency]
  /\ UNCHANGED savedTimer \/ savedTimer' = [savedTimer EXCEPT ![b] = None]
     \/ savedTimer' = [savedTimer EXCEPT ![b] = timer]
  /\ UNCHANGED savedRs485 \/ savedRs485' = [savedRs485 EXCEPT ![b] = None]
     \/ savedRs485' = [savedRs485 EXCEPT ![b] = rs485]

LEMMA KeepsStep ==
  ASSUME TypeOK, NEW b \in Backends, StepOf(b)
  PROVE  Keeps(b)
<1> USE DEF TypeOK, Keeps, savedVars
<1>0. savedRs485 = [savedRs485 EXCEPT ![b] = savedRs485[b]]
  OBVIOUS
<1>1. CASE \E c \in Config : open(b, c) \/ configure(b, c)
  BY <1>1 DEF open, configure, Start
<1>2. CASE _acquire_exclusive_lock(b)
  BY <1>2 DEF _acquire_exclusive_lock, AbortOpen, Done
<1>3. CASE _apply_config_to_fd(b)
  BY <1>3 DEF _apply_config_to_fd, AbortOpen, Done
<1>4. CASE enable_low_latency(b) \/ tune_ftdi_latency_timer(b) \/ DropRs485(b) \/ close(b)
  BY <1>4 DEF enable_low_latency, tune_ftdi_latency_timer, DropRs485, close
<1>5. CASE _apply_rs485(b)
  BY <1>0, <1>5 DEF _apply_rs485
<1>6. CASE restore_serial_flags(b) \/ restore_ftdi_latency_timer(b) \/ _restore_rs485(b)
  BY <1>6 DEF restore_serial_flags, restore_ftdi_latency_timer, _restore_rs485
<1>7. CASE os_close(b)
  BY <1>7 DEF os_close, Done
<1> QED
  BY <1>1, <1>2, <1>3, <1>4, <1>5, <1>6, <1>7 DEF StepOf

\* A setting of the device only ever takes a value a caller chose or one the
\* backend read before.
LEMMA DeviceTypes ==
  ASSUME IInv, NEW b \in Backends, StepOf(b)
  PROVE  /\ lowLatency' \in BOOLEAN /\ timer' \in Timers
         /\ rs485' \in KernelRs485 /\ termios' \in Termios
         /\ original' = original /\ stuck' \subseteq {"flags", "timer", "rs485"}
<1>1. /\ lowLatency \in BOOLEAN /\ timer \in Timers /\ rs485 \in KernelRs485
      /\ termios \in Termios /\ stuck \subseteq {"flags", "timer", "rs485"}
      /\ savedFlags[b] \in BOOLEAN \cup {None} /\ savedTimer[b] \in Timers \cup {None}
      /\ savedRs485[b] \in KernelRs485 \cup {None} /\ TimerTarget \in Timers
      /\ req[b] \in Config \cup {None}
  BY DEF IInv, TypeOK, Timers
<1> USE <1>1 DEF device
<1>2. CASE (\E c \in Config : open(b, c) \/ configure(b, c))
             \/ _acquire_exclusive_lock(b) \/ close(b) \/ os_close(b)
  BY <1>2 DEF open, configure, _acquire_exclusive_lock, close, os_close
<1>3. CASE _apply_config_to_fd(b)
  <2>1. req[b].termios \in Termios
    BY <1>3 DEF _apply_config_to_fd, IInv, CallsOK, Applying, Config
  <2> QED
    BY <1>3, <2>1 DEF _apply_config_to_fd
<1>4. CASE enable_low_latency(b) \/ tune_ftdi_latency_timer(b)
  BY <1>4 DEF enable_low_latency, tune_ftdi_latency_timer
<1>5. CASE _apply_rs485(b)
  <2>1. req[b].rs485 \in Rs485s
    BY <1>5 DEF _apply_rs485, IInv, CallsOK, Applying, Config
  <2>2. with_flags_from(rs485, req[b].rs485) \in KernelRs485
    BY <2>1 DEF with_flags_from, KernelRs485
  <2> QED
    BY <1>5, <2>2 DEF _apply_rs485
<1>6. CASE DropRs485(b)
  BY <1>6 DEF DropRs485, GivesUp, IInv, SavedOK
<1>7. CASE restore_serial_flags(b) \/ restore_ftdi_latency_timer(b) \/ _restore_rs485(b)
  BY <1>7 DEF restore_serial_flags, restore_ftdi_latency_timer, _restore_rs485, GivesUp
<1> QED
  BY <1>2, <1>3, <1>4, <1>5, <1>6, <1>7 DEF StepOf

\* Every step keeps the types.
LEMMA TypeStep ==
  ASSUME IInv, NEW b \in Backends, StepOf(b)
  PROVE  TypeOK'
<1>1. TypeOK /\ Moves(b) /\ Keeps(b)
  BY MovesStep, KeepsStep DEF IInv
<1>2. /\ pc' \in [Backends -> Idle \cup Steps]
      /\ call' \in [Backends -> {"none", "open", "configure", "close"}]
      /\ req' \in [Backends -> Config \cup {None}]
      /\ result' \in [Backends -> {"none", "ok", "error"}]
      /\ portCfg' \in [Backends -> Config \cup {None}]
  BY <1>1 DEF TypeOK, Moves
<1>3. fd' \in [Backends -> BOOLEAN]
  BY <1>1 DEF TypeOK, Keeps
<1>4. savedFlags' \in [Backends -> BOOLEAN \cup {None}]
  BY <1>1 DEF TypeOK, Keeps
<1>5. /\ savedTimer' \in [Backends -> Timers \cup {None}]
      /\ savedRs485' \in [Backends -> KernelRs485 \cup {None}]
      /\ holder' \in Backends \cup {None}
  BY <1>1 DEF TypeOK, Keeps
<1> QED
  BY <1>1, <1>2, <1>3, <1>4, <1>5, DeviceTypes DEF TypeOK

-----------------------------------------------------------------------------
(* The descriptor, the lock and what is remembered *)

\* Every step of b leads to one of its call, with what that step needs.
LEMMA CallsStep ==
  ASSUME IInv, NEW b \in Backends, StepOf(b)
  PROVE  CallsOK'
<1>1. /\ TypeOK /\ CallsOK /\ Moves(b)
      /\ \A a \in Backends \ {b} :
           pc'[a] = pc[a] /\ call'[a] = call[a] /\ req'[a] = req[a]
  BY MovesStep, OthersStay DEF IInv
<1>2. /\ pc'[b] \in {"flock", "low_latency", "ftdi_timer"} => call'[b] = "open"
      /\ pc'[b] \in {"flock"} \cup Applying =>
           call'[b] \in {"open", "configure"} /\ req'[b] \in Config
      /\ pc'[b] = "rs485" => req'[b].rs485 # None
      /\ pc'[b] = "drop_rs485" => req'[b].rs485 = None
  <2> USE <1>1 DEF TypeOK, Applying, CallsOK, Goto, Done, Continue, Start,
          Unsupported, Succeed, AfterTimer, AbortOpen
  <2>1. CASE \E c \in Config : open(b, c) \/ configure(b, c)
    BY <2>1 DEF open, configure
  <2>2. CASE _acquire_exclusive_lock(b)
    BY <2>2 DEF _acquire_exclusive_lock
  <2>3. CASE _apply_config_to_fd(b)
    BY <2>3 DEF _apply_config_to_fd
  <2>4. CASE enable_low_latency(b)
    BY <2>4 DEF enable_low_latency
  <2>5. CASE tune_ftdi_latency_timer(b)
    BY <2>5 DEF tune_ftdi_latency_timer
  <2>6. CASE _apply_rs485(b)
    BY <2>6 DEF _apply_rs485
  <2>7. CASE DropRs485(b) \/ close(b)
    BY <2>7 DEF DropRs485, close
  <2>8. CASE restore_serial_flags(b) \/ restore_ftdi_latency_timer(b) \/ _restore_rs485(b)
    BY <2>8 DEF restore_serial_flags, restore_ftdi_latency_timer, _restore_rs485
  <2>9. CASE os_close(b)
    BY <2>9 DEF os_close
  <2> QED
    BY <2>1, <2>2, <2>3, <2>4, <2>5, <2>6, <2>7, <2>8, <2>9 DEF StepOf
<1> QED
  BY <1>1, <1>2 DEF CallsOK

\* What SavedOK says of one backend.
SavedOf(b) ==
  /\ Opening(b) \/ pc[b] \in {"low_latency", "restore_timer", "restore_rs485",
                              "os_close"} => savedFlags[b] = None
  /\ Opening(b) \/ pc[b] \in {"low_latency", "ftdi_timer", "restore_rs485",
                              "os_close"} => savedTimer[b] = None
  /\ Opening(b) \/ pc[b] \in {"low_latency", "ftdi_timer", "os_close"}
       => savedRs485[b] = None
  /\ pc[b] = "drop_rs485" => savedRs485[b] # None

\* Every step of b remembers and forgets settings in the order of its calls.
LEMMA SavedStep ==
  ASSUME IInv, NEW b \in Backends, StepOf(b)
  PROVE  SavedOK'
<1>1. /\ TypeOK /\ CallsOK /\ SavedOf(b) /\ Moves(b) /\ Keeps(b)
      /\ \A a \in Backends \ {b} : pc'[a] = pc[a] /\ call'[a] = call[a]
  BY MovesStep, KeepsStep, OthersStay DEF IInv, SavedOK, SavedOf
<1>2. \A a \in Backends \ {b} :
        /\ savedFlags'[a] = savedFlags[a] /\ savedTimer'[a] = savedTimer[a]
        /\ savedRs485'[a] = savedRs485[a]
  BY <1>1 DEF Keeps, TypeOK
<1>3. SavedOf(b)'
  <2> USE <1>1 DEF TypeOK, Opening, SavedOf, CallsOK, Goto, Done, Continue, Start,
          Unsupported, Succeed, AfterTimer, AbortOpen, savedVars
  <2>1. CASE \E c \in Config : open(b, c) \/ configure(b, c)
    BY <2>1 DEF open, configure
  <2>2. CASE _acquire_exclusive_lock(b)
    BY <2>2 DEF _acquire_exclusive_lock
  <2>3. CASE _apply_config_to_fd(b)
    BY <2>3 DEF _apply_config_to_fd, Applying
  <2>4. CASE enable_low_latency(b)
    BY <2>4 DEF enable_low_latency
  <2>5. CASE tune_ftdi_latency_timer(b)
    BY <2>5 DEF tune_ftdi_latency_timer
  <2>6. CASE _apply_rs485(b)
    BY <2>6 DEF _apply_rs485
  <2>7. CASE DropRs485(b) \/ close(b)
    BY <2>7 DEF DropRs485, close
  <2>8. CASE restore_serial_flags(b) \/ restore_ftdi_latency_timer(b) \/ _restore_rs485(b)
    BY <2>8 DEF restore_serial_flags, restore_ftdi_latency_timer, _restore_rs485
  <2>9. CASE os_close(b)
    BY <2>9 DEF os_close
  <2> QED
    BY <2>1, <2>2, <2>3, <2>4, <2>5, <2>6, <2>7, <2>8, <2>9 DEF StepOf
<1>4. ASSUME NEW a \in Backends \ {b} PROVE SavedOf(a)'
  <2>1. SavedOf(a)
    BY DEF IInv, SavedOK, SavedOf
  <2> QED
    BY <1>1, <1>2, <2>1 DEF SavedOf, Opening
<1>5. \A a \in Backends : SavedOf(a)'
  BY <1>3, <1>4
<1> QED
  BY <1>5 DEF SavedOK, SavedOf

\* Who may take and drop the lock, and when b has its descriptor.
LEMMA LockMoves ==
  ASSUME IInv, NEW b \in Backends, StepOf(b)
  PROVE  /\ fd'[b] <=> pc'[b] # "closed"
         /\ pc'[b] = "flock" => Exclusive
         /\ \/ /\ Active(b) /\ Active(b)' /\ UNCHANGED holder
            \/ /\ Active(b) /\ ~Active(b)'
               /\ holder' = IF holder = b THEN None ELSE holder
            \/ /\ ~Active(b) /\ ~Active(b)'
               /\ holder' = IF holder = b THEN None ELSE holder
            \/ /\ ~Active(b) /\ Active(b)'
               /\ IF Exclusive THEN holder = None /\ holder' = b
                  ELSE UNCHANGED holder
<1>1. /\ TypeOK /\ CallsOK /\ (fd[b] <=> pc[b] # "closed")
      /\ holder = b => Active(b)
      /\ pc[b] = "flock" => Exclusive
  BY DEF IInv, LockOK
<1> USE <1>1 DEF TypeOK, Active, Goto, Done, Continue, Start, Unsupported,
        Succeed, AfterTimer, AbortOpen
<1>2. CASE \E c \in Config : open(b, c) \/ configure(b, c)
  BY <1>2, BackendAssumption DEF open, configure
<1>3. CASE _acquire_exclusive_lock(b)
  BY <1>3, BackendAssumption DEF _acquire_exclusive_lock
<1>4. CASE _apply_config_to_fd(b)
  BY <1>4 DEF _apply_config_to_fd
<1>5. CASE enable_low_latency(b)
  BY <1>5 DEF enable_low_latency
<1>6. CASE tune_ftdi_latency_timer(b)
  BY <1>6 DEF tune_ftdi_latency_timer
<1>7. CASE _apply_rs485(b)
  BY <1>7 DEF _apply_rs485
<1>8. CASE DropRs485(b) \/ close(b)
  BY <1>8 DEF DropRs485, close
<1>9. CASE restore_serial_flags(b) \/ restore_ftdi_latency_timer(b) \/ _restore_rs485(b)
  BY <1>9 DEF restore_serial_flags, restore_ftdi_latency_timer, _restore_rs485
<1>10. CASE os_close(b)
  BY <1>10 DEF os_close
<1> QED
  BY <1>2, <1>3, <1>4, <1>5, <1>6, <1>7, <1>8, <1>9, <1>10 DEF StepOf

\* Every step keeps the lock with the one backend that has the device.
LEMMA LockStep ==
  ASSUME IInv, NEW b \in Backends, StepOf(b)
  PROVE  LockOK'
<1>1. /\ TypeOK /\ LockOK /\ Moves(b) /\ Keeps(b)
      /\ \A a \in Backends \ {b} : pc'[a] = pc[a]
  BY MovesStep, KeepsStep, OthersStay DEF IInv
<1>2. \A a \in Backends \ {b} : fd'[a] = fd[a]
  BY <1>1 DEF Keeps, TypeOK
<1> QED
  BY <1>1, <1>2, LockMoves, BackendAssumption DEF LockOK, Active

-----------------------------------------------------------------------------
(* The device *)

\* A backend without the lock leaves the device alone.
LEMMA Quiet ==
  ASSUME IInv, NEW b \in Backends, StepOf(b), ~Active(b)
  PROVE  UNCHANGED <<device, original, stuck, savedVars>>
BY DEF Active, StepOf, open, configure, _acquire_exclusive_lock,
   _apply_config_to_fd, enable_low_latency, tune_ftdi_latency_timer,
   _apply_rs485, DropRs485, close, restore_serial_flags,
   restore_ftdi_latency_timer, _restore_rs485, os_close

\* None is no value of a setting.
LEMMA NotNone ==
  ASSUME TypeOK
  PROVE  /\ original.lowLatency # None /\ original.timer # None /\ original.rs485 # None
         /\ lowLatency # None /\ timer # None /\ rs485 # None
BY NoneAssumption DEF TypeOK

\* Reading, writing and restoring a setting keeps what b remembers of it.
LEMMA RememberedStep ==
  ASSUME IInv, NEW b \in Backends, StepOf(b), Remembered(b)
  PROVE  Remembered(b)'
<1>1. TypeOK /\ SavedOf(b)
  BY DEF IInv, SavedOK, SavedOf
<1>2. /\ original.lowLatency # None /\ original.timer # None /\ original.rs485 # None
      /\ lowLatency # None /\ timer # None /\ rs485 # None
  BY <1>1, NotNone
<1> USE <1>1, <1>2 DEF TypeOK, Remembered, Remembers, device, savedVars
<1>3. CASE (\E c \in Config : open(b, c) \/ configure(b, c))
             \/ _acquire_exclusive_lock(b) \/ _apply_config_to_fd(b) \/ close(b) \/ os_close(b)
  BY <1>3 DEF open, configure, _acquire_exclusive_lock, _apply_config_to_fd, close, os_close
<1>4. CASE enable_low_latency(b)
  BY <1>4 DEF enable_low_latency, SavedOf
<1>5. CASE tune_ftdi_latency_timer(b)
  BY <1>5 DEF tune_ftdi_latency_timer, SavedOf
<1>6. CASE _apply_rs485(b)
  BY <1>6 DEF _apply_rs485
<1>7. CASE DropRs485(b)
  BY <1>7 DEF DropRs485, GivesUp, SavedOf
<1>8. CASE restore_serial_flags(b)
  BY <1>8 DEF restore_serial_flags, GivesUp
<1>9. CASE restore_ftdi_latency_timer(b)
  BY <1>9 DEF restore_ftdi_latency_timer, GivesUp
<1>10. CASE _restore_rs485(b)
  BY <1>10 DEF _restore_rs485, GivesUp
<1> QED
  BY <1>3, <1>4, <1>5, <1>6, <1>7, <1>8, <1>9, <1>10 DEF StepOf

\* A backend that gives the lock back remembers nothing, so the device is as
\* it found it.
LEMMA LeavesUntouched ==
  ASSUME IInv, NEW b \in Backends, StepOf(b), Active(b), ~Active(b)', Remembered(b)
  PROVE  Untouched'
<1>1. TypeOK /\ SavedOf(b)
  BY DEF IInv, SavedOK, SavedOf
<1>2. CASE os_close(b)
  <2>1. Untouched
    BY <1>1, <1>2, NotNone DEF os_close, SavedOf, Remembered, Remembers, Untouched
  <2> QED
    BY <1>2, <2>1 DEF os_close, device, Untouched
<1>3. CASE _apply_config_to_fd(b)
  <2>1. Opening(b) /\ UNCHANGED <<device, original, stuck>>
    BY <1>1, <1>3 DEF _apply_config_to_fd, Active, Opening, Continue, Goto, Succeed,
       Done, TypeOK, device
  <2>2. Untouched
    BY <1>1, <2>1, NotNone DEF SavedOf, Remembered, Remembers, Untouched
  <2> QED
    BY <2>1, <2>2 DEF device, Untouched
<1>4. CASE ~(os_close(b) \/ _apply_config_to_fd(b))
  <2> USE <1>1 DEF TypeOK, Active, Goto, Done, Continue, Start, Unsupported,
          Succeed, AfterTimer, AbortOpen
  <2>1. CASE \E c \in Config : open(b, c) \/ configure(b, c)
    BY <2>1 DEF open, configure
  <2>2. CASE _acquire_exclusive_lock(b) \/ enable_low_latency(b)
    BY <2>2 DEF _acquire_exclusive_lock, enable_low_latency
  <2>3. CASE tune_ftdi_latency_timer(b)
    BY <2>3 DEF tune_ftdi_latency_timer
  <2>4. CASE _apply_rs485(b)
    BY <2>4 DEF _apply_rs485
  <2>5. CASE DropRs485(b) \/ close(b)
    BY <2>5 DEF DropRs485, close
  <2>6. CASE restore_serial_flags(b) \/ restore_ftdi_latency_timer(b) \/ _restore_rs485(b)
    BY <2>6 DEF restore_serial_flags, restore_ftdi_latency_timer, _restore_rs485
  <2> QED
    BY <1>4, <2>1, <2>2, <2>3, <2>4, <2>5, <2>6 DEF StepOf
<1> QED
  BY <1>2, <1>3, <1>4

\* Every step keeps the device recoverable.
LEMMA DeviceStep ==
  ASSUME Alone, Alone', IInv, DeviceOK, NEW b \in Backends, StepOf(b)
  PROVE  DeviceOK'
<1>1. /\ TypeOK /\ LockOK /\ SavedOf(b) /\ Moves(b) /\ Keeps(b)
      /\ \A a \in Backends \ {b} : pc'[a] = pc[a]
  BY MovesStep, KeepsStep, OthersStay DEF IInv, SavedOK, SavedOf
<1>2. \A a \in Backends \ {b} :
        /\ savedFlags'[a] = savedFlags[a] /\ savedTimer'[a] = savedTimer[a]
        /\ savedRs485'[a] = savedRs485[a]
  BY <1>1 DEF Keeps, TypeOK
<1>3. ASSUME NEW a \in Backends \ {b}, Active(a)' PROVE Remembered(a)'
  <2>1. Active(a) /\ ~Active(b) /\ Remembered(a)
    BY <1>1, <1>3 DEF Alone, Active, DeviceOK
  <2> QED
    BY <1>2, <2>1, Quiet DEF Remembered, device
<1>4. ASSUME Active(b)' PROVE Remembered(b)'
  <2>1. CASE Active(b)
    BY <2>1, RememberedStep DEF DeviceOK
  <2>2. CASE ~Active(b)
    <3>1. Untouched
      BY <1>1, <1>4, <2>2 DEF Alone, Active, DeviceOK
    <3>2. Remembered(b)
      BY <1>1, <2>2, <3>1 DEF Active, Opening, SavedOf, Untouched, Remembered, Remembers
    <3> QED
      BY <3>2, RememberedStep
  <2> QED
    BY <2>1, <2>2
<1>5. ASSUME \A a \in Backends : ~Active(a)' PROVE Untouched'
  <2>1. CASE Active(b)
    BY <1>5, <2>1, LeavesUntouched DEF DeviceOK
  <2>2. CASE ~Active(b)
    <3>1. Untouched
      BY <1>1, <1>5, <2>2 DEF Active, DeviceOK
    <3> QED
      BY <2>2, <3>1, Quiet DEF Untouched, device
  <2> QED
    BY <2>1, <2>2
<1> QED
  BY <1>3, <1>4, <1>5 DEF DeviceOK

\* What AppliedOK and ConfigApplied say of one backend.
AppliedOf(b) ==
  pc[b] \in Applying \ {"tcsetattr"} => termios = req[b].termios

ConfigOf(b) ==
  pc[b] = "open" /\ result[b] = "ok" =>
    /\ termios = portCfg[b].termios
    /\ portCfg[b].rs485 = None => rs485 = original.rs485 \/ "rs485" \in stuck
    /\ portCfg[b].rs485 # None /\ portCfg[b].policy = "RAISE"
         => rs485 = [original.rs485 EXCEPT !.owned = portCfg[b].rs485]

\* Every step of an open or a configure brings the device closer to the
\* configuration, and a call that returns normally leaves it there.
LEMMA AppliedStep ==
  ASSUME IInv, NEW b \in Backends, StepOf(b), Remembered(b), AppliedOf(b)
  PROVE  AppliedOf(b)' /\ ConfigOf(b)'
<1>1. TypeOK /\ CallsOK /\ SavedOf(b)
  BY DEF IInv, SavedOK, SavedOf
<1>2. original.rs485 # None /\ rs485 # None
  BY <1>1, NotNone
<1> USE <1>1, <1>2 DEF TypeOK, AppliedOf, Applying
<1>4. CASE (\E c \in Config : open(b, c) \/ configure(b, c)) \/ close(b)
  BY <1>4 DEF open, configure, close, Start, device, ConfigOf
<1>5. CASE _acquire_exclusive_lock(b)
  BY <1>5 DEF _acquire_exclusive_lock, AbortOpen, Goto, Done, ConfigOf
<1>6. CASE _apply_config_to_fd(b)
  <2>1. AppliedOf(b)'
    BY <1>6 DEF _apply_config_to_fd, AbortOpen, Continue, Succeed, Goto, Done
  <2>2. ASSUME pc'[b] = "open", result'[b] = "ok"
        PROVE  /\ termios' = portCfg'[b].termios /\ portCfg'[b].rs485 = None
               /\ savedRs485[b] = None /\ UNCHANGED <<rs485, original, stuck>>
    BY <1>6, <2>2 DEF _apply_config_to_fd, AbortOpen, Continue, Succeed, Goto, Done
  <2> QED
    BY <2>1, <2>2 DEF ConfigOf, Remembered, Remembers
<1>7. CASE enable_low_latency(b)
  BY <1>7 DEF enable_low_latency, Unsupported, Continue, Goto, Done, ConfigOf, CallsOK
<1>8. CASE tune_ftdi_latency_timer(b)
  <2>1. UNCHANGED <<termios, rs485, original, stuck>> /\ savedRs485[b] = None
    BY <1>8 DEF tune_ftdi_latency_timer, SavedOf
  <2>2. \/ Continue(b, "rs485") \/ Continue(b, "restore_flags")
        \/ Done(b, "open", "error") /\ UNCHANGED portCfg
        \/ Succeed(b) /\ req[b].rs485 = None
    BY <1>8 DEF tune_ftdi_latency_timer, AfterTimer, Unsupported
  <2>3. termios = req[b].termios
    BY <1>8 DEF tune_ftdi_latency_timer
  <2> QED
    BY <2>1, <2>2, <2>3 DEF Continue, Goto, Done, Succeed, ConfigOf, Remembered, Remembers
<1>9. CASE _apply_rs485(b)
  <2>1. /\ UNCHANGED <<termios, original, stuck>> /\ termios = req[b].termios
        /\ req[b].rs485 # None
    BY <1>9 DEF _apply_rs485, CallsOK
  <2>2. AppliedOf(b)'
    BY <1>9 DEF _apply_rs485, Unsupported, Succeed, Continue, Goto, Done
  <2>3. ASSUME pc'[b] = "open", result'[b] = "ok"
        PROVE  /\ portCfg'[b] = req[b]
               /\ req[b].policy = "RAISE" => rs485' = with_flags_from(rs485, req[b].rs485)
    BY <1>9, <2>3 DEF _apply_rs485, Unsupported, Succeed, Continue, Goto, Done
  <2>4. with_flags_from(rs485, req[b].rs485)
          = [original.rs485 EXCEPT !.owned = req[b].rs485]
    BY DEF with_flags_from, KernelRs485
  <2> QED
    BY <2>1, <2>2, <2>3, <2>4 DEF ConfigOf
<1>10. CASE DropRs485(b)
  <2>1. /\ UNCHANGED <<termios, original>> /\ termios = req[b].termios
        /\ req[b].rs485 = None /\ pc'[b] = "open" /\ portCfg'[b] = req[b]
    BY <1>10 DEF DropRs485, CallsOK, Succeed, Done
  <2>2. savedRs485[b] # None
    BY <1>10 DEF DropRs485, SavedOf
  <2>3. rs485' = original.rs485 \/ "rs485" \in stuck'
    BY <1>10, <2>2 DEF DropRs485, GivesUp, Remembered, Remembers
  <2> QED
    BY <2>1, <2>3 DEF ConfigOf
<1>11. CASE restore_serial_flags(b) \/ restore_ftdi_latency_timer(b)
              \/ _restore_rs485(b) \/ os_close(b)
  BY <1>11 DEF restore_serial_flags, restore_ftdi_latency_timer, _restore_rs485,
     os_close, Goto, Done, ConfigOf
<1> QED
  BY <1>4, <1>5, <1>6, <1>7, <1>8, <1>9, <1>10, <1>11 DEF StepOf

\* Every step keeps every backend's configuration applied.
LEMMA ConfigStep ==
  ASSUME Alone, DInv, NEW b \in Backends, StepOf(b)
  PROVE  AppliedOK' /\ ConfigApplied'
<1>1. /\ IInv /\ TypeOK /\ LockOK /\ DeviceOK /\ Moves(b)
      /\ \A a \in Backends : AppliedOf(a) /\ ConfigOf(a)
  BY MovesStep DEF DInv, IInv, AppliedOK, ConfigApplied, AppliedOf, ConfigOf
<1>2. \A a \in Backends \ {b} :
        /\ pc'[a] = pc[a] /\ req'[a] = req[a] /\ result'[a] = result[a]
        /\ portCfg'[a] = portCfg[a]
  BY <1>1, OthersStay
<1>3. AppliedOf(b)' /\ ConfigOf(b)'
  <2>1. CASE Active(b)
    BY <1>1, <2>1, AppliedStep DEF DeviceOK
  <2>2. CASE ~Active(b)
    <3>1. pc'[b] \in {"closed", "flock", "tcsetattr"}
      BY <1>1, <2>2 DEF Active, StepOf, open, configure, _acquire_exclusive_lock,
         _apply_config_to_fd, enable_low_latency, tune_ftdi_latency_timer,
         _apply_rs485, DropRs485, close, restore_serial_flags,
         restore_ftdi_latency_timer, _restore_rs485, os_close, Start, Goto,
         AbortOpen, Done, TypeOK
    <3> QED
      BY <3>1 DEF AppliedOf, ConfigOf, Applying
  <2> QED
    BY <2>1, <2>2
<1>4. ASSUME NEW a \in Backends \ {b} PROVE AppliedOf(a)' /\ ConfigOf(a)'
  <2>1. CASE Active(a)
    <3>1. ~Active(b)
      BY <2>1 DEF Alone
    <3>2. UNCHANGED <<termios, rs485, original, stuck>>
      BY <1>1, <3>1, Quiet DEF device
    <3> QED
      BY <1>1, <1>2, <3>2 DEF AppliedOf, ConfigOf
  <2>2. CASE ~Active(a)
    BY <1>2, <2>2 DEF Active, AppliedOf, ConfigOf, Applying
  <2> QED
    BY <2>1, <2>2
<1>5. \A a \in Backends : AppliedOf(a)' /\ ConfigOf(a)'
  BY <1>3, <1>4
<1> QED
  BY <1>5 DEF AppliedOK, ConfigApplied, AppliedOf, ConfigOf

-----------------------------------------------------------------------------
(* The invariants and what follows from them *)

\* Nothing is open at the start.
LEMMA IInvInit == Init => IInv
<1> SUFFICES ASSUME Init PROVE IInv
  OBVIOUS
<1>1. TypeOK
  <2>1. fd \in [Backends -> BOOLEAN]
    BY DEF Init
  <2>2. savedFlags \in [Backends -> BOOLEAN \cup {None}]
    BY DEF Init
  <2>3. original \in [lowLatency : BOOLEAN, timer : Timers, rs485 : KernelRs485]
    BY DEF Init, KernelRs485, Timers
  <2> QED
    BY <2>1, <2>2, <2>3 DEF Init, TypeOK, Idle, Timers, KernelRs485
<1> QED
  BY <1>1, BackendAssumption
     DEF Init, IInv, CallsOK, SavedOK, LockOK, Active, Opening, Applying

\* No step breaks what holds of any number of backends.
LEMMA IInvNext == IInv /\ [Next]_vars => IInv'
<1> SUFFICES ASSUME IInv, [Next]_vars PROVE IInv'
  OBVIOUS
<1>1. ASSUME NEW b \in Backends, StepOf(b) PROVE IInv'
  BY <1>1, TypeStep, CallsStep, SavedStep, LockStep DEF IInv
<1>2. CASE UNCHANGED vars
  BY <1>2 DEF vars, savedVars, device, IInv, TypeOK, CallsOK, SavedOK, LockOK,
     Active, Opening
<1> QED
  BY <1>1, <1>2 DEF Next, StepOf

LEMMA Invariance == Spec => []IInv
BY IInvInit, IInvNext, PTL DEF Spec

\* Nor what holds of one at a time, if it is not that of a second one.
LEMMA DInvNext == ASSUME Alone, Alone', DInv, [Next]_vars PROVE DInv'
<1>1. IInv'
  BY IInvNext DEF DInv
<1>2. ASSUME NEW b \in Backends, StepOf(b) PROVE DInv'
  BY <1>1, <1>2, DeviceStep, ConfigStep DEF DInv
<1>3. CASE UNCHANGED vars
  BY <1>1, <1>3 DEF vars, savedVars, device, DInv, DeviceOK, Untouched, Remembered,
     AppliedOK, ConfigApplied, Active, Remembers
<1> QED
  BY <1>2, <1>3 DEF Next, StepOf

LEMMA AloneInvariance == Spec /\ []Alone => []DInv
<1>1. Init => DInv
  <2> SUFFICES ASSUME Init PROVE DInv
    OBVIOUS
  <2> QED
    BY IInvInit DEF Init, DInv, DeviceOK, Untouched, Active, AppliedOK, Applying,
       ConfigApplied
<1> QED
  BY <1>1, DInvNext, PTL DEF Spec

\* A backend whose open failed, at whichever system call, or that has closed
\* has no descriptor, no lock and nothing to restore: also when other processes
\* open the port without the lock.
THEOREM ClosedCorrect == Spec => []ClosedHoldsNothing
<1>1. IInv => ClosedHoldsNothing
  BY DEF IInv, SavedOK, LockOK, ClosedHoldsNothing, Opening, Active
<1> QED
  BY <1>1, Invariance, PTL

\* With the lock, no two backends use the device at once: one that is refused
\* the lock gives up, and the lock goes with the descriptor.
THEOREM LockKeepsAlone == ASSUME Exclusive PROVE Spec => []Alone
<1>1. IInv => Alone
  BY DEF IInv, LockOK, Alone
<1> QED
  BY <1>1, Invariance, PTL

\* What a backend remembers is what the device had before, as long as it is the
\* only one.
THEOREM SavedCorrect == Spec /\ []Alone => []SavedIsOriginal
<1>1. DInv => SavedIsOriginal
  BY DEF DInv, IInv, LockOK, DeviceOK, SavedIsOriginal, Remembered, Active
<1> QED
  BY <1>1, AloneInvariance, PTL

\* The device is back to what it was when all have closed that used it one after
\* the other: every setting by itself, whichever step failed.
THEOREM RestoreCorrect == Spec /\ []Alone => []DeviceRestored
<1>1. DInv => DeviceRestored
  <2> SUFFICES ASSUME DInv, \A b \in Backends : pc[b] = "closed"
               PROVE  Untouched
    BY DEF DeviceRestored, Untouched
  <2> QED
    BY DEF DInv, DeviceOK, Active
<1> QED
  BY <1>1, AloneInvariance, PTL

\* A call that returned normally has configured the device as asked, and until
\* the next one nothing undoes it.
THEOREM ConfigCorrect == Spec /\ []Alone => []ConfigApplied
<1>1. DInv => ConfigApplied
  BY DEF DInv
<1> QED
  BY <1>1, AloneInvariance, PTL

\* With the lock the three hold however many processes compete for the device.
THEOREM LockIsSafe ==
  ASSUME Exclusive
  PROVE  Spec => [](SavedIsOriginal /\ DeviceRestored /\ ConfigApplied)
BY LockKeepsAlone, SavedCorrect, RestoreCorrect, ConfigCorrect, PTL
=============================================================================
