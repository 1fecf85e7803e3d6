# anyserial: a verification project

TLA+ models of `anyserial`, an AnyIO-native serial port library. The modules model
the part of the library where a mistake is hard to test: several tasks on one port,
cancellation and close racing parked I/O, worker threads, a shared event-loop
thread, tuning that must be undone, settings another program left on the line.
TLC checks small instances; TLAPS proves the invariants and refinements for any
number of tasks, processes, bytes and configurations.

Paths below are relative to `src/anyserial/` of the repository unless they start
with `docs/`, `tests/` or `DESIGN.md`.

Contents: 1 the system · 2 the modules · 3 the runs · 4 bounds, symmetry and deadlock ·
5 fairness · 6 what is proved · 7 what is only model-checked · 8 findings and
differences from the documentation · 9 not modelled · 10 plan

## 1. The system

### Components

| Component | State | Operations | What makes it correct |
|---|---|---|---|
| POSIX port (`stream.py`, `_posix/backend.py`) | `_closed`, `_config`, two `ResourceGuard`s, the close and configure locks, the descriptor | `receive`, `receive_into`, `receive_available`, `send`, `send_eof`, `drain`, `drain_exact`, `send_break`, `configure`, `aclose`, resets, queries, `__del__` | guards come back on every exit; no wait and no call on a dead descriptor; no byte lost, repeated or mixed; BREAK released; `port.config` and the kernel move together; close and cancellation end calls |
| Linux backend (`_linux/`) | saved flags, saved latency timer, saved RS-485 structure, the flock; on the device: those three settings and the line settings | `open`, `configure`, `close` | a closed backend holds nothing; the device gets its settings back; what is saved is never a value the library wrote |
| Darwin and BSD backends (`_darwin/`, `_bsd/`), termios builders (`_posix/termios_apply.py`), DCB builder (`_windows/dcb.py`), capability snapshots | the line settings on the device | `open`, `configure`, policy rejection | the line runs exactly `port.config` whatever was on it; a dropped feature is announced; capabilities agree with the code |
| Windows port and backend (`stream.py`, `_windows/`) | handle, wrapper, `_closed`, overlapped operations, the kernel's receive queue | the same calls, `wait_modem_event` | no kernel write into freed memory; no byte lost silently; an idle device is not an unplugged one; close and cancellation end calls |
| Blocking wrapper (`sync.py`) | the module's provider and backend, leases, per port `_closed` and `_portal_entered` | `configure_portal`, open, the blocking methods, `close`, `__del__` | leases exact; an open port always has its portal; the last close stops the thread |
| AnyIO (external) | guard flag, lock owner and queue, parked waiters, portal | `ResourceGuard`, `Lock`, `wait_readable`, `notify_closing`, `to_thread`, `BlockingPortalProvider` | modelled from how `anyserial` uses it |
| Configuration, exceptions, errno mapping | none | validation, `errno_to_exception` | every error belongs to the documented hierarchy |
| Mock backend and testing helpers (`testing.py`, `_mock/`) | per end: socket, `FaultPlan`, RTS, DTR, BREAK | `serial_port_pair`, `faults_of`, every primitive of `MockBackend` under the calls of the ports | the pair carries two byte streams whatever is injected; the end of the stream is reported only when it is the end; interrupted calls end |
| Discovery (`discovery.py`, `_linux/`, `_darwin/`, `_bsd/`, `_windows/discovery.py`) | the walk in progress, handles of the operating system | `list_serial_ports`, `find_serial_port`, `resolve_port_info`, `canonical_port_name` | of a port that stays each node is listed once and a search finds one, with its own identity; no handle survives a call |
| Windows bindings, selector | none | – | not modelled, section 9 |

### How they interact

A `SerialPort` calls its backend's non-blocking primitives synchronously and awaits
only AnyIO primitives, so between two awaits a task runs alone; everything that can
go wrong happens between a task being parked, being woken and running again.
`aclose` reaches a parked reader through `notify_closing`, and `_closed` is what the
reader finds when it runs. `drain_exact` (and `drain` on Windows) runs a system call in
a worker thread, which is truly concurrent. The blocking wrapper adds operating-system
threads that share one event-loop thread through a counted provider. The Linux
backend shares the device with other processes through `flock`, and every backend
inherits whatever settings the last program left. Discovery walks a device tree that
changes under it; `open_serial_port` uses one lookup of it, on Windows before the port
is opened.

### Hard behaviours

Cancellation arriving together with readiness; close between readiness and the read;
partial writes; a worker thread that starts after the close; a teardown (BREAK,
tuning, leases) in which one step fails; two threads in one unlocked check; an
overlapped operation that outlives its call; a fault injected between two tries of a
loop; a device that is replaced while its attributes are read. `PROJECT.json` lists each one at its line
under `hazards`, with the properties that would catch it.

## 2. The modules

| Module | Models | Granularity |
|---|---|---|
| `InputStream`, `OutputStream` | what every port promises of the bytes it reads and writes; abstract, implemented by the ports | one step per delivery, loss, piece |
| `PosixPort` | `_PosixSerialPort` over `PosixBackend` | one step from await to await |
| `LinuxBackend` | open, configure, close of `LinuxBackend` in several processes | one step per system call |
| `LineSettings` | the builders and `configure` of all four backends | one step per call; `IOSSIOSPEED` apart |
| `WindowsPort` | the Windows port on asyncio and Trio | one step from await to await; one operation = one object |
| `SyncPortal` | `sync.py` in several threads | one step per access to shared state |
| `MockPair` | `serial_port_pair`: two ports on `MockBackend`, joined by a socket pair, with fault injection | one step from await to await |
| `Discovery` | the five native and pyudev enumerators, the searches and the lookup of one path | one step per attribute read or handle taken |
| `MC*` | instances: symmetry sets, enumerated configs, programs | – |
| `PosixPortProofs`, `LinuxBackendProofs`, `LineSettingsProofs`, `WindowsPortProofs`, `SyncPortalProofs`, `MockPairProofs`, `DiscoveryProofs` | the theorems on each model and their proofs (section 6) | – |
| `ByteSequences` | lemmas the proofs about bytes share: concatenating sequences, cutting them in two, losing a part from the middle | – |

Definitions carry the names of the functions they model; `map` in `PROJECT.json`
gives the lines. A definition `Bad…` is a faulty variant of the definition it precedes
or replaces (a dropped guard, a swapped order, a missing reset); no specification uses
one, they exist to show that a property would notice.

### InputStream and OutputStream

`InputStream` promises that bytes come out in the order they went in, each at most
once, none after the close; bytes may be lost, but only as a run of neighbours.
`OutputStream` promises that sends are served one at a time and that the kernel is given
the bytes of the one in progress from its first on, without gap or repetition. The detailed
modules implement them under these mappings, each checked as a property:

| Implementation | Abstract | `open` | the rest |
|---|---|---|---|
| `PosixPort!ReadsAStream` | `InputStream` | `fdOpen` | `produced`, `inq`, `received`, `dropped` |
| `PosixPort!WritesAStream` | `OutputStream` | `fdOpen` | `sends`, the send of the task in `wait_writable`, `written` |
| `WindowsPort!ReadsAStream` | `InputStream` | the port is open, or a completed read has not returned yet | a completed read's bytes and the driver's queue are `pending`; only asyncio may lose bytes to a cancelled call |
| `MockPair!PairCarriesStreams` | `InputStream` twice | `~closed[e]` | the peer's socket |

### PosixPort

*State.* `closed`, `config` and the guards are the attributes of `SerialPort`; `fdOpen`
is `_fd >= 0`. `pc[t]` is the await a task is parked at, `wake[t]` why it was woken.
`inq`, `received` and `dropped` hold the numbers of the bytes, so that loss, repetition
and order are visible; `written` holds `<<send, index>>` of each byte the kernel
accepted. `termiosCfg` is the configuration the kernel has, and `halfApplied` says that the
step behind `tcsetattr` failed for it; a `Config` is opaque here and a record in `LineSettings`.

*Actions.* A call is an action up to its first await (argument checks, closed check,
guard, early errors); `Resume…` actions are the code after the await, with the loop's
next await. `receive_available` computes its size from `TIOCINQ` when it resumes;
`drain` polls; `send_break` asserts, sleeps and de-asserts in its `finally`; `aclose`
takes its lock, sets `_closed`, notifies and closes in one step, since the shielded part
has no await that yields before the descriptor is closed. A `configure` is refused before
`tcsetattr` (`ConfigureRefused`: nothing has changed), fails behind it, in `TIOCSRS485` on Linux
or `IOSSIOSPEED` on macOS (`ConfigureHalfApplied`: the kernel has the new settings, `port.config`
the old ones, and `SerialError` is raised), or is accepted; one step, because it has no await.
`RejectArgument` is the `ValueError` of an argument check, which comes on an open port too. `tcdrain_blocking` and
`TcdrainReturns` are the worker thread. `Finalize` is `__del__`.

*AnyIO's lock* is modelled with the behaviour of its asyncio implementation: a release
hands over to the first waiter that is not cancelled, and a cancelled waiter takes
itself off the queue when it runs.

*Environment.* `Cancel`, `DeliverCancel`, `LeaveScope` (cancel scopes), `FdReady`
(the selector, spurious wake-ups included), `PeerSends`, `Transmit`, `Unplug`.

*Instances.* `Program[t]` is the set of operations task `t` may call; `Enabled` names the
environment events. They split the calls over the runs; the theorems hold for any.

### LinuxBackend

`open` takes the steps flock, `tcsetattr`, low-latency flag, FTDI timer, RS-485; each
may fail, and an error runs the cleanup of the code. `MayFail` names the steps that may
fail. `original` is the device before the first open; `stuck` the settings the driver
refused to take back. The module lets a second process open the device at any step.

### LineSettings

Termios flags are sets of names, the builders operators that add and remove names,
composed as each backend composes them. `build` is the platform with what differs
between builds (whether `CMSPAR` exists, which flags make the hardware handshake).
`rate` is what the driver runs, apart from what the structure says, because Linux
(`BOTHER`) and macOS (`IOSSIOSPEED`) set it by a second route.

### WindowsPort

An overlapped operation is a record: its state (pending, done), the task that waits
for it, and `pin`, which says what keeps its memory alive: the frame of the call, the
proactor's cache or `_abandoned_waits`. asyncio and Trio differ in what a cancellation
does (`OrphanIO` against `RequestAbort`), in the error an aborted operation raises and in
how `WaitCommEvent` is awaited. `drain` waits in a worker thread for `FlushFileBuffers`
(`StartFlush`, `ResumeDrain`), which a cancellation does not end. `Programs` limits which calls one behaviour mixes.
A behaviour begins with `open_serial_port`: the metadata lookup in a worker thread, which
may be cancelled (`CancelLookup`), then `CreateFile`, the registration with the event loop
and `SetCommMask`, each of which may fail.

### SyncPortal

Each thread has a `pc` inside `open`, a method, `close` or `__del__`; the steps are the
points where another thread can intervene. `provider_enter` and `provider_exit` are
AnyIO's provider: its lock makes each atomic, but stopping and joining the portal happen
outside. A `drain_exact` may hand its call to a worker thread (`DrainBlocks`), where it sits in
`tcdrain` until the line drains (`TcdrainReturns`): a time-out and a close of the port come no
sooner. `SharedClose` allows several threads to close one port. A close that timed out
leaves its port's device open (`LeftOpen`); a call that waits on it, or sits in `tcdrain`, is `Stranded`:
nothing another thread does ends it.

### MockPair

Both ends have a `_PosixSerialPort`; the loops of `receive` and `send` are those of
`PosixPort`, one step per try, over the checks of `read_nonblocking` and
`write_nonblocking` in the order of the code. `faults[e]` is the `FaultPlan`; `Inject` is a
test that sets a field of it between any two steps. The sockets are external: a bounded
queue, end of file and EPIPE behind a close, and ECONNRESET for an end whose peer closed
with unread bytes (Linux; nondeterministic, because other systems report the end of file).
`accepted` numbers the bytes a socket took, so loss and repetition are visible.

### Discovery

`system` is the enumerator, `request` the call. A walk is a list of entries (`todo`), the
entry under construction, and the handles it holds. The Linux walk reads each attribute of
sysfs by the path it remembered (`source` is a place in the tree, whoever is plugged in
there by then); IOKit and SetupAPI are walked by handles that keep pointing at a device that is gone;
the registry fallback enumerates by index; the BSD walk globs names. `Unplug` and `Plug` let
adapters go and come back under another name or at another place between any two steps.
A device either has a vendor id and a serial number, both written as the device itself, or
has none; so an attribute in the wrong entry is visible.

## 3. The runs

| Run | Properties | Shows |
|---|---|---|
| `PosixRead` | `GuardsExact` `ClosedMeansReleased` `NoIOAfterClose` `InputConserved` `RawErrors` `BreakReleased` `CancelledMovesNothing` `ReadsAStream` `QueuedBytesAreRead` `CloseEndsCalls` | Reads by every method against reset, BREAK, `drain_exact`, close, cancellation and unplug: the port implements `InputStream`, also when a cancellation and data arrive together; the guard always comes back; no read on a closed descriptor; errors outside the hierarchy only in the listed cases; BREAK released; queued bytes end the reads, and a close ends every call but a `drain_exact` in its thread |
| `PosixWrite` | `TypeOK` `SendComplete` `WritesAStream` `OutputCallsReturn` `CancelEndsCalls` | Payloads larger than the queue, drains, flushes, line controls, close, cancellation, unplug: the port implements `OutputStream`, a send that returns has written everything, output calls return while the device transmits, a cancellation ends a call wherever it waits |
| `PosixControl` | `ConfigMatchesKernel` `LockDiscipline` `ClosedIsFinal` | Three tasks on the two locks, configure, close, cancellation, unplug, the finalizer: `port.config` and the kernel move only together, but for a configure that fails behind `tcsetattr` and says so; locks have the right owner; closed stays closed |
| `LinuxDevice` | `ClosedHoldsNothing` `DeviceRestored` `ConfigApplied` | Two processes, every combination of tuning and every failure: nothing held, device restored, successful calls applied |
| `LineSettings` | `LineMatchesConfig` `DropsAnnounced` `CapabilitiesHonest` | Four platforms, any sequence of open, configure, close over leftover settings: the line is `port.config`, drops announced, capabilities honest |
| `Sync` | `LeasesExact` `OpenPortsAreServed` `PortalsAccounted` `CloseEndsMethods` `LastCloseStopsPortal` | Two threads, two ports, failing starts and opens, time-outs, reconfiguration: exact leases, served ports, closes end calls, the last close stops the thread, unless a call is in `tcdrain` or was stranded by a timed-out close |
| `WindowsPort` | `MemoryPinned` `ErrorsHaveCause` `HandleReleased` `ReadsAStream` `CloseEndsCalls` `CancelEndsCalls` | Both runtimes, after an open that may fail or be cancelled: memory pinned, the port implements `InputStream` and loses bytes only to cancelled asyncio reads, errors have a cause (an open port is reported closed only by a read or write that a reset has purged), a close ends every call, a cancellation every one that is not in `FlushFileBuffers` |
| `MockPair` | `EndOfStreamIsTheEnd` `PairCarriesStreams` `CallsOutliveFaults` | Both ends of a pair under injected faults: each direction implements `InputStream`, the end of the stream is reported only when it is the end, interrupted and cut calls end |
| `Discovery` | `StayedPortsListed` `HandlesReleased` | Every enumerator while adapters move: of a port that stays a listing has each node once and a search one entry, with its own identity; no handle survives the call |
| `AcloseCancelled` | `AcloseCloses` | violation: a cancelled `aclose` can leave the port open (section 8) |
| `SyncDoubleClose` | `OpenPortsAreServed` | violation: two closing threads can stop another port's portal |
| `WindowsCloseError` | `CloseRaisesClosed` | violation: a receive ended by close can raise the wrong error |

The passing runs take from a few seconds to about three minutes each with two
workers. `mutants` in `PROJECT.json` names, for every property of every passing run, a faulty
variant of a definition under which the property fails.

## 4. Bounds, symmetry and deadlock

* **`PosixRead`** – 2 tasks, 3 bytes, sizes 0 and 2, chunk 1. One task reads by every
  method; the other reads, too, and resets, holds BREAK, drains with `drain_exact`, queries and closes. Two tasks show
  every pair of calls that can race; the guards admit one reader, so a third would only be
  refused. Three bytes let a read take part of the queue and leave some behind; size 0
  is the argument error of `receive` and the empty buffer of `receive_into`. For any
  number of tasks and bytes: section 6.
* **`PosixWrite`** – 2 tasks; payloads of 0 and 2 against a queue of 1 force a partial write
  and a wait; two sends show two payloads that could mix; `spurious` wake-ups force the
  retry on a queue that is still full.
* **`PosixControl`** – 3 tasks: an owner, a waiter and one queued behind it, the
  smallest case in which hand-over order matters. 2 configurations: enough for the kernel and
  `port.config` to differ, and for a later call to make them agree on either.
* **`LinuxDevice`** – 2 processes, exclusive. Each step may fail every time it runs.
* **`LineSettings`** – two leftover settings, all flags set and none: the builders work
  flag by flag, so the extremes show every flag left on and left off. Requests differ from
  the default in at most two fields, or ask for any set of extras under any policy; two
  such requests one after the other change up to four fields. Rates: two standard ones and a custom one.
* **`Sync`** – 2 threads, 2 ports, 2 providers (one may be discarded after a failed
  start), 2 backends. Each port is closed by its opener or the collector; the shared
  close is `SyncDoubleClose`.
* **`WindowsPort`** – 2 tasks, 2 overlapped operations, 2 bytes. `Programs` splits the calls
  into five mixes of calls that touch the same state; each contains `aclose`.
* **`MockPair`** – payload 2, queue 2, receives of 1 byte, so that a send may be cut, fill
  the queue and be received in pieces; 2 sends per end; 2 faults, each of which may refuse
  or interrupt twice. Four programs choose calls and faults that meet in one loop: cuts and
  interruptions with closes, I/O errors with cancellation, both directions with resets, and
  the line controls.
* **`Discovery`** – 2 adapters, 1 board port, 1 console, 3 names, 2 locations, 3 moves: an
  adapter can be unplugged, the other take its place or name, and the first come back,
  which is what an identity in the wrong entry needs. A call is one walk, so walks of
  three entries and climbs of one hub are enough for an entry before, at and after the change.

`MaxSends`, `MaxIn`, `MaxFaults`, `MaxChanges`, `Ops` are bounds of the model only; they appear in guards.

Symmetry is used in runs without liveness or refinement alone (`Tasks` in `PosixControl`,
`Backends`, `Usb` and `Locations`). Deadlock is checked except in `PosixControl` (after the
port object has been collected nothing need happen), `Sync`, `MockPair` and the Windows runs
(every port can end closed; there are finitely many) and `Discovery` (the call returns).

## 5. Fairness

* `PosixPort!LoopFairness`: the event loop runs a task that was woken (`Resume`), fires due
  timers (`SleepEnds`), reports ready descriptors (`FdReady`), and the operating system
  schedules the worker thread. Cancellation is strongly fair, because a cancelled scope
  tries to deliver again in every iteration of the loop, so a task that keeps
  parking is reached although it is also woken again and again.
* `OutputCallsReturn` assumes inside the property that the line is not held by flow control
  for ever (`WF_vars(Transmit) => …`); the specification of the run does not.
* `SyncPortal!Fairness`: each thread goes on, and the event loop completes an open and an
  aclose and wakes the calls parked on a closed port. A method that waits for data need not
  return, nor a `tcdrain`, whose line flow control may hold for ever: a `drain_exact` in it is
  not ended by a close, and the `close()` that gives the last lease back waits for it in the join of the
  portal thread (`sync.py:413`). `CloseEndsMethods` and `LastCloseStopsPortal` except both.
* `PosixPort!CloseEndsCalls` and `CancelEndsCalls` except a `drain_exact` in its thread for the same reason.
* `MockPair!Fairness`: the event loop reports a ready socket and runs the call it woke, in
  each direction. A reader is not owed data, and a test need not take a fault back.
* `WindowsPort!Fairness`: tasks run, cancellation is delivered, the kernel ends an operation
  it was told to end and one on a removed device, and packets are taken. `FlushFileBuffers` is
  not assumed to return while flow control holds the line (`_windows/backend.py:333`); it does
  when `aclose` has purged the output or the device is gone, and that is all the
  fairness of `ResumeDrain` says. So a close ends a drain, and a cancellation does not
  (`CancelEndsCalls` excepts it): `to_thread.run_sync` waits for its thread (`:337`).

`Discovery`, `LinuxBackend` and `LineSettings` are sequential per process and state no fairness.
No specification assumes that a caller calls, a peer sends or a modem line changes.

## 6. What is proved

Every invariant, every refinement and every action property the passing runs check, for all values of
the constants that satisfy the named assumptions of each module and for any number of steps.

| Module | Theorem | States | Hypothesis |
|---|---|---|---|
| `PosixPortProofs` | `TypeCorrect` | `[]TypeOK` | |
| | `GuardsCorrect` | `[]GuardsExact` | |
| | `CloseReleases` | `[]ClosedMeansReleased` | |
| | `NoIOOnClosedPort` | `[]NoIOAfterClose` | |
| | `BreakIsReleased` | `[]BreakReleased` | |
| | `ConfigAgrees` | `ConfigMatchesKernel` | |
| | `LocksCorrect` | `[]LockDiscipline` | |
| | `ClosedForEver` | `ClosedIsFinal` | |
| | `RawErrorsHaveCause` | `[]RawErrors` | |
| | `InputIsConserved` | `[]InputConserved` | |
| | `InputRefinement` | `ReadsAStream`: the port implements `InputStream` | |
| | `OutputRefinement` | `WritesAStream`: the port implements `OutputStream` | |
| | `SendsComplete` | `SendComplete` | |
| | `CancelledLeavesNothing` | `CancelledMovesNothing` | |
| `SyncPortalProofs` | `LeasesCorrect` | `[]LeasesExact` | `[]OneCloser` |
| | `OpenPortsServed` | `[]OpenPortsAreServed` | `[]OneCloser` |
| | `PortalsCorrect` | `[]PortalsAccounted` | `[]OneCloser` |
| | `OwnersCloseOnce` | `[]OneCloser` | `~SharedClose` |
| | `OwnersAreSafe` | the three of the portal | `~SharedClose` |
| `LinuxBackendProofs` | `ClosedCorrect` | `[]ClosedHoldsNothing` | |
| | `SavedCorrect` | `[]SavedIsOriginal` | `[]Alone` |
| | `RestoreCorrect` | `[]DeviceRestored` | `[]Alone` |
| | `ConfigCorrect` | `[]ConfigApplied` | `[]Alone` |
| | `LockKeepsAlone` | `[]Alone` | `Exclusive` |
| | `LockIsSafe` | the three of the device | `Exclusive` |
| `WindowsPortProofs` | `MemoryStaysPinned` | `[]MemoryPinned` | |
| | `ClosedPortsRelease` | `[]HandleReleased` | |
| | `ErrorsCorrect` | `ErrorsHaveCause` | |
| | `InputRefinement` | `ReadsAStream`: the port implements `InputStream` | |
| `LineSettingsProofs` | `LineCorrect` | `[]LineMatchesConfig` | |
| | `DropsAreAnnounced` | `[]DropsAnnounced` | |
| | `CapabilitiesCorrect` | `[]CapabilitiesHonest` | |
| `MockPairProofs` | `EndOfStreamCorrect` | `[]EndOfStreamIsTheEnd` | |
| | `PairRefinement` | `PairCarriesStreams`: each direction implements `InputStream` | |
| `DiscoveryProofs` | `HandlesCorrect` | `[]HandlesReleased` | |
| | `StayedCorrect` | `[]StayedPortsListed` | |

The hypotheses are about what callers do, and each has a theorem that says when it holds.

* `OneCloser`: no two threads are in `close()` or the finalizer of one port at once. Nothing in `sync.py`
  sees to it, since the check of `_closed` and the assignment behind it are two steps. It is needed (run
  `SyncDoubleClose`), and it is all that is needed: ports that threads hand over to each other and close one after the other,
  or close again, are covered. It follows when the opener closes (`OwnersCloseOnce`).
* `Alone`: no two backends use the device at once. It is needed: without it a second process takes
  the tuned values for the original ones (section 8, Linux). It does not take the lock:
  processes that open the port one after the other are covered. The advisory lock guarantees it
  (`LockKeepsAlone`).

The assumptions on constants are types: bounds are naturals, the marker `None` is no process, task
or saved value, some configuration exists; in `Discovery`, names are finitely many numbers and
the hub and `Null` are no device or place.

Each proof rests on an inductive invariant, `IInv`. It is the conjunction of the properties and of the facts below, without which it is not preserved.

### PosixPortProofs

* `WorkerWakes` – nothing but the worker thread wakes the `drain_exact` that waits for it;
  needed because `drain_exact` turns the reason of its wake-up into its outcome;
* `SendUnfinished` – a parked sender has bytes left; otherwise a resumed write could add a
  negative number of bytes to the queue;
* `Collected` – a collected port has no descriptor and no call in flight; needed because
  `__del__` closes the descriptor without setting `_closed`;
* `ConfigureWaits` – a task parked at the configure lock is in `configure`, so its outcome
  says nothing about reads and sends;
* `SettingsAgree` – `port.config` is what the kernel has unless the last `configure` that reached
  `tcsetattr` failed behind it; with the places of a `configure` it gives the action property `ConfigMatchesKernel`;
* `WakeCause` – what the worker thread has reported to a task is still so when the task runs (for
  `RawErrors`); `Irreversible` is the lemma that such causes, a closed port and an unplugged device, cannot go away;
* `OutputInv` – a parked send is the newest, its `offset` is the last byte accepted, and no byte
  before it is missing (for the output).

*The argument.* `NextKinds` sorts the disjuncts of `Next` into nine kinds (reads, writes,
drains, breaks, locks, flushes, loop, finalizer, device). A `…Frame` lemma per kind states
which variables it leaves alone, so each `…Step` lemma has to argue only about the kinds
that touch its variables. `…Places` lemmas reduce the guards to where one task moves.
For the locks, `DequeueQueue`, `QueueWithout` and `NextOwnerWaits` state what leaving a
queue does. For the input, each step delivers a prefix of the queue, discards it, receives
a new byte or leaves the input alone (`InputSteps`); `DeliveryConserves`, `DiscardConserves`
and `ArrivalConserves` show that each keeps `InputConserved`. For the refinement,
`DeliveryRefines`, `DiscardRefines` and `ArrivalRefines` map the
same steps to `Deliver`, `Lose` and `Arrive` of `InputStream` (an empty delivery or discard to a
stutter), `DescriptorStep` shows that no step reopens the descriptor, and
`NothingWithoutDescriptor`, from `ClosedMeansReleased` and `Collected`, that no delivery
happens without it. For the output, a step begins a send, has a
piece of it accepted, gives up the parked one, or leaves the written bytes alone; `OutputInv` maps them to
the steps of `OutputStream` and says what is complete when a send returns.

### SyncPortalProofs

`IInv` adds to the three properties: where each thread is in its call, and what its port's flags are
there (`Places`), that an open port that is not closed
has entered its provider (`PortsOK`), that only the current provider still has a backend, unless its
portal failed to start (`ProvidersOK`), and that a provider's portal runs until its last lease is given back and
is shared with no other provider (`PortalsOK`). Each step needs `OneCloser`
before and behind it: then two threads inside open or close of one port
are one thread (`OneInsider`), so the unlocked test-and-set of `_portal_entered` is atomic in effect. The counts are
cardinalities: each step adds one port to the holders of a provider, removes one, or leaves them.

For ports closed by their openers, `OwnersClose` says that a thread in `close()` is the port's opener, that a port in
its finalizer has none any more, and that one thread finalizes it; it is proved inductive together with `IInv`, and implies `OneCloser`.

### LinuxBackendProofs

`IInv` says which call each step belongs to (`CallsOK`), what is saved at each step (`SavedOK`) and who has
the lock (`LockOK`); it does not depend on `Exclusive`, and gives `ClosedHoldsNothing`, and `Alone` when opens are exclusive.
`DInv` adds, as long as `Alone` holds, that the device is untouched while no backend is active and that the active one
remembers every setting it has changed (`DeviceOK`), and that the line settings of the
call in progress are on the device behind `tcsetattr` (`AppliedOK`): the tuning steps come behind it
and a failed one must not have reverted it.

### WindowsPortProofs

`IInv` relates the handle to the open port and to where its open failed (`PortOK`), an
operation's state to what keeps its memory, to the end it was told and to the bytes it has read
(`OpOK`), tasks in I/O to operations (`Owned`: exactly one, of the kind of the call), and admits
one receive at a time. Every step does one of six things to operations and bytes: it keeps them,
issues an operation, frees one, leaves one behind, ends one in the kernel, or takes its packet
(`Keeps`, `Issues`, `Frees`, `Leaves`, `Ends`, `Dequeue`). For the refinement these are deliveries, losses, arrivals or stutters of
`InputStream`; its pending bytes are those of the live read followed by the driver's queue, so a
loss may come out of the middle (`MiddleLost` in `ByteSequences`). Errors are argued step by
step: the step that ends a call has the cause in its guard or gets it from `OpOK`.

### LineSettingsProofs

`ApplyIs` and `ApplyFrames` show that the builders of `termios_apply.py`, composed as each backend composes them,
leave exactly the flags of the config on any leftover settings: each builder owns its bits and touches no other's.
`ParityReadsBack` and `DcbReadsBack` do the same for reading back. `IInv` adds that a port's config has passed the
rejection and every builder, and what holds between the two ioctls of macOS (`HalfWay`): a
port is there during a `configure`, too, and a failed `IOSSIOSPEED` leaves it with the new framing, so
the properties are stated for that place as well (`PortExists`).

### MockPairProofs

`IInv` says what a plan contains that the test did not put there (`PlansOK`), that the rest of a
payload are the next bytes of its stream (`RestOK`), and that what one socket has taken is what the other end has
received, discarded or still queued (`Conserved`). A step keeps the streams, receives, sends, drops the queue or
changes plans, at one end.

### DiscoveryProofs

`IInv` gives the handles held at each place of each system's walk, each held once (`Each(S)`).

`StayInv` is for `StayedPortsListed`. `TreeOK` says that no two plugged devices share a name or a location,
and that what stayed was there when the walk began; `CallOK`, that the path the walk looks for is a name
of the device the caller asked for. About each device `d` that stays, `WalkOK` says that `d` is either listed or left to visit, that no name comes
twice in the two lists together, and that each listed entry has `d`'s name and metadata or
neither (`Right`). The hard part is the entry under construction (`Underway`): its attributes come in several steps,
between which the adapter at its place may have changed, and it is `d`'s source exactly when it has
`d`'s name. On Linux that rests on `d` keeping its location: the entry of another
device never reads from there. For the BSDs `NodesOK` says instead which patterns have
been expanded, and that each has listed `d` once.

`SortedLists` shows what the snapshots rest on: `Sorted(S)` has each element of a finite `S` once, because
the number of smaller elements is an injection into `0..Cardinality(S) - 1`, and so onto it.
`LeastNatural` is the least-number principle, from `NatLessThanWellFounded` and `WFMin`; it gives the first match.


## 7. What is only model-checked

* Liveness: `QueuedBytesAreRead`, `CloseEndsCalls`, `OutputCallsReturn`, `CancelEndsCalls`,
  `CloseEndsMethods`, `LastCloseStopsPortal`, `CallsOutliveFaults`. Fairness and `ENABLED` are out of the
  prover's reach.
* The three runs that expect a violation.

## 8. Findings and differences from the documentation

Three are runs of their own.

* **`AcloseCancelled`** – `aclose` awaits its lock outside the shield (`stream.py:558`), so a
  pending cancellation is raised before anything is closed. `docs/cancellation.md:69`:
  "`async with` exit always completes aclose even though the outer scope cancelled almost immediately."
* **`SyncDoubleClose`** – `_closed` and `_portal_entered` are tested and set without a lock
  (`sync.py:411`): two threads that close one port can return two leases and stop
  the portal under another port. `sync.py:155`: "concurrent method calls from multiple OS
  threads are serialized by the portal queue."
* **`WindowsCloseError`** – the read loop maps `OSError` only (`_windows/backend.py:240`): a
  receive that close ends raises `trio.ClosedResourceError` on Trio, or an `AssertionError`
  on asyncio if its read had just timed out. `stream.py:848`: "pending receives raise
  `anyio.ClosedResourceError`."

The models reproduce the following differences (but where noted); the properties are stated so that they
hold with them, and say where.

POSIX port
: * The BREAK teardown raises `ValueError` if the port was closed during the sleep
    (`stream.py:741`); `docs/cancellation.md:127-129` says that the error is swallowed.
  * A `configure` whose ioctl behind `tcsetattr` fails leaves the new settings on the line and the
    old ones in `port.config` (Linux `_linux/backend.py:135-137`, macOS `_darwin/backend.py:135-136`);
    `docs/runtime-reconfiguration.md:82`: "No half-applied state is visible to the caller."
    The one exception of `ConfigMatchesKernel`.
  * `configure` lets `termios.error` through (`stream.py:662`);
    `docs/runtime-reconfiguration.md:79-81`: "raises a subclass of `SerialError`".
  * `receive_available`, `input_waiting` and `output_waiting` raise a bare `OSError` on an
    unplugged device (`stream.py:629`, `:771`, `:777`; `DESIGN.md:657`).
  * `drain_exact` raises `ValueError` if the port is closed before its thread starts
    (`stream.py:716`; `DESIGN.md:658`).
  * A cancelled `drain_exact` waits for `tcdrain` (`stream.py:716`); `DESIGN.md:941`: "the
    coroutine returns promptly even if the syscall hasn't finished".
  * A release can be lost on a cancelled waiter of AnyIO's asyncio lock (`stream.py:658`;
    `docs/runtime-reconfiguration.md:109-110`).

Linux
: * Without exclusive access a second process takes tuned values for the originals and leaves
    them behind (`_linux/backend.py:245`; `docs/linux-tuning.md:57-58`).
  * `configure` ignores `low_latency` (`_linux/backend.py:135`;
    `docs/runtime-reconfiguration.md:135-139`).

Line settings
: * A refused `IOSSIOSPEED` leaves the placeholder rate and the new framing on the line
    (`_darwin/backend.py:136`, whose docstring says "The placeholder speed is never visible
    to the hardware").
  * `dtr_dsr` on POSIX raises under every policy (`_posix/termios_apply.py:269`;
    `docs/configuration.md:74`, `:98-101`).
  * Windows drops `low_latency` and `rs485` silently, under `RAISE` too
    (`docs/configuration.md:98-101`).
  * A configuration the driver rejects does not surface as `UnsupportedConfigurationError`
    on POSIX (`exceptions.py:120`; `docs/configuration.md:90`).
  * On DragonFly BREAK is refused because `_IS_BSD_FAMILY` omits it (`_posix/ioctl.py:65`)
    while the capabilities say SUPPORTED. (Seen while reading, not modelled.)
  * `docs/capabilities.md:95` lists `dtr_dsr` as UNKNOWN where the code says UNSUPPORTED.
  * On Windows `configure` asserts RTS and DTR again (`_windows/dcb.py:112`, `:119`).

Blocking wrapper
: * A second open that entered a provider whose start failed raises `AttributeError`
    (`sync.py:221`; `tests/unit/test_sync.py:253`).
  * A method of a closed port raises `RuntimeError` if its portal is gone (`sync.py:449`;
    `docs/sync.md:11-12`: "behavioural semantics are identical").
  * A `close` that times out leaves the device open (`sync.py:402`), and its time-out does
    not bound the join of the portal thread (`sync.py:413`; `:151-153`), which a `drain_exact`
    in `tcdrain` holds up until the line drains. A method that waits on
    such a port can no longer be ended and keeps the portal thread alive
    (`Stranded`, which `CloseEndsMethods` and `LastCloseStopsPortal` except).

Windows
: * asyncio ends a cancelled read without waiting for its packet, so bytes are lost
    (`_windows/_asyncio_io.py:105`; `docs/windows.md:268-272`, `docs/cancellation.md:53-55`).
  * The purge of a reset aborts another task's I/O, which reports an open port closed
    (`_windows/backend.py:309`); `ErrorsHaveCause` admits it of the purged call alone.
  * A cancelled drain waits for `FlushFileBuffers` (`_windows/backend.py:337`).
  * On asyncio `wait_modem_event` does not look at the completion status.
  * `open` keeps its handle if the registration or `SetCommMask` fails
    (`_windows/backend.py:149-159`).

Mock backend
: * `short_write_max = 0` makes a send go round at every readiness until the test lifts it
    (`_mock/backend.py:262-267`, whose comment says "so tests that ask for a zero-length write don't wedge").
  * A fault injected while a reader is parked does not wake it (`_mock/backend.py:239`).
  * The teardown of a BREAK works on a closed mock (`_mock/backend.py:290`), where a real backend raises.

Discovery
: * Linux: a device unplugged in the middle of its lookup is listed with the ids of the hub, and a
    replaced one with attributes of two devices (`_linux/discovery.py:166`, `:185`); the docstring
    at `:110-116` says such an entry is skipped.
  * Linux: a port opened by its `/dev/serial/by-id` link gets no `port_info`, because
    `resolve_port_info` looks for the link's own name in sysfs (`_linux/discovery.py:70`).
  * macOS: `find_usb_parent` releases a parent and then asks it for the next hop, and never
    releases the `idVendor` value (`_darwin/_iokit.py:264`, `:261`; `:282-284` states the discipline).
  * macOS: `find_serial_port(device="/dev/tty.x")` finds nothing, since listings have call-out
    nodes and nothing relates the two (`discovery.py:121`: "matches any name of the same port").
  * FreeBSD and NetBSD: both nodes of a device are listed, because the walk leaves out only paths it
    has seen; the comment at `_bsd/discovery.py:39-42` says "the first match wins when the same
    underlying device has multiple nodes". `StayedPortsListed` states what the code does: each node once.
  * Windows: a port without a SetupAPI interface is hidden as soon as any other is listed, and
    an enumeration of the registry by index can skip a value of a key that changes
    (`_windows/discovery.py:301`).
  * `find_serial_port` makes the wanted name canonical before the walk (`discovery.py:149`): a
    link that moves meanwhile is compared by its old node.

## 9. Not modelled

* Of **discovery**: the pyserial backend, which delegates to pyserial; the formatting of `hwid`
  and `description`; the parsing of ids and of names that no operating system produces.
* Of the **mock**: `config` and `open`, which store their arguments.
* **Windows bindings**: ctypes prototypes and constants.
* **Selector** and protocols: a decision table over `sys.platform`, and type declarations.
* `SerialConfig` validation: its result is the set of configurations that exist.
* The levels of the modem and control lines; `get_control_lines`, which nothing calls;
  `build_read_any_timeouts`, whose effect on `ReadFile` is in `WindowsPort`.
* Of **sync**: a finalizer that the collector runs on the event-loop thread itself, where
  `portal.call` and the join raise `RuntimeError`, which `__del__` suppresses (`sync.py:412-413`, `:435`).
  Finalizers of the model run in a thread of their own.
* Of **discovery**, no property says what the entry of a port that goes away during the walk contains (the
  hub's ids, or attributes of two devices); the model has it.
* The open and lock contexts of `errno_to_exception`.
* The contents of bytes, messages of errors, logging.

## 10. Plan

Done: all models and refinements of section 2, and the proofs of section 6.

Next, in order:

1. **Proofs** of what survives without the hypotheses of section 6: that a portal is never stopped twice under a
   shared close, say, or what `DeviceRestored` promises of the last backend without the lock.
2. **Composition** of `SyncPortal` with `InputStream`: what a blocking caller sees.
3. **Control lines** of `PosixPort` and `WindowsPort` as levels, with the effect of
   `configure` on them (`MockPair` has them).
4. **Open contexts** of the errno mapping, with the selector.

New properties go into the existing runs where the instance fits, so that the project keeps one
run per question.
