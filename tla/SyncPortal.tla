----------------------------- MODULE SyncPortal -----------------------------
(***************************************************************************)
(* The blocking wrapper of sync.py: operating-system threads that open,    *)
(* use and close sync SerialPorts through one process-wide portal.  A step *)
(* runs from one point where another thread can interfere to the next:     *)
(* sync.py holds _CONFIG_LOCK around the cached provider only, and the     *)
(* provider its own lock around the lease count; everything else in a port *)
(* is unlocked, so a check and the assignment behind it are two steps.     *)
(*                                                                         *)
(* AnyIO's BlockingPortalProvider and BlockingPortal are external: a       *)
(* provider counts leases, starts a portal (an event-loop thread) on the   *)
(* first and stops it after the last; a stopped portal refuses new calls   *)
(* and ends once the calls it already runs have returned.                  *)
(***************************************************************************)
EXTENDS Naturals, FiniteSets

CONSTANTS
  Threads,      \* threads of the process
  Ports,        \* sync SerialPort objects (bound: each is opened once, or
                \* again if its portal could not be entered)
  Providers,    \* BlockingPortalProvider objects (bound on how many are made)
  Backends,     \* AnyIO backend names configure_portal may be given
  None,         \* Python's None
  SharedClose,  \* threads other than the opener may call close()
  Features      \* what may happen in this instance

ASSUME NoneAssumption == None \notin Ports \cup Providers \cup Backends \cup Threads
ASSUME FeatureAssumption ==
  /\ Features \subseteq {"start_fails", "open_fails", "timeout", "configure", "del"}
  /\ SharedClose \in BOOLEAN
  /\ Backends # {} /\ IsFiniteSet(Ports)

VARIABLES
  provider, backend,  \* _provider, _provider_backend
  backendOf,          \* backendOf[q]: backend of provider q, None if not made
  hasCm,              \* hasCm[q]: q._portal_cm is not None
  portalOf,           \* portalOf[q]: q._portal, 0 if unset
  leases,             \* leases[q]: q._leases
  started,            \* number of portals started so far; they are numbered
  running, stopping,  \* portals that take calls; portals that finish theirs
  state,              \* state[p]: "unused", "opening", "open" or "failed"
  opener,             \* opener[p]: the thread that opened p
  closed, entered,    \* closed[p]: p._closed; entered[p]: p._portal_entered
  held, portal,       \* held[p]: p._provider; portal[p]: p._portal
  dev,                \* dev[p]: the async port below p holds the device
  pc, call, port,     \* where thread t is, in which method, of which port
  result,             \* result[t]: how t's current or last method ended
  ending              \* ending[t]: the portal t is shutting down

moduleVars == <<provider, backend, backendOf>>
providerVars == <<hasCm, portalOf, leases>>
portalVars == <<started, running, stopping>>
portVars == <<state, opener, closed, entered, held, portal, dev>>
threadVars == <<pc, call, port, result, ending>>
vars == <<moduleVars, providerVars, portalVars, portVars, threadVars>>

Pcs == {"idle", "enter", "discard", "dispatch", "in_portal", "tcdrain",
        "close_set", "release_check", "release_set", "exit", "stop", "join"}
Results == {"none", "ok", "RuntimeError", "StartError", "AttributeError",
            "OpenError", "TimeoutError", "Closed", "AssertionError"}

\* Every variable has its type, and a provider never has more leases than
\* there are ports.
TypeOK ==
  /\ provider \in Providers \cup {None} /\ backend \in Backends
  /\ backendOf \in [Providers -> Backends \cup {None}]
  /\ hasCm \in [Providers -> BOOLEAN]
  /\ portalOf \in [Providers -> Nat]
  /\ leases \in [Providers -> 0..Cardinality(Ports)]
  /\ started \in Nat
  /\ running \subseteq Nat /\ stopping \subseteq Nat
  /\ state \in [Ports -> {"unused", "opening", "open", "failed"}]
  /\ opener \in [Ports -> Threads \cup {None}]
  /\ closed \in [Ports -> BOOLEAN] /\ entered \in [Ports -> BOOLEAN]
  /\ held \in [Ports -> Providers \cup {None}]
  /\ portal \in [Ports -> Nat]
  /\ dev \in [Ports -> BOOLEAN]
  /\ pc \in [Threads -> Pcs]
  /\ call \in [Threads -> {"none", "open", "method", "close", "del"}]
  /\ port \in [Threads -> Ports \cup {None}]
  /\ result \in [Threads -> Results]
  /\ ending \in [Threads -> Nat]

Init ==
  /\ provider = None /\ backend = CHOOSE b \in Backends : TRUE  \* the default
  /\ backendOf = [q \in Providers |-> None]
  /\ hasCm = [q \in Providers |-> FALSE]
  /\ portalOf = [q \in Providers |-> 0]
  /\ leases = [q \in Providers |-> 0]
  /\ started = 0 /\ running = {} /\ stopping = {}
  /\ state = [p \in Ports |-> "unused"]
  /\ opener = [p \in Ports |-> None]
  /\ closed = [p \in Ports |-> FALSE]
  /\ entered = [p \in Ports |-> FALSE]
  /\ held = [p \in Ports |-> None]
  /\ portal = [p \in Ports |-> 0]
  /\ dev = [p \in Ports |-> FALSE]
  /\ pc = [t \in Threads |-> "idle"]
  /\ call = [t \in Threads |-> "none"]
  /\ port = [t \in Threads |-> None]
  /\ result = [t \in Threads |-> "none"]
  /\ ending = [t \in Threads |-> 0]

-----------------------------------------------------------------------------
Begin(t, m, p, at) ==
  /\ pc' = [pc EXCEPT ![t] = at]
  /\ call' = [call EXCEPT ![t] = m]
  /\ port' = [port EXCEPT ![t] = p]
  /\ result' = [result EXCEPT ![t] = "none"]
  /\ UNCHANGED ending

\* A thread that returns from its method forgets the port.
Goto(t, at, r) ==
  /\ pc' = [pc EXCEPT ![t] = at]
  /\ result' = [result EXCEPT ![t] = r]
  /\ call' = IF at = "idle" THEN [call EXCEPT ![t] = "none"] ELSE call
  /\ port' = IF at = "idle" THEN [port EXCEPT ![t] = None] ELSE port

\* No thread is inside a method of p.
Unused(p) == \A t \in Threads : pc[t] # "idle" => port[t] # p

-----------------------------------------------------------------------------
(* configure_portal and open *)

configure_portal(t, b) ==
  /\ "configure" \in Features /\ pc[t] = "idle"
  /\ \/ /\ provider # None
        /\ result' = [result EXCEPT ![t] = "RuntimeError"]
        /\ UNCHANGED backend
     \/ /\ provider = None
        /\ backend' = b
        /\ result' = [result EXCEPT ![t] = "ok"]
  /\ UNCHANGED <<provider, backendOf, providerVars, portalVars, portVars, pc,
                 call, port, ending>>

\* _get_provider: the cached provider q, or a new one.
_get_provider(q) ==
  \/ provider = q /\ UNCHANGED <<provider, backendOf>>
  \/ /\ provider = None /\ backendOf[q] = None
     /\ provider' = q
     /\ backendOf' = [backendOf EXCEPT ![q] = backend]

open(t, p, q) ==
  /\ pc[t] = "idle" /\ state[p] = "unused"
  /\ _get_provider(q)
  /\ Begin(t, "open", p, "enter")
  /\ state' = [state EXCEPT ![p] = "opening"]
  /\ opener' = [opener EXCEPT ![p] = t]
  /\ held' = [held EXCEPT ![p] = q]
  /\ UNCHANGED <<backend, providerVars, portalVars, closed, entered, portal, dev>>

\* BlockingPortalProvider.__enter__ (external), under the provider's lock.
\* A portal that fails to start leaves _portal_cm set and _portal unset; the
\* next entry takes a lease and then fails on the missing attribute.
provider_enter(t) ==
  LET q == held[port[t]]
      enter(k) == /\ leases' = [leases EXCEPT ![q] = @ + 1]
                  /\ portal' = [portal EXCEPT ![port[t]] = k]
                  /\ Goto(t, "dispatch", "none")
  IN  /\ pc[t] = "enter"
      /\ \/ /\ ~hasCm[q]
            /\ hasCm' = [hasCm EXCEPT ![q] = TRUE]
            /\ started' = started + 1
            /\ portalOf' = [portalOf EXCEPT ![q] = started + 1]
            /\ running' = running \cup {started + 1}
            /\ enter(started + 1)
         \/ /\ ~hasCm[q] /\ "start_fails" \in Features
            /\ hasCm' = [hasCm EXCEPT ![q] = TRUE]
            /\ Goto(t, "discard", "StartError")
            /\ UNCHANGED <<portalOf, leases, started, running, portal>>
         \/ /\ hasCm[q] /\ portalOf[q] # 0
            /\ enter(portalOf[q])
            /\ UNCHANGED <<hasCm, portalOf, started, running>>
         \/ /\ hasCm[q] /\ portalOf[q] = 0
            /\ leases' = [leases EXCEPT ![q] = @ + 1]
            /\ Goto(t, "discard", "AttributeError")
            /\ UNCHANGED <<hasCm, portalOf, started, running, portal>>
      /\ UNCHANGED <<moduleVars, stopping, state, opener, closed, entered,
                     held, dev, ending>>

\* Definitions named Bad... are faulty variants; the specification uses none
\* of them.  Here: enters the same broken provider again.
BadRetry_discard_provider(t) ==
  /\ pc[t] = "discard"
  /\ Goto(t, "enter", result[t])
  /\ UNCHANGED <<moduleVars, providerVars, portalVars, portVars, ending>>

\* Faulty: clears the cache even if it holds another provider by now.
BadClear_discard_provider(t) ==
  /\ pc[t] = "discard"
  /\ provider' = None
  /\ Goto(t, "idle", result[t])
  /\ state' = [state EXCEPT ![port[t]] = "unused"]
  /\ held' = [held EXCEPT ![port[t]] = None]
  /\ opener' = [opener EXCEPT ![port[t]] = None]
  /\ UNCHANGED <<backend, backendOf, providerVars, portalVars, closed, entered,
                 portal, dev, ending>>

\* The open fails with the error of the entry; no port object is left, so its
\* name may be used for a new one.
_discard_provider(t) ==
  /\ pc[t] = "discard"
  /\ provider' = IF provider = held[port[t]] THEN None ELSE provider
  /\ Goto(t, "idle", result[t])
  /\ state' = [state EXCEPT ![port[t]] = "unused"]
  /\ held' = [held EXCEPT ![port[t]] = None]
  /\ opener' = [opener EXCEPT ![port[t]] = None]
  /\ UNCHANGED <<backend, backendOf, providerVars, portalVars, closed, entered,
                 portal, dev, ending>>

-----------------------------------------------------------------------------
(* _run and _call_with_timeout: a call crosses to the portal thread *)

\* Where a method goes on when its portal call has failed or returned.
After(m) == CASE m = "open"   -> "exit"
              [] m = "method" -> "idle"
              [] OTHER        -> "release_check"

\* Faulty: waits for a portal that does not run.
Bad_run(t) ==
  /\ pc[t] = "dispatch"
  /\ portal[port[t]] \in running
  /\ Goto(t, "in_portal", "none")
  /\ UNCHANGED <<moduleVars, providerVars, portalVars, portVars, ending>>

\* portal.call: a portal that does not run raises RuntimeError.
_run(t) ==
  /\ pc[t] = "dispatch"
  /\ \/ /\ portal[port[t]] \in running
        /\ Goto(t, "in_portal", "none")
     \/ /\ portal[port[t]] \notin running
        /\ Goto(t, After(call[t]), "RuntimeError")
  /\ UNCHANGED <<moduleVars, providerVars, portalVars, portVars, ending>>

\* Faulty: a failed open does not leave the provider.
BadOpenReturns(t) ==
  /\ pc[t] = "in_portal" /\ call[t] = "open"
  /\ LET p == port[t]
     IN  \/ /\ Goto(t, "idle", "ok")
            /\ state' = [state EXCEPT ![p] = "open"]
            /\ entered' = [entered EXCEPT ![p] = TRUE]
            /\ dev' = [dev EXCEPT ![p] = TRUE]
         \/ /\ "open_fails" \in Features
            /\ Goto(t, "idle", "OpenError")
            /\ state' = [state EXCEPT ![p] = "failed"]
            /\ UNCHANGED <<entered, dev>>
  /\ UNCHANGED <<moduleVars, providerVars, portalVars, opener, closed, held,
                 portal, ending>>

\* The async open_serial_port has returned or raised (TimeoutError included).
OpenReturns(t) ==
  /\ pc[t] = "in_portal" /\ call[t] = "open"
  /\ LET p == port[t]
     IN  \/ /\ Goto(t, "idle", "ok")
            /\ state' = [state EXCEPT ![p] = "open"]
            /\ entered' = [entered EXCEPT ![p] = TRUE]
            /\ dev' = [dev EXCEPT ![p] = TRUE]
         \/ /\ "open_fails" \in Features
            /\ Goto(t, "exit", "OpenError")
            /\ UNCHANGED <<state, entered, dev>>
  /\ UNCHANGED <<moduleVars, providerVars, portalVars, opener, closed, held,
                 portal, ending>>

\* Any blocking method other than close; it may wait for the device.
method(t, p) ==
  /\ pc[t] = "idle" /\ state[p] = "open" /\ opener[p] # None
  /\ Begin(t, "method", p, "dispatch")
  /\ UNCHANGED <<moduleVars, providerVars, portalVars, portVars>>

\* Faulty: a timeout gives up the portal.
BadMethodReturns(t) ==
  /\ pc[t] = "in_portal" /\ call[t] = "method" /\ dev[port[t]]
  /\ \/ Goto(t, "idle", "ok")
     \/ "timeout" \in Features /\ Goto(t, "release_check", "TimeoutError")
  /\ UNCHANGED <<moduleVars, providerVars, portalVars, portVars, ending>>

MethodReturns(t) ==
  /\ pc[t] = "in_portal" /\ call[t] = "method" /\ dev[port[t]]
  /\ \/ Goto(t, "idle", "ok")
     \/ "timeout" \in Features /\ Goto(t, "idle", "TimeoutError")
  /\ UNCHANGED <<moduleVars, providerVars, portalVars, portVars, ending>>

\* drain_exact: the event loop has handed the call to a worker thread, which
\* sits in tcdrain for as long as flow control holds the line.
DrainBlocks(t) ==
  /\ pc[t] = "in_portal" /\ call[t] = "method" /\ dev[port[t]]
  /\ Goto(t, "tcdrain", "none")
  /\ UNCHANGED <<moduleVars, providerVars, portalVars, portVars, ending>>

\* The line drains.  A timeout and a close of the port come no sooner: the wait
\* for the worker thread is shielded, and closing the descriptor does not end
\* the system call.
TcdrainReturns(t) ==
  /\ pc[t] = "tcdrain"
  /\ \/ Goto(t, "idle", "ok")
     \/ "timeout" \in Features /\ Goto(t, "idle", "TimeoutError")
  /\ UNCHANGED <<moduleVars, providerVars, portalVars, portVars, ending>>

\* The async port is closed: a parked call is woken, a new one is refused.
MethodFindsClosed(t) ==
  /\ pc[t] = "in_portal" /\ call[t] = "method" /\ ~dev[port[t]]
  /\ Goto(t, "idle", "Closed")
  /\ UNCHANGED <<moduleVars, providerVars, portalVars, portVars, ending>>

-----------------------------------------------------------------------------
(* close, __del__ and _release_portal *)

MayClose(t, p) == state[p] = "open" /\ (SharedClose \/ opener[p] = t)

close(t, p) ==
  /\ pc[t] = "idle" /\ MayClose(t, p) /\ opener[p] # None
  /\ \/ closed[p] /\ Goto(t, "idle", "ok") /\ UNCHANGED ending
     \/ ~closed[p] /\ Begin(t, "close", p, "close_set")
  /\ UNCHANGED <<moduleVars, providerVars, portalVars, portVars>>

\* The collector finds p unreachable: nobody has an opener's reference to it.
__del__(t, p) ==
  /\ "del" \in Features /\ pc[t] = "idle"
  /\ state[p] = "open" /\ opener[p] # None /\ Unused(p)
  /\ opener' = [opener EXCEPT ![p] = None]
  /\ \/ closed[p] /\ Goto(t, "idle", "ok") /\ UNCHANGED ending
     \/ ~closed[p] /\ Begin(t, "del", p, "close_set")
  /\ UNCHANGED <<moduleVars, providerVars, portalVars, state, closed, entered,
                 held, portal, dev>>

CloseSet(t) ==
  /\ pc[t] = "close_set"
  /\ closed' = [closed EXCEPT ![port[t]] = TRUE]
  /\ Goto(t, "dispatch", "none")
  /\ UNCHANGED <<moduleVars, providerVars, portalVars, state, opener, entered,
                 held, portal, dev, ending>>

\* aclose on the portal; a timeout cancels it before it closes anything.
CloseReturns(t) ==
  /\ pc[t] = "in_portal" /\ call[t] \in {"close", "del"}
  /\ \/ /\ dev' = [dev EXCEPT ![port[t]] = FALSE]
        /\ Goto(t, "release_check", "ok")
     \/ /\ "timeout" \in Features /\ call[t] = "close"
        /\ Goto(t, "release_check", "TimeoutError")
        /\ UNCHANGED dev
  /\ UNCHANGED <<moduleVars, providerVars, portalVars, state, opener, closed,
                 entered, held, portal, ending>>

\* _release_portal: the check and the assignment are not under a lock.
_release_portal(t) ==
  /\ \/ /\ pc[t] = "release_check"
        /\ Goto(t, IF entered[port[t]] THEN "release_set" ELSE "idle", result[t])
        /\ UNCHANGED entered
     \/ /\ pc[t] = "release_set"
        /\ entered' = [entered EXCEPT ![port[t]] = FALSE]
        /\ Goto(t, "exit", result[t])
  /\ UNCHANGED <<moduleVars, providerVars, portalVars, state, opener, closed,
                 held, portal, dev, ending>>

\* A failed open leaves its port behind when it has given its lease back.
GiveUp(t, at) ==
  state' = IF call[t] = "open" /\ at = "idle"
           THEN [state EXCEPT ![port[t]] = "failed"] ELSE state

\* Faulty: forgets the portal instead of stopping it.
BadProvider_exit(t) ==
  LET q == held[port[t]]
  IN  /\ pc[t] = "exit" /\ hasCm[q] /\ leases[q] > 0
      /\ leases' = [leases EXCEPT ![q] = @ - 1]
      /\ hasCm' = [hasCm EXCEPT ![q] = leases[q] > 1]
      /\ portalOf' = [portalOf EXCEPT ![q] = IF leases[q] > 1 THEN @ ELSE 0]
      /\ Goto(t, "idle", result[t]) /\ GiveUp(t, "idle")
      /\ UNCHANGED <<moduleVars, portalVars, opener, closed, entered, held,
                     portal, dev, ending>>

\* BlockingPortalProvider.__exit__ (external): the count under the lock, the
\* shutdown behind it.  Its assertions fail when there is no lease to return.
provider_exit(t) ==
  LET q == held[port[t]]
  IN  /\ pc[t] = "exit"
      /\ \/ /\ ~(hasCm[q] /\ leases[q] > 0)
            /\ Goto(t, "idle", IF call[t] = "open" THEN "AssertionError"
                                                   ELSE result[t])
            /\ GiveUp(t, "idle")
            /\ UNCHANGED <<providerVars, ending>>
         \/ /\ hasCm[q] /\ leases[q] > 1
            /\ leases' = [leases EXCEPT ![q] = @ - 1]
            /\ Goto(t, "idle", result[t]) /\ GiveUp(t, "idle")
            /\ UNCHANGED <<hasCm, portalOf, ending>>
         \/ /\ hasCm[q] /\ leases[q] = 1
            /\ leases' = [leases EXCEPT ![q] = 0]
            /\ hasCm' = [hasCm EXCEPT ![q] = FALSE]
            /\ portalOf' = [portalOf EXCEPT ![q] = 0]
            /\ ending' = [ending EXCEPT ![t] = portalOf[q]]
            /\ Goto(t, "stop", result[t]) /\ GiveUp(t, "stop")
      /\ UNCHANGED <<moduleVars, portalVars, opener, closed, entered, held,
                     portal, dev>>

\* The portal takes no further calls ...
StopPortal(t) ==
  /\ pc[t] = "stop"
  /\ running' = running \ {ending[t]}
  /\ stopping' = stopping \cup {ending[t]}
  /\ Goto(t, "join", result[t])
  /\ UNCHANGED <<moduleVars, providerVars, started, portVars, ending>>

\* ... and its thread ends when the calls it runs have returned.
JoinPortal(t) ==
  /\ pc[t] = "join"
  /\ \A u \in Threads : pc[u] \in {"in_portal", "tcdrain"}
                         => portal[port[u]] # ending[t]
  /\ stopping' = stopping \ {ending[t]}
  /\ ending' = [ending EXCEPT ![t] = 0]
  /\ Goto(t, "idle", result[t]) /\ GiveUp(t, "idle")
  /\ UNCHANGED <<moduleVars, providerVars, started, running, opener, closed,
                 entered, held, portal, dev>>

\* What a thread does by itself once it is inside a method.
Proceed(t) ==
  \/ provider_enter(t) \/ _discard_provider(t) \/ _run(t) \/ OpenReturns(t)
  \/ MethodFindsClosed(t) \/ CloseSet(t) \/ CloseReturns(t)
  \/ _release_portal(t) \/ provider_exit(t) \/ StopPortal(t) \/ JoinPortal(t)

Invoke(t) ==
  \/ \E b \in Backends : configure_portal(t, b)
  \/ \E p \in Ports, q \in Providers : open(t, p, q)
  \/ \E p \in Ports : method(t, p) \/ close(t, p) \/ __del__(t, p)

\* What waits for the device.
Wait(t) == MethodReturns(t) \/ DrainBlocks(t) \/ TcdrainReturns(t)

Next == \E t \in Threads : Invoke(t) \/ Proceed(t) \/ Wait(t)

Spec == Init /\ [][Next]_vars

-----------------------------------------------------------------------------
(* Properties *)

\* A port between a successful open() and its first close().
Usable(p) ==
  /\ state[p] = "open" /\ ~closed[p]

\* p holds a lease: it is being opened behind __enter__, or it is open and
\* has not yet called __exit__.
HoldsLease(p) ==
  \/ /\ state[p] = "opening"
     /\ \E t \in Threads : /\ port[t] = p /\ call[t] = "open"
                           /\ pc[t] \in {"dispatch", "in_portal", "exit"}
  \/ /\ state[p] = "open"
     /\ \/ entered[p]
        \/ \E t \in Threads : port[t] = p /\ pc[t] = "exit"

\* The provider's count is the number of ports that will still give a lease
\* back, through failed opens, timeouts, double closes by one thread and the
\* finalizer.  (A provider whose portal failed to start is abandoned.)
LeasesExact ==
  \A q \in Providers :
    portalOf[q] # 0 \/ ~hasCm[q]
      => leases[q] = Cardinality({p \in Ports : held[p] = q /\ HoldsLease(p)})

\* A port that is open can reach its event loop, all open ports share it, and
\* it runs the configured backend: no close of another port, no failed open and
\* no discarded provider takes the portal away, and configure_portal can never
\* change the backend under an open port.
OpenPortsAreServed ==
  \A p \in Ports : Usable(p) =>
    /\ portal[p] \in running
    /\ \A u \in Ports : Usable(u) => portal[u] = portal[p]
    /\ backendOf[held[p]] = backend

\* The operating-system thread that runs each portal is stopped by exactly
\* one thread, and no portal takes calls that nobody has a lease on, except
\* the one that is about to be stopped.
PortalsAccounted ==
  /\ \A t, u \in Threads : ending[t] # 0 /\ ending[t] = ending[u] => t = u
  /\ \A k \in running \cup stopping :
       \/ \E q \in Providers : portalOf[q] = k /\ leases[q] > 0
       \/ \E t \in Threads : ending[t] = k

\* Threads are scheduled, and the event loop completes an open and an aclose
\* by itself and wakes the calls parked on a closed port.  Nothing makes a
\* method that waits for data return, or a tcdrain whose line is held.
Fairness == \A t \in Threads : WF_vars(Proceed(t))
FairSpec == Spec /\ Fairness

\* p was closed by a close() that timed out: its device is still open.
LeftOpen(p) ==
  /\ closed[p] /\ dev[p]
  /\ \A t \in Threads : port[t] = p /\ call[t] \in {"close", "del"}
                       => pc[t] \notin {"dispatch", "in_portal"}

\* t is in a call that no close can end: its worker thread sits in tcdrain, or
\* it waits for a device that a timed-out close has left open.
Stranded(t) ==
  \/ pc[t] = "tcdrain"
  \/ pc[t] = "in_portal" /\ call[t] = "method" /\ LeftOpen(port[t])

\* A close ends every call on its port, in whichever thread, and returns, even
\* though the portal behind them is shut down.  Two calls it does not end: a
\* drain_exact that sits in tcdrain, and the close() itself that gave the last
\* lease back and now joins a portal which such a drain_exact, or a call that a
\* timed-out close has stranded, keeps alive.
CloseEndsMethods ==
  \A t \in Threads :
    pc[t] # "idle" /\ state[port[t]] = "open" /\ ~dev[port[t]]
      ~> \/ pc[t] \in {"idle", "tcdrain"}
         \/ /\ pc[t] = "join"
            /\ \E u \in Threads : Stranded(u) /\ portal[port[u]] = ending[t]

\* When every port is closed and no open is in flight, the event-loop thread
\* goes away (or a new open comes).  A close that timed out has marked its port
\* closed and gives its lease back all the same, so it does not keep the thread
\* either; only a call of that portal that no close can end does.
LastCloseStopsPortal ==
  (\A q \in Providers : leases[q] = 0)
    ~> \/ running \cup stopping = {}
       \/ \E q \in Providers : leases[q] > 0
       \/ \E t \in Threads : /\ Stranded(t)
                             /\ portal[port[t]] \in running \cup stopping
=============================================================================
