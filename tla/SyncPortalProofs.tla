-------------------------- MODULE SyncPortalProofs --------------------------
(***************************************************************************)
(* The threads of SyncPortal as long as no two of them close the same port *)
(* at once: lease counts are exact, open ports are served, portals are     *)
(* accounted for.  Two never do when every port is closed by the thread    *)
(* that opened it (SharedClose = FALSE; the finalizer closes the others).  *)
(***************************************************************************)
EXTENDS SyncPortal, FiniteSetTheorems, TLAPS

\* TypeOK by kind of variable, with a number of leases that is not bounded.
ProviderTypes ==
  /\ provider \in Providers \cup {None} /\ backend \in Backends
  /\ backendOf \in [Providers -> Backends \cup {None}]
  /\ hasCm \in [Providers -> BOOLEAN]
  /\ portalOf \in [Providers -> Nat]
  /\ leases \in [Providers -> Nat]

PortalTypes ==
  /\ started \in Nat
  /\ running \subseteq 1..started /\ stopping \subseteq 1..started

PortTypes ==
  /\ state \in [Ports -> {"unused", "opening", "open", "failed"}]
  /\ opener \in [Ports -> Threads \cup {None}]
  /\ closed \in [Ports -> BOOLEAN] /\ entered \in [Ports -> BOOLEAN]
  /\ held \in [Ports -> Providers \cup {None}]
  /\ portal \in [Ports -> Nat]
  /\ dev \in [Ports -> BOOLEAN]

ThreadTypes ==
  /\ pc \in [Threads -> Pcs]
  /\ call \in [Threads -> {"none", "open", "method", "close", "del"}]
  /\ port \in [Threads -> Ports \cup {None}]
  /\ result \in [Threads -> Results]
  /\ ending \in [Threads -> Nat]

Typed == ProviderTypes /\ PortalTypes /\ PortTypes /\ ThreadTypes

OpenPcs  == {"enter", "discard", "dispatch", "in_portal", "exit", "stop", "join"}
ClosePcs == {"close_set", "dispatch", "in_portal", "release_check",
             "release_set", "exit", "stop", "join"}
Closers  == {"close", "del"}

\* Where a thread may be in each method, and what it may count on about its
\* port.
InOpen(t) ==
  /\ pc[t] \in OpenPcs
  /\ state[port[t]] = "opening" /\ opener[port[t]] = t

InMethod(t) ==
  /\ pc[t] \in {"dispatch", "in_portal", "tcdrain"}
  /\ state[port[t]] = "open"

InClose(t) ==
  /\ pc[t] \in ClosePcs /\ state[port[t]] = "open"
  /\ closed[port[t]] <=> pc[t] # "close_set"
  /\ entered[port[t]] <=> pc[t] \notin {"exit", "stop", "join"}

Places ==
  \A t \in Threads :
    /\ pc[t] = "idle" <=> call[t] = "none"
    /\ pc[t] = "idle" <=> port[t] = None
    /\ call[t] = "open" => InOpen(t)
    /\ call[t] = "method" => InMethod(t)
    /\ call[t] \in Closers => InClose(t)

\* No two threads are in close() or in the finalizer of the same port.  Nothing
\* in sync.py sees to it: the check of _closed and the assignment behind it are
\* two steps.
OneCloser ==
  \A t, u \in Threads :
    call[t] \in Closers /\ call[u] \in Closers /\ port[t] = port[u] => t = u

PortsOK ==
  \A p \in Ports :
    /\ state[p] # "open" => ~entered[p] /\ ~closed[p]
    /\ state[p] = "open" /\ ~closed[p] => entered[p]
    /\ state[p] \in {"opening", "open"} =>
         held[p] \in Providers /\ backendOf[held[p]] # None

\* A provider whose portal failed to start; it never recovers.
Broken(q) == hasCm[q] /\ portalOf[q] = 0

Lessees(q) == {p \in Ports : held[p] = q /\ HoldsLease(p)}

ProvidersOK ==
  /\ \A q \in Providers :
       /\ ~hasCm[q] => portalOf[q] = 0 /\ leases[q] = 0
       /\ portalOf[q] # 0 => leases[q] > 0
       /\ backendOf[q] # None => q = provider \/ Broken(q)
  /\ provider # None => backendOf[provider] = backend
  /\ \A t \in Threads : pc[t] = "discard" => Broken(held[port[t]])

PortalsOK ==
  /\ \A q \in Providers : portalOf[q] # 0 => portalOf[q] \in running
  /\ \A p \in Ports : HoldsLease(p) =>
       portal[p] = portalOf[held[p]] /\ portalOf[held[p]] # 0
  /\ \A q, r \in Providers : portalOf[q] # 0 /\ portalOf[q] = portalOf[r] => q = r
  /\ \A t \in Threads :
       /\ ending[t] # 0 <=> pc[t] \in {"stop", "join"}
       /\ ending[t] # 0 => /\ ending[t] \in 1..started
                           /\ \A q \in Providers : portalOf[q] # ending[t]
       /\ pc[t] = "join" => ending[t] \notin running
  /\ PortalsAccounted

IInv ==
  /\ Typed /\ Places /\ OneCloser /\ PortsOK
  /\ ProvidersOK /\ PortalsOK /\ LeasesExact

\* Two threads that open or close the same port are one thread.
LEMMA OneInsider ==
  ASSUME Typed, Places, OneCloser, NEW t \in Threads, NEW u \in Threads,
         port[t] = port[u], pc[t] # "idle", pc[u] # "idle",
         call[t] # "method", call[u] # "method"
  PROVE  t = u
<1>1. /\ port[t] \in Ports
      /\ call[t] \in {"open", "close", "del"} /\ call[u] \in {"open", "close", "del"}
  BY DEF Typed, ThreadTypes, Places
<1>2. CASE call[t] = "open" \/ call[u] = "open"
  BY <1>1, <1>2 DEF Places, InOpen, InClose, Closers
<1>3. CASE call[t] # "open" /\ call[u] # "open"
  BY <1>1, <1>3 DEF OneCloser, Closers
<1> QED
  BY <1>2, <1>3

\* Only the acting thread moves.
OthersStay(t) ==
  \A u \in Threads : u # t =>
    /\ pc'[u] = pc[u] /\ call'[u] = call[u] /\ port'[u] = port[u]
    /\ ending'[u] = ending[u]

ThreadActions(t) == Invoke(t) \/ Proceed(t) \/ Wait(t)

\* The actions by kind.
OpenActions(t) ==
  \/ \E p \in Ports, q \in Providers : open(t, p, q)
  \/ provider_enter(t) \/ _discard_provider(t) \/ OpenReturns(t)

MethodActions(t) ==
  \/ \E p \in Ports : method(t, p)
  \/ MethodReturns(t) \/ DrainBlocks(t) \/ TcdrainReturns(t)
  \/ MethodFindsClosed(t)

CloseActions(t) ==
  \/ \E p \in Ports : close(t, p) \/ __del__(t, p)
  \/ CloseSet(t) \/ CloseReturns(t) \/ _release_portal(t)

ExitActions(t) == provider_exit(t) \/ StopPortal(t) \/ JoinPortal(t)

\* Every step of a thread is of one of these kinds.
LEMMA ThreadKinds ==
  ASSUME NEW t, ThreadActions(t)
  PROVE  \/ OpenActions(t) \/ MethodActions(t) \/ CloseActions(t)
         \/ ExitActions(t) \/ _run(t)
         \/ \E b \in Backends : configure_portal(t, b)
BY Zenon DEF ThreadActions, Invoke, Proceed, Wait, OpenActions, MethodActions,
   CloseActions, ExitActions

\* The other threads stay where they are.
LEMMA OthersUntouched ==
  ASSUME Typed, NEW t \in Threads, ThreadActions(t)
  PROVE  OthersStay(t)
<1> USE DEF Typed, ThreadTypes, OthersStay, Goto, Begin, threadVars
<1>1. CASE OpenActions(t)
  BY <1>1 DEF OpenActions, open, provider_enter, _discard_provider, OpenReturns
<1>2. CASE MethodActions(t)
  BY <1>2 DEF MethodActions, method, MethodReturns, DrainBlocks,
     TcdrainReturns, MethodFindsClosed
<1>3. CASE CloseActions(t)
  BY <1>3 DEF CloseActions, close, __del__, CloseSet, CloseReturns, _release_portal
<1>4. CASE ExitActions(t)
  BY <1>4 DEF ExitActions, provider_exit, StopPortal, JoinPortal
<1>5. CASE _run(t) \/ \E b \in Backends : configure_portal(t, b)
  BY <1>5 DEF _run, configure_portal
<1> QED
  BY <1>1, <1>2, <1>3, <1>4, <1>5, ThreadKinds

\* What a thread that is inside a method knows about its port.
LEMMA Inside ==
  ASSUME Typed, Places, PortsOK, NEW t \in Threads, pc[t] # "idle"
  PROVE  /\ port[t] \in Ports /\ held[port[t]] \in Providers
         /\ backendOf[held[port[t]]] # None
         /\ call[t] \in {"open", "method", "close", "del"}
         /\ pc[t] \in {"enter", "discard"} => call[t] = "open"
         /\ pc[t] = "close_set" => call[t] \in Closers
         /\ pc[t] \in {"release_check", "release_set"} => call[t] \in Closers
         /\ pc[t] \in {"exit", "stop", "join"} => call[t] \in {"open"} \cup Closers
<1>1. port[t] \in Ports /\ call[t] \in {"open", "method", "close", "del"}
  BY DEF Typed, ThreadTypes, Places
<1>2. state[port[t]] \in {"opening", "open"}
  BY <1>1 DEF Places, InOpen, InMethod, InClose, Closers
<1>3. held[port[t]] \in Providers /\ backendOf[held[port[t]]] # None
  BY <1>1, <1>2 DEF PortsOK
<1> QED
  BY <1>1, <1>3 DEF Places, InOpen, InMethod, InClose, Closers, OpenPcs, ClosePcs

-----------------------------------------------------------------------------
(* Types *)

\* Entering, leaving and going on inside a method keep the types of a thread.
LEMMA GotoTyped ==
  ASSUME ThreadTypes, NEW t \in Threads, NEW at \in Pcs, NEW r \in Results,
         Goto(t, at, r), ending' \in [Threads -> Nat]
  PROVE  ThreadTypes'
BY DEF ThreadTypes, Goto

LEMMA BeginTyped ==
  ASSUME ThreadTypes, NEW t \in Threads, NEW at \in Pcs, NEW p \in Ports,
         NEW m \in {"open", "method", "close", "del"}, Begin(t, m, p, at)
  PROVE  ThreadTypes'
BY DEF ThreadTypes, Begin, Results

\* Every step keeps the types of the threads.
LEMMA ThreadTypesStep ==
  ASSUME IInv, NEW t \in Threads, ThreadActions(t)
  PROVE  ThreadTypes'
<1>1. Typed /\ Places /\ PortsOK /\ ThreadTypes /\ ProviderTypes /\ ending \in [Threads -> Nat]
  BY DEF IInv, Typed, ThreadTypes
<1>2. ASSUME UNCHANGED ending, \E at \in Pcs, r \in Results : Goto(t, at, r)
      PROVE  ThreadTypes'
  BY <1>1, <1>2, GotoTyped
<1> USE <1>1 DEF threadVars
<1>3. result[t] \in Results
  BY DEF ThreadTypes
<1>4. CASE OpenActions(t)
  <2>1. CASE \E p \in Ports, q \in Providers : open(t, p, q)
    BY <2>1, BeginTyped DEF open, Pcs
  <2>2. CASE provider_enter(t)
    <3>1. UNCHANGED ending /\ \/ Goto(t, "dispatch", "none")
                              \/ Goto(t, "discard", "StartError")
                              \/ Goto(t, "discard", "AttributeError")
      BY <2>2 DEF provider_enter
    <3> QED
      BY <1>2, <3>1, Zenon DEF Pcs, Results
  <2>3. CASE _discard_provider(t)
    BY <1>2, <1>3, <2>3 DEF _discard_provider, Pcs
  <2>4. CASE OpenReturns(t)
    BY <1>2, <2>4, Zenon DEF OpenReturns, Pcs, Results
  <2> QED
    BY <1>4, <2>1, <2>2, <2>3, <2>4 DEF OpenActions
<1>5. CASE MethodActions(t)
  <2>1. CASE \E p \in Ports : method(t, p)
    BY <2>1, BeginTyped DEF method, Pcs
  <2>2. CASE \/ MethodReturns(t) \/ DrainBlocks(t) \/ TcdrainReturns(t)
            \/ MethodFindsClosed(t)
    BY <1>2, <2>2, Zenon DEF MethodReturns, DrainBlocks, TcdrainReturns,
       MethodFindsClosed, Pcs, Results
  <2> QED
    BY <1>5, <2>1, <2>2 DEF MethodActions
<1>6. CASE CloseActions(t)
  <2>1. CASE \E p \in Ports : close(t, p) \/ __del__(t, p)
    <3>1. PICK p \in Ports : close(t, p) \/ __del__(t, p)
      BY <2>1
    <3>2. \/ Begin(t, "close", p, "close_set") \/ Begin(t, "del", p, "close_set")
          \/ UNCHANGED ending /\ Goto(t, "idle", "ok")
      BY <3>1 DEF close, __del__
    <3>3. ASSUME Goto(t, "idle", "ok"), UNCHANGED ending PROVE ThreadTypes'
      BY <1>2, <3>3, Zenon DEF Pcs, Results
    <3>4. "close_set" \in Pcs
      BY DEF Pcs
    <3> QED
      BY <3>2, <3>3, <3>4, BeginTyped
  <2>2. CASE CloseSet(t)
    BY <1>2, <2>2, Zenon DEF CloseSet, Pcs, Results
  <2>3. CASE CloseReturns(t)
    BY <1>2, <2>3, Zenon DEF CloseReturns, Pcs, Results
  <2>4. CASE _release_portal(t)
    <3>1. UNCHANGED ending /\ \/ Goto(t, "release_set", result[t])
                              \/ Goto(t, "idle", result[t])
                              \/ Goto(t, "exit", result[t])
      BY <2>4 DEF _release_portal
    <3> QED
      BY <1>2, <1>3, <3>1, Zenon DEF Pcs
  <2> QED
    BY <1>6, <2>1, <2>2, <2>3, <2>4 DEF CloseActions
<1>7. CASE ExitActions(t)
  <2>1. CASE provider_exit(t)
    <3>1. held[port[t]] \in Providers
      BY <2>1, Inside DEF provider_exit
    <3>2. ending' \in [Threads -> Nat]
      BY <2>1, <3>1 DEF provider_exit, ThreadTypes, ProviderTypes
    <3>3. \E at \in {"idle", "stop"}, r \in {result[t], "AssertionError"} :
            Goto(t, at, r)
      BY <2>1 DEF provider_exit
    <3> QED
      BY <1>3, <3>2, <3>3, GotoTyped DEF Pcs, Results
  <2>2. CASE StopPortal(t)
    BY <1>2, <1>3, <2>2, Zenon DEF StopPortal, Pcs
  <2>3. CASE JoinPortal(t)
    <3>1. Goto(t, "idle", result[t]) /\ "idle" \in Pcs
      BY <2>3 DEF JoinPortal, Pcs
    <3>2. ending' \in [Threads -> Nat]
      BY <2>3 DEF JoinPortal, ThreadTypes
    <3> QED
      BY <1>3, <3>1, <3>2, GotoTyped
  <2> QED
    BY <1>7, <2>1, <2>2, <2>3 DEF ExitActions
<1>8. CASE _run(t)
  BY <1>2, <1>8, Zenon DEF _run, After, Pcs, Results
<1>9. CASE \E b \in Backends : configure_portal(t, b)
  BY <1>9 DEF configure_portal, ThreadTypes, Results
<1> QED
  BY <1>4, <1>5, <1>6, <1>7, <1>8, <1>9, ThreadKinds

\* Every step keeps the types.
LEMMA TypedStep ==
  ASSUME IInv, NEW t \in Threads, ThreadActions(t)
  PROVE  Typed'
<1>1. Typed /\ Places /\ PortsOK /\ PortalsOK
  BY DEF IInv
<1>2. ThreadTypes'
  BY ThreadTypesStep
<1> USE <1>1 DEF Typed, moduleVars, providerVars, portalVars, portVars
<1>3. CASE OpenActions(t)
  <2>1. CASE \E p \in Ports, q \in Providers : open(t, p, q)
    BY <1>2, <2>1 DEF open, _get_provider, ProviderTypes, PortTypes, PortalTypes
  <2>2. CASE provider_enter(t)
    <3>1. held[port[t]] \in Providers /\ port[t] \in Ports
      BY <2>2, Inside DEF provider_enter
    <3>2. PortTypes'
      BY <2>2, <3>1 DEF provider_enter, PortTypes, PortalTypes, ProviderTypes
    <3>3. PortalTypes'
      <4>1. \/ UNCHANGED <<started, running>>
            \/ started' = started + 1 /\ running' = running \cup {started + 1}
        BY <2>2 DEF provider_enter
      <4>2. UNCHANGED stopping
        BY <2>2 DEF provider_enter
      <4>3. started \in Nat /\ running \subseteq 1..started /\ stopping \subseteq 1..started
        BY DEF PortalTypes
      <4>4. 1..(started + 1) = (1..started) \cup {started + 1} /\ started + 1 \in Nat
        BY <4>3
      <4> QED
        BY <4>1, <4>2, <4>3, <4>4 DEF PortalTypes
    <3>4. ProviderTypes'
      <4> DEFINE q == held[port[t]]
      <4>1. UNCHANGED <<provider, backend, backendOf>>
        BY <2>2 DEF provider_enter
      <4>2. hasCm' = hasCm \/ hasCm' = [hasCm EXCEPT ![q] = TRUE]
        BY <2>2, Zenon DEF provider_enter
      <4>3. portalOf' = portalOf \/ portalOf' = [portalOf EXCEPT ![q] = started + 1]
        BY <2>2, Zenon DEF provider_enter
      <4>4. leases' = leases \/ leases' = [leases EXCEPT ![q] = @ + 1]
        BY <2>2, Zenon DEF provider_enter
      <4> HIDE DEF q
      <4> QED
        <5>1. hasCm' \in [Providers -> BOOLEAN]
          BY <4>2 DEF ProviderTypes
        <5>2. portalOf' \in [Providers -> Nat] /\ leases' \in [Providers -> Nat]
          BY <4>3, <4>4 DEF ProviderTypes, PortalTypes
        <5> QED
          BY <4>1, <5>1, <5>2 DEF ProviderTypes
    <3> QED
      BY <1>2, <3>2, <3>3, <3>4
  <2>3. CASE _discard_provider(t)
    BY <1>2, <2>3 DEF _discard_provider, ProviderTypes, PortTypes, PortalTypes
  <2>4. CASE OpenReturns(t)
    <3>1. PortTypes'
      BY <2>4 DEF OpenReturns, PortTypes
    <3> QED
      BY <1>2, <2>4, <3>1 DEF OpenReturns, ProviderTypes, PortalTypes
  <2> QED
    BY <1>3, <2>1, <2>2, <2>3, <2>4 DEF OpenActions
<1>4. CASE MethodActions(t) \/ _run(t)
  <2>1. UNCHANGED <<moduleVars, providerVars, portalVars, portVars>>
    BY <1>4 DEF MethodActions, method, MethodReturns, DrainBlocks,
       TcdrainReturns, MethodFindsClosed, _run
  <2> QED
    BY <1>2, <2>1 DEF ProviderTypes, PortTypes, PortalTypes
<1>5. CASE CloseActions(t)
  <2>1. UNCHANGED <<moduleVars, providerVars, portalVars>>
    BY <1>5 DEF CloseActions, close, __del__, CloseSet, CloseReturns,
       _release_portal
  <2>2. PortTypes'
    BY <1>5 DEF CloseActions, close, __del__, CloseSet, CloseReturns,
       _release_portal, PortTypes
  <2> QED
    BY <1>2, <2>1, <2>2 DEF ProviderTypes, PortalTypes
<1>6. CASE ExitActions(t)
  <2>1. CASE provider_exit(t)
    <3>1. held[port[t]] \in Providers
      BY <2>1, Inside DEF provider_exit
    <3>2. ProviderTypes'
      <4> DEFINE q == held[port[t]]
      <4>1. UNCHANGED <<provider, backend, backendOf>>
        BY <2>1 DEF provider_exit
      <4>2. hasCm' = hasCm \/ hasCm' = [hasCm EXCEPT ![q] = FALSE]
        BY <2>1, Zenon DEF provider_exit
      <4>3. portalOf' = portalOf \/ portalOf' = [portalOf EXCEPT ![q] = 0]
        BY <2>1, Zenon DEF provider_exit
      <4>4. \/ leases' = leases \/ leases' = [leases EXCEPT ![q] = 0]
            \/ leases[q] > 1 /\ leases' = [leases EXCEPT ![q] = @ - 1]
        BY <2>1, Zenon DEF provider_exit
      <4>5. q \in Providers
        BY <3>1
      <4> HIDE DEF q
      <4> QED
        <5>1. hasCm' \in [Providers -> BOOLEAN]
          BY <4>2 DEF ProviderTypes
        <5>2. portalOf' \in [Providers -> Nat] /\ leases' \in [Providers -> Nat]
          BY <4>3, <4>4, <4>5 DEF ProviderTypes
        <5> QED
          BY <4>1, <5>1, <5>2 DEF ProviderTypes
    <3>3. PortTypes'
      BY <2>1 DEF provider_exit, GiveUp, PortTypes
    <3> QED
      BY <1>2, <2>1, <3>2, <3>3 DEF provider_exit, PortalTypes
  <2>2. CASE StopPortal(t)
    <3>1. ending[t] \in 1..started
      BY <2>2 DEF StopPortal, PortalsOK
    <3> QED
      BY <1>2, <2>2, <3>1 DEF StopPortal, ProviderTypes, PortTypes, PortalTypes
  <2>3. CASE JoinPortal(t)
    BY <1>2, <2>3 DEF JoinPortal, GiveUp, ProviderTypes, PortTypes, PortalTypes
  <2> QED
    BY <1>6, <2>1, <2>2, <2>3 DEF ExitActions
<1>7. CASE \E b \in Backends : configure_portal(t, b)
  BY <1>2, <1>7 DEF configure_portal, ProviderTypes, PortTypes, PortalTypes
<1> QED
  BY <1>3, <1>4, <1>5, <1>6, <1>7, ThreadKinds

-----------------------------------------------------------------------------
(* Where the threads are *)

\* A step that changes only one thread, whose place it keeps, and at most the
\* port of that thread, on which nobody else opens or closes.
LEMMA PlacesByOne ==
  ASSUME Typed, Places, OneCloser, NEW t \in Threads, OthersStay(t),
         NEW p \in Ports,
         \A x \in Ports \ {p} :
           /\ state'[x] = state[x] /\ opener'[x] = opener[x]
           /\ closed'[x] = closed[x] /\ entered'[x] = entered[x],
         \A u \in Threads \ {t} : port[u] = p =>
           /\ call[u] = "method" => state'[p] = state[p]
           /\ call[u] # "method" =>
                /\ state'[p] = state[p] /\ opener'[p] = opener[p]
                /\ closed'[p] = closed[p] /\ entered'[p] = entered[p],
         pc'[t] = "idle" <=> call'[t] = "none",
         pc'[t] = "idle" <=> port'[t] = None,
         call'[t] = "open" => InOpen(t)',
         call'[t] = "method" => InMethod(t)',
         call'[t] \in Closers => InClose(t)'
  PROVE  Places'
<1> SUFFICES ASSUME NEW u \in Threads \ {t}
             PROVE  /\ pc'[u] = "idle" <=> call'[u] = "none"
                    /\ pc'[u] = "idle" <=> port'[u] = None
                    /\ call'[u] = "open" => InOpen(u)'
                    /\ call'[u] = "method" => InMethod(u)'
                    /\ call'[u] \in Closers => InClose(u)'
  BY DEF Places
<1>1. /\ pc'[u] = pc[u] /\ call'[u] = call[u] /\ port'[u] = port[u]
  BY DEF OthersStay
<1>2. /\ pc[u] = "idle" <=> call[u] = "none"
      /\ pc[u] = "idle" <=> port[u] = None
      /\ call[u] = "open" => InOpen(u)
      /\ call[u] = "method" => InMethod(u)
      /\ call[u] \in Closers => InClose(u)
  BY DEF Places
<1>3. call[u] # "none" => port[u] \in Ports
  BY <1>2 DEF Typed, ThreadTypes
<1>4. CASE call[u] = "none"
  BY <1>1, <1>2, <1>4 DEF Closers
<1>5. CASE call[u] = "method"
  <2>1. state'[port[u]] = state[port[u]]
    BY <1>3, <1>5
  <2> QED
    BY <1>1, <1>2, <1>5, <2>1 DEF InMethod, Closers
<1>6. CASE call[u] # "none" /\ call[u] # "method"
  <2>1. /\ state'[port[u]] = state[port[u]] /\ opener'[port[u]] = opener[port[u]]
        /\ closed'[port[u]] = closed[port[u]] /\ entered'[port[u]] = entered[port[u]]
    BY <1>3, <1>6
  <2> QED
    BY <1>1, <1>2, <1>6, <2>1 DEF InOpen, InClose
<1> QED
  BY <1>4, <1>5, <1>6

\* Who else is inside a port that a thread opens or closes: callers of its
\* methods, once it is open.
LEMMA Alone ==
  ASSUME Typed, Places, OneCloser, NEW t \in Threads, NEW u \in Threads,
         u # t, port[u] = port[t], pc[t] # "idle", call[t] # "method"
  PROVE  call[u] = "method" /\ call[t] # "open"
<1>1. pc[u] # "idle" /\ call[t] # "none"
  BY DEF Places
<1>2. call[u] = "method"
  BY <1>1, OneInsider
<1> QED
  BY <1>2 DEF Places, InOpen, InMethod

\* PlacesByOne for a thread that is inside p and does not move it.
LEMMA PlacesInside ==
  ASSUME Typed, Places, OneCloser, NEW t \in Threads, OthersStay(t),
         pc[t] # "idle", call[t] # "method",
         \A x \in Ports : x # port[t] =>
           /\ state'[x] = state[x] /\ opener'[x] = opener[x]
           /\ closed'[x] = closed[x] /\ entered'[x] = entered[x],
         call[t] # "open" => state'[port[t]] = state[port[t]],
         pc'[t] = "idle" <=> call'[t] = "none",
         pc'[t] = "idle" <=> port'[t] = None,
         call'[t] = "open" => InOpen(t)',
         call'[t] = "method" => InMethod(t)',
         call'[t] \in Closers => InClose(t)'
  PROVE  Places'
<1>1. port[t] \in Ports
  BY DEF Places, Typed, ThreadTypes
<1>2. \A u \in Threads \ {t} : port[u] = port[t] =>
        call[u] = "method" /\ state'[port[t]] = state[port[t]]
  BY Alone
<1> QED
  BY <1>1, <1>2, PlacesByOne

\* PlacesByOne for a thread whose step leaves the ports alone.
LEMMA PlacesOutside ==
  ASSUME Typed, Places, OneCloser, NEW t \in Threads, OthersStay(t),
         UNCHANGED <<state, opener, closed, entered>>, Ports # {},
         pc'[t] = "idle" <=> call'[t] = "none",
         pc'[t] = "idle" <=> port'[t] = None,
         call'[t] = "open" => InOpen(t)',
         call'[t] = "method" => InMethod(t)',
         call'[t] \in Closers => InClose(t)'
  PROVE  Places'
<1>1. PICK p \in Ports : TRUE
  OBVIOUS
<1> QED
  BY <1>1, PlacesByOne

\* Every step keeps the places.
LEMMA PlacesStep ==
  ASSUME IInv, NEW t \in Threads, ThreadActions(t)
  PROVE  Places'
<1>1. /\ Typed /\ Places /\ OneCloser /\ PortsOK /\ OthersStay(t)
      /\ ThreadTypes /\ PortTypes
  BY OthersUntouched DEF IInv, Typed
<1>2. /\ pc[t] = "idle" <=> call[t] = "none"
      /\ pc[t] = "idle" <=> port[t] = None
      /\ call[t] = "open" => InOpen(t)
      /\ call[t] = "method" => InMethod(t)
      /\ call[t] \in Closers => InClose(t)
  BY <1>1 DEF Places
<1> USE <1>1, NoneAssumption
        DEF ThreadTypes, PortTypes, Goto, Begin, Closers, OpenPcs, ClosePcs,
            portVars, threadVars
<1>3. CASE OpenActions(t)
  <2>1. CASE \E p \in Ports, q \in Providers : open(t, p, q)
    <3>1. PICK p \in Ports, q \in Providers : open(t, p, q)
      BY <2>1
    <3>2. \A u \in Threads : port[u] # p
      BY <3>1 DEF open, Places, InOpen, InMethod, InClose
    <3>3. /\ call'[t] = "open" /\ port'[t] = p /\ pc'[t] = "enter" /\ InOpen(t)'
          /\ \A x \in Ports \ {p} :
               /\ state'[x] = state[x] /\ opener'[x] = opener[x]
               /\ closed'[x] = closed[x] /\ entered'[x] = entered[x]
      BY <3>1 DEF open, InOpen
    <3>4. p # None
      OBVIOUS
    <3> QED
      BY <3>2, <3>3, <3>4, PlacesByOne
  <2>2. CASE provider_enter(t)
    <3>1. call[t] = "open" /\ port[t] \in Ports
      BY <2>2, Inside DEF provider_enter
    <3>2. /\ pc'[t] \in {"dispatch", "discard"} /\ UNCHANGED <<call, port>>
          /\ UNCHANGED <<state, opener, closed, entered>>
      BY <2>2 DEF provider_enter
    <3>3. InOpen(t)'
      BY <1>2, <3>1, <3>2 DEF InOpen
    <3> QED
      BY <1>2, <3>1, <3>2, <3>3, PlacesOutside
  <2>3. CASE _discard_provider(t)
    <3>1. call[t] = "open" /\ port[t] \in Ports /\ pc[t] # "idle"
      BY <2>3, Inside DEF _discard_provider
    <3>2. /\ pc'[t] = "idle" /\ call'[t] = "none" /\ port'[t] = None
          /\ \A x \in Ports : x # port[t] =>
               /\ state'[x] = state[x] /\ opener'[x] = opener[x]
               /\ closed'[x] = closed[x] /\ entered'[x] = entered[x]
      BY <2>3 DEF _discard_provider
    <3> QED
      BY <3>1, <3>2, PlacesInside
  <2>4. CASE OpenReturns(t)
    <3>1. call[t] = "open" /\ port[t] \in Ports /\ pc[t] = "in_portal"
      BY <2>4, Inside DEF OpenReturns
    <3>2. \A x \in Ports : x # port[t] =>
               /\ state'[x] = state[x] /\ opener'[x] = opener[x]
               /\ closed'[x] = closed[x] /\ entered'[x] = entered[x]
      BY <2>4 DEF OpenReturns
    <3>3. \/ pc'[t] = "idle" /\ call'[t] = "none" /\ port'[t] = None
          \/ /\ pc'[t] = "exit" /\ UNCHANGED <<call, port, state, opener>>
      BY <2>4 DEF OpenReturns
    <3>4. call'[t] = "open" => InOpen(t)'
      BY <1>2, <3>1, <3>3 DEF InOpen
    <3> QED
      BY <1>2, <3>1, <3>2, <3>3, <3>4, PlacesInside
  <2> QED
    BY <1>3, <2>1, <2>2, <2>3, <2>4 DEF OpenActions
<1>4. CASE MethodActions(t) \/ _run(t) \/ \E b \in Backends : configure_portal(t, b)
  <2>1. UNCHANGED <<state, opener, closed, entered>>
    BY <1>4 DEF MethodActions, method, MethodReturns, DrainBlocks,
       TcdrainReturns, MethodFindsClosed, _run, configure_portal
  <2>2. CASE \E p \in Ports : method(t, p)
    <3>1. PICK p \in Ports : method(t, p)
      BY <2>2
    <3>2. /\ call'[t] = "method" /\ port'[t] = p /\ pc'[t] = "dispatch" /\ p # None
          /\ state[p] = "open"
      BY <3>1 DEF method
    <3>3. InMethod(t)'
      BY <2>1, <3>2 DEF InMethod
    <3> QED
      BY <2>1, <3>2, <3>3, PlacesOutside
  <2>3. CASE MethodReturns(t) \/ TcdrainReturns(t) \/ MethodFindsClosed(t)
    <3>1. pc'[t] = "idle" /\ call'[t] = "none" /\ port'[t] = None /\ port[t] \in Ports
      BY <2>3, Inside DEF MethodReturns, TcdrainReturns, MethodFindsClosed
    <3> QED
      BY <2>1, <3>1, PlacesOutside
  <2>4. CASE _run(t)
    <3>1. /\ port[t] \in Ports /\ pc[t] = "dispatch"
          /\ call[t] \in {"open", "method", "close", "del"}
      BY <2>4, Inside DEF _run
    <3>2. \/ pc'[t] = "in_portal" /\ UNCHANGED <<call, port>>
          \/ /\ pc'[t] = "exit" /\ call[t] = "open" /\ UNCHANGED <<call, port>>
          \/ /\ pc'[t] = "release_check" /\ call[t] \in Closers
             /\ UNCHANGED <<call, port>>
          \/ pc'[t] = "idle" /\ call'[t] = "none" /\ port'[t] = None
      BY <2>4, <3>1 DEF _run, After
    <3>3. /\ call'[t] = "open" => InOpen(t)'
          /\ call'[t] = "method" => InMethod(t)'
          /\ call'[t] \in Closers => InClose(t)'
      BY <1>2, <2>1, <3>1, <3>2 DEF InOpen, InMethod, InClose
    <3> QED
      BY <1>2, <2>1, <3>1, <3>2, <3>3, PlacesOutside
  <2>5. CASE \E b \in Backends : configure_portal(t, b)
    <3>1. UNCHANGED <<pc, call, port, state, opener, closed, entered>>
      BY <2>5 DEF configure_portal
    <3> QED
      BY <3>1 DEF Places, InOpen, InMethod, InClose
  <2>6. CASE DrainBlocks(t)
    <3>1. /\ pc'[t] = "tcdrain" /\ UNCHANGED <<call, port>>
          /\ pc[t] = "in_portal" /\ call[t] = "method" /\ port[t] \in Ports
      BY <2>6, Inside DEF DrainBlocks
    <3>2. InMethod(t)'
      BY <2>1, <3>1 DEF InMethod, Places
    <3> QED
      BY <2>1, <3>1, <3>2, PlacesOutside DEF Closers
  <2> QED
    BY <1>4, <2>2, <2>3, <2>4, <2>5, <2>6 DEF MethodActions
<1>5. CASE CloseActions(t)
  <2>1. CASE \E p \in Ports : close(t, p)
    <3>1. PICK p \in Ports : close(t, p)
      BY <2>1
    <3>2. UNCHANGED <<state, opener, closed, entered>> /\ state[p] = "open" /\ p # None
      BY <3>1 DEF close, MayClose
    <3>3. \/ pc'[t] = "idle" /\ call'[t] = "none" /\ port'[t] = None
          \/ /\ pc'[t] = "close_set" /\ call'[t] = "close" /\ port'[t] = p
             /\ ~closed[p]
      BY <3>1 DEF close
    <3>4. call'[t] = "close" => InClose(t)'
      BY <3>2, <3>3 DEF InClose, PortsOK
    <3> QED
      BY <3>2, <3>3, <3>4, PlacesOutside
  <2>2. CASE \E p \in Ports : __del__(t, p)
    <3>1. PICK p \in Ports : __del__(t, p)
      BY <2>2
    <3>2. /\ \A u \in Threads : port[u] # p
          /\ p # None /\ state[p] = "open"
      BY <3>1 DEF __del__, Unused, Places
    <3>3. /\ \A x \in Ports \ {p} : opener'[x] = opener[x]
          /\ UNCHANGED <<state, closed, entered>> /\ opener'[p] = None
      BY <3>1 DEF __del__
    <3>4. \/ pc'[t] = "idle" /\ call'[t] = "none" /\ port'[t] = None
          \/ /\ pc'[t] = "close_set" /\ call'[t] = "del" /\ port'[t] = p
             /\ ~closed[p]
      BY <3>1 DEF __del__
    <3>5. call'[t] = "del" => InClose(t)'
      BY <3>2, <3>3, <3>4 DEF InClose, PortsOK
    <3> QED
      BY <3>2, <3>3, <3>4, <3>5, PlacesByOne
  <2>3. CASE CloseSet(t) \/ CloseReturns(t) \/ _release_portal(t)
    <3>1. /\ port[t] \in Ports /\ pc[t] # "idle" /\ call[t] \in Closers
      BY <2>3, Inside DEF CloseSet, CloseReturns, _release_portal
    <3>2. InClose(t)
      BY <1>2, <3>1
    <3>3. UNCHANGED <<state, opener>>
      BY <2>3 DEF CloseSet, CloseReturns, _release_portal
    <3>4. \A x \in Ports : x # port[t] =>
            closed'[x] = closed[x] /\ entered'[x] = entered[x]
      BY <2>3 DEF CloseSet, CloseReturns, _release_portal
    <3>5. pc'[t] # "idle" /\ UNCHANGED <<call, port>> /\ InClose(t)'
      <4>1. CASE CloseSet(t)
        BY <3>1, <3>2, <4>1 DEF CloseSet, InClose
      <4>2. CASE CloseReturns(t)
        BY <3>1, <3>2, <4>2 DEF CloseReturns, InClose
      <4>3. CASE _release_portal(t)
        BY <3>1, <3>2, <4>3 DEF _release_portal, InClose
      <4> QED
        BY <2>3, <4>1, <4>2, <4>3
    <3> QED
      BY <1>2, <3>1, <3>3, <3>4, <3>5, PlacesInside
  <2> QED
    BY <1>5, <2>1, <2>2, <2>3 DEF CloseActions
<1>6. CASE ExitActions(t)
  <2>1. /\ port[t] \in Ports /\ pc[t] \in {"exit", "stop", "join"}
        /\ call[t] \in {"open"} \cup Closers
    BY <1>6, Inside DEF ExitActions, provider_exit, StopPortal, JoinPortal
  <2>2. /\ UNCHANGED <<opener, closed, entered>>
        /\ \A x \in Ports : x # port[t] => state'[x] = state[x]
        /\ call[t] # "open" => UNCHANGED state
        /\ pc'[t] # "idle" => UNCHANGED <<state, call, port>>
        /\ pc'[t] = "idle" => call'[t] = "none" /\ port'[t] = None
        /\ pc'[t] \in {"idle", "stop", "join"}
    BY <1>6, <2>1 DEF ExitActions, provider_exit, StopPortal, JoinPortal, GiveUp
  <2>3. /\ call'[t] = "open" => InOpen(t)'
        /\ call'[t] \in Closers => InClose(t)'
    BY <1>2, <2>1, <2>2 DEF InOpen, InClose
  <2> QED
    BY <1>2, <2>1, <2>2, <2>3, PlacesInside
<1> QED
  BY <1>3, <1>4, <1>5, <1>6, ThreadKinds

\* Every step keeps the flags of the ports consistent, and a port that is
\* not unused keeps a provider that exists.
LEMMA PortsStep ==
  ASSUME IInv, NEW t \in Threads, ThreadActions(t)
  PROVE  PortsOK'
<1>1. /\ Typed /\ Places /\ PortsOK /\ ProviderTypes /\ PortTypes
  BY DEF IInv, Typed
<1>2. /\ call[t] = "open" => InOpen(t)
      /\ call[t] \in Closers => InClose(t)
  BY <1>1 DEF Places
<1> USE <1>1 DEF ProviderTypes, PortTypes, Goto, Begin, portVars, moduleVars, Closers
<1>3. CASE OpenActions(t)
  <2>1. CASE \E p \in Ports, q \in Providers : open(t, p, q)
    <3>1. PICK p \in Ports, q \in Providers : open(t, p, q)
      BY <2>1
    <3>2. /\ state' = [state EXCEPT ![p] = "opening"] /\ state[p] = "unused"
          /\ held' = [held EXCEPT ![p] = q] /\ UNCHANGED <<closed, entered>>
      BY <3>1 DEF open
    <3>3. /\ \A r \in Providers : backendOf[r] # None => backendOf'[r] # None
          /\ backendOf'[q] # None
      <4>1. CASE provider = q /\ UNCHANGED <<provider, backendOf>>
        <5>1. q # None
          BY NoneAssumption
        <5>2. backendOf[q] = backend /\ backend # None
          BY <4>1, <5>1, NoneAssumption DEF IInv, ProvidersOK
        <5> QED
          BY <4>1, <5>2
      <4>2. CASE backendOf' = [backendOf EXCEPT ![q] = backend]
        BY <4>2, NoneAssumption
      <4> QED
        BY <3>1, <4>1, <4>2 DEF open, _get_provider
    <3> QED
      BY <3>2, <3>3 DEF PortsOK
  <2>2. CASE provider_enter(t)
    <3>1. UNCHANGED <<state, held, closed, entered, backendOf>>
      BY <2>2 DEF provider_enter
    <3> QED
      BY <3>1 DEF PortsOK
  <2>3. CASE _discard_provider(t)
    <3>1. call[t] = "open" /\ port[t] \in Ports
      BY <2>3, Inside DEF _discard_provider
    <3> QED
      BY <1>2, <2>3, <3>1 DEF _discard_provider, PortsOK, InOpen
  <2>4. CASE OpenReturns(t)
    <3>1. call[t] = "open" /\ port[t] \in Ports
      BY <2>4, Inside DEF OpenReturns
    <3>2. state[port[t]] = "opening"
      BY <1>2, <3>1 DEF InOpen
    <3>3. UNCHANGED <<held, closed, backendOf>>
          /\ \/ UNCHANGED <<state, entered>>
             \/ /\ state' = [state EXCEPT ![port[t]] = "open"]
                /\ entered' = [entered EXCEPT ![port[t]] = TRUE]
      BY <2>4 DEF OpenReturns
    <3> QED
      BY <3>1, <3>2, <3>3 DEF PortsOK
  <2> QED
    BY <1>3, <2>1, <2>2, <2>3, <2>4 DEF OpenActions
<1>4. CASE MethodActions(t) \/ _run(t) \/ \E b \in Backends : configure_portal(t, b)
  <2>1. UNCHANGED <<state, held, closed, entered, backendOf>>
    BY <1>4 DEF MethodActions, method, MethodReturns, DrainBlocks,
       TcdrainReturns, MethodFindsClosed, _run, configure_portal
  <2> QED
    BY <2>1 DEF PortsOK
<1>5. CASE CloseActions(t)
  <2>1. CASE \E p \in Ports : close(t, p) \/ __del__(t, p)
    <3>1. UNCHANGED <<state, held, closed, entered, backendOf>>
      BY <2>1 DEF close, __del__
    <3> QED
      BY <3>1 DEF PortsOK
  <2>2. CASE CloseSet(t) \/ CloseReturns(t) \/ _release_portal(t)
    <3>1. /\ port[t] \in Ports /\ pc[t] # "idle" /\ call[t] \in Closers
      BY <2>2, Inside DEF CloseSet, CloseReturns, _release_portal
    <3>2. InClose(t)
      BY <1>2, <3>1
    <3>3. UNCHANGED <<state, held, backendOf>>
      BY <2>2 DEF CloseSet, CloseReturns, _release_portal
    <3>4. \/ UNCHANGED <<closed, entered>>
          \/ closed' = [closed EXCEPT ![port[t]] = TRUE] /\ UNCHANGED entered
          \/ /\ entered' = [entered EXCEPT ![port[t]] = FALSE] /\ UNCHANGED closed
             /\ pc[t] = "release_set"
      BY <2>2 DEF CloseSet, CloseReturns, _release_portal
    <3> QED
      BY <3>1, <3>2, <3>3, <3>4 DEF PortsOK, InClose
  <2> QED
    BY <1>5, <2>1, <2>2 DEF CloseActions
<1>6. CASE ExitActions(t)
  <2>1. port[t] \in Ports
    BY <1>6, Inside DEF ExitActions, provider_exit, StopPortal, JoinPortal
  <2>2. /\ UNCHANGED <<held, closed, entered, backendOf>>
        /\ \/ UNCHANGED state
           \/ /\ call[t] = "open"
              /\ state' = [state EXCEPT ![port[t]] = "failed"]
    BY <1>6 DEF ExitActions, provider_exit, StopPortal, JoinPortal, GiveUp
  <2> QED
    BY <1>2, <2>1, <2>2 DEF PortsOK, InOpen
<1> QED
  BY <1>3, <1>4, <1>5, <1>6, ThreadKinds

-----------------------------------------------------------------------------
(* Who holds a lease *)

\* Whether a port that a thread opens or closes holds a lease can be read off
\* the place of that thread.
LeasePlaces ==
  \A t \in Threads, p \in Ports : port[t] = p =>
    /\ call[t] = "open" =>
         (HoldsLease(p) <=> pc[t] \in {"dispatch", "in_portal", "exit"})
    /\ call[t] \in Closers => (HoldsLease(p) <=> pc[t] \notin {"stop", "join"})

LEMMA LeaseAtPlace == Typed /\ Places /\ OneCloser => LeasePlaces
<1> SUFFICES ASSUME Typed, Places, OneCloser, NEW t \in Threads,
                    NEW p \in Ports, port[t] = p
             PROVE  /\ call[t] = "open" =>
                         (HoldsLease(p) <=> pc[t] \in {"dispatch", "in_portal", "exit"})
                    /\ call[t] \in Closers =>
                         (HoldsLease(p) <=> pc[t] \notin {"stop", "join"})
  BY DEF LeasePlaces
<1>1. \A u \in Threads : pc[u] = "idle" <=> call[u] = "none"
  BY DEF Places
<1>2. CASE call[t] = "open"
  <2>1. InOpen(t) /\ port[t] \in Ports
    BY <1>2 DEF Places, Typed, ThreadTypes
  <2>2. \A u \in Threads : port[u] = port[t] /\ call[u] = "open" => u = t
    BY <1>1, <1>2, OneInsider
  <2> QED
    BY <1>2, <2>1, <2>2 DEF HoldsLease, InOpen, Closers
<1>3. CASE call[t] \in Closers
  <2>1. InClose(t) /\ port[t] \in Ports
    BY <1>3 DEF Places, Typed, ThreadTypes, Closers
  <2>2. \A u \in Threads : port[u] = port[t] /\ pc[u] = "exit" => u = t
    <3>1. \A u \in Threads : pc[u] = "exit" => call[u] # "method" /\ pc[u] # "idle"
      BY DEF Places, InMethod
    <3>2. pc[t] # "idle" /\ call[t] # "method"
      BY <1>1, <1>3 DEF Closers
    <3> QED
      BY <3>1, <3>2, OneInsider
  <2> QED
    BY <1>3, <2>1, <2>2 DEF HoldsLease, InClose, Closers
<1> QED
  BY <1>2, <1>3

LEMMA LeaseAtPlaceNext == Typed' /\ Places' /\ OneCloser' => LeasePlaces'
BY LeaseAtPlace, PTL

\* A step that changes neither the flags of a port nor which thread is on its
\* way in or out does not change whether it holds a lease.
LEMMA LeaseFrame ==
  ASSUME NEW t \in Threads, OthersStay(t), NEW x \in Ports,
         state'[x] = state[x], entered'[x] = entered[x],
         port'[t] = x /\ call'[t] = "open" /\ pc'[t] \in {"dispatch", "in_portal", "exit"}
           <=> port[t] = x /\ call[t] = "open" /\ pc[t] \in {"dispatch", "in_portal", "exit"},
         port'[t] = x /\ pc'[t] = "exit" <=> port[t] = x /\ pc[t] = "exit"
  PROVE  HoldsLease(x)' <=> HoldsLease(x)
<1>1. (\E u \in Threads : /\ port'[u] = x /\ call'[u] = "open"
                          /\ pc'[u] \in {"dispatch", "in_portal", "exit"})
      <=> \E u \in Threads : /\ port[u] = x /\ call[u] = "open"
                             /\ pc[u] \in {"dispatch", "in_portal", "exit"}
  BY DEF OthersStay
<1>2. (\E u \in Threads : port'[u] = x /\ pc'[u] = "exit")
      <=> \E u \in Threads : port[u] = x /\ pc[u] = "exit"
  BY DEF OthersStay
<1> QED
  BY <1>1, <1>2, Zenon DEF HoldsLease

\* The leases stay as they are.
SameLeases ==
  /\ \A x \in Ports : HoldsLease(x)' <=> HoldsLease(x)
  /\ \A x \in Ports : HoldsLease(x) => held'[x] = held[x]
  /\ UNCHANGED <<hasCm, portalOf, leases, portal>>

\* Only __enter__ and __exit__ touch a lease: no other step gives one, takes
\* one, or moves one to another provider.
LEMMA LeasesKept ==
  ASSUME IInv, Typed', Places', OneCloser',
         NEW t \in Threads, ThreadActions(t), pc[t] \notin {"enter", "exit"}
  PROVE  SameLeases
<1>1. /\ Typed /\ Places /\ OneCloser /\ PortsOK /\ OthersStay(t)
      /\ ThreadTypes /\ PortTypes /\ LeasePlaces /\ LeasePlaces'
  BY OthersUntouched, LeaseAtPlace, LeaseAtPlaceNext DEF IInv, Typed
<1> USE <1>1, NoneAssumption
        DEF ThreadTypes, PortTypes, Goto, Begin, portVars, providerVars,
            threadVars, Closers
<1>2. UNCHANGED <<hasCm, portalOf, leases, portal>>
  <2>1. CASE OpenActions(t)
    BY <2>1 DEF OpenActions, open, provider_enter, _discard_provider, OpenReturns
  <2>2. CASE MethodActions(t) \/ _run(t) \/ \E b \in Backends : configure_portal(t, b)
    BY <2>2 DEF MethodActions, method, MethodReturns, DrainBlocks,
       TcdrainReturns, MethodFindsClosed, _run, configure_portal
  <2>3. CASE CloseActions(t)
    BY <2>3 DEF CloseActions, close, __del__, CloseSet, CloseReturns, _release_portal
  <2>4. CASE ExitActions(t)
    BY <2>4 DEF ExitActions, provider_exit, StopPortal, JoinPortal
  <2> QED
    BY <2>1, <2>2, <2>3, <2>4, ThreadKinds
<1>3. ASSUME NEW p \in Ports, port[t] \in {p, None}, port'[t] \in {p, None},
             \A x \in Ports \ {p} : /\ state'[x] = state[x]
                                    /\ entered'[x] = entered[x]
                                    /\ held'[x] = held[x],
             HoldsLease(p)' <=> HoldsLease(p),
             HoldsLease(p) => held'[p] = held[p]
      PROVE  SameLeases
  <2>1. \A x \in Ports \ {p} : x # port[t] /\ x # port'[t]
    BY <1>3
  <2>2. \A x \in Ports \ {p} : HoldsLease(x)' <=> HoldsLease(x)
    BY <1>3, <2>1, LeaseFrame
  <2> QED
    BY <1>2, <1>3, <2>2 DEF SameLeases
<1>4. ASSUME UNCHANGED <<state, entered, held>>, call[t] # "open", call'[t] # "open",
             pc[t] # "exit", pc'[t] # "exit"
      PROVE  SameLeases
  <2>1. \A x \in Ports : HoldsLease(x)' <=> HoldsLease(x)
    BY <1>4, LeaseFrame
  <2> QED
    BY <1>2, <1>4, <2>1 DEF SameLeases
<1>5. ASSUME pc[t] # "idle" PROVE port[t] \in Ports /\ call[t] # "none"
  BY <1>5 DEF Places
<1>6. CASE \E p \in Ports, q \in Providers : open(t, p, q)
  <2>1. PICK p \in Ports, q \in Providers : open(t, p, q)
    BY <1>6
  <2>2. /\ port[t] = None /\ port'[t] = p /\ call'[t] = "open" /\ pc'[t] = "enter"
        /\ \A x \in Ports \ {p} : /\ state'[x] = state[x] /\ entered'[x] = entered[x]
                                  /\ held'[x] = held[x]
        /\ state[p] = "unused"
    BY <2>1 DEF open, Places
  <2>3. ~HoldsLease(p)
    BY <2>2 DEF HoldsLease
  <2>4. ~HoldsLease(p)'
    BY <2>2 DEF LeasePlaces
  <2> QED
    BY <1>3, <2>2, <2>3, <2>4
<1>7. CASE _discard_provider(t)
  <2>1. call[t] = "open" /\ pc[t] = "discard" /\ port[t] \in Ports
    BY <1>7, Inside DEF _discard_provider
  <2>3. PICK p \in Ports : p = port[t]
    BY <2>1
  <2>2. /\ port'[t] = None /\ state' = [state EXCEPT ![p] = "unused"]
        /\ held' = [held EXCEPT ![p] = None] /\ UNCHANGED entered
    BY <1>7, <2>3 DEF _discard_provider
  <2>4. ~HoldsLease(p)
    BY <2>1, <2>3 DEF LeasePlaces
  <2>5. ~HoldsLease(p)'
    BY <2>2, <2>3 DEF HoldsLease
  <2> QED
    BY <1>3, <2>2, <2>3, <2>4, <2>5
<1>8. CASE OpenReturns(t)
  <2>1. call[t] = "open" /\ pc[t] = "in_portal" /\ port[t] \in Ports
    BY <1>8, Inside DEF OpenReturns
  <2>3. PICK p \in Ports : p = port[t]
    BY <2>1
  <2>2. /\ UNCHANGED held
        /\ \/ pc'[t] = "exit" /\ UNCHANGED <<call, port, state, entered>>
           \/ /\ pc'[t] = "idle" /\ port'[t] = None
              /\ state' = [state EXCEPT ![p] = "open"]
              /\ entered' = [entered EXCEPT ![p] = TRUE]
    BY <1>8, <2>3 DEF OpenReturns
  <2>4. HoldsLease(p)
    BY <2>1, <2>3 DEF LeasePlaces
  <2>5. HoldsLease(p)'
    BY <2>1, <2>2, <2>3 DEF LeasePlaces, HoldsLease
  <2> QED
    BY <1>3, <2>2, <2>3, <2>4, <2>5
<1>9. CASE MethodActions(t) \/ \E b \in Backends : configure_portal(t, b)
  <2>1. /\ UNCHANGED <<state, entered, held>> /\ call[t] # "open"
        /\ call'[t] # "open" /\ pc'[t] # "exit"
    BY <1>9 DEF MethodActions, method, MethodReturns, DrainBlocks,
       TcdrainReturns, MethodFindsClosed, configure_portal, Places, InOpen,
       OpenPcs
  <2> QED
    BY <1>4, <2>1
<1>10. CASE _run(t)
  <2>1. /\ UNCHANGED <<state, entered, held>> /\ pc[t] = "dispatch"
        /\ call[t] \in {"open", "method", "close", "del"}
    BY <1>10, Inside DEF _run
  <2>2. CASE call[t] = "open"
    <3>1. pc'[t] \in {"in_portal", "exit"} /\ UNCHANGED <<call, port>>
      BY <1>10, <2>2 DEF _run, After
    <3>2. \A x \in Ports : HoldsLease(x)' <=> HoldsLease(x)
      <4>1. \A x \in Ports \ {port[t]} : HoldsLease(x)' <=> HoldsLease(x)
        BY <2>1, <3>1, LeaseFrame
      <4>2. \A x \in Ports : x = port[t] => HoldsLease(x) /\ HoldsLease(x)'
        BY <2>1, <2>2, <3>1 DEF LeasePlaces
      <4> QED
        BY <3>1, <4>1, <4>2
    <3> QED
      BY <1>2, <2>1, <3>2 DEF SameLeases
  <2>3. CASE call[t] # "open"
    <3>1. pc'[t] # "exit" /\ call'[t] # "open"
      BY <1>10, <2>1, <2>3 DEF _run, After
    <3> QED
      BY <1>4, <2>1, <2>3, <3>1
  <2> QED
    BY <2>2, <2>3
<1>11. CASE \E p \in Ports : close(t, p) \/ __del__(t, p)
  <2>1. /\ UNCHANGED <<state, entered, held>> /\ call[t] # "open"
        /\ call'[t] # "open" /\ pc'[t] # "exit"
    BY <1>11 DEF close, __del__, Places
  <2> QED
    BY <1>4, <2>1
<1>12. CASE CloseSet(t) \/ CloseReturns(t) \/ _release_portal(t)
  <2>1. port[t] \in Ports /\ call[t] \in Closers /\ pc[t] \notin {"stop", "join"}
    BY <1>12, Inside DEF CloseSet, CloseReturns, _release_portal
  <2>2. /\ UNCHANGED <<state, held, call, port>> /\ pc'[t] \notin {"stop", "join"}
        /\ \A x \in Ports \ {port[t]} : entered'[x] = entered[x]
    <3>1. entered[port[t]] \/ pc[t] # "release_check"
      BY <2>1 DEF Places, InClose
    <3> QED
      BY <1>12, <3>1 DEF CloseSet, CloseReturns, _release_portal
  <2>3. PICK p \in Ports : p = port[t]
    BY <2>1
  <2>4. HoldsLease(p) /\ HoldsLease(p)'
    BY <2>1, <2>2, <2>3 DEF LeasePlaces
  <2> QED
    BY <1>3, <2>2, <2>3, <2>4
<1>13. CASE StopPortal(t) \/ JoinPortal(t)
  <2>1. /\ port[t] \in Ports /\ pc[t] \in {"stop", "join"}
        /\ call[t] \in {"open"} \cup Closers
    BY <1>13, Inside DEF StopPortal, JoinPortal
  <2>2. /\ UNCHANGED <<entered, held>> /\ port'[t] \in {port[t], None}
        /\ pc'[t] \notin {"dispatch", "in_portal", "exit"}
        /\ \/ UNCHANGED state
           \/ call[t] = "open" /\ state' = [state EXCEPT ![port[t]] = "failed"]
    BY <1>13 DEF StopPortal, JoinPortal, GiveUp
  <2>3. CASE UNCHANGED state
    <3>1. \A x \in Ports : HoldsLease(x)' <=> HoldsLease(x)
      BY <2>1, <2>2, <2>3, LeaseFrame
    <3> QED
      BY <1>2, <2>2, <3>1 DEF SameLeases
  <2>4. CASE call[t] = "open" /\ state' = [state EXCEPT ![port[t]] = "failed"]
    <3>1. PICK p \in Ports : p = port[t]
      BY <2>1
    <3>2. ~HoldsLease(p)
      BY <2>1, <2>4, <3>1 DEF LeasePlaces
    <3>3. ~HoldsLease(p)'
      BY <2>4, <3>1 DEF HoldsLease
    <3>4. \A x \in Ports \ {p} :
            state'[x] = state[x] /\ entered'[x] = entered[x] /\ held'[x] = held[x]
      BY <2>2, <2>4, <3>1
    <3> QED
      BY <1>3, <2>2, <3>1, <3>2, <3>3, <3>4
  <2> QED
    BY <2>2, <2>3, <2>4
<1> QED
  BY <1>6, <1>7, <1>8, <1>9, <1>10, <1>11, <1>12, <1>13, ThreadKinds
     DEF OpenActions, CloseActions, ExitActions, provider_enter, provider_exit

\* The port p keeps apart from the rest.
OthersKeep(p) ==
  \A x \in Ports \ {p} : HoldsLease(x)' <=> HoldsLease(x)

\* __enter__ gives p a lease on q, on a portal that runs or is started for it.
Gains(p, q) ==
  /\ ~HoldsLease(p) /\ HoldsLease(p)' /\ OthersKeep(p)
  /\ leases' = [leases EXCEPT ![q] = @ + 1]
  /\ portal' = [portal EXCEPT ![p] = portalOf'[q]]
  /\ \/ /\ ~hasCm[q] /\ hasCm' = [hasCm EXCEPT ![q] = TRUE]
        /\ portalOf' = [portalOf EXCEPT ![q] = started + 1]
        /\ started' = started + 1 /\ running' = running \cup {started + 1}
     \/ /\ hasCm[q] /\ portalOf[q] # 0
        /\ UNCHANGED <<hasCm, portalOf, started, running>>

\* __enter__ fails: the portal of q does not start or did not.
Breaks(p, q) ==
  /\ ~HoldsLease(p) /\ ~HoldsLease(p)' /\ OthersKeep(p)
  /\ portalOf[q] = 0 /\ UNCHANGED <<portalOf, started, running, portal>>
  /\ \/ ~hasCm[q] /\ hasCm' = [hasCm EXCEPT ![q] = TRUE] /\ UNCHANGED leases
     \/ hasCm[q] /\ leases' = [leases EXCEPT ![q] = @ + 1] /\ UNCHANGED hasCm

\* __exit__ takes the lease of p on q; the last one takes the portal along,
\* which thread t is to stop.
Loses(t, p, q) ==
  /\ HoldsLease(p) /\ ~HoldsLease(p)' /\ OthersKeep(p)
  /\ hasCm[q] /\ portalOf[q] # 0 /\ leases[q] > 0
  /\ leases' = [leases EXCEPT ![q] = @ - 1]
  /\ \/ /\ leases[q] > 1 /\ pc'[t] = "idle" /\ UNCHANGED <<hasCm, portalOf, ending>>
     \/ /\ leases[q] = 1 /\ pc'[t] = "stop"
        /\ hasCm' = [hasCm EXCEPT ![q] = FALSE]
        /\ portalOf' = [portalOf EXCEPT ![q] = 0]
        /\ ending' = [ending EXCEPT ![t] = portalOf[q]]

\* __enter__ either gives a lease or breaks the provider.
LEMMA EnterEffect ==
  ASSUME IInv, Typed', Places', OneCloser',
         NEW t \in Threads, provider_enter(t),
         NEW p \in Ports, p = port[t], NEW q \in Providers, q = held[p]
  PROVE  /\ UNCHANGED <<moduleVars, stopping, state, entered, held, ending>>
         /\ \/ Gains(p, q) /\ pc'[t] = "dispatch"
            \/ Breaks(p, q) /\ pc'[t] = "discard"
<1>1. /\ Typed /\ Places /\ OneCloser /\ PortsOK /\ LeasePlaces /\ LeasePlaces'
      /\ ThreadTypes /\ ProviderTypes
  BY LeaseAtPlace, LeaseAtPlaceNext DEF IInv, Typed
<1>2. pc[t] = "enter" /\ call[t] = "open" /\ OthersStay(t)
  <2>1. ThreadActions(t)
    BY DEF ThreadActions, Proceed
  <2> QED
    BY <1>1, <2>1, Inside, OthersUntouched DEF provider_enter
<1>3. UNCHANGED <<moduleVars, stopping, state, entered, held, ending>>
  BY DEF provider_enter
<1>4. UNCHANGED <<call, port>> /\ pc'[t] \in {"dispatch", "discard"}
  BY <1>1 DEF provider_enter, Goto, ThreadTypes
<1>5. OthersKeep(p)
  BY <1>1, <1>2, <1>3, <1>4, LeaseFrame DEF OthersKeep
<1>6. ~HoldsLease(p)
  BY <1>1, <1>2 DEF LeasePlaces
<1>7. /\ pc'[t] = "dispatch" => HoldsLease(p)'
      /\ pc'[t] = "discard" => ~HoldsLease(p)'
  BY <1>1, <1>2, <1>4 DEF LeasePlaces
<1>8. \/ /\ pc'[t] = "dispatch"
         /\ leases' = [leases EXCEPT ![q] = @ + 1]
         /\ portal' = [portal EXCEPT ![p] = portalOf'[q]]
         /\ \/ /\ ~hasCm[q] /\ hasCm' = [hasCm EXCEPT ![q] = TRUE]
               /\ portalOf' = [portalOf EXCEPT ![q] = started + 1]
               /\ started' = started + 1 /\ running' = running \cup {started + 1}
            \/ /\ hasCm[q] /\ portalOf[q] # 0
               /\ UNCHANGED <<hasCm, portalOf, started, running>>
      \/ /\ pc'[t] = "discard" /\ portalOf[q] = 0
         /\ UNCHANGED <<portalOf, started, running, portal>>
         /\ \/ ~hasCm[q] /\ hasCm' = [hasCm EXCEPT ![q] = TRUE] /\ UNCHANGED leases
            \/ hasCm[q] /\ leases' = [leases EXCEPT ![q] = @ + 1] /\ UNCHANGED hasCm
  <2>1. ~hasCm[q] => portalOf[q] = 0
    BY DEF IInv, ProvidersOK
  <2>2. \A at \in Pcs, r \in Results : Goto(t, at, r) => pc'[t] = at
    BY <1>1 DEF Goto, ThreadTypes
  <2> QED
    BY <1>1, <2>1, <2>2 DEF provider_enter, ProviderTypes, Pcs, Results
<1> QED
  BY <1>3, <1>5, <1>6, <1>7, <1>8 DEF Gains, Breaks

\* __exit__ always finds the lease it gives back: its assertions hold.
LEMMA ExitEffect ==
  ASSUME IInv, Typed', Places', OneCloser',
         NEW t \in Threads, provider_exit(t),
         NEW p \in Ports, p = port[t], NEW q \in Providers, q = held[p]
  PROVE  /\ UNCHANGED <<moduleVars, portalVars, entered, held, portal>>
         /\ Loses(t, p, q)
<1>1. /\ Typed /\ Places /\ OneCloser /\ PortsOK /\ LeasePlaces /\ LeasePlaces'
      /\ ThreadTypes /\ ProviderTypes /\ PortTypes
  BY LeaseAtPlace, LeaseAtPlaceNext DEF IInv, Typed
<1>2. pc[t] = "exit" /\ call[t] \in {"open"} \cup Closers /\ OthersStay(t)
  <2>1. ThreadActions(t)
    BY DEF ThreadActions, Proceed
  <2> QED
    BY <1>1, <2>1, Inside, OthersUntouched DEF provider_exit
<1>3. HoldsLease(p)
  BY <1>1, <1>2 DEF LeasePlaces
<1>4. hasCm[q] /\ portalOf[q] # 0 /\ leases[q] > 0
  <2>1. portalOf[q] # 0
    BY <1>3 DEF IInv, PortalsOK
  <2> QED
    BY <2>1 DEF IInv, ProvidersOK
<1>5. UNCHANGED <<moduleVars, portalVars, entered, held, portal>>
  BY DEF provider_exit
<1>6. /\ leases' = [leases EXCEPT ![q] = @ - 1]
      /\ \/ /\ leases[q] > 1 /\ Goto(t, "idle", result[t]) /\ GiveUp(t, "idle")
            /\ UNCHANGED <<hasCm, portalOf, ending>>
         \/ /\ leases[q] = 1 /\ Goto(t, "stop", result[t]) /\ GiveUp(t, "stop")
            /\ hasCm' = [hasCm EXCEPT ![q] = FALSE]
            /\ portalOf' = [portalOf EXCEPT ![q] = 0]
            /\ ending' = [ending EXCEPT ![t] = portalOf[q]]
  <2>1. /\ leases[q] > 1 => leases' = [leases EXCEPT ![q] = @ - 1]
        /\ leases[q] = 1 => leases' = [leases EXCEPT ![q] = @ - 1]
    BY <1>1, <1>4 DEF provider_exit, ProviderTypes
  <2>2. leases[q] > 1 \/ leases[q] = 1
    BY <1>1, <1>4 DEF ProviderTypes
  <2> QED
    BY <1>4, <2>1, <2>2 DEF provider_exit
<1>7. /\ \/ pc'[t] = "idle" /\ port'[t] = None
         \/ pc'[t] = "stop" /\ UNCHANGED <<call, port>>
      /\ \A x \in Ports \ {p} : state'[x] = state[x]
  <2>1. Goto(t, "idle", result[t]) => pc'[t] = "idle" /\ port'[t] = None
    BY <1>1 DEF Goto, ThreadTypes
  <2>2. Goto(t, "stop", result[t]) => pc'[t] = "stop" /\ UNCHANGED <<call, port>>
    BY <1>1 DEF Goto, ThreadTypes
  <2>3. \A at : GiveUp(t, at) => \A x \in Ports \ {p} : state'[x] = state[x]
    BY <1>1 DEF GiveUp, PortTypes
  <2> QED
    BY <1>6, <2>1, <2>2, <2>3
<1>8. OthersKeep(p)
  <2>1. \A x \in Ports \ {p} : port'[t] # x /\ port[t] # x
    BY <1>7, NoneAssumption
  <2> QED
    BY <1>2, <1>5, <1>7, <2>1, LeaseFrame DEF OthersKeep
<1>9. ~HoldsLease(p)'
  <2>1. CASE pc'[t] = "stop"
    <3>1. port'[t] = p /\ call'[t] \in {"open"} \cup Closers
      BY <1>2, <1>7, <2>1
    <3> QED
      BY <1>1, <2>1, <3>1 DEF LeasePlaces
  <2>2. CASE pc'[t] = "idle" /\ call[t] = "open"
    <3>1. state'[p] = "failed"
      BY <1>1, <1>6, <2>2 DEF Goto, GiveUp, ThreadTypes, PortTypes
    <3> QED
      BY <3>1 DEF HoldsLease
  <2>3. CASE pc'[t] = "idle" /\ call[t] \in Closers
    <3>1. /\ state'[p] = "open" /\ ~entered'[p]
      BY <1>1, <1>2, <1>5, <1>6, <2>3
         DEF Places, InClose, Closers, GiveUp, PortTypes
    <3>2. \A u \in Threads : port[u] = p /\ pc[u] = "exit" => u = t
      <4>1. \A u \in Threads : pc[u] = "exit" => call[u] # "method" /\ pc[u] # "idle"
        BY <1>1 DEF Places, InMethod
      <4> QED
        BY <1>1, <1>2, <4>1, OneInsider DEF Closers
    <3>3. \A u \in Threads : ~(port'[u] = p /\ pc'[u] = "exit")
      BY <1>2, <1>7, <2>3, <3>2 DEF OthersStay
    <3> QED
      BY <3>1, <3>3 DEF HoldsLease
  <2> QED
    BY <1>2, <1>7, <2>1, <2>2, <2>3
<1>10. /\ leases[q] > 1 => pc'[t] = "idle"
       /\ leases[q] = 1 => pc'[t] = "stop"
  BY <1>1, <1>6 DEF Goto, ThreadTypes
<1> QED
  BY <1>3, <1>4, <1>5, <1>6, <1>8, <1>9, <1>10 DEF Loses

\* What a step does to the leases.
LEMMA LeaseSteps ==
  ASSUME IInv, Typed', Places', OneCloser',
         NEW t \in Threads, ThreadActions(t)
  PROVE  \/ SameLeases /\ pc[t] \notin {"enter", "exit"}
         \/ \E p \in Ports : \E q \in Providers :
              /\ p = port[t] /\ q = held[p] /\ UNCHANGED <<moduleVars, held>>
              /\ \/ /\ Gains(p, q) \/ Breaks(p, q)
                    /\ UNCHANGED <<stopping, ending>>
                    /\ pc[t] = "enter" /\ port'[t] = p
                    /\ pc'[t] = IF Gains(p, q) THEN "dispatch" ELSE "discard"
                 \/ /\ Loses(t, p, q) /\ UNCHANGED <<portalVars, portal>>
                    /\ pc[t] = "exit"
<1>1. CASE pc[t] \notin {"enter", "exit"}
  BY <1>1, LeasesKept
<1>2. CASE pc[t] \in {"enter", "exit"}
  <2>1. /\ port[t] \in Ports /\ held[port[t]] \in Providers
    BY <1>2, Inside DEF IInv
  <2>2. PICK p \in Ports, q \in Providers : p = port[t] /\ q = held[p]
    BY <2>1
  <2>3. provider_enter(t) \/ provider_exit(t)
    BY <1>2 DEF ThreadActions, Invoke, Proceed, Wait, configure_portal, open, method,
       close, __del__, MethodReturns, DrainBlocks, TcdrainReturns,
       MethodFindsClosed, CloseSet, CloseReturns, _release_portal,
       _discard_provider, _run, OpenReturns, StopPortal, JoinPortal
  <2>4. CASE provider_enter(t)
    <3>1. /\ UNCHANGED <<moduleVars, stopping, held, ending>>
          /\ \/ Gains(p, q) /\ pc'[t] = "dispatch"
             \/ Breaks(p, q) /\ pc'[t] = "discard"
      BY <2>2, <2>4, EnterEffect
    <3>2. Breaks(p, q) => ~Gains(p, q)
      BY Zenon DEF Gains, Breaks
    <3>3. pc[t] = "enter" /\ UNCHANGED port
      BY <2>4 DEF provider_enter, Goto
    <3> QED
      BY <2>2, <3>1, <3>2, <3>3
  <2>5. CASE provider_exit(t)
    BY <2>2, <2>5, ExitEffect DEF provider_exit
  <2> QED
    BY <2>3, <2>4, <2>5
<1> QED
  BY <1>1, <1>2

\* Every step keeps the lease counts exact.
LEMMA LeasesExactStep ==
  ASSUME IInv, Typed', Places', OneCloser',
         NEW t \in Threads, ThreadActions(t)
  PROVE  LeasesExact'
<1>1. ProviderTypes /\ LeasesExact
  BY DEF IInv, Typed
<1>2. \A q \in Providers : IsFiniteSet(Lessees(q))
  <2>1. \A q \in Providers : Lessees(q) \subseteq Ports
    BY DEF Lessees
  <2> QED
    BY <2>1, FeatureAssumption, FS_Subset
<1>3. \A q \in Providers : portalOf[q] # 0 \/ ~hasCm[q]
        => leases[q] = Cardinality(Lessees(q))
  BY <1>1 DEF LeasesExact, Lessees
<1>4. SUFFICES ASSUME NEW r \in Providers, portalOf'[r] # 0 \/ ~hasCm'[r]
               PROVE  leases'[r] = Cardinality({x \in Ports : held'[x] = r /\ HoldsLease(x)'})
  BY DEF LeasesExact
<1> DEFINE NextLessees == {x \in Ports : held'[x] = r /\ HoldsLease(x)'}
<1>5. CASE SameLeases
  <2>1. NextLessees = Lessees(r)
    BY <1>5, NoneAssumption DEF SameLeases, Lessees
  <2> QED
    BY <1>3, <1>4, <1>5, <2>1 DEF SameLeases
<1>6. ASSUME NEW p \in Ports, NEW q \in Providers, q = held[p],
             UNCHANGED held, Gains(p, q) \/ Breaks(p, q) \/ Loses(t, p, q)
      PROVE  leases'[r] = Cardinality(NextLessees)
  <2>1. \A x \in Ports \ {p} : x \in NextLessees <=> x \in Lessees(r)
    BY <1>6 DEF Gains, Breaks, Loses, OthersKeep, Lessees
  <2>2. CASE r # q
    <3>1. NextLessees = Lessees(r)
      <4>1. p \notin NextLessees /\ p \notin Lessees(r)
        BY <1>6, <2>2 DEF Lessees
      <4>2. NextLessees \subseteq Ports /\ Lessees(r) \subseteq Ports
        BY DEF Lessees
      <4> QED
        BY <2>1, <4>1, <4>2
    <3>2. leases'[r] = leases[r]
      BY <1>1, <1>6, <2>2 DEF Gains, Breaks, Loses, ProviderTypes
    <3>3. portalOf'[r] = portalOf[r]
      BY <1>1, <1>6, <2>2 DEF Gains, Breaks, Loses, ProviderTypes
    <3>4. hasCm'[r] = hasCm[r]
      BY <1>1, <1>6, <2>2 DEF Gains, Breaks, Loses, ProviderTypes
    <3> QED
      BY <1>3, <1>4, <3>1, <3>2, <3>3, <3>4
  <2>3. CASE r = q /\ Gains(p, q)
    <3>1. NextLessees = Lessees(r) \cup {p}
      <4>1. p \in NextLessees
        BY <1>6, <2>3 DEF Gains
      <4> QED
        BY <2>1, <4>1 DEF Lessees
    <3>2. p \notin Lessees(r)
      BY <2>3 DEF Gains, Lessees
    <3>3. Cardinality(NextLessees) = Cardinality(Lessees(r)) + 1
      BY <1>2, <3>1, <3>2, FS_AddElement
    <3>4. portalOf[r] # 0 \/ ~hasCm[r]
      BY <2>3 DEF Gains
    <3>5. leases'[r] = leases[r] + 1
      BY <1>1, <2>3 DEF Gains, ProviderTypes
    <3> QED
      BY <1>3, <3>3, <3>4, <3>5
  <2>4. CASE r = q /\ Breaks(p, q)
    <3>1. portalOf'[r] = 0
      BY <2>4 DEF Breaks
    <3>2. hasCm'[r]
      BY <1>1, <2>4 DEF Breaks, ProviderTypes
    <3> QED
      BY <1>4, <3>1, <3>2
  <2>5. CASE r = q /\ Loses(t, p, q)
    <3>1. NextLessees = Lessees(r) \ {p}
      <4>1. p \notin NextLessees
        BY <2>5 DEF Loses
      <4> QED
        BY <2>1, <4>1 DEF Lessees
    <3>2. p \in Lessees(r)
      BY <1>6, <2>5 DEF Loses, Lessees
    <3>3. Cardinality(NextLessees) = Cardinality(Lessees(r)) - 1
      BY <1>2, <3>1, <3>2, FS_RemoveElement
    <3>4. portalOf[r] # 0
      BY <2>5 DEF Loses
    <3>5. leases'[r] = leases[r] - 1
      BY <1>1, <2>5 DEF Loses, ProviderTypes
    <3> QED
      BY <1>3, <3>3, <3>4, <3>5
  <2> QED
    BY <1>6, <2>2, <2>3, <2>4, <2>5
<1> QED
  BY <1>5, <1>6, LeaseSteps

-----------------------------------------------------------------------------
(* Providers and portals *)

\* A thread that has failed to enter a provider keeps it until it discards it,
\* and only __enter__ sends a thread there.
LEMMA DiscardsKept ==
  ASSUME IInv, NEW t \in Threads, ThreadActions(t), pc[t] # "enter"
  PROVE  \A u \in Threads : pc'[u] = "discard" =>
           /\ u # t /\ pc[u] = "discard" /\ port'[u] = port[u]
           /\ held'[port[u]] = held[port[u]]
<1>1. /\ Typed /\ Places /\ OneCloser /\ PortsOK /\ OthersStay(t)
      /\ ThreadTypes /\ PortTypes
  BY OthersUntouched DEF IInv, Typed
<1>2. pc'[t] # "discard" \/ pc'[t] = pc[t]
  BY <1>1 DEF ThreadActions, Invoke, Proceed, Wait, configure_portal, open, method,
     close, __del__, MethodReturns, DrainBlocks, TcdrainReturns,
     MethodFindsClosed, CloseSet, CloseReturns, _release_portal,
     _discard_provider, _run, OpenReturns, StopPortal, JoinPortal,
     provider_exit, provider_enter, Goto, Begin, ThreadTypes, After
<1>3. pc'[t] # "discard"
  <2>1. CASE pc[t] = "discard"
    <3>1. _discard_provider(t)
      BY <2>1 DEF ThreadActions, Invoke, Proceed, Wait, configure_portal, open,
         method, close, __del__, MethodReturns, DrainBlocks, TcdrainReturns,
         MethodFindsClosed, CloseSet, CloseReturns, _release_portal, _run,
         OpenReturns, StopPortal, JoinPortal, provider_exit, provider_enter
    <3> QED
      BY <1>1, <3>1 DEF _discard_provider, Goto, ThreadTypes
  <2> QED
    BY <1>2, <2>1
<1>4. ASSUME NEW u \in Threads, pc'[u] = "discard"
      PROVE  held'[port[u]] = held[port[u]]
  <2>1. u # t /\ pc[u] = "discard"
    BY <1>1, <1>3, <1>4 DEF OthersStay
  <2>2. port[u] \in Ports /\ state[port[u]] = "opening" /\ call[u] = "open"
    BY <1>1, <2>1, Inside DEF Places, InOpen
  <2>3. CASE \E p \in Ports, q \in Providers : open(t, p, q)
    BY <1>1, <2>2, <2>3 DEF open, PortTypes
  <2>4. CASE _discard_provider(t)
    <3>1. port[t] # port[u]
      BY <1>1, <2>1, <2>2, <2>4, OneInsider, Inside DEF _discard_provider
    <3> QED
      BY <1>1, <2>2, <2>4, <3>1 DEF _discard_provider, PortTypes
  <2>5. CASE ~(_discard_provider(t) \/ \E p \in Ports, q \in Providers : open(t, p, q))
    <3>1. UNCHANGED held
      BY <2>5, ThreadKinds DEF OpenActions, MethodActions, CloseActions,
         ExitActions, configure_portal, method, close, __del__, MethodReturns,
         DrainBlocks, TcdrainReturns, MethodFindsClosed, CloseSet,
         CloseReturns, _release_portal, _run, OpenReturns, StopPortal,
         JoinPortal, provider_exit, provider_enter, portVars
    <3> QED
      BY <3>1
  <2> QED
    BY <2>3, <2>4, <2>5
<1> QED
  BY <1>1, <1>3, <1>4 DEF OthersStay

\* The cached provider, the providers made and the configured backend.
CacheOK ==
  /\ \A q \in Providers : backendOf[q] # None => q = provider \/ Broken(q)
  /\ provider # None => backendOf[provider] = backend

\* open caches the provider it makes, and only a broken one is discarded.
LEMMA CacheStep ==
  ASSUME IInv, NEW t \in Threads, ThreadActions(t),
         \A q \in Providers : Broken(q) => Broken(q)'
  PROVE  CacheOK'
<1>1. /\ ProviderTypes /\ CacheOK
      /\ \A q \in Providers : Broken(q) => Broken(q)'
  BY DEF IInv, Typed, ProvidersOK, CacheOK
<1>2. CASE \E p \in Ports, q \in Providers : open(t, p, q)
  <2>1. PICK q \in Providers : _get_provider(q) /\ UNCHANGED backend
    BY <1>2 DEF open
  <2>2. CASE UNCHANGED <<provider, backendOf>>
    BY <1>1, <2>1, <2>2 DEF CacheOK
  <2>3. CASE /\ provider = None /\ provider' = q
             /\ backendOf' = [backendOf EXCEPT ![q] = backend]
    <3>1. \A r \in Providers : backendOf[r] # None => Broken(r)
      BY <1>1, <2>3, NoneAssumption DEF CacheOK
    <3>2. \A r \in Providers \ {q} : backendOf'[r] # None => Broken(r)'
      BY <1>1, <2>3, <3>1 DEF ProviderTypes
    <3>3. backendOf'[provider'] = backend'
      BY <1>1, <2>1, <2>3 DEF ProviderTypes
    <3> QED
      BY <2>3, <3>2, <3>3 DEF CacheOK
  <2> QED
    BY <2>1, <2>2, <2>3 DEF _get_provider
<1>3. CASE \E b \in Backends : configure_portal(t, b)
  BY <1>1, <1>3 DEF configure_portal, CacheOK
<1>4. CASE _discard_provider(t)
  <2>1. Broken(held[port[t]]) /\ held[port[t]] \in Providers
    BY <1>4, Inside DEF _discard_provider, IInv, ProvidersOK
  <2>2. UNCHANGED <<backend, backendOf>>
        /\ provider' = IF provider = held[port[t]] THEN None ELSE provider
    BY <1>4 DEF _discard_provider
  <2> QED
    BY <1>1, <2>1, <2>2 DEF CacheOK
<1>5. CASE UNCHANGED moduleVars
  BY <1>1, <1>5 DEF CacheOK, moduleVars
<1> QED
  <2>1. OpenReturns(t) \/ provider_enter(t) \/ MethodActions(t) \/ CloseActions(t)
          \/ ExitActions(t) \/ _run(t) => UNCHANGED moduleVars
    BY DEF OpenReturns, provider_enter, MethodActions, method, MethodReturns,
       DrainBlocks, TcdrainReturns, MethodFindsClosed, CloseActions, close,
       __del__, CloseSet, CloseReturns, _release_portal, ExitActions,
       provider_exit, StopPortal, JoinPortal, _run
  <2> QED
    BY <1>2, <1>3, <1>4, <1>5, <2>1, ThreadKinds DEF OpenActions

\* Every step keeps a broken provider broken.
LEMMA BrokenStays ==
  ASSUME IInv, Typed', Places', OneCloser',
         NEW t \in Threads, ThreadActions(t), NEW q \in Providers, Broken(q)
  PROVE  Broken(q)'
<1>1. ProviderTypes
  BY DEF IInv, Typed
<1>2. CASE SameLeases
  BY <1>2 DEF SameLeases, Broken
<1>3. ASSUME NEW p \in Ports, NEW r \in Providers,
             Gains(p, r) \/ Breaks(p, r) \/ Loses(t, p, r)
      PROVE  Broken(q)'
  <2>1. portalOf'[q] = 0
    BY <1>1, <1>3 DEF Gains, Breaks, Loses, Broken, ProviderTypes
  <2>2. hasCm'[q]
    <3>1. q = r => ~Loses(t, p, r)
      BY DEF Loses, Broken
    <3>2. \/ UNCHANGED hasCm \/ hasCm' = [hasCm EXCEPT ![r] = TRUE]
          \/ hasCm' = [hasCm EXCEPT ![r] = FALSE] /\ q # r
      BY <1>3, <3>1 DEF Gains, Breaks, Loses
    <3> QED
      BY <1>1, <3>2 DEF Broken, ProviderTypes
  <2> QED
    BY <2>1, <2>2 DEF Broken
<1> QED
  BY <1>2, <1>3, LeaseSteps

\* Every step keeps the providers consistent.
LEMMA ProvidersStep ==
  ASSUME IInv, Typed', Places', OneCloser',
         NEW t \in Threads, ThreadActions(t)
  PROVE  ProvidersOK'
<1>1. /\ ProviderTypes /\ ProvidersOK /\ ThreadTypes /\ OthersStay(t)
  BY OthersUntouched DEF IInv, Typed
<1>2. CacheOK'
  BY BrokenStays, CacheStep
<1>3. \A q \in Providers : Broken(q) => Broken(q)'
  BY BrokenStays
<1>4. \A q \in Providers : /\ ~hasCm'[q] => portalOf'[q] = 0 /\ leases'[q] = 0
                           /\ portalOf'[q] # 0 => leases'[q] > 0
  <2>1. CASE SameLeases
    BY <1>1, <2>1 DEF SameLeases, ProvidersOK
  <2>2. ASSUME NEW p \in Ports, NEW r \in Providers, NEW q \in Providers,
               Gains(p, r) \/ Breaks(p, r) \/ Loses(t, p, r)
        PROVE  /\ ~hasCm'[q] => portalOf'[q] = 0 /\ leases'[q] = 0
               /\ portalOf'[q] # 0 => leases'[q] > 0
    <3>1. CASE q # r
      <4>1. leases'[q] = leases[q] /\ portalOf'[q] = portalOf[q]
        BY <1>1, <2>2, <3>1 DEF Gains, Breaks, Loses, ProviderTypes
      <4>2. hasCm'[q] = hasCm[q]
        BY <1>1, <2>2, <3>1 DEF Gains, Breaks, Loses, ProviderTypes
      <4> QED
        BY <1>1, <4>1, <4>2 DEF ProvidersOK
    <3>2. CASE q = r /\ Gains(p, r)
      <4>1. leases'[q] > 0
        BY <1>1, <3>2 DEF Gains, ProviderTypes
      <4>2. hasCm'[q]
        BY <1>1, <3>2 DEF Gains, ProviderTypes
      <4> QED
        BY <4>1, <4>2
    <3>3. CASE q = r /\ Breaks(p, r)
      <4>1. portalOf'[q] = 0
        BY <3>3 DEF Breaks
      <4>2. hasCm'[q]
        BY <1>1, <3>3 DEF Breaks, ProviderTypes
      <4> QED
        BY <4>1, <4>2
    <3>4. CASE q = r /\ Loses(t, p, r) /\ leases[r] > 1
      <4>1. leases'[q] > 0
        BY <1>1, <3>4 DEF Loses, ProviderTypes
      <4>2. hasCm'[q]
        <5>1. leases[r] # 1 /\ hasCm[r]
          BY <3>4 DEF Loses
        <5> QED
          BY <3>4, <5>1 DEF Loses
      <4> QED
        BY <4>1, <4>2
    <3>5. CASE q = r /\ Loses(t, p, r) /\ ~(leases[r] > 1)
      BY <1>1, <3>5 DEF Loses, ProviderTypes
    <3> QED
      BY <2>2, <3>1, <3>2, <3>3, <3>4, <3>5
  <2> QED
    BY <2>1, <2>2, LeaseSteps
<1>5. ASSUME NEW u \in Threads, pc'[u] = "discard" PROVE Broken(held[port[u]])'
  <2>1. CASE pc[t] # "enter"
    <3>1. /\ pc[u] = "discard" /\ port'[u] = port[u] /\ held'[port[u]] = held[port[u]]
          /\ held[port[u]] \in Providers
      BY <1>5, <2>1, DiscardsKept, Inside DEF IInv
    <3>2. Broken(held[port[u]])
      BY <1>1, <3>1 DEF ProvidersOK
    <3>3. PICK q \in Providers : q = held[port[u]]
      BY <3>1
    <3> QED
      BY <1>3, <3>1, <3>2, <3>3 DEF Broken
  <2>2. CASE pc[t] = "enter"
    <3>1. PICK p \in Ports, q \in Providers :
            /\ p = port[t] /\ q = held[p] /\ UNCHANGED held
            /\ Gains(p, q) \/ Breaks(p, q)
            /\ port'[t] = p /\ pc'[t] = IF Gains(p, q) THEN "dispatch" ELSE "discard"
      BY <2>2, LeaseSteps
    <3>2. CASE u = t
      <4>1. Breaks(p, q) /\ held'[port'[t]] = q
        BY <1>5, <3>1, <3>2
      <4>2. portalOf'[q] = 0
        BY <4>1 DEF Breaks
      <4>3. hasCm'[q]
        BY <1>1, <4>1 DEF Breaks, ProviderTypes
      <4> QED
        BY <3>2, <4>1, <4>2, <4>3 DEF Broken
    <3>3. CASE u # t
      <4>1. pc[u] = "discard" /\ port'[u] = port[u]
        BY <1>1, <1>5, <3>3 DEF OthersStay
      <4>2. PICK r \in Providers : r = held[port[u]]
        BY <4>1, Inside DEF IInv
      <4>3. Broken(r)'
        BY <1>1, <1>3, <4>1, <4>2 DEF ProvidersOK
      <4> QED
        BY <3>1, <4>1, <4>2, <4>3 DEF Broken
    <3> QED
      BY <3>2, <3>3
  <2> QED
    BY <2>1, <2>2
<1> QED
  BY <1>2, <1>4, <1>5 DEF ProvidersOK, CacheOK

\* What thread u is shutting down.
EndingOK(u) ==
  /\ ending[u] # 0 <=> pc[u] \in {"stop", "join"}
  /\ ending[u] # 0 => /\ ending[u] \in 1..started
                      /\ \A q \in Providers : portalOf[q] # ending[u]
  /\ pc[u] = "join" => ending[u] \notin running

\* Outside __enter__ and __exit__ only the thread that took the last lease
\* touches portals, and only the one it is to shut down.
LEMMA PortalSteps ==
  ASSUME IInv, NEW t \in Threads, ThreadActions(t), pc[t] \notin {"enter", "exit"}
  PROVE  \/ /\ UNCHANGED <<started, running, stopping, ending>>
            /\ pc[t] \notin {"stop", "join"} /\ pc'[t] \notin {"stop", "join"}
         \/ /\ pc[t] = "stop" /\ pc'[t] = "join" /\ UNCHANGED <<started, ending>>
            /\ running' = running \ {ending[t]}
            /\ stopping' = stopping \cup {ending[t]}
         \/ /\ pc[t] = "join" /\ pc'[t] = "idle" /\ UNCHANGED <<started, running>>
            /\ stopping' = stopping \ {ending[t]}
            /\ ending' = [ending EXCEPT ![t] = 0]
<1>1. Typed /\ Places /\ PortsOK /\ ThreadTypes
  BY DEF IInv, Typed
<1> USE <1>1 DEF ThreadTypes, Goto, Begin, portalVars, threadVars
<1>2. CASE OpenActions(t)
  BY <1>2 DEF OpenActions, open, provider_enter, _discard_provider, OpenReturns
<1>3. CASE MethodActions(t) \/ \E b \in Backends : configure_portal(t, b)
  BY <1>3 DEF MethodActions, method, MethodReturns, DrainBlocks,
     TcdrainReturns, MethodFindsClosed, configure_portal
<1>4. CASE CloseActions(t)
  BY <1>4 DEF CloseActions, close, __del__, CloseSet, CloseReturns, _release_portal
<1>5. CASE ExitActions(t)
  BY <1>5 DEF ExitActions, provider_exit, StopPortal, JoinPortal
<1>6. CASE _run(t)
  BY <1>6 DEF _run, After
<1> QED
  BY <1>2, <1>3, <1>4, <1>5, <1>6, ThreadKinds

\* The last lease a provider gives back is the only one it has.
LEMMA LastLease ==
  ASSUME ProviderTypes, LeasesExact, NEW q \in Providers, NEW p \in Ports,
         leases[q] = 1, portalOf[q] # 0, held[p] = q, HoldsLease(p),
         NEW x \in Ports, held[x] = q, HoldsLease(x)
  PROVE  x = p
<1>1. Cardinality(Lessees(q)) = 1
  BY DEF LeasesExact, Lessees
<1>2. IsFiniteSet(Lessees(q))
  <2>1. Lessees(q) \subseteq Ports
    BY DEF Lessees
  <2> QED
    BY <2>1, FeatureAssumption, FS_Subset
<1>3. \E y : Lessees(q) = {y}
  BY <1>1, <1>2, FS_Singleton
<1>4. x \in Lessees(q) /\ p \in Lessees(q)
  BY DEF Lessees
<1> QED
  BY <1>3, <1>4

\* Every step keeps the portals consistent.
LEMMA PortalsStep ==
  ASSUME IInv, Typed', Places', OneCloser',
         NEW t \in Threads, ThreadActions(t)
  PROVE  PortalsOK'
<1>1. /\ ProviderTypes /\ ProvidersOK /\ ThreadTypes /\ PortalTypes /\ PortTypes
      /\ PortalsOK /\ OthersStay(t) /\ LeasesExact
  BY OthersUntouched DEF IInv, Typed
<1>2. \A u \in Threads : EndingOK(u)
  BY <1>1 DEF PortalsOK, EndingOK
<1>3. CASE pc[t] \notin {"enter", "exit"}
  <2>1. SameLeases
    BY <1>3, LeasesKept
  <2>2. /\ \A q \in Providers : portalOf[q] # 0 => portalOf[q] \in running'
        /\ \A u \in Threads : EndingOK(u)'
        /\ PortalsAccounted'
    <3>1. CASE /\ UNCHANGED <<started, running, stopping, ending>>
               /\ pc[t] \notin {"stop", "join"} /\ pc'[t] \notin {"stop", "join"}
      <4>1. \A u \in Threads : EndingOK(u)'
        BY <1>1, <1>2, <2>1, <3>1 DEF EndingOK, OthersStay, SameLeases
      <4> QED
        BY <1>1, <2>1, <3>1, <4>1 DEF PortalsOK, PortalsAccounted, SameLeases
    <3>2. CASE /\ pc[t] = "stop" /\ pc'[t] = "join" /\ UNCHANGED <<started, ending>>
               /\ running' = running \ {ending[t]}
               /\ stopping' = stopping \cup {ending[t]}
      <4>1. \A u \in Threads : EndingOK(u)'
        BY <1>1, <1>2, <2>1, <3>2 DEF EndingOK, OthersStay, SameLeases
      <4>2. \A q \in Providers : portalOf[q] # ending[t]
        BY <1>2, <3>2 DEF EndingOK
      <4>3. PortalsAccounted'
        BY <1>1, <2>1, <3>2 DEF PortalsOK, PortalsAccounted, SameLeases
      <4> QED
        BY <1>1, <3>2, <4>1, <4>2, <4>3 DEF PortalsOK
    <3>3. CASE /\ pc[t] = "join" /\ pc'[t] = "idle" /\ UNCHANGED <<started, running>>
               /\ stopping' = stopping \ {ending[t]}
               /\ ending' = [ending EXCEPT ![t] = 0]
      <4>1. \A u \in Threads : ending'[u] = IF u = t THEN 0 ELSE ending[u]
        BY <1>1, <3>3 DEF ThreadTypes
      <4>2. \A u \in Threads : EndingOK(u)'
        BY <1>1, <1>2, <2>1, <3>3, <4>1 DEF EndingOK, OthersStay, SameLeases
      <4>3. ending[t] \notin running
        BY <1>2, <3>3 DEF EndingOK
      <4>4. PortalsAccounted'
        BY <1>1, <2>1, <3>3, <4>1, <4>3 DEF PortalsOK, PortalsAccounted, SameLeases
      <4> QED
        BY <1>1, <3>3, <4>2, <4>4 DEF PortalsOK
    <3> QED
      BY <1>3, <3>1, <3>2, <3>3, PortalSteps
  <2> QED
    BY <1>1, <2>1, <2>2 DEF PortalsOK, EndingOK, SameLeases
<1>4. ASSUME NEW p \in Ports, NEW q \in Providers, p = port[t], q = held[p],
             UNCHANGED held, Gains(p, q) \/ Breaks(p, q),
             UNCHANGED <<stopping, ending>>, pc[t] = "enter",
             pc'[t] \in {"dispatch", "discard"}
      PROVE  PortalsOK'
  <2>1. \A r \in Providers : leases'[r] >= leases[r]
    BY <1>1, <1>4 DEF Gains, Breaks, ProviderTypes
  <2>2. CASE /\ UNCHANGED <<portalOf, started, running>>
             /\ \/ UNCHANGED portal /\ ~HoldsLease(p)'
                \/ portal' = [portal EXCEPT ![p] = portalOf'[q]] /\ portalOf[q] # 0
    <3>1. \A u \in Threads : EndingOK(u)'
      BY <1>1, <1>2, <1>4, <2>2 DEF EndingOK, OthersStay
    <3>2. \A x \in Ports : HoldsLease(x)' =>
            portal'[x] = portalOf'[held'[x]] /\ portalOf'[held'[x]] # 0
      BY <1>1, <1>4, <2>2 DEF PortalsOK, PortTypes, Gains, Breaks, OthersKeep
    <3>3. PortalsAccounted'
      <4>1. \A r \in Providers : leases[r] > 0 => leases'[r] > 0
        <5>1. \A r \in Providers : leases[r] \in Nat /\ leases'[r] \in Nat
          BY <1>1 DEF ProviderTypes, Typed
        <5> QED
          BY <2>1, <5>1
      <4> QED
        BY <1>1, <1>4, <2>2, <4>1 DEF PortalsOK, PortalsAccounted
    <3> QED
      BY <1>1, <2>2, <3>1, <3>2, <3>3 DEF PortalsOK, EndingOK
  <2>3. CASE /\ Gains(p, q) /\ ~hasCm[q] /\ portalOf' = [portalOf EXCEPT ![q] = started + 1]
             /\ started' = started + 1 /\ running' = running \cup {started + 1}
    <3>1. portalOf[q] = 0
      BY <1>1, <2>3 DEF ProvidersOK
    <3>2. \A r \in Providers :
            portalOf'[r] = IF r = q THEN started + 1 ELSE portalOf[r]
      BY <1>1, <2>3 DEF ProviderTypes
    <3>3. /\ started \in Nat
          /\ \A r \in Providers : portalOf[r] # 0 => portalOf[r] \in 1..started
      BY <1>1 DEF PortalsOK, PortalTypes
    <3>4. \A u \in Threads : ending[u] \in Nat
      BY <1>1 DEF ThreadTypes
    <3>5. \A u \in Threads : EndingOK(u)'
      <4>1. ASSUME NEW u \in Threads PROVE EndingOK(u)'
        <5>1. ending'[u] # 0 <=> pc'[u] \in {"stop", "join"}
          BY <1>1, <1>2, <1>4 DEF EndingOK, OthersStay
        <5>2. ending[u] # 0 => ending[u] \in 1..started /\ ending[u] # started + 1
          BY <1>2, <3>3 DEF EndingOK
        <5>3. ending'[u] # 0 => /\ ending'[u] \in 1..started'
                                /\ \A r \in Providers : portalOf'[r] # ending'[u]
          BY <1>2, <1>4, <2>3, <3>2, <3>3, <5>2 DEF EndingOK
        <5>4. pc'[u] = "join" => ending'[u] \notin running'
          BY <1>1, <1>2, <1>4, <2>3, <5>2 DEF EndingOK, OthersStay
        <5> QED
          BY <5>1, <5>3, <5>4 DEF EndingOK
      <4> QED
        BY <4>1
    <3>6. \A x \in Ports : HoldsLease(x)' =>
            portal'[x] = portalOf'[held'[x]] /\ portalOf'[held'[x]] # 0
      <4>1. portal'[p] = started + 1 /\ portalOf'[held[p]] = started + 1 /\ started + 1 # 0
        BY <1>1, <1>4, <2>3, <3>2, <3>3 DEF Gains, PortTypes
      <4>2. ASSUME NEW x \in Ports \ {p}, HoldsLease(x)'
            PROVE  portal'[x] = portalOf'[held[x]] /\ portalOf'[held[x]] # 0
        <5>1. HoldsLease(x) /\ portal'[x] = portal[x]
          BY <1>1, <2>3, <4>2 DEF Gains, OthersKeep, PortTypes
        <5>2. /\ portal[x] = portalOf[held[x]] /\ portalOf[held[x]] # 0
          BY <1>1, <5>1 DEF PortalsOK
        <5>3. portalOf'[held[x]] = portalOf[held[x]]
          BY <1>1, <2>3, <3>1, <5>2 DEF ProviderTypes
        <5> QED
          BY <5>1, <5>2, <5>3
      <4> QED
        BY <1>4, <4>1, <4>2
    <3>7. PortalsAccounted'
      <4>1. leases'[q] > 0
        BY <1>1, <2>3 DEF Gains, ProviderTypes
      <4>2. ASSUME NEW k \in running' \cup stopping'
            PROVE  \/ \E r \in Providers : portalOf'[r] = k /\ leases'[r] > 0
                   \/ \E u \in Threads : ending'[u] = k
        <5>1. CASE k = started + 1
          BY <3>2, <4>1, <5>1
        <5>2. CASE k \in running \cup stopping
          <6>1. k \in 1..started /\ k # 0
            BY <1>1, <5>2 DEF PortalTypes
          <6>2. CASE \E r \in Providers : portalOf[r] = k /\ leases[r] > 0
            <7>1. PICK r \in Providers : portalOf[r] = k /\ leases[r] > 0
              BY <6>2
            <7>2. portalOf'[r] = k
              BY <3>1, <3>2, <6>1, <7>1
            <7>3. leases'[r] > 0
              BY <1>1, <2>3, <7>1 DEF Gains, ProviderTypes
            <7> QED
              BY <7>2, <7>3
          <6>3. CASE \E u \in Threads : ending[u] = k
            BY <1>4, <6>3
          <6> QED
            BY <1>1, <5>2, <6>2, <6>3 DEF PortalsOK, PortalsAccounted
        <5> QED
          BY <1>4, <2>3, <4>2, <5>1, <5>2
      <4>3. \A u, v \in Threads : ending'[u] # 0 /\ ending'[u] = ending'[v] => u = v
        BY <1>1, <1>4 DEF PortalsOK, PortalsAccounted
      <4> QED
        BY <4>2, <4>3 DEF PortalsAccounted
    <3>8. \A r \in Providers : portalOf'[r] # 0 => portalOf'[r] \in running'
      BY <1>1, <2>3, <3>2 DEF PortalsOK
    <3>9. \A r, v \in Providers : portalOf'[r] # 0 /\ portalOf'[r] = portalOf'[v] => r = v
      BY <1>1, <3>2, <3>3 DEF PortalsOK
    <3> QED
      BY <3>5, <3>6, <3>7, <3>8, <3>9 DEF PortalsOK, EndingOK
  <2> QED
    BY <1>4, <2>2, <2>3 DEF Gains, Breaks
<1>5. ASSUME NEW p \in Ports, NEW q \in Providers, p = port[t], q = held[p],
             UNCHANGED <<held, portalVars, portal>>, Loses(t, p, q), pc[t] = "exit"
      PROVE  PortalsOK'
  <2> USE <1>1, <1>5 DEF portalVars
  <2>1. CASE leases[q] > 1 /\ pc'[t] = "idle" /\ UNCHANGED <<hasCm, portalOf, ending>>
    <3>1. \A u \in Threads : EndingOK(u)'
      BY <1>2, <2>1 DEF EndingOK, OthersStay
    <3>2. \A x \in Ports : HoldsLease(x)' => HoldsLease(x)
      BY DEF Loses, OthersKeep
    <3>3. \A r \in Providers : leases[r] > 0 => leases'[r] > 0
      BY <2>1 DEF Loses, ProviderTypes
    <3>4. PortalsAccounted'
      BY <2>1, <3>3 DEF PortalsOK, PortalsAccounted
    <3> QED
      BY <2>1, <3>1, <3>2, <3>4 DEF PortalsOK, EndingOK
  <2>2. CASE /\ leases[q] = 1 /\ pc'[t] = "stop"
             /\ portalOf' = [portalOf EXCEPT ![q] = 0]
             /\ ending' = [ending EXCEPT ![t] = portalOf[q]]
    <3>1. portalOf[q] # 0 /\ portalOf[q] \in running /\ portalOf[q] \in 1..started
      BY DEF Loses, PortalsOK, PortalTypes
    <3>2. /\ \A r \in Providers : portalOf'[r] = IF r = q THEN 0 ELSE portalOf[r]
          /\ \A u \in Threads : ending'[u] = IF u = t THEN portalOf[q] ELSE ending[u]
      BY <2>2 DEF ProviderTypes, ThreadTypes
    <3>3. ending[t] = 0
      BY <1>2 DEF EndingOK
    <3>4. \A r \in Providers \ {q} : portalOf[r] # portalOf[q]
      BY <3>1 DEF PortalsOK
    <3>5. \A u \in Threads : EndingOK(u)'
      <4>1. EndingOK(t)'
        BY <2>2, <3>1, <3>2, <3>4 DEF EndingOK
      <4>2. ASSUME NEW u \in Threads \ {t} PROVE EndingOK(u)'
        BY <1>2, <3>2 DEF EndingOK, OthersStay
      <4> QED
        BY <4>1, <4>2
    <3>6. ASSUME NEW x \in Ports, HoldsLease(x)'
          PROVE  portal[x] = portalOf'[held[x]] /\ portalOf'[held[x]] # 0
      <4>1. HoldsLease(x) /\ x # p
        BY <3>6 DEF Loses, OthersKeep
      <4>2. held[x] # q
        BY <2>2, <3>1, <4>1, LastLease DEF Loses
      <4>3. portal[x] = portalOf[held[x]] /\ portalOf[held[x]] # 0
        BY <4>1 DEF PortalsOK
      <4>4. portalOf'[held[x]] = portalOf[held[x]]
        BY <2>2, <4>2 DEF ProviderTypes
      <4> QED
        BY <4>3, <4>4
    <3>7. PortalsAccounted'
      <4>1. \A u \in Threads : ending[u] # portalOf[q]
        BY <1>2, <3>1 DEF EndingOK
      <4>2. \A u, v \in Threads : ending'[u] # 0 /\ ending'[u] = ending'[v] => u = v
        BY <3>2, <4>1 DEF PortalsOK, PortalsAccounted
      <4>3. ASSUME NEW k \in running \cup stopping
            PROVE  \/ \E r \in Providers : portalOf'[r] = k /\ leases'[r] > 0
                   \/ \E u \in Threads : ending'[u] = k
        <5>1. CASE k = portalOf[q]
          BY <3>2, <5>1
        <5>2. CASE k # portalOf[q] /\ \E r \in Providers : portalOf[r] = k /\ leases[r] > 0
          <6>1. PICK r \in Providers : portalOf[r] = k /\ leases[r] > 0
            BY <5>2
          <6>2. r # q
            BY <5>2, <6>1
          <6>3. leases'[r] = leases[r]
            BY <6>2 DEF Loses, ProviderTypes
          <6> QED
            BY <3>2, <6>1, <6>2, <6>3
        <5>3. CASE \E u \in Threads : ending[u] = k
          <6>1. k # 0
            BY DEF PortalTypes
          <6> QED
            BY <3>2, <3>3, <5>3, <6>1
        <5> QED
          BY <5>1, <5>2, <5>3 DEF PortalsOK, PortalsAccounted
      <4> QED
        BY <4>2, <4>3 DEF PortalsAccounted
    <3>8. /\ \A r \in Providers : portalOf'[r] # 0 => portalOf'[r] \in running
          /\ \A r, v \in Providers : portalOf'[r] # 0 /\ portalOf'[r] = portalOf'[v] => r = v
      BY <3>2 DEF PortalsOK
    <3> QED
      BY <3>5, <3>6, <3>7, <3>8 DEF PortalsOK, EndingOK
  <2> QED
    BY <2>1, <2>2 DEF Loses
<1> QED
  BY <1>3, <1>4, <1>5, LeaseSteps

-----------------------------------------------------------------------------
(* The invariant and what follows from it *)

\* The process starts with nothing opened.
LEMMA IInvInit == Init => IInv
<1> SUFFICES ASSUME Init PROVE IInv
  OBVIOUS
<1> USE DEF Init
<1>1. backend \in Backends
  BY FeatureAssumption
<1>2. ProviderTypes
  <2>1. hasCm \in [Providers -> BOOLEAN]
    OBVIOUS
  <2> QED
    BY <1>1, <2>1 DEF ProviderTypes
<1>3. PortTypes
  <2>1. closed \in [Ports -> BOOLEAN] /\ entered \in [Ports -> BOOLEAN]
        /\ dev \in [Ports -> BOOLEAN]
    OBVIOUS
  <2> QED
    BY <2>1 DEF PortTypes
<1>4. PortalTypes /\ ThreadTypes
  BY DEF PortalTypes, ThreadTypes, Pcs, Results
<1>5. Places /\ OneCloser /\ PortsOK
  BY DEF Places, OneCloser, PortsOK, Closers
<1>6. ProvidersOK
  BY DEF ProvidersOK
<1>7. \A p \in Ports : ~HoldsLease(p)
  BY DEF HoldsLease
<1>8. PortalsOK
  BY <1>7 DEF PortalsOK, PortalsAccounted
<1>9. LeasesExact
  <2>1. \A q \in Providers : {p \in Ports : held[p] = q /\ HoldsLease(p)} = {}
    BY <1>7
  <2> QED
    BY <2>1, FS_EmptySet DEF LeasesExact
<1> QED
  BY <1>2, <1>3, <1>4, <1>5, <1>6, <1>8, <1>9 DEF IInv, Typed

\* No step of any thread breaks it that does not make it the second to close a
\* port.
LEMMA IInvNext == ASSUME IInv, OneCloser', [Next]_vars PROVE IInv'
<1>1. ASSUME NEW t \in Threads, ThreadActions(t) PROVE IInv'
  <2>1. Typed' /\ Places' /\ OneCloser'
    BY <1>1, TypedStep, PlacesStep
  <2>2. PortsOK'
    BY <1>1, PortsStep
  <2>3. ProvidersOK' /\ PortalsOK' /\ LeasesExact'
    BY <1>1, <2>1, ProvidersStep, PortalsStep, LeasesExactStep
  <2> QED
    BY <2>1, <2>2, <2>3 DEF IInv
<1>2. CASE UNCHANGED vars
  <2> USE <1>2 DEF vars, moduleVars, providerVars, portalVars, portVars, threadVars
  <2>1. Typed'
    BY DEF IInv, Typed, ProviderTypes, PortalTypes, PortTypes, ThreadTypes
  <2>2. Places' /\ OneCloser' /\ PortsOK'
    BY DEF IInv, Places, InOpen, InMethod, InClose, OneCloser, PortsOK
  <2>3. ProvidersOK'
    BY DEF IInv, ProvidersOK, Broken
  <2>4. \A p \in Ports : HoldsLease(p)' <=> HoldsLease(p)
    BY DEF HoldsLease
  <2>5. PortalsOK'
    BY <2>4 DEF IInv, PortalsOK, PortalsAccounted
  <2>6. LeasesExact'
    BY <2>4 DEF IInv, LeasesExact
  <2> QED
    BY <2>1, <2>2, <2>3, <2>5, <2>6 DEF IInv
<1> QED
  BY <1>1, <1>2 DEF Next, ThreadActions

LEMMA Invariance == Spec /\ []OneCloser => []IInv
BY IInvInit, IInvNext, PTL DEF Spec

\* sync.py never leaks a lease nor gives one back twice: whatever the order in
\* which threads open, fail to open, time out, close twice and finalize, the
\* count of the provider is the number of ports that will still call __exit__.
THEOREM LeasesCorrect == Spec /\ []OneCloser => []LeasesExact
<1>1. IInv => LeasesExact
  BY DEF IInv
<1> QED
  BY <1>1, Invariance, PTL

\* An open port's portal runs, is the one all open ports share, and runs the
\* configured backend.  __enter__, _discard_provider and configure_portal of
\* any other thread may come between any two steps of open and close.
THEOREM OpenPortsServed == Spec /\ []OneCloser => []OpenPortsAreServed
<1>1. IInv => OpenPortsAreServed
  <2> SUFFICES ASSUME IInv PROVE OpenPortsAreServed
    OBVIOUS
  <2>1. ASSUME NEW p \in Ports, Usable(p)
        PROVE  /\ portal[p] \in running
               /\ portal[p] = portalOf[provider] /\ backendOf[held[p]] = backend
    <3>1. HoldsLease(p) /\ held[p] \in Providers /\ backendOf[held[p]] # None
      BY <2>1 DEF IInv, PortsOK, Usable, HoldsLease
    <3>2. portal[p] = portalOf[held[p]] /\ portalOf[held[p]] # 0
      BY <3>1 DEF IInv, PortalsOK
    <3>3. portal[p] \in running
      BY <3>1, <3>2 DEF IInv, PortalsOK
    <3>4. held[p] = provider
      BY <3>1, <3>2 DEF IInv, ProvidersOK, Broken
    <3>5. backendOf[held[p]] = backend
      BY <3>1, <3>4, NoneAssumption DEF IInv, ProvidersOK
    <3> QED
      BY <3>2, <3>3, <3>4, <3>5
  <2> QED
    BY <2>1 DEF OpenPortsAreServed
<1> QED
  BY <1>1, Invariance, PTL

\* Each portal's thread is stopped by exactly one thread, the one that gave the
\* last lease back; until then somebody has a lease on it.
THEOREM PortalsCorrect == Spec /\ []OneCloser => []PortalsAccounted
<1>1. IInv => PortalsAccounted
  BY DEF IInv, PortalsOK
<1> QED
  BY <1>1, Invariance, PTL

-----------------------------------------------------------------------------
(* Ports that are closed by the thread that opened them *)

\* close() runs in the opener of its port, and the finalizer when the port has
\* none any more, once.
OwnersClose ==
  /\ \A t \in Threads :
       /\ call[t] = "close" => opener[port[t]] = t
       /\ call[t] = "del" => opener[port[t]] = None
  /\ \A t, u \in Threads :
       call[t] = "del" /\ call[u] = "del" /\ port[t] = port[u] => t = u

LEMMA OwnersAreOne == OwnersClose => OneCloser
BY NoneAssumption DEF OwnersClose, OneCloser, Closers

LEMMA OwnersStep ==
  ASSUME ~SharedClose, IInv, OwnersClose, NEW t \in Threads, ThreadActions(t)
  PROVE  OwnersClose'
<1>1. /\ Typed /\ Places /\ PortsOK /\ OthersStay(t)
      /\ ThreadTypes /\ PortTypes
  BY OthersUntouched DEF IInv, Typed
<1> USE <1>1 DEF ThreadTypes, PortTypes, Goto, Begin, threadVars, portVars
<1>2. \A u \in Threads : call[u] \in Closers => state[port[u]] = "open" /\ port[u] \in Ports
  BY NoneAssumption DEF Places, InClose, Closers
<1>3. \A p \in Ports :
        \/ opener'[p] = opener[p]
        \/ state[p] # "open"
        \/ /\ \A u \in Threads : call[u] \in Closers => port[u] # p
           /\ opener'[p] = None
  <2>1. CASE OpenActions(t)
    <3>1. CASE \E p \in Ports, q \in Providers : open(t, p, q)
      BY <3>1 DEF open
    <3>2. CASE _discard_provider(t)
      <4>1. pc[t] = "discard" /\ call[t] = "open" /\ port[t] \in Ports
        BY <3>2, Inside DEF _discard_provider
      <4>2. state[port[t]] = "opening"
        BY <4>1 DEF Places, InOpen
      <4>3. opener' = [opener EXCEPT ![port[t]] = None]
        BY <3>2 DEF _discard_provider
      <4> QED
        BY <4>1, <4>2, <4>3
    <3>3. CASE provider_enter(t) \/ OpenReturns(t)
      BY <3>3 DEF provider_enter, OpenReturns
    <3> QED
      BY <2>1, <3>1, <3>2, <3>3 DEF OpenActions
  <2>2. CASE MethodActions(t)
    BY <2>2 DEF MethodActions, method, MethodReturns, DrainBlocks,
       TcdrainReturns, MethodFindsClosed
  <2>3. CASE \E p \in Ports : __del__(t, p)
    <3>1. PICK p \in Ports : __del__(t, p)
      BY <2>3
    <3>2. \A u \in Threads : call[u] \in Closers => port[u] # p
      BY <3>1 DEF __del__, Unused, Places, Closers
    <3>3. opener' = [opener EXCEPT ![p] = None]
      BY <3>1 DEF __del__
    <3> QED
      BY <3>2, <3>3
  <2>4. CASE CloseActions(t) /\ ~ \E p \in Ports : __del__(t, p)
    BY <2>4 DEF CloseActions, close, CloseSet, CloseReturns, _release_portal
  <2>5. CASE ExitActions(t)
    BY <2>5 DEF ExitActions, provider_exit, StopPortal, JoinPortal
  <2>6. CASE _run(t) \/ \E b \in Backends : configure_portal(t, b)
    BY <2>6 DEF _run, configure_portal
  <2> QED
    BY <2>1, <2>2, <2>3, <2>4, <2>5, <2>6, ThreadKinds
<1>4. \/ call'[t] \notin Closers
      \/ call[t] \in Closers /\ call'[t] = call[t] /\ port'[t] = port[t]
      \/ call'[t] = "close" /\ opener'[port'[t]] = t
      \/ /\ call'[t] = "del" /\ port'[t] \in Ports /\ opener'[port'[t]] = None
         /\ \A u \in Threads : call[u] \in Closers => port[u] # port'[t]
  <2> USE DEF Closers
  <2>1. CASE OpenActions(t)
    <3>1. CASE \E p \in Ports, q \in Providers : open(t, p, q)
      BY <3>1 DEF open
    <3>2. CASE provider_enter(t) \/ _discard_provider(t) \/ OpenReturns(t)
      BY <3>2 DEF provider_enter, _discard_provider, OpenReturns
    <3> QED
      BY <2>1, <3>1, <3>2 DEF OpenActions
  <2>2. CASE MethodActions(t)
    BY <2>2 DEF MethodActions, method, MethodReturns, DrainBlocks,
       TcdrainReturns, MethodFindsClosed
  <2>3. CASE \E p \in Ports : close(t, p)
    <3>1. PICK p \in Ports : close(t, p)
      BY <2>3
    <3>2. UNCHANGED opener /\ opener[p] = t
      BY <3>1 DEF close, MayClose
    <3>3. call'[t] = "none" \/ (call'[t] = "close" /\ port'[t] = p)
      BY <3>1 DEF close
    <3> QED
      BY <3>2, <3>3
  <2>4. CASE \E p \in Ports : __del__(t, p)
    <3>1. PICK p \in Ports : __del__(t, p)
      BY <2>4
    <3>2. \A u \in Threads : call[u] \in Closers => port[u] # p
      BY <3>1 DEF __del__, Unused, Places
    <3>3. opener'[p] = None
      BY <3>1 DEF __del__
    <3>4. call'[t] = "none" \/ (call'[t] = "del" /\ port'[t] = p)
      BY <3>1 DEF __del__
    <3> QED
      BY <3>2, <3>3, <3>4
  <2>5. CASE CloseSet(t) \/ CloseReturns(t) \/ _release_portal(t)
    BY <2>5 DEF CloseSet, CloseReturns, _release_portal
  <2>6. CASE ExitActions(t)
    BY <2>6 DEF ExitActions, provider_exit, StopPortal, JoinPortal
  <2>7. CASE _run(t) \/ \E b \in Backends : configure_portal(t, b)
    BY <2>7 DEF _run, configure_portal
  <2> QED
    BY <2>1, <2>2, <2>3, <2>4, <2>5, <2>6, <2>7, ThreadKinds DEF CloseActions
<1>5. \A u \in Threads : call[u] \in Closers => opener'[port[u]] = opener[port[u]]
  BY <1>2, <1>3
<1>6. ASSUME NEW u \in Threads
      PROVE  /\ call'[u] = "close" => opener'[port'[u]] = u
             /\ call'[u] = "del" => opener'[port'[u]] = None
  <2>1. CASE u = t
    BY <1>4, <1>5, <2>1, NoneAssumption DEF OwnersClose, Closers
  <2>2. CASE u # t
    BY <1>5, <2>2 DEF OwnersClose, OthersStay, Closers
  <2> QED
    BY <2>1, <2>2
<1>7. \A u \in Threads : u # t => call'[u] = call[u] /\ port'[u] = port[u]
  BY DEF OthersStay
<1>8. \A u \in Threads : u # t /\ call'[t] = "del" /\ call'[u] = "del" => port'[t] # port'[u]
  BY <1>4, <1>7 DEF OwnersClose, Closers
<1> QED
  BY <1>6, <1>7, <1>8 DEF OwnersClose

\* When close() is left to the opener, no two threads close the same port at
\* once, whatever else they do.
THEOREM OwnersCloseOnce == ASSUME ~SharedClose PROVE Spec => []OneCloser
<1>1. Init => IInv /\ OwnersClose
  <2>1. Init => OwnersClose
    BY DEF Init, OwnersClose
  <2> QED
    BY <2>1, IInvInit
<1>2. IInv /\ OwnersClose /\ [Next]_vars => (IInv /\ OwnersClose)'
  <2> SUFFICES ASSUME IInv, OwnersClose, [Next]_vars PROVE IInv' /\ OwnersClose'
    OBVIOUS
  <2>1. OwnersClose'
    <3>1. CASE UNCHANGED vars
      BY <3>1 DEF vars, portVars, threadVars, OwnersClose
    <3>2. CASE Next
      BY <3>2, OwnersStep DEF Next, ThreadActions
    <3> QED
      BY <3>1, <3>2
  <2>2. OneCloser'
    BY <2>1, NoneAssumption DEF OwnersClose, OneCloser, Closers
  <2> QED
    BY <2>1, <2>2, IInvNext
<1> QED
  BY <1>1, <1>2, OwnersAreOne, PTL DEF Spec

\* The three together for ports that are closed by their openers.
THEOREM OwnersAreSafe ==
  ASSUME ~SharedClose
  PROVE  Spec => [](LeasesExact /\ OpenPortsAreServed /\ PortalsAccounted)
BY OwnersCloseOnce, LeasesCorrect, OpenPortsServed, PortalsCorrect, PTL
=============================================================================
