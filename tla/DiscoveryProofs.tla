--------------------------- MODULE DiscoveryProofs ---------------------------
(***************************************************************************)
(* The native handles of a walk: whatever is unplugged and plugged in      *)
(* while it runs, it holds each at most once and gives all of them back.   *)
(*                                                                         *)
(* The answer of a call: a device that stays plugged in is in it once for  *)
(* each node, under its own name and with its own metadata.                *)
(***************************************************************************)
EXTENDS Discovery, FiniteSetTheorems, TLAPS

-----------------------------------------------------------------------------
(* The native handles *)

\* The handles of S, each held once.
Each(S) == [h \in Handles |-> IF h \in S THEN 1 ELSE 0]

\* Nothing is held before the snapshot, after the return and on systems that
\* read files.
HoldsNothing ==
  /\ system \in {"linux", "pyudev", "bsd"} \/ pc \in {"start", "snapshot", "done"}
  /\ held = Each({})

\* _darwin/discovery.py is in the walk over the IOKit services.
HoldsServices ==
  /\ system = "darwin"
  /\ \/ pc = "next" /\ held = Each({"iterator"})
     \/ pc \in {"usb", "drop"} /\ held = Each({"iterator", "service"})
     \/ pc \in {"vid", "serial"} /\ held = Each({"iterator", "service", "parent"})

\* _windows/discovery.py is in the walk over the SetupAPI list, behind it, or in
\* the registry.
HoldsList ==
  /\ system = "win32"
  /\ \/ pc \in {"next", "serial"} /\ held = Each({"list"})
     \/ pc = "next" /\ todo = <<>> /\ held = Each({})
     \/ pc = "key" /\ todo = <<>> /\ held = Each({"key"})

IInv ==
  /\ pc \in {"start", "snapshot", "next", "usb", "vid", "serial", "drop", "key", "done"}
  /\ pc = "key" => system = "win32"
  /\ HoldsNothing \/ HoldsServices \/ HoldsList

LEMMA EachFacts ==
  /\ NoHandles = Each({})
  /\ \A S : \A h \in Handles : Each(S)[h] = IF h \in S THEN 1 ELSE 0
  /\ \A S : \A h \in Handles \ S : [Each(S) EXCEPT ![h] = @ + 1] = Each(S \cup {h})
  /\ \A S : \A h \in Handles \cap S : [Each(S) EXCEPT ![h] = @ - 1] = Each(S \ {h})
<1>1. NoHandles = Each({})
  BY DEF NoHandles, Each
<1>2. \A S : \A h \in Handles : Each(S)[h] = IF h \in S THEN 1 ELSE 0
  BY DEF Each
<1>3. ASSUME NEW S, NEW h \in Handles \ S
      PROVE  [Each(S) EXCEPT ![h] = @ + 1] = Each(S \cup {h})
  <2>1. Each(S)[h] + 1 = 1
    BY <1>3, <1>2
  <2>2. PICK v : v = Each(S)[h] + 1
    OBVIOUS
  <2>3. [Each(S) EXCEPT ![h] = v] = Each(S \cup {h})
    BY <1>3, <2>1, <2>2 DEF Each
  <2> QED
    BY <2>2, <2>3
<1>4. ASSUME NEW S, NEW h \in Handles \cap S
      PROVE  [Each(S) EXCEPT ![h] = @ - 1] = Each(S \ {h})
  <2>1. Each(S)[h] - 1 = 0
    BY <1>4, <1>2
  <2>2. PICK v : v = Each(S)[h] - 1
    OBVIOUS
  <2>3. [Each(S) EXCEPT ![h] = v] = Each(S \ {h})
    BY <1>4, <2>1, <2>2 DEF Each
  <2> QED
    BY <2>2, <2>3
<1> QED
  BY <1>1, <1>2, <1>3, <1>4

LEMMA InitInv == Init => IInv
BY EachFacts DEF Init, IInv, HoldsNothing

LEMMA Handling ==
  /\ "iterator" \in Handles /\ "service" \in Handles /\ "parent" \in Handles
  /\ "list" \in Handles /\ "key" \in Handles
BY DEF Handles

\* The device tree moves under the walk.
LEMMA TreeInv ==
  ASSUME IInv, NEW d, Unplug(d) \/ Plug(d)
  PROVE  IInv'
<1>1. UNCHANGED <<system, pc, todo, held>>
  BY DEF Unplug, Plug, Move, walk
<1> QED
  BY <1>1 DEF IInv, HoldsNothing, HoldsServices, HoldsList

LEMMA BeginInv ==
  ASSUME IInv, Canonicalize \/ Snapshot \/ ResolveBsd
  PROVE  IInv'
<1>1. CASE Canonicalize
  <2>1. pc = "start" /\ pc' = "snapshot" /\ UNCHANGED <<system, todo, held>>
    BY <1>1 DEF Canonicalize, walk
  <2> QED
    BY <2>1 DEF IInv, HoldsNothing, HoldsServices, HoldsList
<1>2. CASE ResolveBsd
  <2>1. pc = "snapshot" /\ pc' = "done" /\ UNCHANGED <<system, todo, held>>
    BY <1>2 DEF ResolveBsd, Return, walk
  <2> QED
    BY <2>1 DEF IInv, HoldsNothing, HoldsServices, HoldsList
<1>3. CASE Snapshot
  <2>1. pc = "snapshot" /\ pc' = "next" /\ system' = system
    BY <1>3 DEF Snapshot
  <2>2. held = Each({})
    BY <2>1 DEF IInv, HoldsNothing, HoldsServices, HoldsList
  <2>3. SnapshotLinux \/ SnapshotServices \/ SnapshotBsd
    BY <1>3 DEF Snapshot
  <2>4. CASE system \in {"linux", "pyudev", "bsd"} /\ UNCHANGED held
    BY <2>1, <2>2, <2>4 DEF IInv, HoldsNothing
  <2>5. CASE /\ system \in {"darwin", "win32"}
             /\ held' = [held EXCEPT ![IF system = "darwin" THEN "iterator" ELSE "list"] = @ + 1]
    <3>1. PICK h : h = IF system = "darwin" THEN "iterator" ELSE "list"
      OBVIOUS
    <3>2. h \in Handles \ {}
      BY <3>1, Handling
    <3>3. held' = [Each({}) EXCEPT ![h] = @ + 1]
      BY <2>2, <2>5, <3>1
    <3>4. [Each({}) EXCEPT ![h] = @ + 1] = Each({} \cup {h})
      BY <3>2, EachFacts
    <3>5. {} \cup {h} = {h}
      OBVIOUS
    <3>6. held' = Each({h})
      BY <3>3, <3>4, <3>5
    <3> QED
      BY <2>1, <2>5, <3>1, <3>6 DEF IInv, HoldsServices, HoldsList
  <2>6. SnapshotLinux => system \in {"linux", "pyudev", "bsd"} /\ UNCHANGED held
    BY Zenon DEF SnapshotLinux
  <2>7. SnapshotBsd => system \in {"linux", "pyudev", "bsd"} /\ UNCHANGED held
    BY Zenon DEF SnapshotBsd
  <2>8. SnapshotServices =>
          /\ system \in {"darwin", "win32"}
          /\ held' = [held EXCEPT ![IF system = "darwin" THEN "iterator" ELSE "list"] = @ + 1]
    BY Zenon DEF SnapshotServices
  <2> QED
    BY <2>3, <2>4, <2>5, <2>6, <2>7, <2>8
<1> QED
  BY <1>1, <1>2, <1>3

\* The walks that read files, nodes or the udev database hold nothing.
LEMMA FilesInv ==
  ASSUME IInv,
         \/ _resolve_entry \/ _find_usb_device \/ _resolve_usb
         \/ _device_to_port_info \/ NextPattern
  PROVE  IInv'
<1>1. system \in {"linux", "pyudev", "bsd"} /\ UNCHANGED <<system, held>>
  BY DEF _resolve_entry, _find_usb_device, _resolve_usb, _device_to_port_info, NextPattern, Step
<1>2. pc' \in {"next", "usb", "vid", "serial"} \/ pc' = pc
  BY DEF _resolve_entry, _find_usb_device, _resolve_usb, _device_to_port_info, NextPattern,
         Skip, Add
<1>3. HoldsNothing /\ pc # "key"
  BY <1>1 DEF IInv, HoldsNothing, HoldsServices, HoldsList
<1> QED
  BY <1>1, <1>2, <1>3 DEF IInv, HoldsNothing

LEMMA ServicesInv ==
  ASSUME IInv, NextService \/ find_usb_parent \/ ReadParent \/ Drop
  PROVE  IInv'
<1>1. system = "darwin" /\ system' = "darwin" /\ pc \in {"next", "usb", "vid", "serial", "drop"}
  BY DEF NextService, find_usb_parent, ReadParent, Drop, Step
<1>2. HoldsServices
  BY <1>1 DEF IInv, HoldsNothing, HoldsList
<1>3. CASE NextService
  <2>1. pc = "next" /\ pc' \in {"usb", "drop"} /\ Hold("service")
    BY <1>3 DEF NextService
  <2>2. held = Each({"iterator"}) /\ held' = [held EXCEPT !["service"] = @ + 1]
    BY <1>2, <2>1 DEF HoldsServices, Hold
  <2>3. [Each({"iterator"}) EXCEPT !["service"] = @ + 1] = Each({"iterator"} \cup {"service"})
    BY EachFacts, Handling
  <2>4. {"iterator"} \cup {"service"} = {"iterator", "service"}
    OBVIOUS
  <2>5. held' = Each({"iterator", "service"})
    BY <2>2, <2>3, <2>4
  <2> QED
    BY <1>1, <2>1, <2>5 DEF IInv, HoldsServices
<1>4. CASE find_usb_parent
  <2>1. pc = "usb" /\ held = Each({"iterator", "service"})
    BY <1>2, <1>4 DEF find_usb_parent, HoldsServices
  <2>2. CASE pc' = "drop" /\ UNCHANGED held
    BY <1>1, <2>1, <2>2 DEF IInv, HoldsServices
  <2>3. CASE pc' = "vid" /\ Hold("parent")
    <3>1. held' = [Each({"iterator", "service"}) EXCEPT !["parent"] = @ + 1]
      BY <2>1, <2>3 DEF Hold
    <3>2. [Each({"iterator", "service"}) EXCEPT !["parent"] = @ + 1]
             = Each({"iterator", "service"} \cup {"parent"})
      BY EachFacts, Handling
    <3>3. {"iterator", "service"} \cup {"parent"} = {"iterator", "service", "parent"}
      OBVIOUS
    <3>4. held' = Each({"iterator", "service", "parent"})
      BY <3>1, <3>2, <3>3
    <3> QED
      BY <1>1, <2>3, <3>4 DEF IInv, HoldsServices
  <2> QED
    BY <1>4, <2>2, <2>3 DEF find_usb_parent, Listed
<1>5. CASE ReadParent
  <2>1. pc \in {"vid", "serial"}
    BY <1>5 DEF ReadParent
  <2>2. held = Each({"iterator", "service", "parent"})
    BY <1>2, <2>1 DEF HoldsServices
  <2>3. CASE pc' = "serial" /\ UNCHANGED held
    BY <1>1, <2>2, <2>3 DEF IInv, HoldsServices
  <2>4. CASE pc' = "drop" /\ Release("parent")
    <3>1. held' = [Each({"iterator", "service", "parent"}) EXCEPT !["parent"] = @ - 1]
      BY <2>2, <2>4 DEF Release
    <3>2. [Each({"iterator", "service", "parent"}) EXCEPT !["parent"] = @ - 1]
             = Each({"iterator", "service", "parent"} \ {"parent"})
      BY EachFacts, Handling
    <3>3. {"iterator", "service", "parent"} \ {"parent"} = {"iterator", "service"}
      OBVIOUS
    <3>4. held' = Each({"iterator", "service"})
      BY <3>1, <3>2, <3>3
    <3> QED
      BY <1>1, <2>4, <3>4 DEF IInv, HoldsServices
  <2> QED
    BY <1>5, <2>3, <2>4 DEF ReadParent, Listed
<1>6. CASE Drop
  <2>1. pc = "drop" /\ held = Each({"iterator", "service"})
    BY <1>2, <1>6 DEF Drop, HoldsServices
  <2>2. [Each({"iterator", "service"}) EXCEPT !["service"] = @ - 1] = Each({"iterator"})
    <3>1. [Each({"iterator", "service"}) EXCEPT !["service"] = @ - 1]
             = Each({"iterator", "service"} \ {"service"})
      BY EachFacts, Handling
    <3>2. {"iterator", "service"} \ {"service"} = {"iterator"}
      OBVIOUS
    <3> QED
      BY <3>1, <3>2
  <2>3. CASE /\ pc' = "done"
             /\ held' = [held EXCEPT !["service"] = @ - 1, !["iterator"] = @ - 1]
    <3>1. [Each({"iterator"}) EXCEPT !["iterator"] = @ - 1] = Each({"iterator"} \ {"iterator"})
      BY EachFacts, Handling
    <3>2. {"iterator"} \ {"iterator"} = {}
      OBVIOUS
    <3>3. held' = [[held EXCEPT !["service"] = @ - 1] EXCEPT !["iterator"] = @ - 1]
      BY <2>3
    <3>4. held' = Each({})
      BY <2>1, <2>2, <3>1, <3>2, <3>3
    <3> QED
      BY <1>1, <2>3, <3>4 DEF IInv, HoldsNothing
  <2>4. CASE pc' = "next" /\ Release("service")
    <3>1. held' = Each({"iterator"})
      BY <2>1, <2>2, <2>4 DEF Release
    <3> QED
      BY <1>1, <2>4, <3>1 DEF IInv, HoldsServices
  <2> QED
    BY <1>6, <2>3, <2>4 DEF Drop, Return
<1> QED
  BY <1>3, <1>4, <1>5, <1>6

LEMMA ListInv ==
  ASSUME IInv,
         \/ _resolve_interface \/ _parse_device_ids \/ EndSetupApi
         \/ _enumerate_registry_fallback
  PROVE  IInv'
<1>1. system = "win32" /\ system' = "win32" /\ pc \in {"next", "serial", "key"}
  BY DEF _resolve_interface, _parse_device_ids, EndSetupApi, _enumerate_registry_fallback,
         Step, IInv
<1>2. HoldsList
  BY <1>1 DEF IInv, HoldsNothing, HoldsServices
<1>3. /\ Each({"list"})["list"] = 1 /\ Each({})["list"] = 0 /\ Each({"key"})["list"] = 0
      /\ "key" \in Handles \ {"list"}
  BY EachFacts, Handling
<1>4. CASE _resolve_interface
  <2>1. pc = "next" /\ todo # <<>> /\ pc' \in {"next", "serial"} /\ UNCHANGED held
    BY <1>4 DEF _resolve_interface, Skip
  <2> QED
    BY <1>1, <1>2, <2>1 DEF IInv, HoldsList
<1>5. CASE _parse_device_ids
  <2>1. pc = "serial" /\ pc' = "next" /\ UNCHANGED held
    BY <1>5 DEF _parse_device_ids, Add
  <2> QED
    BY <1>1, <1>2, <2>1 DEF IInv, HoldsList
<1>6. CASE EndSetupApi
  <2>1. pc = "next" /\ todo = <<>> /\ todo' = todo /\ held["list"] > 0
    BY <1>6 DEF EndSetupApi
  <2>2. held = Each({"list"})
    BY <1>2, <1>3, <2>1 DEF HoldsList
  <2>3. [Each({"list"}) EXCEPT !["list"] = @ - 1] = Each({})
    <3>1. [Each({"list"}) EXCEPT !["list"] = @ - 1] = Each({"list"} \ {"list"})
      BY EachFacts, Handling
    <3>2. {"list"} \ {"list"} = {}
      OBVIOUS
    <3> QED
      BY <3>1, <3>2
  <2>4. CASE pc' = "next" /\ Release("list")
    <3>1. held' = Each({})
      BY <2>2, <2>3, <2>4 DEF Release
    <3> QED
      BY <1>1, <2>1, <2>4, <3>1 DEF IInv, HoldsList
  <2>5. CASE pc' = "key" /\ held' = [held EXCEPT !["list"] = @ - 1, !["key"] = @ + 1]
    <3>1. held' = [[held EXCEPT !["list"] = @ - 1] EXCEPT !["key"] = @ + 1]
      BY <2>5
    <3>2. [Each({}) EXCEPT !["key"] = @ + 1] = Each({} \cup {"key"})
      BY EachFacts, Handling
    <3>3. {} \cup {"key"} = {"key"}
      OBVIOUS
    <3>4. held' = Each({"key"})
      BY <2>2, <2>3, <3>1, <3>2, <3>3
    <3> QED
      BY <1>1, <2>1, <2>5, <3>4 DEF IInv, HoldsList
  <2> QED
    BY <1>6, <2>4, <2>5, Zenon DEF EndSetupApi
<1>7. CASE _enumerate_registry_fallback
  <2>1. pc = "key" /\ todo' = todo
    BY <1>7, Zenon DEF _enumerate_registry_fallback
  <2>2. todo = <<>> /\ held = Each({"key"})
    BY <1>2, <2>1 DEF HoldsList
  <2>3. CASE pc' = pc /\ held' = held
    BY <1>1, <2>1, <2>2, <2>3 DEF IInv, HoldsList
  <2>4. CASE pc' = "next" /\ Release("key")
    <3>1. [Each({"key"}) EXCEPT !["key"] = @ - 1] = Each({"key"} \ {"key"})
      BY EachFacts, Handling
    <3>2. {"key"} \ {"key"} = {}
      OBVIOUS
    <3>3. held' = Each({})
      BY <2>2, <2>4, <3>1, <3>2 DEF Release
    <3> QED
      BY <1>1, <2>1, <2>2, <2>4, <3>3 DEF IInv, HoldsList
  <2> QED
    BY <1>7, <2>3, <2>4 DEF _enumerate_registry_fallback
<1> QED
  BY <1>4, <1>5, <1>6, <1>7

LEMMA FinishInv ==
  ASSUME IInv, Finish
  PROVE  IInv'
<1>1. /\ pc = "next" /\ held["list"] = 0 /\ pc' = "done" /\ system' = system
      /\ held' = [held EXCEPT !["iterator"] = 0]
  BY DEF Finish, Return
<1>2. held = Each({}) \/ held = Each({"iterator"})
  <2>1. Each({"list"})["list"] = 1
    BY EachFacts, Handling
  <2> QED
    BY <1>1, <2>1 DEF IInv, HoldsNothing, HoldsServices, HoldsList
<1>3. /\ [Each({}) EXCEPT !["iterator"] = 0] = Each({})
      /\ [Each({"iterator"}) EXCEPT !["iterator"] = 0] = Each({})
  BY DEF Each
<1>4. held' = Each({})
  BY <1>1, <1>2, <1>3
<1> QED
  BY <1>1, <1>4 DEF IInv, HoldsNothing

LEMMA StepInv == IInv /\ [Next]_vars => IInv'
<1> SUFFICES ASSUME IInv, [Next]_vars PROVE IInv'
  OBVIOUS
<1>1. CASE UNCHANGED vars
  BY <1>1 DEF vars, walk, IInv, HoldsNothing, HoldsServices, HoldsList
<1>2. CASE Next
  BY <1>2, TreeInv, BeginInv, FilesInv, ServicesInv, ListInv, FinishInv DEF Next
<1> QED
  BY <1>1, <1>2

\* Whatever is unplugged, plugged in or renamed during a call, list_serial_ports,
\* find_serial_port and the lookup of one path hold each native handle at most
\* once and none when they return (the finally blocks of _darwin/discovery.py and
\* _windows/discovery.py, also on the return from the middle of the IOKit loop).
THEOREM HandlesCorrect == Spec => []HandlesReleased
<1>1. IInv => HandlesReleased
  <2> SUFFICES ASSUME IInv PROVE HandlesReleased
    OBVIOUS
  <2>1. PICK S : held = Each(S) /\ (pc = "done" => S = {})
    BY DEF IInv, HoldsNothing, HoldsServices, HoldsList
  <2>2. ASSUME NEW h \in Handles PROVE held[h] <= 1
    BY <2>1, EachFacts
  <2>3. pc = "done" => held = NoHandles
    BY <2>1, EachFacts
  <2> QED
    BY <2>2, <2>3 DEF HandlesReleased
<1> QED
  BY <1>1, InitInv, StepInv, PTL DEF Spec

-----------------------------------------------------------------------------
(* Sorted names *)

\* Every set of natural numbers has a least one.
LEMMA LeastNatural ==
  ASSUME NEW T \in SUBSET Nat, T # {}
  PROVE  Min(T) \in T /\ \A n \in T : Min(T) <= n
<1>1. IsWellFoundedOn({r \in Nat \X Nat : r[1] < r[2]}, Nat)
  BY NatLessThanWellFounded DEF OpToRel
<1>2. PICK m \in T : \A n \in T : ~ (<<n, m>> \in {r \in Nat \X Nat : r[1] < r[2]})
  BY <1>1, WFMin
<1>3. \A n \in T : m <= n
  <2> SUFFICES ASSUME NEW n \in T, n < m PROVE FALSE
    OBVIOUS
  <2>1. <<n, m>> \in {r \in Nat \X Nat : r[1] < r[2]}
    OBVIOUS
  <2> QED
    BY <1>2, <2>1
<1> QED
  BY <1>3 DEF Min

Rank(S, n) == Cardinality({m \in S : m < n})

\* Sorted lists every element of the set once.
LEMMA SortedLists ==
  ASSUME NEW S \in SUBSET Nat, IsFiniteSet(S)
  PROVE  /\ Sorted(S) \in Seq(S)
         /\ \A i, j \in 1..Len(Sorted(S)) : Sorted(S)[i] = Sorted(S)[j] => i = j
         /\ \A n \in S : \E i \in 1..Len(Sorted(S)) : Sorted(S)[i] = n
<1> DEFINE c == Cardinality(S)
           r == [n \in S |-> Rank(S, n)]
<1>1. c \in Nat
  BY FS_CardinalityType
<1>2. ASSUME NEW n \in S PROVE Rank(S, n) \in 0..(c - 1)
  <2>1. {m \in S : m < n} \in SUBSET S /\ {m \in S : m < n} # S
    OBVIOUS
  <2>2. /\ IsFiniteSet({m \in S : m < n})
        /\ Cardinality({m \in S : m < n}) <= c /\ Cardinality({m \in S : m < n}) # c
    BY <2>1, FS_Subset
  <2>3. Cardinality({m \in S : m < n}) \in Nat
    BY <2>2, FS_CardinalityType
  <2> QED
    BY <1>1, <2>2, <2>3 DEF Rank
<1>3. ASSUME NEW n \in S, NEW k \in S, n < k PROVE Rank(S, n) # Rank(S, k)
  <2> DEFINE A == {m \in S : m < n}
             B == {m \in S : m < k}
  <2>1. A \in SUBSET B /\ n \in B /\ n \notin A
    <3>1. \A m \in A : m \in B
      BY <1>3
    <3>2. n \in B
      BY <1>3
    <3>3. n \notin A
      OBVIOUS
    <3> QED
      BY <3>1, <3>2, <3>3
  <2>2. IsFiniteSet(B)
    BY FS_Subset
  <2>3. Cardinality(A) # Cardinality(B)
    BY <2>1, <2>2, FS_Subset
  <2> QED
    BY <2>3 DEF Rank
<1>4. r \in Injection(S, 0..(c - 1))
  <2>1. \A n, k \in S : r[n] = r[k] => n = k
    <3> SUFFICES ASSUME NEW n \in S, NEW k \in S, r[n] = r[k], n # k PROVE FALSE
      OBVIOUS
    <3>1. n < k \/ k < n
      OBVIOUS
    <3> QED
      BY <1>3, <3>1
  <2>2. r \in [S -> 0..(c - 1)]
    BY <1>2
  <2> QED
    BY <2>1, <2>2 DEF Injection, IsInjective
<1>5. IsFiniteSet(0..(c - 1)) /\ Cardinality(0..(c - 1)) = c
  <2>1. c - 1 \in Int /\ (c - 1) - 0 + 1 = c /\ (0 > c - 1 => c = 0)
    BY <1>1
  <2> HIDE DEF c
  <2> QED
    BY <2>1, FS_Interval
<1>6. r \in Surjection(S, 0..(c - 1))
  BY <1>4, <1>5, FS_Injection
<1>7. ASSUME NEW i \in 1..c PROVE Sorted(S)[i] \in S /\ Rank(S, Sorted(S)[i]) = i - 1
  <2>1. i - 1 \in 0..(c - 1)
    BY <1>1
  <2>2. \E n \in S : Rank(S, n) = i - 1
    BY <1>6, <2>1 DEF Surjection
  <2>3. Sorted(S)[i] = CHOOSE n \in S : Rank(S, n) = i - 1
    BY DEF Sorted, Rank
  <2> QED
    BY <2>2, <2>3
<1>8. DOMAIN Sorted(S) = 1..c /\ Sorted(S) \in Seq(S) /\ Len(Sorted(S)) = c
  <2> DEFINE at(i) == CHOOSE n \in S : Cardinality({m \in S : m < n}) = i - 1
  <2>1. Sorted(S) = [i \in 1..c |-> at(i)]
    BY DEF Sorted
  <2> HIDE DEF at, c
  <2>2. \A i \in 1..c : at(i) \in S
    BY <1>7, <2>1
  <2> QED
    BY <1>1, <2>1, <2>2
<1>9. ASSUME NEW i \in 1..c, NEW j \in 1..c, Sorted(S)[i] = Sorted(S)[j] PROVE i = j
  <2>1. i - 1 = j - 1
    BY <1>7, <1>9
  <2> QED
    BY <1>1, <2>1
<1>10. ASSUME NEW n \in S PROVE \E i \in 1..c : Sorted(S)[i] = n
  <2>1. Rank(S, n) + 1 \in 1..c
    BY <1>1, <1>2
  <2>2. Rank(S, Sorted(S)[Rank(S, n) + 1]) = Rank(S, n) /\ Sorted(S)[Rank(S, n) + 1] \in S
    BY <1>1, <1>2, <1>7, <2>1
  <2>3. r[n] = r[Sorted(S)[Rank(S, n) + 1]]
    BY <2>2
  <2>4. Sorted(S)[Rank(S, n) + 1] = n
    BY <1>4, <2>2, <2>3 DEF Injection, IsInjective
  <2> QED
    BY <2>1, <2>4
<1> QED
  BY <1>8, <1>9, <1>10

-----------------------------------------------------------------------------
(* What a walk knows about a device that stays plugged in and is asked for *)

Concerned(d) == Asked(d) /\ ~Unknown(d)

\* The entries of a walk are names on Linux, else names with their devices.
ByName == system \in {"linux", "pyudev"}
Items == IF ByName THEN Nat ELSE Nat \X Devices
Item(d) == IF ByName THEN name[d] ELSE <<name[d], d>>
NameOf(x) == IF ByName THEN x ELSE x[1]

Attributes == Devices \cup {Null, Hub}
PortInfo == [device : {"device", "alias", "interface"} \X Nat,
             vid : Attributes, serial : Attributes]

TreeOK ==
  /\ name \in [Devices -> Names \cup {Null}]
  /\ loc \in [Devices -> Locations \cup {Null}]
  /\ \A d, e \in Plugged : name[d] = name[e] => d = e
  /\ \A d, e \in Usb : loc[d] # Null /\ loc[d] = loc[e] => d = e
  /\ \A d \in Devices : loc[d] = Null <=> name[d] = Null \/ d \in Boards
  /\ stayed \subseteq Plugged /\ alive \subseteq Plugged
  /\ pc \notin {"start", "snapshot", "done"} => stayed \subseteq alive

\* The path looked for is one of d's, in the spelling of the listings where
\* that is what is compared.
WantedIs(d) ==
  "path" \in DOMAIN request =>
    \/ wanted = <<"device", name[d]>>
    \/ /\ wanted = <<"alias", name[d]>>
       /\ system = "bsd" \/ (system = "darwin" /\ request.kind = "resolve")

CallOK ==
  /\ system \in {"linux", "pyudev", "darwin", "bsd", "win32"}
  /\ request \in Requests(system)
  /\ pc \in {"start", "snapshot"} => todo = <<>> /\ ports = <<>>
  /\ pc # "start" => \A d \in stayed : Concerned(d) => WantedIs(d)

\* e is d's entry, with its metadata, or another's, without.
Right(e, d) ==
  /\ e.device[2] = name[d] =>
       e.device[1] = "device" /\ e.vid \in Metadata(d) /\ e.serial \in Metadata(d)
  /\ e.device[2] # name[d] => e.vid # d /\ e.serial # d

\* The same for the entry under construction, whose source is d's if it is.
Underway(d) ==
  /\ entry \in PortInfo /\ entry.serial = Null
  /\ entry.device[2] = NameOf(Head(todo))
  /\ entry.device[2] = name[d] => entry.device[1] = "device"
  /\ entry.device[2] # name[d] => entry.vid # d
  /\ pc # "serial" \/ system = "win32" => entry.vid = Null
  /\ pc = "serial" /\ system # "win32" /\ entry.device[2] = name[d] =>
       entry.vid \in Metadata(d)
  /\ system = "linux" =>
       /\ entry.device[2] = name[d] => source = loc[d]
       /\ d \in Usb /\ source = loc[d] => entry.device[2] = name[d]
       /\ pc # "usb" => source # Null
  /\ system # "linux" => source = Head(todo)[2]
  /\ system = "darwin" /\ pc # "usb" => source \in Usb

\* The walk of all systems but BSD: no name comes twice in what is listed and
\* what is left, and d is in one of the two.
WalkOK(d) ==
  /\ pc \in {"next", "usb", "vid", "serial", "drop"}
  /\ pc = "drop" => system = "darwin"
  /\ pc \in {"usb", "vid"} => system \in {"linux", "darwin"}
  /\ pc = "serial" => system # "pyudev"
  /\ todo \in Seq(Items) /\ ports \in Seq(PortInfo)
  /\ \A i, j \in 1..Len(todo) : NameOf(todo[i]) = NameOf(todo[j]) => i = j
  /\ \A i \in 1..Len(todo) :
       NameOf(todo[i]) = name[d] \/ (~ByName /\ todo[i][2] = d) => todo[i] = Item(d)
  /\ \A i, j \in 1..Len(ports) : ports[i].device[2] = ports[j].device[2] => i = j
  /\ \A i \in 1..Len(ports), j \in 1..Len(todo) :
       ports[i].device[2] = NameOf(todo[j]) => j = 1 /\ pc = "drop"
  /\ \A i \in 1..Len(ports) : Right(ports[i], d)
  /\ \/ \E i \in 1..Len(todo) : todo[i] = Item(d) /\ (pc = "drop" => i # 1)
     \/ \E i \in 1..Len(ports) : ports[i].device[2] = name[d]
  /\ pc # "next" => todo # <<>>
  /\ pc \in {"usb", "vid", "serial"} => Underway(d)
  /\ system = "darwin" /\ request.kind = "resolve" =>
       /\ ports # <<>> => pc = "drop"
       /\ \A i \in 1..Len(ports) : ports[i].device[2] = wanted[2]
       /\ pc \in {"usb", "vid", "serial"} => entry.device[2] = wanted[2]

\* No node of the pattern k is listed before it is expanded, and then d's once.
PatternOK(k, d) ==
  \/ /\ \E i \in 1..Len(todo) : todo[i] = k
     /\ \A i \in 1..Len(ports) : ports[i].device[1] # k
  \/ /\ \A i \in 1..Len(todo) : todo[i] # k
     /\ \E i \in 1..Len(ports) : ports[i].device = <<k, name[d]>>
     /\ \A i, j \in 1..Len(ports) :
          ports[i].device = <<k, name[d]>> /\ ports[j].device = <<k, name[d]>> => i = j

\* The walk of BSD: d's nodes of the patterns that were expanded are listed.
NodesOK(d) ==
  /\ pc = "next" /\ request.kind # "resolve"
  /\ todo \in {<<"device", "alias">>, <<"alias">>, <<>>}
  /\ ports \in Seq(PortInfo)
  /\ \A i \in 1..Len(ports) : ports[i].vid = Null /\ ports[i].serial = Null
  /\ \A k \in {"device", "alias"} : PatternOK(k, d)

\* What StayedPortsListed says of d.
Answer(d) ==
  LET own == {i \in DOMAIN result : result[i].device[2] = name[d]
                                      /\ result[i].device[1] \in Nodes}
  IN  /\ \/ /\ request.kind = "list"
            /\ \A n \in Nodes : \E i \in own :
                 {j \in own : result[j].device[1] = n} = {i}
         \/ request.kind # "list" /\ \E i \in own : own = {i}
         \/ own = {} /\ system = "darwin" /\ "serial" \in DOMAIN request
      /\ \A i \in own : result[i].vid \in Metadata(d) /\ result[i].serial \in Metadata(d)
      /\ \A i \in DOMAIN result \ own : result[i].vid # d /\ result[i].serial # d

Kept(d) ==
  CASE pc \in {"start", "snapshot"} -> TRUE
    [] pc = "done" -> Answer(d)
    [] OTHER -> IF system = "bsd" THEN NodesOK(d) ELSE WalkOK(d)

StayInv == TreeOK /\ CallOK /\ \A d \in stayed : Concerned(d) => Kept(d)

-----------------------------------------------------------------------------
(* Steps that leave the walk alone *)

\* d and the call are what they were.
Same(d) ==
  /\ UNCHANGED <<system, request, wanted>>
  /\ name'[d] = name[d] /\ loc'[d] = loc[d]

LEMMA SameFacts ==
  ASSUME NEW d, Same(d)
  PROVE  /\ ByName' = ByName /\ Items' = Items /\ (Item(d))' = Item(d)
         /\ \A x : (NameOf(x))' = NameOf(x)
         /\ (Metadata(d))' = Metadata(d) /\ (Asked(d))' = Asked(d)
         /\ (Unknown(d))' = Unknown(d) /\ (Concerned(d))' = Concerned(d)
         /\ (WantedIs(d))' = WantedIs(d)
<1>1. ByName' = ByName /\ Items' = Items /\ (Item(d))' = Item(d)
  BY DEF Same, ByName, Items, Item
<1>2. \A x : (NameOf(x))' = NameOf(x)
  BY DEF Same, ByName, NameOf
<1>3. (Metadata(d))' = Metadata(d) /\ (Unknown(d))' = Unknown(d) /\ (WantedIs(d))' = WantedIs(d)
  BY DEF Same, Metadata, Unknown, WantedIs
<1>4. (Asked(d))' = Asked(d)
  BY DEF Same, Asked
<1> QED
  BY <1>1, <1>2, <1>3, <1>4 DEF Concerned

LEMMA SameRight ==
  ASSUME NEW d, Same(d)
  PROVE  \A e : (Right(e, d))' = Right(e, d)
BY SameFacts DEF Same, Right

LEMMA SameWalk ==
  ASSUME NEW d, Same(d), UNCHANGED <<pc, todo, entry, source, ports>>
  PROVE  /\ WalkOK(d) => WalkOK(d)'
         /\ NodesOK(d) => NodesOK(d)'
<1>1. UNCHANGED <<system, request, wanted>> /\ name'[d] = name[d] /\ loc'[d] = loc[d]
  BY DEF Same
<1>2. Underway(d) => Underway(d)'
  BY <1>1, SameFacts DEF Underway
<1>3. WalkOK(d) => WalkOK(d)'
  BY <1>1, <1>2, SameFacts, SameRight DEF WalkOK
<1>4. NodesOK(d) => NodesOK(d)'
  <2> SUFFICES ASSUME NodesOK(d) PROVE NodesOK(d)'
    OBVIOUS
  <2>1. pc' = pc /\ request' = request /\ todo' = todo /\ ports' = ports
    BY <1>1
  <2>2. ASSUME NEW k, PatternOK(k, d) PROVE (PatternOK(k, d))'
    BY <1>1, <2>1, <2>2 DEF PatternOK
  <2> QED
    BY <2>1, <2>2 DEF NodesOK
<1> QED
  BY <1>3, <1>4

LEMMA MovedTree ==
  ASSUME TreeOK, NEW d \in Usb, Unplug(d) \/ Plug(d)
  PROVE  TreeOK' /\ stayed' \subseteq stayed /\ d \notin stayed' /\ d \notin alive'
<1>0. UNCHANGED pc /\ stayed' = stayed \ {d} /\ alive' = alive \ {d}
  BY DEF Unplug, Plug, Move
<1>1. d \in Devices /\ Usb \subseteq Devices /\ Boards \subseteq Devices /\ d \notin Boards
  BY DevicesAssumption DEF Devices
<1>2. CASE Unplug(d)
  <2>1. name' = [name EXCEPT ![d] = Null] /\ loc' = [loc EXCEPT ![d] = Null]
    BY <1>2 DEF Unplug
  <2>2. \A e \in Devices : e # d => name'[e] = name[e] /\ loc'[e] = loc[e]
    BY <1>1, <2>1 DEF TreeOK
  <2>3. name'[d] = Null /\ loc'[d] = Null
    BY <1>1, <2>1 DEF TreeOK
  <2>4. Plugged' = Plugged \ {d}
    BY <2>2, <2>3 DEF Plugged
  <2>5. /\ name' \in [Devices -> Names \cup {Null}]
        /\ loc' \in [Devices -> Locations \cup {Null}]
    BY <2>1 DEF TreeOK
  <2>6. \A a, e \in Plugged' : name'[a] = name'[e] => a = e
    BY <2>2, <2>4 DEF TreeOK, Plugged
  <2>7. \A a, e \in Usb : loc'[a] # Null /\ loc'[a] = loc'[e] => a = e
    BY <1>1, <2>2, <2>3 DEF TreeOK
  <2>8. \A e \in Devices : loc'[e] = Null <=> name'[e] = Null \/ e \in Boards
    BY <2>2, <2>3 DEF TreeOK
  <2>9. stayed' \subseteq Plugged' /\ alive' \subseteq Plugged'
    BY <1>0, <2>4 DEF TreeOK
  <2> QED
    BY <1>0, <2>5, <2>6, <2>7, <2>8, <2>9 DEF TreeOK
<1>3. CASE Plug(d)
  <2>1. PICK n \in Names, l \in Locations :
          /\ \A e \in Devices : name[e] # n /\ loc[e] # l
          /\ name' = [name EXCEPT ![d] = n] /\ loc' = [loc EXCEPT ![d] = l]
    BY <1>3 DEF Plug
  <2>2. \A e \in Devices : e # d => name'[e] = name[e] /\ loc'[e] = loc[e]
    BY <1>1, <2>1 DEF TreeOK
  <2>3. name'[d] = n /\ loc'[d] = l /\ n # Null /\ l # Null
    BY <1>1, <2>1, DevicesAssumption DEF TreeOK
  <2>4. Plugged' = Plugged \cup {d} /\ d \notin Plugged
    BY <1>1, <1>3, <2>2, <2>3 DEF Plugged, Plug
  <2>5. /\ name' \in [Devices -> Names \cup {Null}]
        /\ loc' \in [Devices -> Locations \cup {Null}]
    BY <2>1 DEF TreeOK
  <2>6. \A a, e \in Plugged' : name'[a] = name'[e] => a = e
    BY <2>1, <2>2, <2>3, <2>4 DEF TreeOK, Plugged
  <2>7. \A a, e \in Usb : loc'[a] # Null /\ loc'[a] = loc'[e] => a = e
    BY <1>1, <2>1, <2>2, <2>3 DEF TreeOK
  <2>8. \A e \in Devices : loc'[e] = Null <=> name'[e] = Null \/ e \in Boards
    BY <1>1, <2>2, <2>3 DEF TreeOK
  <2>9. stayed' \subseteq Plugged' /\ alive' \subseteq Plugged'
    BY <1>0, <2>4 DEF TreeOK
  <2> QED
    BY <1>0, <2>5, <2>6, <2>7, <2>8, <2>9 DEF TreeOK
<1> QED
  BY <1>0, <1>2, <1>3

\* Whatever is moved, what a walk knows of the others stays true.
LEMMA MoveStay ==
  ASSUME StayInv, NEW m \in Usb, Unplug(m) \/ Plug(m)
  PROVE  StayInv'
<1>1. /\ UNCHANGED <<system, request, wanted, todo, entry, source, ports, pc>>
      /\ pc # "done"
  BY DEF Unplug, Plug, Move, walk
<1>2. TreeOK' /\ stayed' \subseteq stayed /\ m \notin stayed'
  BY MovedTree DEF StayInv
<1>3. ASSUME NEW d \in stayed' PROVE Same(d)
  <2>1. d \in Devices /\ d # m
    BY <1>2 DEF StayInv, TreeOK, Plugged
  <2>2. name'[d] = name[d] /\ loc'[d] = loc[d]
    BY <2>1 DEF Unplug, Plug, StayInv, TreeOK
  <2> QED
    BY <1>1, <2>2 DEF Same
<1>4. CallOK'
  <2>1. request' \in (Requests(system))'
    BY <1>1 DEF StayInv, CallOK, Requests, Kinds, PathsOf, Paths
  <2>2. pc' # "start" => \A d \in stayed' : (Concerned(d))' => (WantedIs(d))'
    BY <1>1, <1>2, <1>3, SameFacts DEF StayInv, CallOK
  <2> QED
    BY <1>1, <2>1, <2>2 DEF StayInv, CallOK
<1>5. ASSUME NEW d \in stayed', (Concerned(d))' PROVE (Kept(d))'
  <2>1. Same(d) /\ Concerned(d) /\ Kept(d)
    BY <1>2, <1>3, <1>5, SameFacts DEF StayInv
  <2>2. /\ WalkOK(d) => (WalkOK(d))'
        /\ NodesOK(d) => (NodesOK(d))'
    BY <1>1, <2>1, SameWalk
  <2> QED
    BY <1>1, <2>1, <2>2 DEF Kept
<1> QED
  BY <1>2, <1>4, <1>5 DEF StayInv

LEMMA InitStay == Init => StayInv
<1> SUFFICES ASSUME Init PROVE StayInv
  OBVIOUS
<1>1. TreeOK
  <2>1. \A d \in Devices : loc[d] = Null <=> name[d] = Null \/ d \in Boards
    BY DEF Init
  <2>2. \A d, e \in Plugged : name[d] = name[e] => d = e
    BY DEF Init
  <2>3. \A d, e \in Usb : loc[d] # Null /\ loc[d] = loc[e] => d = e
    BY <2>1, DevicesAssumption DEF Init, Plugged, Devices
  <2> QED
    BY <2>1, <2>2, <2>3 DEF Init, TreeOK
<1>2. CallOK
  BY DEF Init, CallOK
<1> QED
  BY <1>1, <1>2 DEF Init, StayInv, Kept

-----------------------------------------------------------------------------
(* What the caller asked for *)

LEMMA RequestFacts ==
  ASSUME CallOK
  PROVE  \/ /\ request.kind = "list"
            /\ "path" \notin DOMAIN request /\ "serial" \notin DOMAIN request
         \/ /\ request.kind = "find" /\ request.serial \in Usb
            /\ "path" \notin DOMAIN request /\ "serial" \in DOMAIN request
         \/ /\ request.kind \in {"find", "resolve"}
            /\ system = "pyudev" => request.kind = "find"
            /\ request.path \in PathsOf(system)
            /\ "path" \in DOMAIN request /\ "serial" \notin DOMAIN request
<1>1. request \in Requests(system)
  BY DEF CallOK
<1>2. CASE request \in {[kind |-> "list"]}
  BY <1>2
<1>3. CASE request \in {[kind |-> "find", serial |-> d] : d \in Usb}
  BY <1>3
<1>4. CASE request \in {[kind |-> k, path |-> p] : k \in Kinds(system), p \in PathsOf(system)}
  <2>1. PICK k \in Kinds(system), p \in PathsOf(system) : request = [kind |-> k, path |-> p]
    BY <1>4
  <2>2. request.kind = k /\ request.path = p /\ DOMAIN request = {"kind", "path"}
    BY <2>1
  <2> QED
    BY <2>2 DEF Kinds
<1> QED
  <2> DEFINE A == {[kind |-> "list"]}
             B == {[kind |-> "find", serial |-> d] : d \in Usb}
             C == {[kind |-> k, path |-> p] : k \in Kinds(system), p \in PathsOf(system)}
  <2>1. request \in A \cup B \cup C
    BY <1>1 DEF Requests
  <2>2. request \in A \/ request \in B \/ request \in C
    BY <2>1
  <2> QED
    BY <1>2, <1>3, <1>4, <2>2

LEMMA PathFacts ==
  ASSUME NEW p \in PathsOf(system)
  PROVE  /\ p = <<p[1], p[2]>>
         /\ \/ p[1] = "device" /\ p[2] \in Names
            \/ p[1] = "alias" /\ p[2] \in Names /\ system \notin {"linux", "pyudev"}
            \/ p[1] = "link" /\ p[2] \in Usb /\ system \in {"linux", "pyudev"}
BY DEF PathsOf, Paths

LEMMA AskedByPath ==
  ASSUME CallOK, NEW d, Concerned(d), "path" \in DOMAIN request
  PROVE  \/ request.path = <<"device", name[d]>>
         \/ /\ request.path = <<"alias", name[d]>>
            /\ \/ system \in {"win32", "bsd"}
               \/ system = "darwin" /\ request.kind = "resolve"
         \/ /\ request.path = <<"link", d>> /\ d \in Usb
            /\ \/ system = "pyudev"
               \/ system = "linux" /\ request.kind = "find"
<1>1. /\ request.kind \in {"find", "resolve"} /\ request.path \in PathsOf(system)
      /\ "serial" \notin DOMAIN request
  BY RequestFacts
<1>2. request.path \in {<<"device", name[d]>>, <<"alias", name[d]>>, <<"link", d>>}
  BY <1>1 DEF Concerned, Asked
<1>3. CASE request.path = <<"alias", name[d]>>
  <2>1. request.path[1] = "alias" /\ system \notin {"linux", "pyudev"}
    BY <1>1, <1>3, PathFacts
  <2> QED
    BY <1>1, <1>3, <2>1 DEF Concerned, Unknown, CallOK
<1>4. CASE request.path = <<"link", d>>
  <2>1. request.path[1] = "link" /\ request.path[2] = d
    BY <1>4
  <2>2. d \in Usb /\ system \in {"linux", "pyudev"}
    BY <1>1, <2>1, PathFacts
  <2> QED
    BY <1>1, <1>4, <2>1, <2>2 DEF Concerned, Unknown
<1> QED
  BY <1>2, <1>3, <1>4

LEMMA CanonicalizeStay ==
  ASSUME StayInv, Canonicalize
  PROVE  StayInv'
<1>1. /\ pc = "start" /\ pc' = "snapshot"
      /\ UNCHANGED <<system, request, name, loc, stayed, alive, todo, ports>>
  BY DEF Canonicalize, tree, walk
<1>2. TreeOK'
  BY <1>1 DEF StayInv, TreeOK, Plugged
<1>3. ASSUME NEW d \in stayed PROVE (Concerned(d))' = Concerned(d)
  BY <1>1 DEF Concerned, Asked, Unknown
<1>4. ASSUME NEW d \in stayed, Concerned(d) PROVE (WantedIs(d))'
  <2> SUFFICES ASSUME "path" \in DOMAIN request PROVE (WantedIs(d))'
    BY <1>1 DEF WantedIs
  <2> DEFINE p == request.path
  <2>1. \/ p = <<"device", name[d]>>
        \/ /\ p = <<"alias", name[d]>>
           /\ \/ system \in {"win32", "bsd"}
              \/ system = "darwin" /\ request.kind = "resolve"
        \/ /\ p = <<"link", d>> /\ d \in Usb
           /\ \/ system = "pyudev"
              \/ system = "linux" /\ request.kind = "find"
    <3>1. CallOK
      BY DEF StayInv
    <3> QED
      BY <1>4, <3>1, AskedByPath, Zenon
  <2> HIDE DEF p
  <2>2. wanted' = IF request.kind = "find" \/ system = "win32" THEN canonical_port_name(p) ELSE p
    BY DEF Canonicalize, p
  <2>3. d \in Plugged
    BY DEF StayInv, TreeOK
  <2>4. request.kind \in {"find", "resolve"} /\ (system = "pyudev" => request.kind = "find")
    BY RequestFacts DEF StayInv
  <2>5. CASE p = <<"device", name[d]>>
    <3>1. p[1] = "device"
      BY <2>5
    <3>2. canonical_port_name(p) = p
      BY <3>1 DEF canonical_port_name
    <3> QED
      BY <1>1, <2>2, <2>5, <3>2 DEF WantedIs
  <2>6. CASE p = <<"alias", name[d]>> /\ system = "win32"
    <3>1. p[1] = "alias" /\ p[2] = name[d]
      BY <2>6
    <3>2. canonical_port_name(p) = <<"device", name[d]>>
      BY <2>6, <3>1 DEF canonical_port_name
    <3> QED
      BY <1>1, <2>2, <2>6, <3>2 DEF WantedIs
  <2>7. CASE /\ p = <<"alias", name[d]>>
             /\ \/ system = "bsd"
                \/ system = "darwin" /\ request.kind = "resolve"
    <3>1. p[1] = "alias" /\ system # "win32"
      BY <2>7
    <3>2. canonical_port_name(p) = p
      BY <3>1 DEF canonical_port_name
    <3> QED
      BY <1>1, <2>2, <2>7, <3>2 DEF WantedIs
  <2>8. CASE p = <<"link", d>> /\ request.kind = "find"
    <3>1. p[1] = "link" /\ p[2] = d
      BY <2>8
    <3>2. canonical_port_name(p) = <<"device", name[d]>>
      BY <2>3, <3>1 DEF canonical_port_name
    <3> QED
      BY <1>1, <2>2, <2>8, <3>2 DEF WantedIs
  <2>9. CASE /\ p = <<"link", d>> /\ d \in Usb
             /\ \/ system = "pyudev"
                \/ system = "linux" /\ request.kind = "find"
    <3>1. request.kind = "find"
      BY <2>4, <2>9
    <3> QED
      BY <2>8, <2>9, <3>1
  <2>10. CASE /\ p = <<"alias", name[d]>>
              /\ \/ system \in {"win32", "bsd"}
                 \/ system = "darwin" /\ request.kind = "resolve"
    BY <2>6, <2>7, <2>10
  <2> QED
    BY <2>1, <2>5, <2>9, <2>10
<1>5. CallOK'
  <2>1. request' \in (Requests(system))'
    BY <1>1 DEF StayInv, CallOK, Requests, Kinds, PathsOf, Paths
  <2> QED
    BY <1>1, <1>3, <1>4, <2>1 DEF StayInv, CallOK
<1> QED
  BY <1>1, <1>2, <1>5 DEF StayInv, Kept

-----------------------------------------------------------------------------
(* The beginning of a walk *)

LEMMA ServicesList ==
  ASSUME TreeOK, NEW D \in SUBSET Plugged
  PROVE  /\ Services(D) \in Seq(Nat \X D)
         /\ \A i, j \in 1..Len(Services(D)) : Services(D)[i][1] = Services(D)[j][1] => i = j
         /\ \A i \in 1..Len(Services(D)) :
              Services(D)[i] = <<name[Services(D)[i][2]], Services(D)[i][2]>>
         /\ \A d \in D : \E i \in 1..Len(Services(D)) : Services(D)[i] = <<name[d], d>>
<1> DEFINE N == {name[d] : d \in D}
           owner(n) == CHOOSE d \in D : name[d] = n
<1>1. N \in SUBSET Nat /\ IsFiniteSet(N)
  <2>1. N \in SUBSET Names
    BY DEF TreeOK, Plugged
  <2> QED
    BY <2>1, NamesAssumption, FS_Subset
<1>2. PICK s : s = Sorted(N)
  OBVIOUS
<1>3. /\ s \in Seq(N)
      /\ \A i, j \in 1..Len(s) : s[i] = s[j] => i = j
      /\ \A n \in N : \E i \in 1..Len(s) : s[i] = n
  BY <1>1, <1>2, SortedLists
<1>4. \A n \in N : owner(n) \in D /\ name[owner(n)] = n
  OBVIOUS
<1>5. \A d \in D : owner(name[d]) = d
  <2> SUFFICES ASSUME NEW d \in D PROVE owner(name[d]) = d
    OBVIOUS
  <2>1. owner(name[d]) \in D /\ name[owner(name[d])] = name[d]
    BY <1>4
  <2> QED
    BY <2>1 DEF TreeOK
<1>6. Services(D) = [i \in DOMAIN s |-> <<s[i], owner(s[i])>>]
  BY <1>2 DEF Services
<1> HIDE DEF owner
<1>7. DOMAIN s = 1..Len(s) /\ Len(s) \in Nat /\ \A i \in 1..Len(s) : s[i] \in N
  BY <1>3
<1>8. ASSUME NEW i \in 1..Len(s)
      PROVE  /\ Services(D)[i] = <<s[i], owner(s[i])>>
             /\ s[i] \in Nat /\ owner(s[i]) \in D /\ name[owner(s[i])] = s[i]
  BY <1>1, <1>4, <1>6, <1>7
<1> HIDE DEF N
<1>9. Services(D) \in Seq(Nat \X D) /\ Len(Services(D)) = Len(s)
  BY <1>6, <1>7, <1>8
<1>10. ASSUME NEW d \in D PROVE \E i \in 1..Len(s) : Services(D)[i] = <<name[d], d>>
  <2>1. PICK i \in 1..Len(s) : s[i] = name[d]
    BY <1>3 DEF N
  <2> QED
    BY <1>5, <1>8, <2>1
<1>11. ASSUME NEW i \in 1..Len(s)
       PROVE  /\ Services(D)[i][1] = s[i] /\ Services(D)[i][2] = owner(s[i])
              /\ Services(D)[i] = <<name[Services(D)[i][2]], Services(D)[i][2]>>
  BY <1>8
<1>12. \A i, j \in 1..Len(s) : Services(D)[i][1] = Services(D)[j][1] => i = j
  BY <1>3, <1>11
<1> QED
  BY <1>9, <1>10, <1>11, <1>12

\* The walks of sysfs, of udev, of IOKit and of SetupAPI begin with everything left.
LEMMA WalkBegins ==
  ASSUME CallOK, NEW d, Same(d), pc' = "next", ports' = <<>>, todo' \in Seq(Items),
         \A i, j \in 1..Len(todo') : NameOf(todo'[i]) = NameOf(todo'[j]) => i = j,
         \A i \in 1..Len(todo') :
           NameOf(todo'[i]) = name[d] \/ (~ByName /\ todo'[i][2] = d) => todo'[i] = Item(d),
         \E i \in 1..Len(todo') : todo'[i] = Item(d)
  PROVE  (WalkOK(d))'
<1>1. ports' \in Seq(PortInfo') /\ Len(ports') = 0
  OBVIOUS
<1>2. \A i \in 1..Len(ports') : FALSE
  BY <1>1
<1> QED
  <2>1. \A i, j \in 1..Len(todo') : (NameOf(todo[i]))' = (NameOf(todo[j]))' => i = j
    BY SameFacts
  <2>2. \A i \in 1..Len(todo') :
          (NameOf(todo[i]))' = name'[d] \/ (~ByName' /\ todo'[i][2] = d) => todo'[i] = (Item(d))'
    BY SameFacts DEF Same
  <2>3. \E i \in 1..Len(todo') : todo'[i] = (Item(d))'
    BY SameFacts
  <2>4. todo' \in Seq(Items')
    BY SameFacts
  <2> QED
    BY <1>1, <1>2, <2>1, <2>2, <2>3, <2>4 DEF WalkOK

LEMMA SnapshotStay ==
  ASSUME StayInv, Snapshot
  PROVE  StayInv'
<1>1. /\ pc = "snapshot" /\ pc' = "next" /\ alive' = Plugged
      /\ UNCHANGED <<system, request, name, loc, stayed, wanted, ports>>
      /\ ports = <<>>
  BY DEF Snapshot, StayInv, CallOK
<1>2. TreeOK'
  BY <1>1 DEF StayInv, TreeOK, Plugged
<1>3. ASSUME NEW d \in stayed PROVE Same(d)
  BY <1>1 DEF Same
<1>4. CallOK'
  <2>1. request' \in (Requests(system))'
    BY <1>1 DEF StayInv, CallOK, Requests, Kinds, PathsOf, Paths
  <2>2. \A d \in stayed : (Concerned(d))' => (WantedIs(d))'
    BY <1>1, <1>3, SameFacts DEF StayInv, CallOK
  <2> QED
    BY <1>1, <2>1, <2>2 DEF StayInv, CallOK
<1>5. ASSUME NEW d \in stayed, Concerned(d) PROVE (Kept(d))'
  <2>1. d \in Plugged /\ d \in Devices /\ name[d] \in Names /\ name[d] \in Nat
    BY NamesAssumption DEF StayInv, TreeOK, Plugged
  <2>2. Same(d) /\ WantedIs(d)
    BY <1>1, <1>3, <1>5 DEF StayInv, CallOK
  <2>3. CASE SnapshotLinux
    <3>1. system \in {"linux", "pyudev"} /\ ByName /\ Items = Nat /\ Item(d) = name[d]
      BY <2>3 DEF SnapshotLinux, ByName, Items, Item
    <3>2. \A x : NameOf(x) = x
      BY <3>1 DEF NameOf
    <3>3. CASE request.kind # "resolve"
      <4> DEFINE N == {name[e] : e \in Plugged} \cup Consoles
      <4>1. todo' = Sorted(N)
        BY <2>3, <3>3 DEF SnapshotLinux
      <4>2. N \in SUBSET Nat /\ IsFiniteSet(N) /\ name[d] \in N
        <5>1. {name[e] : e \in Plugged} \in SUBSET Names
          BY DEF StayInv, TreeOK, Plugged
        <5>2. IsFiniteSet({name[e] : e \in Plugged})
          BY <5>1, NamesAssumption, FS_Subset
        <5> QED
          BY <2>1, <5>1, <5>2, NamesAssumption, FS_Union
      <4> HIDE DEF N
      <4>3. /\ todo' \in Seq(N)
            /\ \A i, j \in 1..Len(todo') : todo'[i] = todo'[j] => i = j
            /\ \E i \in 1..Len(todo') : todo'[i] = name[d]
        BY <4>1, <4>2, SortedLists
      <4>4. todo' \in Seq(Nat)
        <5>1. \A i \in 1..Len(todo') : todo'[i] \in N
          BY <4>3
        <5>2. N \subseteq Nat
          BY <4>2
        <5>3. \A i \in 1..Len(todo') : todo'[i] \in Nat
          BY <5>1, <5>2
        <5>4. todo' = [i \in 1..Len(todo') |-> todo'[i]] /\ Len(todo') \in Nat
          BY <4>3
        <5> QED
          BY <5>3, <5>4
      <4>5. (WalkOK(d))'
        BY <1>1, <2>2, <3>1, <3>2, <4>3, <4>4, WalkBegins DEF StayInv
      <4> QED
        BY <1>1, <3>1, <4>5 DEF Kept
    <3>4. CASE request.kind = "resolve"
      <4>1. /\ "path" \in DOMAIN request /\ system = "linux"
        BY <3>1, <3>4, RequestFacts DEF StayInv
      <4>2. wanted = <<"device", name[d]>>
        BY <2>2, <4>1 DEF WantedIs
      <4>3. todo' = <<name[d]>>
        BY <2>3, <3>4, <4>2 DEF SnapshotLinux
      <4>4. (WalkOK(d))'
        BY <1>1, <2>1, <2>2, <3>1, <3>2, <4>3, WalkBegins DEF StayInv
      <4> QED
        BY <1>1, <3>1, <4>4 DEF Kept
    <3> QED
      BY <3>3, <3>4
  <2>4. CASE SnapshotServices
    <3>1. /\ system \in {"darwin", "win32"} /\ ~ByName /\ Items = Nat \X Devices
          /\ Item(d) = <<name[d], d>> /\ \A x : NameOf(x) = x[1]
      BY <2>4 DEF SnapshotServices, ByName, Items, Item, NameOf
    <3>2. PICK D \in SUBSET Plugged : todo' = Services(D) /\ d \in D
      <4>1. CASE system = "darwin"
        BY <2>1, <2>4, <4>1 DEF SnapshotServices
      <4>2. CASE system = "win32"
        <5>1. d \in Usb
          BY <1>5, <2>1, <4>2 DEF Concerned, Unknown, Devices
        <5> QED
          BY <2>1, <2>4, <4>2, <5>1 DEF SnapshotServices
      <4> QED
        BY <3>1, <4>1, <4>2
    <3>3. /\ todo' \in Seq(Nat \X D)
          /\ \A i, j \in 1..Len(todo') : todo'[i][1] = todo'[j][1] => i = j
          /\ \A i \in 1..Len(todo') : todo'[i] = <<name[todo'[i][2]], todo'[i][2]>>
          /\ \E i \in 1..Len(todo') : todo'[i] = <<name[d], d>>
      BY <3>2, ServicesList DEF StayInv
    <3>4. todo' \in Seq(Nat \X Devices)
      BY <3>3 DEF Plugged
    <3>5. ASSUME NEW i \in 1..Len(todo'), todo'[i][1] = name[d] \/ todo'[i][2] = d
          PROVE  todo'[i] = <<name[d], d>>
      <4>1. todo'[i] \in Nat \X D /\ todo'[i] = <<name[todo'[i][2]], todo'[i][2]>>
        BY <3>3
      <4>2. todo'[i][2] \in Plugged /\ todo'[i][1] = name[todo'[i][2]]
        BY <3>2, <4>1
      <4>3. todo'[i][2] = d
        BY <2>1, <3>5, <4>2 DEF StayInv, TreeOK
      <4> QED
        BY <4>1, <4>3
    <3>6. (WalkOK(d))'
      BY <1>1, <2>2, <3>1, <3>3, <3>4, <3>5, WalkBegins DEF StayInv
    <3> QED
      BY <1>1, <3>1, <3>6 DEF Kept
  <2>5. CASE SnapshotBsd
    <3>1. /\ system = "bsd" /\ request.kind # "resolve" /\ todo' = <<"device", "alias">>
      BY <2>5 DEF SnapshotBsd
    <3>2. ports' \in Seq(PortInfo') /\ Len(ports') = 0
      BY <1>1
    <3>3. \A k \in {"device", "alias"} : (PatternOK(k, d))'
      BY <3>1, <3>2 DEF PatternOK
    <3>4. (NodesOK(d))'
      BY <1>1, <3>1, <3>2, <3>3 DEF NodesOK
    <3> QED
      BY <1>1, <3>1, <3>4 DEF Kept
  <2> QED
    BY <2>3, <2>4, <2>5 DEF Snapshot
<1> QED
  <2>1. \A d \in stayed : (Concerned(d))' => Concerned(d)
    BY <1>3, SameFacts
  <2> QED
    BY <1>1, <1>2, <1>4, <1>5, <2>1 DEF StayInv

LEMMA ResolveBsdStay ==
  ASSUME StayInv, ResolveBsd
  PROVE  StayInv'
<1>1. /\ pc = "snapshot" /\ pc' = "done" /\ system = "bsd" /\ request.kind = "resolve"
      /\ result' = <<[Listing(0) EXCEPT !.device = wanted]>>
      /\ UNCHANGED <<system, request, name, loc, stayed, alive, wanted, todo, ports>>
  BY DEF ResolveBsd, Return, tree, walk
<1>2. TreeOK'
  BY <1>1 DEF StayInv, TreeOK, Plugged
<1>3. ASSUME NEW d PROVE Same(d)
  BY <1>1 DEF Same
<1>4. CallOK'
  <2>1. request' \in (Requests(system))'
    BY <1>1 DEF StayInv, CallOK, Requests, Kinds, PathsOf, Paths
  <2>2. \A d \in stayed : (Concerned(d))' => (WantedIs(d))'
    BY <1>1, <1>3, SameFacts DEF StayInv, CallOK
  <2> QED
    BY <1>1, <2>1, <2>2 DEF StayInv, CallOK
<1>5. ASSUME NEW d \in stayed, (Concerned(d))' PROVE (Answer(d))'
  <2>1. Concerned(d)
    BY <1>3, <1>5, SameFacts
  <2>2. "path" \in DOMAIN request
    BY <1>1, RequestFacts DEF StayInv
  <2>3. wanted[2] = name[d] /\ wanted[1] \in {"device", "alias"}
    BY <1>1, <2>1, <2>2 DEF StayInv, CallOK, WantedIs
  <2>4. /\ DOMAIN result' = {1} /\ result'[1].device = wanted
        /\ result'[1].vid = Null /\ result'[1].serial = Null
    BY <1>1 DEF Listing
  <2>5. Nodes' = {"device", "alias"} /\ (Metadata(d))' = {Null}
    BY <1>1 DEF Nodes, Metadata
  <2> DEFINE own == {i \in DOMAIN result' : /\ result'[i].device[2] = name'[d]
                                            /\ result'[i].device[1] \in Nodes'}
  <2>6. own = {1}
    BY <1>1, <2>3, <2>4, <2>5
  <2>7. request'.kind # "list"
    BY <1>1
  <2> QED
    BY <1>1, <2>4, <2>5, <2>6, <2>7 DEF Answer
<1> QED
  BY <1>1, <1>2, <1>4, <1>5 DEF StayInv, Kept

-----------------------------------------------------------------------------
(* What a step of a walk may do to the rest of it *)

LEMMA TailFacts ==
  ASSUME NEW S, NEW s \in Seq(S), s # <<>>
  PROVE  /\ Tail(s) \in Seq(S) /\ Len(s) \in Nat /\ Len(s) >= 1
         /\ Len(Tail(s)) = Len(s) - 1 /\ Head(s) = s[1] /\ s[1] \in S
         /\ \A i \in 1..Len(Tail(s)) : Tail(s)[i] = s[i + 1] /\ i + 1 \in 1..Len(s)
OBVIOUS

LEMMA AppendFacts ==
  ASSUME NEW S, NEW s \in Seq(S), NEW e \in S
  PROVE  /\ Append(s, e) \in Seq(S) /\ Len(s) \in Nat
         /\ Len(Append(s, e)) = Len(s) + 1 /\ Append(s, e)[Len(s) + 1] = e
         /\ \A i \in 1..Len(s) : Append(s, e)[i] = s[i]
OBVIOUS

LEMMA NameOfItem ==
  ASSUME NEW d PROVE NameOf(Item(d)) = name[d]
BY DEF NameOf, Item

\* The head is passed over; it is not d's, or d's was listed.
LEMMA Passes ==
  ASSUME NEW d, Same(d), WalkOK(d), todo # <<>>,
         pc = "drop" \/ (pc = "next" /\ Head(todo) # Item(d)),
         system = "darwin" /\ request.kind = "resolve" => ports = <<>>,
         pc' = "next", todo' = Tail(todo), ports' = ports
  PROVE  (WalkOK(d))'
<1>1. todo \in Seq(Items) /\ ports \in Seq(PortInfo)
  BY DEF WalkOK
<1>2. /\ todo' \in Seq(Items) /\ Len(todo) \in Nat /\ Len(todo) >= 1
      /\ Len(todo') = Len(todo) - 1 /\ Head(todo) = todo[1]
      /\ \A i \in 1..Len(todo') : todo'[i] = todo[i + 1] /\ i + 1 \in 1..Len(todo)
  BY <1>1, TailFacts
<1>3. \A i, j \in 1..Len(todo') : NameOf(todo'[i]) = NameOf(todo'[j]) => i = j
  <2> SUFFICES ASSUME NEW i \in 1..Len(todo'), NEW j \in 1..Len(todo'),
                      NameOf(todo'[i]) = NameOf(todo'[j])
               PROVE  i = j
    OBVIOUS
  <2>1. i + 1 = j + 1
    BY <1>2 DEF WalkOK
  <2> QED
    BY <2>1
<1>4. \A i \in 1..Len(todo') :
        NameOf(todo'[i]) = name[d] \/ (~ByName /\ todo'[i][2] = d) => todo'[i] = Item(d)
  BY <1>2 DEF WalkOK
<1>5. \A i \in 1..Len(ports), j \in 1..Len(todo') : ports[i].device[2] # NameOf(todo'[j])
  <2> SUFFICES ASSUME NEW i \in 1..Len(ports), NEW j \in 1..Len(todo'),
                      ports[i].device[2] = NameOf(todo'[j])
               PROVE  FALSE
    OBVIOUS
  <2>1. j + 1 = 1
    BY <1>2 DEF WalkOK
  <2> QED
    BY <2>1
<1>6. \/ \E i \in 1..Len(todo') : todo'[i] = Item(d)
      \/ \E i \in 1..Len(ports) : ports[i].device[2] = name[d]
  <2>1. CASE \E i \in 1..Len(ports) : ports[i].device[2] = name[d]
    BY <2>1
  <2>2. CASE \E i \in 1..Len(todo) : todo[i] = Item(d) /\ (pc = "drop" => i # 1)
    <3>1. PICK i \in 1..Len(todo) : todo[i] = Item(d) /\ i # 1
      BY <1>2, <2>2
    <3>2. i - 1 \in 1..Len(todo') /\ todo'[i - 1] = todo[i]
      BY <1>2, <3>1
    <3> QED
      BY <3>1, <3>2
  <2> QED
    BY <2>1, <2>2 DEF WalkOK
<1>7. system = "darwin" /\ request.kind = "resolve" => Len(ports) = 0
  OBVIOUS
<1> QED
  BY <1>1, <1>2, <1>3, <1>4, <1>5, <1>6, <1>7, SameFacts, SameRight DEF WalkOK, Same

\* The head is listed and done with.
LEMMA Adds ==
  ASSUME NEW d, Same(d), WalkOK(d), todo # <<>>, system # "darwin",
         NEW e \in PortInfo, e.device[2] = NameOf(Head(todo)), Right(e, d),
         pc' = "next", todo' = Tail(todo), ports' = Append(ports, e)
  PROVE  (WalkOK(d))'
<1>1. todo \in Seq(Items) /\ ports \in Seq(PortInfo) /\ pc # "drop"
  BY DEF WalkOK
<1>2. /\ todo' \in Seq(Items) /\ Len(todo) \in Nat /\ Len(todo) >= 1
      /\ Len(todo') = Len(todo) - 1 /\ Head(todo) = todo[1]
      /\ \A i \in 1..Len(todo') : todo'[i] = todo[i + 1] /\ i + 1 \in 1..Len(todo)
  BY <1>1, TailFacts
<1>3. /\ ports' \in Seq(PortInfo) /\ Len(ports) \in Nat
      /\ Len(ports') = Len(ports) + 1 /\ ports'[Len(ports) + 1] = e
      /\ \A i \in 1..Len(ports) : ports'[i] = ports[i]
  BY <1>1, AppendFacts
<1>4. \A i \in 1..Len(ports') : i \in 1..Len(ports) \/ i = Len(ports) + 1
  BY <1>3
<1>5. \A i \in 1..Len(ports) : ports[i].device[2] # NameOf(todo[1])
  BY <1>1, <1>2 DEF WalkOK
<1>6. \A i, j \in 1..Len(todo') : NameOf(todo'[i]) = NameOf(todo'[j]) => i = j
  <2> SUFFICES ASSUME NEW i \in 1..Len(todo'), NEW j \in 1..Len(todo'),
                      NameOf(todo'[i]) = NameOf(todo'[j])
               PROVE  i = j
    OBVIOUS
  <2>1. i + 1 = j + 1
    BY <1>2 DEF WalkOK
  <2> QED
    BY <2>1
<1>7. \A i \in 1..Len(todo') :
        NameOf(todo'[i]) = name[d] \/ (~ByName /\ todo'[i][2] = d) => todo'[i] = Item(d)
  BY <1>2 DEF WalkOK
<1>8. \A i, j \in 1..Len(ports') : ports'[i].device[2] = ports'[j].device[2] => i = j
  BY <1>2, <1>3, <1>4, <1>5 DEF WalkOK
<1>9. \A i \in 1..Len(ports'), j \in 1..Len(todo') : ports'[i].device[2] # NameOf(todo'[j])
  <2> SUFFICES ASSUME NEW i \in 1..Len(ports'), NEW j \in 1..Len(todo'),
                      ports'[i].device[2] = NameOf(todo'[j])
               PROVE  FALSE
    OBVIOUS
  <2>1. todo'[j] = todo[j + 1] /\ j + 1 \in 1..Len(todo) /\ j + 1 # 1 /\ 1 \in 1..Len(todo)
    BY <1>2
  <2>2. CASE i \in 1..Len(ports)
    BY <1>1, <1>3, <2>1, <2>2 DEF WalkOK
  <2>3. CASE i = Len(ports) + 1
    <3>1. NameOf(todo[1]) = NameOf(todo[j + 1])
      BY <1>2, <1>3, <2>1, <2>3
    <3> QED
      BY <2>1, <3>1 DEF WalkOK
  <2> QED
    BY <1>4, <2>2, <2>3
<1>10. \A i \in 1..Len(ports') : Right(ports'[i], d)
  BY <1>3, <1>4 DEF WalkOK
<1>11. \/ \E i \in 1..Len(todo') : todo'[i] = Item(d)
       \/ \E i \in 1..Len(ports') : ports'[i].device[2] = name[d]
  <2>1. CASE \E i \in 1..Len(ports) : ports[i].device[2] = name[d]
    <3>1. PICK i \in 1..Len(ports) : ports[i].device[2] = name[d]
      BY <2>1
    <3>2. i \in 1..Len(ports') /\ ports'[i].device[2] = name[d]
      BY <1>3, <3>1
    <3> QED
      BY <3>2
  <2>2. CASE \E i \in 1..Len(todo) : todo[i] = Item(d)
    <3>1. PICK i \in 1..Len(todo) : todo[i] = Item(d)
      BY <2>2
    <3>2. CASE i = 1
      <4>1. e.device[2] = name[d]
        BY <1>2, <3>1, <3>2, NameOfItem
      <4>2. Len(ports) + 1 \in 1..Len(ports')
        BY <1>3
      <4> QED
        BY <1>3, <4>1, <4>2
    <3>3. CASE i # 1
      <4>1. i - 1 \in 1..Len(todo') /\ todo'[i - 1] = todo[i]
        BY <1>2, <3>1, <3>3
      <4> QED
        BY <3>1, <4>1
    <3> QED
      BY <3>2, <3>3
  <2> QED
    BY <2>1, <2>2 DEF WalkOK
<1> QED
  BY SMTT(60), <1>2, <1>3, <1>6, <1>7, <1>8, <1>9, <1>10, <1>11, SameFacts, SameRight DEF WalkOK, Same

\* The next attribute of the head is read.
LEMMA Reads ==
  ASSUME NEW d, Same(d), WalkOK(d), todo # <<>>, pc # "drop",
         pc' \in {"usb", "vid", "serial"}, UNCHANGED <<todo, ports>>,
         pc' # "serial" => system \in {"linux", "darwin"},
         pc' = "serial" => system # "pyudev",
         (Underway(d))',
         system = "darwin" /\ request.kind = "resolve" => entry'.device[2] = wanted[2]
  PROVE  (WalkOK(d))'
<1>1. UNCHANGED <<system, request, wanted>> /\ name'[d] = name[d]
  BY DEF Same
<1>2. PortInfo' = PortInfo
  BY DEF PortInfo, Attributes
<1> QED
  BY <1>1, <1>2, SameFacts, SameRight DEF WalkOK

\* The walk over the IOKit services lists the head before it lets go of it.
LEMMA Lists ==
  ASSUME NEW d, Same(d), WalkOK(d), todo # <<>>, system = "darwin", pc # "drop",
         NEW e \in PortInfo, e.device[2] = NameOf(Head(todo)), Right(e, d),
         request.kind = "resolve" => e.device[2] = wanted[2],
         pc' = "drop", todo' = todo, ports' = Append(ports, e)
  PROVE  (WalkOK(d))'
<1>1. todo \in Seq(Items) /\ ports \in Seq(PortInfo)
  BY DEF WalkOK
<1>2. Len(todo) \in Nat /\ Len(todo) >= 1 /\ Head(todo) = todo[1]
  BY <1>1, TailFacts
<1>3. /\ ports' \in Seq(PortInfo) /\ Len(ports) \in Nat
      /\ Len(ports') = Len(ports) + 1 /\ ports'[Len(ports) + 1] = e
      /\ \A i \in 1..Len(ports) : ports'[i] = ports[i]
  BY <1>1, AppendFacts
<1>4. \A i \in 1..Len(ports') : i \in 1..Len(ports) \/ i = Len(ports) + 1
  BY <1>3
<1>5. \A i \in 1..Len(ports), j \in 1..Len(todo) : ports[i].device[2] # NameOf(todo[j])
  BY DEF WalkOK
<1>6. \A i, j \in 1..Len(ports') : ports'[i].device[2] = ports'[j].device[2] => i = j
  BY <1>2, <1>3, <1>4, <1>5 DEF WalkOK
<1>7. \A i \in 1..Len(ports'), j \in 1..Len(todo) :
        ports'[i].device[2] = NameOf(todo[j]) => j = 1
  <2> SUFFICES ASSUME NEW i \in 1..Len(ports'), NEW j \in 1..Len(todo),
                      ports'[i].device[2] = NameOf(todo[j])
               PROVE  j = 1
    OBVIOUS
  <2>1. i = Len(ports) + 1
    BY <1>3, <1>4, <1>5
  <2>2. NameOf(todo[1]) = NameOf(todo[j]) /\ 1 \in 1..Len(todo)
    BY <1>2, <1>3, <2>1
  <2> QED
    BY <2>2 DEF WalkOK
<1>8. \A i \in 1..Len(ports') : Right(ports'[i], d)
  BY <1>3, <1>4 DEF WalkOK
<1>9. \/ \E i \in 1..Len(todo) : todo[i] = Item(d) /\ i # 1
      \/ \E i \in 1..Len(ports') : ports'[i].device[2] = name[d]
  <2>1. CASE \E i \in 1..Len(ports) : ports[i].device[2] = name[d]
    <3>1. PICK i \in 1..Len(ports) : ports[i].device[2] = name[d]
      BY <2>1
    <3>2. i \in 1..Len(ports') /\ ports'[i].device[2] = name[d]
      BY <1>3, <3>1
    <3> QED
      BY <3>2
  <2>2. CASE todo[1] = Item(d)
    <3>1. e.device[2] = name[d]
      BY <1>2, <2>2, NameOfItem
    <3>2. Len(ports) + 1 \in 1..Len(ports')
      BY <1>3
    <3> QED
      BY <1>3, <3>1, <3>2
  <2> QED
    BY <2>1, <2>2 DEF WalkOK
<1>10. request.kind = "resolve" =>
         \A i \in 1..Len(ports') : ports'[i].device[2] = wanted[2]
  BY <1>3, <1>4 DEF WalkOK
<1>11. UNCHANGED <<system, request, wanted>> /\ name'[d] = name[d] /\ PortInfo' = PortInfo
  BY DEF Same, PortInfo, Attributes
<1> QED
  BY SMTT(60), <1>1, <1>2, <1>3, <1>6, <1>7, <1>8, <1>9, <1>10, <1>11, SameFacts, SameRight DEF WalkOK

\* The head is let go of unlisted: the lookup of one path knows it is not d's.
LEMMA Misses ==
  ASSUME NEW d, Same(d), WalkOK(d), todo # <<>>, system = "darwin",
         pc = "next", Head(todo) # Item(d), pc' = "drop", UNCHANGED <<todo, ports>>
  PROVE  (WalkOK(d))'
<1>1. UNCHANGED <<system, request, wanted>> /\ name'[d] = name[d] /\ PortInfo' = PortInfo
  BY DEF Same, PortInfo, Attributes
<1>2. todo \in Seq(Items) /\ ports \in Seq(PortInfo)
  BY DEF WalkOK
<1>3. Head(todo) = todo[1]
  BY <1>2, TailFacts
<1>4. \/ \E i \in 1..Len(todo) : todo[i] = Item(d) /\ i # 1
      \/ \E i \in 1..Len(ports) : ports[i].device[2] = name[d]
  BY <1>3 DEF WalkOK
<1>5. /\ \A i, j \in 1..Len(todo) : NameOf(todo[i]) = NameOf(todo[j]) => i = j
      /\ \A i \in 1..Len(todo) :
           NameOf(todo[i]) = name[d] \/ (~ByName /\ todo[i][2] = d) => todo[i] = Item(d)
      /\ \A i, j \in 1..Len(ports) : ports[i].device[2] = ports[j].device[2] => i = j
      /\ \A i \in 1..Len(ports), j \in 1..Len(todo) : ports[i].device[2] # NameOf(todo[j])
      /\ \A i \in 1..Len(ports) : Right(ports[i], d)
      /\ request.kind = "resolve" => ports = <<>>
      /\ request.kind = "resolve" =>
           \A i \in 1..Len(ports) : ports[i].device[2] = wanted[2]
  BY DEF WalkOK
<1> QED
  BY <1>1, <1>2, <1>4, <1>5, SameFacts, SameRight DEF WalkOK

Walking == pc \notin {"start", "snapshot", "done"}

LEMMA StepStay ==
  ASSUME StayInv, UNCHANGED <<system, request, name, loc, stayed, alive, wanted>>,
         Walking, pc' \notin {"start", "snapshot"},
         \A d \in stayed : Concerned(d) => (Kept(d))'
  PROVE  StayInv'
<1>1. TreeOK'
  BY DEF StayInv, TreeOK, Plugged, Walking
<1>2. ASSUME NEW d PROVE Same(d)
  BY DEF Same
<1>3. CallOK'
  <2>1. request' \in (Requests(system))'
    BY DEF StayInv, CallOK, Requests, Kinds, PathsOf, Paths
  <2>2. \A d \in stayed : (Concerned(d))' => (WantedIs(d))'
    BY <1>2, SameFacts DEF StayInv, CallOK, Walking
  <2> QED
    BY <2>1, <2>2 DEF StayInv, CallOK
<1>4. \A d \in stayed : (Concerned(d))' => Concerned(d)
  BY <1>2, SameFacts
<1> QED
  BY <1>1, <1>3, <1>4 DEF StayInv

LEMMA StayFacts ==
  ASSUME StayInv, Walking, NEW d \in stayed, Concerned(d)
  PROVE  /\ d \in Devices /\ d \in alive /\ name[d] \in Names /\ name[d] \in Nat
         /\ d \in Usb => loc[d] # Null /\ At(loc[d]) = {d}
         /\ \A e \in Devices : name[e] = name[d] => e = d
         /\ WantedIs(d)
         /\ system = "bsd" => NodesOK(d)
         /\ system # "bsd" => WalkOK(d)
<1>1. d \in Plugged /\ d \in alive
  BY DEF StayInv, TreeOK, Walking
<1>2. d \in Devices /\ name[d] \in Names /\ name[d] \in Nat /\ name[d] # Null
  BY <1>1, NamesAssumption DEF StayInv, TreeOK, Plugged
<1>3. \A e \in Devices : name[e] = name[d] => e = d
  BY <1>1, <1>2 DEF StayInv, TreeOK, Plugged
<1>4. d \in Usb => loc[d] # Null /\ At(loc[d]) = {d}
  <2> SUFFICES ASSUME d \in Usb PROVE loc[d] # Null /\ At(loc[d]) = {d}
    OBVIOUS
  <2>1. loc[d] # Null
    BY <1>2, DevicesAssumption DEF StayInv, TreeOK
  <2> QED
    BY <2>1 DEF StayInv, TreeOK, At
<1> QED
  BY <1>1, <1>2, <1>3, <1>4 DEF StayInv, CallOK, Kept, Walking

-----------------------------------------------------------------------------
(* The walks of Linux *)

LEMMA ResolveEntryStay ==
  ASSUME StayInv, _resolve_entry
  PROVE  StayInv'
<1>1. /\ system = "linux" /\ pc = "next" /\ todo # <<>>
      /\ UNCHANGED <<system, request, name, loc, stayed, alive, wanted>>
      /\ pc' \in {"next", "usb"}
  BY DEF _resolve_entry, Step, tree, Skip
<1>2. Walking /\ ByName
  BY <1>1 DEF Walking, ByName
<1>3. ASSUME NEW d \in stayed, Concerned(d) PROVE (Kept(d))'
  <2>1. Same(d) /\ WalkOK(d)
    BY <1>1, <1>2, <1>3, StayFacts DEF Same
  <2>2. Item(d) = name[d] /\ (\A x : NameOf(x) = x) /\ Head(todo) \in Nat
    BY <1>1, <1>2, <2>1, TailFacts DEF Item, NameOf, WalkOK, Items
  <2>3. CASE (\A e \in Devices : name[e] # Head(todo)) /\ Skip
    <3>1. pc' = "next" /\ todo' = Tail(todo) /\ ports' = ports
      BY <2>3 DEF Skip
    <3>2. Head(todo) # Item(d)
      BY <1>2, <1>3, <2>2, <2>3, StayFacts
    <3>3. (WalkOK(d))'
      BY <1>1, <2>1, <3>1, <3>2, Passes
    <3> QED
      BY <1>1, <3>1, <3>3 DEF Kept
  <2>4. CASE \E e \in Devices :
               /\ name[e] = Head(todo)
               /\ entry' = Listing(name[e]) /\ source' = loc[e]
               /\ pc' = "usb"
               /\ UNCHANGED <<todo, ports>>
    <3>1. PICK e \in Devices :
            /\ name[e] = Head(todo)
            /\ entry' = Listing(name[e]) /\ source' = loc[e]
            /\ pc' = "usb"
            /\ UNCHANGED <<todo, ports>>
      BY <2>4
    <3>2. /\ entry' = [device |-> <<"device", Head(todo)>>, vid |-> Null, serial |-> Null]
          /\ name[e] \in Nat
      BY <2>2, <3>1 DEF Listing
    <3>3. /\ entry' \in PortInfo' /\ entry'.serial = Null /\ entry'.vid = Null
          /\ entry'.device[2] = Head(todo) /\ entry'.device[1] = "device"
      BY <2>2, <3>2 DEF PortInfo, Attributes
    <3>4. e = d \/ name[e] # name[d]
      BY <1>2, <1>3, StayFacts
    <3>5. d \in Usb /\ source' = loc[d] => name[e] = name[d]
      <4> SUFFICES ASSUME d \in Usb, loc[e] = loc[d] PROVE e = d
        BY <3>1
      <4>1. loc[d] # Null /\ At(loc[d]) = {d}
        BY <1>2, <1>3, StayFacts
      <4>2. e \in Usb
        BY <4>1, <3>1 DEF StayInv, TreeOK, Devices
      <4> QED
        BY <4>1, <4>2 DEF At
    <3>6. Null # d
      BY <1>2, <1>3, StayFacts, DevicesAssumption DEF Devices
    <3>7. (Underway(d))'
      BY <1>1, <2>1, <2>2, <3>1, <3>3, <3>4, <3>5, <3>6, SameFacts DEF Underway, Same
    <3>8. (WalkOK(d))'
      BY <1>1, <2>1, <3>1, <3>7, Reads
    <3> QED
      BY <1>1, <3>1, <3>8 DEF Kept
  <2> QED
    BY <2>3, <2>4 DEF _resolve_entry
<1> QED
  BY <1>1, <1>2, <1>3, StepStay

LEMMA FindUsbDeviceStay ==
  ASSUME StayInv, _find_usb_device
  PROVE  StayInv'
<1>1. /\ system = "linux" /\ pc = "usb"
      /\ UNCHANGED <<system, request, name, loc, stayed, alive, wanted>>
      /\ pc' \in {"next", "vid"}
  BY DEF _find_usb_device, Step, tree, Add
<1>2. Walking
  BY <1>1 DEF Walking
<1>3. ASSUME NEW d \in stayed, Concerned(d) PROVE (Kept(d))'
  <2>1. Same(d) /\ WalkOK(d) /\ Underway(d) /\ todo # <<>>
    BY <1>1, <1>2, <1>3, StayFacts DEF Same, WalkOK
  <2>2. d \in Devices /\ d # Null /\ (d \in Usb => loc[d] # Null /\ At(loc[d]) = {d} /\ loc[d] # Hub)
    BY <1>2, <1>3, StayFacts, DevicesAssumption DEF Devices, StayInv, TreeOK
  <2>3. CASE source = Null /\ Add(entry)
    <3>1. pc' = "next" /\ todo' = Tail(todo) /\ ports' = Append(ports, entry)
      BY <2>3 DEF Add
    <3>2. /\ entry \in PortInfo /\ entry.device[2] = NameOf(Head(todo))
          /\ entry.vid = Null /\ entry.serial = Null
      BY <1>1, <2>1 DEF Underway
    <3>3. Right(entry, d)
      <4>1. CASE entry.device[2] = name[d]
        <5>1. entry.device[1] = "device" /\ loc[d] = Null
          BY <1>1, <2>1, <2>3, <4>1 DEF Underway
        <5>2. d \in Boards
          BY <2>2, <5>1 DEF Devices
        <5> QED
          BY <3>2, <4>1, <5>1, <5>2 DEF Right, Metadata
      <4>2. CASE entry.device[2] # name[d]
        BY <2>2, <3>2, <4>2 DEF Right
      <4> QED
        BY <4>1, <4>2
    <3>4. (WalkOK(d))'
      BY <1>1, <2>1, <3>1, <3>2, <3>3, Adds
    <3> QED
      BY <1>1, <3>1, <3>4 DEF Kept
  <2>4. CASE /\ source # Null
             /\ source' = IF At(source) = {} THEN Hub ELSE source
             /\ pc' = "vid"
             /\ UNCHANGED <<todo, entry, ports>>
    <3>1. source' # Null
      BY <2>4, DevicesAssumption
    <3>2. entry.device[2] = name[d] => source' = loc[d]
      <4> SUFFICES ASSUME entry.device[2] = name[d] PROVE source' = loc[d]
        OBVIOUS
      <4>1. source = loc[d]
        BY <1>1, <2>1 DEF Underway
      <4>2. d \in Usb
        BY <2>2, <2>4, <4>1 DEF StayInv, TreeOK, Devices
      <4> QED
        BY <2>2, <2>4, <4>1, <4>2
    <3>3. d \in Usb /\ source' = loc[d] => entry.device[2] = name[d]
      <4> SUFFICES ASSUME d \in Usb, source' = loc[d] PROVE entry.device[2] = name[d]
        OBVIOUS
      <4>1. source = loc[d]
        BY <2>2, <2>4
      <4> QED
        BY <1>1, <2>1, <4>1 DEF Underway
    <3>4. PortInfo' = PortInfo
      BY DEF PortInfo, Attributes
    <3>5. (Underway(d))'
      BY <1>1, <2>1, <2>4, <3>1, <3>2, <3>3, <3>4, SameFacts DEF Underway, Same
    <3>6. (WalkOK(d))'
      BY <1>1, <2>1, <2>4, <3>5, Reads
    <3> QED
      BY <1>1, <2>4, <3>6 DEF Kept
  <2> QED
    BY <2>3, <2>4 DEF _find_usb_device
<1> QED
  BY <1>1, <1>2, <1>3, StepStay

LEMMA ResolveUsbStay ==
  ASSUME StayInv, _resolve_usb
  PROVE  StayInv'
<1>1. /\ system = "linux"
      /\ UNCHANGED <<system, request, name, loc, stayed, alive, wanted>>
  BY DEF _resolve_usb, Step, tree
<1>2. PICK x \in _read_text :
        \/ /\ pc = "vid" /\ pc' = "serial"
           /\ entry' = [entry EXCEPT !.vid = x]
           /\ UNCHANGED <<todo, source, ports>>
        \/ pc = "serial" /\ Add([entry EXCEPT !.serial = x])
  BY DEF _resolve_usb
<1>3. /\ pc \in {"vid", "serial"} /\ pc' \in {"serial", "next"}
  BY <1>2 DEF Add
<1>4. Walking
  BY <1>3 DEF Walking
<1>5. ASSUME NEW d \in stayed, Concerned(d) PROVE (Kept(d))'
  <2>1. Same(d) /\ WalkOK(d) /\ Underway(d) /\ todo # <<>>
    BY <1>1, <1>3, <1>4, <1>5, StayFacts DEF Same, WalkOK
  <2>2. d \in Devices /\ d # Null /\ d # Hub
        /\ (d \in Usb => loc[d] # Null /\ At(loc[d]) = {d} /\ loc[d] # Hub)
    BY <1>4, <1>5, StayFacts, DevicesAssumption DEF Devices, StayInv, TreeOK
  <2>3. x \in Attributes
    BY DEF _read_text, At, Attributes, Devices
  <2>4. entry.device[2] = name[d] => x = d /\ d \in Usb
    <3> SUFFICES ASSUME entry.device[2] = name[d] PROVE x = d /\ d \in Usb
      OBVIOUS
    <3>1. source = loc[d] /\ source # Null
      BY <1>1, <1>3, <2>1 DEF Underway
    <3>2. d \in Usb
      BY <2>2, <3>1 DEF StayInv, TreeOK, Devices
    <3> QED
      BY <2>2, <3>1, <3>2 DEF _read_text
  <2>5. entry.device[2] # name[d] => x # d
    <3> SUFFICES ASSUME x = d PROVE entry.device[2] = name[d]
      OBVIOUS
    <3>1. d \in Usb /\ source = loc[d]
      BY <2>2 DEF _read_text, At
    <3> QED
      BY <1>1, <2>1, <3>1 DEF Underway
  <2>6. Metadata(d) = IF d \in Boards THEN {Null} ELSE {d}
    BY <1>1 DEF Metadata
  <2>7. entry.device[2] = name[d] => x \in Metadata(d)
    BY <2>4, <2>6, DevicesAssumption
  <2>8. /\ entry \in PortInfo /\ entry.serial = Null
        /\ entry.device[2] = NameOf(Head(todo))
        /\ entry.device[2] = name[d] => entry.device[1] = "device"
        /\ entry.device[2] # name[d] => entry.vid # d
        /\ pc = "serial" /\ entry.device[2] = name[d] => entry.vid \in Metadata(d)
        /\ entry.device[2] = name[d] => source = loc[d]
        /\ d \in Usb /\ source = loc[d] => entry.device[2] = name[d]
        /\ source # Null
    BY <1>1, <1>3, <2>1 DEF Underway
  <2>9. CASE /\ pc = "vid" /\ pc' = "serial"
             /\ entry' = [entry EXCEPT !.vid = x]
             /\ UNCHANGED <<todo, source, ports>>
    <3>1. /\ entry' \in PortInfo /\ entry'.serial = Null /\ entry'.device = entry.device
          /\ entry'.vid = x
      BY <2>3, <2>8, <2>9 DEF PortInfo
    <3>2. PortInfo' = PortInfo
      BY DEF PortInfo, Attributes
    <3>3. (Underway(d))'
      BY <1>1, <2>1, <2>5, <2>7, <2>8, <2>9, <3>1, <3>2, SameFacts DEF Underway, Same
    <3>4. (WalkOK(d))'
      BY <1>1, <2>1, <2>9, <3>3, Reads
    <3> QED
      BY <1>1, <2>9, <3>4 DEF Kept
  <2>10. CASE pc = "serial" /\ Add([entry EXCEPT !.serial = x])
    <3> DEFINE e == [entry EXCEPT !.serial = x]
    <3>1. /\ e \in PortInfo /\ e.device = entry.device /\ e.vid = entry.vid /\ e.serial = x
      BY <2>3, <2>8 DEF PortInfo
    <3>2. pc' = "next" /\ todo' = Tail(todo) /\ ports' = Append(ports, e)
      BY <2>10 DEF Add
    <3> HIDE DEF e
    <3>3. Right(e, d)
      BY <2>5, <2>7, <2>8, <2>10, <3>1 DEF Right
    <3>4. (WalkOK(d))'
      BY <1>1, <2>1, <2>8, <3>1, <3>2, <3>3, Adds
    <3> QED
      BY <1>1, <3>2, <3>4 DEF Kept
  <2> QED
    BY <1>2, <2>9, <2>10
<1> QED
  BY <1>1, <1>3, <1>4, <1>5, StepStay

LEMMA DeviceToPortInfoStay ==
  ASSUME StayInv, _device_to_port_info
  PROVE  StayInv'
<1>1. /\ system = "pyudev" /\ pc = "next" /\ todo # <<>>
      /\ UNCHANGED <<system, request, name, loc, stayed, alive, wanted>>
  BY DEF _device_to_port_info, Step, tree
<1> DEFINE D == {e \in Devices : name[e] = Head(todo)}
           m(e) == IF e \in Usb THEN e ELSE Null
<1>2. \/ D = {} /\ Skip
      \/ \E e \in D : Add([device |-> <<"device", name[e]>>, vid |-> m(e), serial |-> m(e)])
  BY DEF _device_to_port_info
<1>3. pc' = "next" /\ todo' = Tail(todo)
  BY <1>2 DEF Skip, Add
<1>4. Walking /\ ByName
  BY <1>1 DEF Walking, ByName
<1>5. ASSUME NEW d \in stayed, Concerned(d) PROVE (Kept(d))'
  <2>1. Same(d) /\ WalkOK(d)
    BY <1>1, <1>4, <1>5, StayFacts DEF Same
  <2>2. Item(d) = name[d] /\ (\A x : NameOf(x) = x) /\ Head(todo) \in Nat
    BY <1>1, <1>4, <2>1, TailFacts DEF Item, NameOf, WalkOK, Items
  <2>3. /\ d \in Devices /\ d # Null
        /\ \A e \in Devices : name[e] = name[d] => e = d
    BY <1>4, <1>5, StayFacts, DevicesAssumption DEF Devices
  <2>4. CASE D = {} /\ Skip
    <3>1. Head(todo) # Item(d) /\ ports' = ports
      BY <2>2, <2>3, <2>4 DEF Skip
    <3>2. (WalkOK(d))'
      BY <1>1, <1>3, <2>1, <3>1, Passes
    <3> QED
      BY <1>1, <1>3, <3>2 DEF Kept
  <2>5. CASE \E e \in D : Add([device |-> <<"device", name[e]>>, vid |-> m(e), serial |-> m(e)])
    <3>1. PICK e \in D : Add([device |-> <<"device", name[e]>>, vid |-> m(e), serial |-> m(e)])
      BY <2>5
    <3>2. PICK x : x = m(e)
      OBVIOUS
    <3>3. x \in Attributes /\ (e = d => x \in Metadata(d)) /\ (e # d => x # d)
      BY <1>1, <2>3, <3>1, <3>2, DevicesAssumption DEF Attributes, Devices, Metadata
    <3> DEFINE p == [device |-> <<"device", Head(todo)>>, vid |-> x, serial |-> x]
    <3>4. ports' = Append(ports, p)
      BY <3>1, <3>2 DEF Add
    <3>5. /\ p \in PortInfo /\ p.device[2] = Head(todo) /\ p.device[1] = "device"
          /\ p.vid = x /\ p.serial = x
      BY <2>2, <3>3 DEF PortInfo
    <3> HIDE DEF p
    <3>6. Right(p, d)
      <4>1. p.device[2] = name[d] <=> e = d
        BY <2>3, <3>1, <3>5
      <4> QED
        BY <3>3, <3>5, <4>1 DEF Right
    <3>7. (WalkOK(d))'
      BY <1>1, <1>3, <2>1, <2>2, <3>4, <3>5, <3>6, Adds
    <3> QED
      BY <1>1, <1>3, <3>7 DEF Kept
  <2> QED
    BY <1>2, <2>4, <2>5
<1> QED
  BY <1>1, <1>3, <1>4, <1>5, StepStay

-----------------------------------------------------------------------------
(* The walk of macOS *)

LEMMA HeadFacts ==
  ASSUME NEW d, WalkOK(d), ~ByName, todo # <<>>
  PROVE  /\ Head(todo) \in Nat \X Devices /\ NameOf(Head(todo)) = Head(todo)[1]
         /\ Item(d) = <<name[d], d>>
         /\ Head(todo)[1] = name[d] \/ Head(todo)[2] = d => Head(todo) = <<name[d], d>>
<1>1. Head(todo) = todo[1] /\ 1 \in 1..Len(todo) /\ todo[1] \in Items
  <2>1. todo \in Seq(Items)
    BY DEF WalkOK
  <2> QED
    BY <2>1, TailFacts
<1>2. Item(d) = <<name[d], d>> /\ Items = Nat \X Devices /\ NameOf(todo[1]) = todo[1][1]
  BY DEF Item, Items, NameOf
<1> QED
  BY <1>1, <1>2 DEF WalkOK

\* A walk that listed d lists it once, and no other port with its metadata.
LEMMA ListedOnce ==
  ASSUME NEW d, Same(d), WalkOK(d), system # "bsd",
         NEW i \in 1..Len(ports), ports[i].device[2] = name[d], result' = ports
  PROVE  (Answer(d))'
<1>1. /\ system' = system /\ request' = request /\ name'[d] = name[d]
      /\ (Metadata(d))' = Metadata(d) /\ Nodes' = {"device"}
  BY SameFacts DEF Same, Nodes
<1>2. /\ DOMAIN ports = 1..Len(ports)
      /\ \A j \in 1..Len(ports) : Right(ports[j], d)
      /\ \A j \in 1..Len(ports) : ports[j].device[2] = name[d] => j = i
  BY DEF WalkOK
<1> DEFINE own == {j \in DOMAIN ports : /\ ports[j].device[2] = name[d]
                                        /\ ports[j].device[1] \in {"device"}}
<1>3. own = {i}
  BY <1>2 DEF Right
<1>4. {j \in own : ports[j].device[1] = "device"} = {i}
  BY <1>3 DEF Right
<1>5. \A j \in own : ports[j].vid \in Metadata(d) /\ ports[j].serial \in Metadata(d)
  BY <1>2 DEF Right
<1>6. \A j \in DOMAIN ports \ own : ports[j].vid # d /\ ports[j].serial # d
  BY <1>2, <1>3 DEF Right
<1> QED
  BY <1>1, <1>3, <1>4, <1>5, <1>6 DEF Answer

LEMMA NextServiceStay ==
  ASSUME StayInv, NextService
  PROVE  StayInv'
<1>1. /\ system = "darwin" /\ pc = "next" /\ todo # <<>>
      /\ UNCHANGED <<system, request, name, loc, stayed, alive, wanted, todo, ports>>
      /\ entry' = Listing(Head(todo)[1]) /\ source' = Head(todo)[2]
      /\ pc' = IF IsService(Head(todo)) THEN "usb" ELSE "drop"
  BY DEF NextService, Step, tree
<1>2. Walking /\ ~ByName
  BY <1>1 DEF Walking, ByName
<1>3. ASSUME NEW d \in stayed, Concerned(d) PROVE (Kept(d))'
  <2>1. Same(d) /\ WalkOK(d) /\ WantedIs(d) /\ d # Null
    BY <1>1, <1>2, <1>3, StayFacts, DevicesAssumption DEF Same, Devices
  <2>2. /\ Head(todo) \in Nat \X Devices /\ NameOf(Head(todo)) = Head(todo)[1]
        /\ Item(d) = <<name[d], d>>
    BY <1>1, <1>2, <2>1, HeadFacts
  <2>3. CASE IsService(Head(todo))
    <3>1. /\ entry' \in PortInfo /\ entry'.serial = Null /\ entry'.vid = Null
          /\ entry'.device = <<"device", Head(todo)[1]>>
      BY <1>1, <2>2 DEF Listing, PortInfo, Attributes
    <3>2. PortInfo' = PortInfo
      BY DEF PortInfo, Attributes
    <3>3. (Underway(d))'
      BY <1>1, <2>1, <2>2, <2>3, <3>1, <3>2, SameFacts DEF Underway, Same
    <3>4. request.kind = "resolve" => entry'.device[2] = wanted[2]
      BY <2>3, <3>1 DEF IsService
    <3>5. (WalkOK(d))'
      BY <1>1, <2>1, <2>3, <3>3, <3>4, Reads
    <3> QED
      BY <1>1, <2>3, <3>5 DEF Kept
  <2>4. CASE ~ IsService(Head(todo))
    <3>1. Head(todo) # Item(d)
      <4> SUFFICES ASSUME Head(todo) = <<name[d], d>> PROVE FALSE
        BY <2>2
      <4>1. /\ request.kind = "resolve"
            /\ wanted # <<"device", name[d]>> /\ wanted # <<"alias", name[d]>>
        BY <2>4 DEF IsService
      <4>2. "path" \in DOMAIN request
        BY <4>1, RequestFacts DEF StayInv
      <4> QED
        BY <2>1, <4>1, <4>2 DEF WantedIs
    <3>2. (WalkOK(d))'
      BY <1>1, <2>1, <2>4, <3>1, Misses
    <3> QED
      BY <1>1, <2>4, <3>2 DEF Kept
  <2> QED
    BY <2>3, <2>4
<1> QED
  BY <1>1, <1>2, <1>3, StepStay

LEMMA FindUsbParentStay ==
  ASSUME StayInv, find_usb_parent
  PROVE  StayInv'
<1>1. /\ system = "darwin" /\ pc = "usb" /\ pc' \in {"drop", "vid"}
      /\ UNCHANGED <<system, request, name, loc, stayed, alive, wanted, todo, entry, source>>
      /\ \/ ports' = Append(ports, entry) /\ pc' = "drop"
         \/ source \in Usb /\ pc' = "vid" /\ ports' = ports
  BY DEF find_usb_parent, Step, tree, Listed
<1>2. Walking /\ ~ByName
  BY <1>1 DEF Walking, ByName
<1>3. ASSUME NEW d \in stayed, Concerned(d) PROVE (Kept(d))'
  <2>1. Same(d) /\ WalkOK(d) /\ d # Null
    BY <1>1, <1>2, <1>3, StayFacts, DevicesAssumption DEF Same, Devices
  <2>2. /\ todo # <<>> /\ Underway(d)
        /\ request.kind = "resolve" => entry.device[2] = wanted[2]
    BY <1>1, <2>1 DEF WalkOK
  <2>3. CASE ports' = Append(ports, entry) /\ pc' = "drop"
    <3>1. /\ entry \in PortInfo /\ entry.device[2] = NameOf(Head(todo))
          /\ entry.vid = Null /\ entry.serial = Null
          /\ entry.device[2] = name[d] => entry.device[1] = "device"
      BY <1>1, <2>2 DEF Underway
    <3>2. Null \in Metadata(d)
      BY <1>1 DEF Metadata
    <3>3. Right(entry, d)
      BY <2>1, <3>1, <3>2 DEF Right
    <3>4. (WalkOK(d))'
      BY <1>1, <2>1, <2>2, <2>3, <3>1, <3>3, Lists
    <3> QED
      BY <1>1, <2>3, <3>4 DEF Kept
  <2>4. CASE source \in Usb /\ pc' = "vid" /\ ports' = ports
    <3>1. PortInfo' = PortInfo
      BY DEF PortInfo, Attributes
    <3>2. (Underway(d))'
      BY <1>1, <2>1, <2>2, <2>4, <3>1, SameFacts DEF Underway, Same
    <3>3. (WalkOK(d))'
      BY <1>1, <2>1, <2>2, <2>4, <3>2, Reads
    <3> QED
      BY <1>1, <2>4, <3>3 DEF Kept
  <2> QED
    BY <1>1, <2>3, <2>4
<1> QED
  BY <1>1, <1>2, <1>3, StepStay

LEMMA ReadParentStay ==
  ASSUME StayInv, ReadParent
  PROVE  StayInv'
<1>1. /\ system = "darwin"
      /\ UNCHANGED <<system, request, name, loc, stayed, alive, wanted>>
  BY DEF ReadParent, Step, tree
<1>2. PICK x \in {source, Null} :
        \/ /\ pc = "vid" /\ pc' = "serial"
           /\ entry' = [entry EXCEPT !.vid = x]
           /\ UNCHANGED <<todo, source, ports>>
        \/ pc = "serial" /\ Listed([entry EXCEPT !.serial = x])
  BY DEF ReadParent
<1>3. pc \in {"vid", "serial"} /\ pc' \in {"serial", "drop"}
  BY <1>2 DEF Listed
<1>4. Walking /\ ~ByName
  BY <1>1, <1>3 DEF Walking, ByName
<1>5. ASSUME NEW d \in stayed, Concerned(d) PROVE (Kept(d))'
  <2>1. Same(d) /\ WalkOK(d) /\ d # Null
    BY <1>1, <1>4, <1>5, StayFacts, DevicesAssumption DEF Same, Devices
  <2>2. /\ todo # <<>> /\ Underway(d)
        /\ request.kind = "resolve" => entry.device[2] = wanted[2]
    BY <1>1, <1>3, <2>1 DEF WalkOK
  <2>3. /\ entry \in PortInfo /\ entry.serial = Null
        /\ entry.device[2] = NameOf(Head(todo))
        /\ entry.device[2] = name[d] => entry.device[1] = "device"
        /\ entry.device[2] # name[d] => entry.vid # d
        /\ source = Head(todo)[2] /\ source \in Usb
    BY <1>1, <1>3, <2>2 DEF Underway
  <2>4. NameOf(Head(todo)) = name[d] <=> source = d
    BY <1>4, <2>1, <2>2, <2>3, HeadFacts
  <2>5. x \in Attributes /\ (entry.device[2] # name[d] => x # d)
    BY <2>1, <2>3, <2>4 DEF Attributes, Devices
  <2>6. entry.device[2] = name[d] => x \in Metadata(d)
    BY <1>1, <2>3, <2>4, DevicesAssumption DEF Metadata
  <2>7. CASE /\ pc = "vid" /\ pc' = "serial"
             /\ entry' = [entry EXCEPT !.vid = x]
             /\ UNCHANGED <<todo, source, ports>>
    <3>1. /\ entry' \in PortInfo /\ entry'.serial = Null /\ entry'.device = entry.device
          /\ entry'.vid = x
      BY <2>3, <2>5, <2>7 DEF PortInfo
    <3>2. PortInfo' = PortInfo
      BY DEF PortInfo, Attributes
    <3>3. (Underway(d))'
      BY <1>1, <2>1, <2>3, <2>5, <2>6, <2>7, <3>1, <3>2, SameFacts DEF Underway, Same
    <3>4. (WalkOK(d))'
      BY <1>1, <2>1, <2>2, <2>7, <3>1, <3>3, Reads
    <3> QED
      BY <1>1, <2>7, <3>4 DEF Kept
  <2>8. CASE pc = "serial" /\ Listed([entry EXCEPT !.serial = x])
    <3> DEFINE e == [entry EXCEPT !.serial = x]
    <3>1. /\ e \in PortInfo /\ e.device = entry.device /\ e.vid = entry.vid /\ e.serial = x
      BY <2>3, <2>5 DEF PortInfo
    <3>2. ports' = Append(ports, e) /\ pc' = "drop" /\ todo' = todo
      BY <2>8 DEF Listed
    <3> HIDE DEF e
    <3>3. entry.device[2] = name[d] => entry.vid \in Metadata(d)
      BY <1>1, <2>2, <2>8 DEF Underway
    <3>4. Right(e, d)
      BY <2>3, <2>5, <2>6, <3>1, <3>3 DEF Right
    <3>5. (WalkOK(d))'
      BY <1>1, <2>1, <2>2, <2>3, <2>8, <3>1, <3>2, <3>4, Lists
    <3> QED
      BY <1>1, <3>2, <3>5 DEF Kept
  <2> QED
    BY <1>2, <2>7, <2>8
<1> QED
  BY <1>1, <1>3, <1>4, <1>5, StepStay

LEMMA DropStay ==
  ASSUME StayInv, Drop
  PROVE  StayInv'
<1>1. /\ system = "darwin" /\ pc = "drop"
      /\ UNCHANGED <<system, request, name, loc, stayed, alive, wanted, ports>>
      /\ \/ /\ request.kind = "resolve" /\ ports # <<>>
            /\ pc' = "done" /\ result' = ports
         \/ /\ ~ (request.kind = "resolve" /\ ports # <<>>)
            /\ pc' = "next" /\ todo' = Tail(todo)
  BY DEF Drop, tree, Return
<1>2. Walking
  BY <1>1 DEF Walking
<1>3. ASSUME NEW d \in stayed, Concerned(d) PROVE (Kept(d))'
  <2>1. Same(d) /\ WalkOK(d) /\ WantedIs(d)
    BY <1>1, <1>2, <1>3, StayFacts DEF Same
  <2>2. CASE request.kind = "resolve" /\ ports # <<>> /\ pc' = "done" /\ result' = ports
    <3>1. wanted[2] = name[d]
      BY <2>1, <2>2, RequestFacts DEF StayInv, WantedIs
    <3>2. 1 \in 1..Len(ports)
      BY <2>1, <2>2, TailFacts DEF WalkOK
    <3>3. ports[1].device[2] = name[d]
      BY <1>1, <2>1, <2>2, <3>1, <3>2 DEF WalkOK
    <3>4. (Answer(d))'
      BY <1>1, <2>1, <2>2, <3>2, <3>3, ListedOnce
    <3> QED
      BY <2>2, <3>4 DEF Kept
  <2>3. CASE ~ (request.kind = "resolve" /\ ports # <<>>) /\ pc' = "next" /\ todo' = Tail(todo)
    <3>1. todo # <<>>
      BY <1>1, <2>1 DEF WalkOK
    <3>2. (WalkOK(d))'
      BY <1>1, <2>1, <2>3, <3>1, Passes
    <3> QED
      BY <1>1, <2>3, <3>2 DEF Kept
  <2> QED
    BY <1>1, <2>2, <2>3
<1> QED
  BY <1>1, <1>2, <1>3, StepStay

-----------------------------------------------------------------------------
(* The walk of Windows *)

\* Calls on the interface of a device that is plugged in do not fail.
LEMMA ResolveInterfaceStay ==
  ASSUME StayInv, _resolve_interface
  PROVE  StayInv'
<1>1. /\ system = "win32" /\ pc = "next" /\ todo # <<>>
      /\ UNCHANGED <<system, request, name, loc, stayed, alive, wanted>>
  BY DEF _resolve_interface, Step, tree
<1> DEFINE label(f) == IF f THEN "device" ELSE "interface"
<1>2. PICK detail \in Possible(Head(todo)[2]), friendly \in Possible(Head(todo)[2]) :
        \/ ~detail /\ Skip
        \/ /\ detail
           /\ entry' = [Listing(Head(todo)[1]) EXCEPT !.device[1] = label(friendly)]
           /\ source' = Head(todo)[2] /\ pc' = "serial"
           /\ UNCHANGED <<todo, ports>>
  BY DEF _resolve_interface
<1>3. Walking /\ ~ByName /\ pc' \in {"next", "serial"}
  BY <1>1, <1>2 DEF Walking, ByName, Skip
<1>4. ASSUME NEW d \in stayed, Concerned(d) PROVE (Kept(d))'
  <2>1. Same(d) /\ WalkOK(d) /\ d \in alive /\ d # Null
    BY <1>1, <1>3, <1>4, StayFacts, DevicesAssumption DEF Same, Devices
  <2>2. /\ Head(todo) \in Nat \X Devices /\ NameOf(Head(todo)) = Head(todo)[1]
        /\ Item(d) = <<name[d], d>>
        /\ Head(todo)[1] = name[d] \/ Head(todo)[2] = d => Head(todo) = <<name[d], d>>
    BY <1>1, <1>3, <2>1, HeadFacts
  <2>3. Head(todo) = <<name[d], d>> => detail = TRUE /\ friendly = TRUE
    <3> SUFFICES ASSUME Head(todo) = <<name[d], d>> PROVE detail = TRUE /\ friendly = TRUE
      OBVIOUS
    <3>1. Possible(Head(todo)[2]) = {TRUE}
      <4>1. Head(todo)[2] = d
        OBVIOUS
      <4> QED
        BY <2>1, <4>1 DEF Possible
    <3> QED
      BY <1>2, <3>1
  <2>4. CASE ~detail /\ Skip
    <3>1. pc' = "next" /\ todo' = Tail(todo) /\ ports' = ports /\ Head(todo) # Item(d)
      BY <2>2, <2>3, <2>4 DEF Skip
    <3>2. (WalkOK(d))'
      BY <1>1, <2>1, <3>1, Passes
    <3> QED
      BY <1>1, <3>1, <3>2 DEF Kept
  <2>5. CASE /\ entry' = [Listing(Head(todo)[1]) EXCEPT !.device[1] = label(friendly)]
             /\ source' = Head(todo)[2] /\ pc' = "serial"
             /\ UNCHANGED <<todo, ports>>
    <3>1. PICK f : f = label(friendly)
      OBVIOUS
    <3>2. f \in {"device", "interface"} /\ (Head(todo)[1] = name[d] => f = "device")
      BY <2>2, <2>3, <3>1
    <3>3. /\ entry' \in PortInfo /\ entry'.serial = Null /\ entry'.vid = Null
          /\ entry'.device = <<f, Head(todo)[1]>>
      <4>1. entry' = [Listing(Head(todo)[1]) EXCEPT !.device[1] = f]
        BY <2>5, <3>1
      <4>2. entry' = [device |-> <<f, Head(todo)[1]>>, vid |-> Null, serial |-> Null]
        BY <4>1 DEF Listing
      <4> QED
        BY <2>2, <3>2, <4>2 DEF PortInfo, Attributes
    <3>4. PortInfo' = PortInfo
      BY DEF PortInfo, Attributes
    <3>5. (Underway(d))'
      BY <1>1, <2>1, <2>2, <2>5, <3>2, <3>3, <3>4, SameFacts DEF Underway, Same
    <3>6. (WalkOK(d))'
      BY <1>1, <2>1, <2>5, <3>5, Reads
    <3> QED
      BY <1>1, <2>5, <3>6 DEF Kept
  <2> QED
    BY <1>2, <2>4, <2>5
<1> QED
  BY <1>1, <1>3, <1>4, StepStay

LEMMA ParseDeviceIdsStay ==
  ASSUME StayInv, _parse_device_ids
  PROVE  StayInv'
<1>1. /\ system = "win32" /\ pc = "serial"
      /\ UNCHANGED <<system, request, name, loc, stayed, alive, wanted>>
  BY DEF _parse_device_ids, Step, tree
<1> DEFINE v(b) == IF b THEN source ELSE Null
<1>2. PICK instance \in Possible(source), hardware \in Possible(source) :
        Add([device |-> entry.device,
             vid |-> v(instance \/ hardware), serial |-> v(instance)])
  BY DEF _parse_device_ids
<1>3. PICK x, y : x = v(instance \/ hardware) /\ y = v(instance)
  OBVIOUS
<1>4. /\ pc' = "next" /\ todo' = Tail(todo)
      /\ ports' = Append(ports, [device |-> entry.device, vid |-> x, serial |-> y])
  BY <1>2, <1>3 DEF Add
<1>5. Walking /\ ~ByName
  BY <1>1 DEF Walking, ByName
<1>6. ASSUME NEW d \in stayed, Concerned(d) PROVE (Kept(d))'
  <2>1. Same(d) /\ WalkOK(d) /\ d \in alive /\ d # Null /\ d \in Devices
    BY <1>1, <1>5, <1>6, StayFacts, DevicesAssumption DEF Same, Devices
  <2>2. todo # <<>> /\ Underway(d)
    BY <1>1, <2>1 DEF WalkOK
  <2>3. /\ entry \in PortInfo /\ entry.device[2] = NameOf(Head(todo))
        /\ entry.device[2] = name[d] => entry.device[1] = "device"
        /\ source = Head(todo)[2]
    BY <1>1, <2>2 DEF Underway
  <2>4. NameOf(Head(todo)) = name[d] <=> source = d
    BY <1>5, <2>1, <2>2, <2>3, HeadFacts
  <2>5. source \in Devices
    BY <1>5, <2>1, <2>2, <2>3, HeadFacts
  <2>6. Metadata(d) = {d}
    BY <1>1, <1>6 DEF Concerned, Unknown, Metadata
  <2>7. x \in {source, Null} /\ y \in {source, Null}
    BY <1>3
  <2>8. source = d => x = d /\ y = d
    <3> SUFFICES ASSUME source = d PROVE x = d /\ y = d
      OBVIOUS
    <3>1. Possible(source) = {TRUE}
      BY <2>1 DEF Possible
    <3>2. instance = TRUE
      BY <1>2, <3>1
    <3> QED
      BY <1>3, <3>2
  <2>9. source # d => x # d /\ y # d
    BY <2>1, <2>7
  <2> DEFINE p == [device |-> entry.device, vid |-> x, serial |-> y]
  <2>10. /\ p \in PortInfo /\ p.device = entry.device /\ p.vid = x /\ p.serial = y
    BY <2>3, <2>5, <2>7 DEF PortInfo, Attributes
  <2>11. ports' = Append(ports, p)
    BY <1>4
  <2> HIDE DEF p
  <2>12. Right(p, d)
    BY <2>3, <2>4, <2>6, <2>8, <2>9, <2>10 DEF Right
  <2>13. (WalkOK(d))'
    BY <1>1, <1>4, <2>1, <2>2, <2>3, <2>10, <2>11, <2>12, Adds
  <2> QED
    BY <1>1, <1>4, <2>13 DEF Kept
<1> QED
  BY <1>1, <1>4, <1>5, <1>6, StepStay

\* The path of a listed port is canonical: it is the one looked for.
LEMMA ListedMatches ==
  ASSUME CallOK, NEW d, WantedIs(d), "path" \in DOMAIN request,
         system \notin {"darwin", "bsd"} \/ (system = "darwin" /\ request.kind = "find"),
         NEW p, p \in PortInfo
  PROVE  /\ p.device = <<"device", name[d]>> => Matches(p)
         /\ Matches(p) => p.device[2] = name[d]
<1>1. wanted = <<"device", name[d]>> /\ "serial" \notin DOMAIN request
  BY RequestFacts DEF WantedIs
<1>2. p.device[1] \in {"device", "alias", "interface"} /\ p.device = <<p.device[1], p.device[2]>>
  BY DEF PortInfo
<1>3. \/ canonical_port_name(p.device) = p.device
      \/ p.device[1] = "alias" /\ canonical_port_name(p.device) = <<"device", p.device[2]>>
  BY <1>2 DEF canonical_port_name
<1>4. p.device = <<"device", name[d]>> => canonical_port_name(p.device) = p.device
  BY <1>3
<1> QED
  BY <1>1, <1>2, <1>3, <1>4 DEF Matches

LEMMA EndSetupApiStay ==
  ASSUME StayInv, EndSetupApi
  PROVE  StayInv'
<1>1. /\ system = "win32" /\ pc = "next" /\ todo = <<>>
      /\ UNCHANGED <<system, request, name, loc, stayed, alive, wanted, todo, entry, source>>
      /\ \/ /\ ports = <<>> \/ (request.kind = "resolve" /\ Matching = {})
            /\ pc' = "key"
         \/ pc' = "next" /\ ports' = ports
  BY DEF EndSetupApi, Step, tree
<1>2. Walking
  BY <1>1 DEF Walking
<1>3. ASSUME NEW d \in stayed, Concerned(d) PROVE (Kept(d))'
  <2>1. Same(d) /\ WalkOK(d) /\ WantedIs(d)
    BY <1>1, <1>2, <1>3, StayFacts DEF Same
  <2>2. PICK i \in 1..Len(ports) : ports[i].device[2] = name[d]
    BY <1>1, <2>1 DEF WalkOK
  <2>3. /\ ports \in Seq(PortInfo) /\ DOMAIN ports = 1..Len(ports) /\ ports[i] \in PortInfo
        /\ ports[i].device[1] = "device"
    BY <2>1, <2>2 DEF WalkOK, Right
  <2>4. ports # <<>>
    BY <2>2
  <2>5. request.kind = "resolve" => Matching # {}
    <3> SUFFICES ASSUME request.kind = "resolve" PROVE i \in Matching
      OBVIOUS
    <3>1. "path" \in DOMAIN request
      BY RequestFacts DEF StayInv
    <3>2. ports[i].device = <<"device", name[d]>>
      BY <2>2, <2>3 DEF PortInfo
    <3>3. Matches(ports[i])
      BY <1>1, <2>1, <2>3, <3>1, <3>2, ListedMatches DEF StayInv
    <3> QED
      BY <2>2, <2>3, <3>3 DEF Matching
  <2>6. pc' = "next" /\ ports' = ports
    BY <1>1, <2>4, <2>5
  <2>7. (WalkOK(d))'
    BY <1>1, <2>1, <2>6, SameWalk
  <2> QED
    BY <1>1, <2>6, <2>7 DEF Kept
<1> QED
  BY <1>1, <1>2, <1>3, StepStay

\* The registry is not asked when the listing has the port looked for.
LEMMA RegistryStay ==
  ASSUME StayInv, _enumerate_registry_fallback
  PROVE  StayInv'
<1>1. /\ pc = "key" /\ pc' \in {"key", "next"}
      /\ UNCHANGED <<system, request, name, loc, stayed, alive, wanted>>
  BY DEF _enumerate_registry_fallback, Step, tree
<1>2. Walking
  BY <1>1 DEF Walking
<1>3. ASSUME NEW d \in stayed, Concerned(d) PROVE FALSE
  <2>1. NodesOK(d) \/ WalkOK(d)
    BY <1>2, <1>3, StayFacts
  <2> QED
    BY <1>1, <2>1 DEF NodesOK, WalkOK
<1> QED
  BY <1>1, <1>2, <1>3, StepStay

-----------------------------------------------------------------------------
(* The walk of BSD *)

LEMMA ConcatFacts ==
  ASSUME NEW S, NEW s \in Seq(S), NEW t \in Seq(S)
  PROVE  /\ s \o t \in Seq(S) /\ Len(s) \in Nat /\ Len(t) \in Nat
         /\ \A i \in 1..Len(s) : i \in 1..Len(s \o t) /\ (s \o t)[i] = s[i]
         /\ \A i \in 1..Len(t) :
              Len(s) + i \in 1..Len(s \o t) /\ (s \o t)[Len(s) + i] = t[i]
         /\ \A i \in 1..Len(s \o t) :
              i \in 1..Len(s) \/ \E j \in 1..Len(t) : i = Len(s) + j
<1>1. s \o t \in Seq(S) /\ Len(s) \in Nat /\ Len(t) \in Nat /\ Len(s \o t) = Len(s) + Len(t)
  OBVIOUS
<1>2. \A i \in 1..Len(s) : i \in 1..Len(s \o t) /\ (s \o t)[i] = s[i]
  OBVIOUS
<1>3. \A i \in 1..Len(t) : Len(s) + i \in 1..Len(s \o t) /\ (s \o t)[Len(s) + i] = t[i]
  OBVIOUS
<1>4. ASSUME NEW i \in 1..Len(s \o t), i \notin 1..Len(s)
      PROVE  \E j \in 1..Len(t) : i = Len(s) + j
  <2>1. i - Len(s) \in 1..Len(t) /\ i = Len(s) + (i - Len(s))
    BY <1>1, <1>4
  <2> QED
    BY <2>1
<1> QED
  BY <1>1, <1>2, <1>3, <1>4

LEMMA NextPatternStay ==
  ASSUME StayInv, NextPattern
  PROVE  StayInv'
<1>1. /\ system = "bsd" /\ pc = "next" /\ pc' = pc /\ todo # <<>> /\ todo' = Tail(todo)
      /\ UNCHANGED <<system, request, name, loc, stayed, alive, wanted>>
  BY DEF NextPattern, Step, tree
<1>. PICK k : k = Head(todo)
  OBVIOUS
<1> DEFINE node(x) == [Listing(0) EXCEPT !.device = <<k, x[1]>>]
<1>2. PICK nodes, new :
        /\ nodes = Services(Plugged) /\ new = [i \in DOMAIN nodes |-> node(nodes[i])]
        /\ ports' = ports \o new
  BY DEF NextPattern
<1>3. Walking
  BY <1>1 DEF Walking
<1>4. /\ nodes \in Seq(Nat \X Plugged)
      /\ \A i, j \in 1..Len(nodes) : nodes[i][1] = nodes[j][1] => i = j
      /\ \A e \in Plugged : \E i \in 1..Len(nodes) : nodes[i] = <<name[e], e>>
  BY <1>2, ServicesList DEF StayInv
<1>5. ASSUME NEW d \in stayed, Concerned(d) PROVE (Kept(d))'
  <2>1. Same(d) /\ NodesOK(d) /\ d \in Plugged
    BY <1>1, <1>3, <1>5, StayFacts DEF Same, StayInv, TreeOK
  <2>2. k \in {"device", "alias"} /\ ports \in Seq(PortInfo)
        /\ todo \in {<<"device", "alias">>, <<"alias">>}
    BY <1>1, <2>1 DEF NodesOK
  <2>3. /\ todo' \in {<<"device", "alias">>, <<"alias">>, <<>>}
        /\ \E i \in 1..Len(todo) : todo[i] = k
        /\ \A i \in 1..Len(todo') : todo'[i] # k
        /\ \A q : q # k =>
             ((\E i \in 1..Len(todo) : todo[i] = q) <=> (\E i \in 1..Len(todo') : todo'[i] = q))
    <3>1. CASE todo = <<"device", "alias">>
      <4>1. todo' = <<"alias">> /\ k = "device"
        BY <1>1, <3>1
      <4> QED
        BY <3>1, <4>1
    <3>2. CASE todo = <<"alias">>
      <4>1. todo' = <<>> /\ k = "alias"
        BY <1>1, <3>2
      <4> QED
        BY <3>2, <4>1
    <3> QED
      BY <2>2, <3>1, <3>2
  <2>4. ASSUME NEW i \in 1..Len(nodes)
        PROVE  /\ node(nodes[i]) \in PortInfo /\ node(nodes[i]).device = <<k, nodes[i][1]>>
               /\ node(nodes[i]).vid = Null /\ node(nodes[i]).serial = Null
    <3>1. nodes[i][1] \in Nat
      BY <1>4
    <3>2. node(nodes[i]) = [device |-> <<k, nodes[i][1]>>, vid |-> Null, serial |-> Null]
      BY DEF Listing
    <3> QED
      BY <2>2, <3>1, <3>2 DEF PortInfo, Attributes
  <2> HIDE DEF node
  <2>5. /\ new \in Seq(PortInfo) /\ Len(new) = Len(nodes)
        /\ \A i \in 1..Len(new) :
             new[i].device = <<k, nodes[i][1]>> /\ new[i].vid = Null /\ new[i].serial = Null
    <3>1. DOMAIN nodes = 1..Len(nodes) /\ Len(nodes) \in Nat
      BY <1>4
    <3> QED
      BY <1>2, <2>4, <3>1
  <2> PICK ps : ps = ports'
    OBVIOUS
  <2>61. ps = ports \o new /\ new \in Seq(PortInfo)
    BY <1>2, <2>5
  <2>62. ps \in Seq(PortInfo) /\ Len(ports) \in Nat /\ Len(new) \in Nat
    BY <2>2, <2>61, ConcatFacts
  <2>63. \A i \in 1..Len(ports) : i \in 1..Len(ps) /\ ps[i] = ports[i]
    BY <2>2, <2>61, ConcatFacts
  <2>64. \A i \in 1..Len(new) : Len(ports) + i \in 1..Len(ps) /\ ps[Len(ports) + i] = new[i]
    BY <2>2, <2>61, ConcatFacts
  <2>65. \A i \in 1..Len(ps) : i \in 1..Len(ports) \/ \E j \in 1..Len(new) : i = Len(ports) + j
    BY <2>2, <2>61, ConcatFacts
  <2>7. (PatternOK(k, d))'
    <3>1. \A i \in 1..Len(ports) : ports[i].device[1] # k
      BY <2>1, <2>2, <2>3 DEF NodesOK, PatternOK
    <3>2. PICK i \in 1..Len(new) : nodes[i] = <<name[d], d>>
      BY <1>4, <2>1, <2>5
    <3>3. Len(ports) + i \in 1..Len(ps) /\ ps[Len(ports) + i].device = <<k, name[d]>>
      <4>1. nodes[i][1] = name[d] /\ new[i].device = <<k, nodes[i][1]>>
        BY <2>5, <3>2
      <4> QED
        BY <2>64, <4>1
    <3>4. ASSUME NEW j \in 1..Len(ps), ps[j].device = <<k, name[d]>>
          PROVE  j = Len(ports) + i
      <4>1. j \notin 1..Len(ports)
        <5>1. ps[j].device[1] = k
          BY <3>4
        <5> QED
          BY <2>63, <3>1, <5>1
      <4>2. PICK h \in 1..Len(new) : j = Len(ports) + h
        BY <2>62, <2>63, <2>64, <2>65, <4>1
      <4>3. nodes[h][1] = name[d]
        <5>1. new[h].device = <<k, name[d]>>
          BY <2>62, <2>63, <2>64, <2>65, <3>4, <4>2
        <5>2. <<k, nodes[h][1]>> = <<k, name[d]>>
          BY <2>5, <5>1
        <5> QED
          BY <5>2
      <4>4. h = i
        BY <1>4, <2>5, <3>2, <4>3
      <4> QED
        BY <4>2, <4>4
    <3> QED
      BY <1>1, <2>3, <3>3, <3>4 DEF PatternOK
  <2>8. ASSUME NEW q \in {"device", "alias"}, q # k PROVE (PatternOK(q, d))'
    <3>1. PatternOK(q, d)
      BY <2>1 DEF NodesOK
    <3>3. \A j \in 1..Len(ps) : ps[j].device[1] = q => j \in 1..Len(ports)
      <4> SUFFICES ASSUME NEW j \in 1..Len(ps), ps[j].device[1] = q, j \notin 1..Len(ports)
                   PROVE  FALSE
        OBVIOUS
      <4>1. PICK h \in 1..Len(new) : j = Len(ports) + h
        BY <2>65
      <4>2. ps[j] = new[h]
        BY <2>64, <4>1
      <4>3. new[h].device = <<k, nodes[h][1]>>
        BY <2>5
      <4> QED
        BY <2>8, <4>2, <4>3
    <3>4. CASE /\ \E i \in 1..Len(todo) : todo[i] = q
               /\ \A i \in 1..Len(ports) : ports[i].device[1] # q
      BY <2>3, <2>62, <2>63, <2>64, <2>65, <2>8, <3>3, <3>4 DEF PatternOK
    <3>5. CASE /\ \A i \in 1..Len(todo) : todo[i] # q
               /\ \E i \in 1..Len(ports) : ports[i].device = <<q, name[d]>>
               /\ \A i, j \in 1..Len(ports) :
                    ports[i].device = <<q, name[d]>> /\ ports[j].device = <<q, name[d]>> => i = j
      <4>1. \A i \in 1..Len(todo') : todo'[i] # q
        BY <2>3, <2>8, <3>5
      <4>2. \E i \in 1..Len(ps) : ps[i].device = <<q, name[d]>>
        BY <2>62, <2>63, <2>64, <2>65, <3>5
      <4>3. \A i, j \in 1..Len(ps) :
              ps[i].device = <<q, name[d]>> /\ ps[j].device = <<q, name[d]>> => i = j
        <5> SUFFICES ASSUME NEW i \in 1..Len(ps), NEW j \in 1..Len(ps),
                            ps[i].device = <<q, name[d]>>, ps[j].device = <<q, name[d]>>
                     PROVE  i = j
          OBVIOUS
        <5>1. ps[i].device[1] = q /\ ps[j].device[1] = q
          OBVIOUS
        <5>2. i \in 1..Len(ports) /\ j \in 1..Len(ports)
          BY <3>3, <5>1
        <5>3. ports[i].device = <<q, name[d]>> /\ ports[j].device = <<q, name[d]>>
          BY <2>63, <5>2
        <5> QED
          BY <3>5, <5>2, <5>3
      <4> QED
        BY <1>1, <4>1, <4>2, <4>3 DEF PatternOK
    <3> QED
      BY <3>1, <3>4, <3>5 DEF PatternOK
  <2>9. \A i \in 1..Len(ps) : ps[i].vid = Null /\ ps[i].serial = Null
    <3> SUFFICES ASSUME NEW i \in 1..Len(ps) PROVE ps[i].vid = Null /\ ps[i].serial = Null
      OBVIOUS
    <3>1. CASE i \in 1..Len(ports)
      BY <2>1, <2>63, <3>1 DEF NodesOK
    <3>2. CASE \E j \in 1..Len(new) : i = Len(ports) + j
      BY <2>5, <2>64, <3>2
    <3> QED
      BY <2>65, <3>1, <3>2
  <2>10. PortInfo' = PortInfo
    BY DEF PortInfo, Attributes
  <2>11. (NodesOK(d))'
    BY <1>1, <2>1, <2>3, <2>62, <2>63, <2>64, <2>65, <2>7, <2>8, <2>9, <2>10 DEF NodesOK
  <2> QED
    BY <1>1, <2>11 DEF Kept
<1> QED
  BY <1>1, <1>3, <1>5, StepStay

-----------------------------------------------------------------------------
(* The end of a call *)

\* One port, which is d's.
LEMMA FoundOne ==
  ASSUME NEW d, Same(d), d # Null, NEW p, result' = <<p>>, request.kind # "list",
         p.device[2] = name[d], p.device[1] \in Nodes,
         p.vid \in Metadata(d), p.serial \in Metadata(d)
  PROVE  (Answer(d))'
<1>1. /\ system' = system /\ request' = request /\ name'[d] = name[d]
      /\ (Metadata(d))' = Metadata(d) /\ Nodes' = Nodes
  BY SameFacts DEF Same, Nodes
<1>2. DOMAIN result' = {1} /\ result'[1] = p
  OBVIOUS
<1> DEFINE own == {j \in DOMAIN result' : /\ result'[j].device[2] = name[d]
                                          /\ result'[j].device[1] \in Nodes}
<1>3. own = {1}
  BY <1>2
<1> QED
  BY <1>1, <1>2, <1>3 DEF Answer

LEMMA FinishNodes ==
  ASSUME StayInv, Finish, NEW d \in stayed, Concerned(d), system = "bsd"
  PROVE  (Answer(d))'
<1>1. /\ pc = "next" /\ todo = <<>> /\ result' = first_match
      /\ UNCHANGED <<system, request, name, loc, wanted>>
  BY DEF Finish, Return, tree
<1>2. Same(d) /\ NodesOK(d) /\ WantedIs(d) /\ d # Null
  BY <1>1, StayFacts, DevicesAssumption DEF Same, Walking, Devices
<1>3. /\ ports \in Seq(PortInfo) /\ DOMAIN ports = 1..Len(ports)
      /\ \A i \in 1..Len(ports) : ports[i].vid = Null /\ ports[i].serial = Null
      /\ request.kind # "resolve" /\ Metadata(d) = {Null} /\ Nodes = {"device", "alias"}
  BY <1>2 DEF NodesOK, Metadata, Nodes
<1>4. ASSUME NEW k \in {"device", "alias"}
      PROVE  /\ \E i \in 1..Len(ports) : ports[i].device = <<k, name[d]>>
             /\ \A i, j \in 1..Len(ports) :
                  ports[i].device = <<k, name[d]>> /\ ports[j].device = <<k, name[d]>> => i = j
  <2>1. PatternOK(k, d) /\ Len(todo) = 0
    BY <1>1, <1>2 DEF NodesOK
  <2> QED
    BY <2>1 DEF PatternOK
<1>5. CASE request.kind = "list"
  <2>1. result' = ports
    BY <1>1, <1>5 DEF first_match
  <2>2. PICK i \in 1..Len(ports) : ports[i].device = <<"device", name[d]>>
    BY <1>4
  <2>3. PICK j \in 1..Len(ports) : ports[j].device = <<"alias", name[d]>>
    BY <1>4
  <2> DEFINE own == {h \in DOMAIN ports : /\ ports[h].device[2] = name[d]
                                          /\ ports[h].device[1] \in {"device", "alias"}}
  <2>4. \A h \in own : ports[h].device \in {<<"device", name[d]>>, <<"alias", name[d]>>}
    <3> SUFFICES ASSUME NEW h \in own
                 PROVE  ports[h].device \in {<<"device", name[d]>>, <<"alias", name[d]>>}
      OBVIOUS
    <3>1. ports[h] \in PortInfo
      BY <1>3
    <3>2. ports[h].device = <<ports[h].device[1], ports[h].device[2]>>
      BY <3>1 DEF PortInfo
    <3> QED
      BY <3>2
  <2>5. own = {i, j} /\ i # j
    <3>1. \A h \in own : h = i \/ h = j
      BY <1>3, <1>4, <2>2, <2>3, <2>4
    <3> QED
      BY <1>3, <2>2, <2>3, <3>1
  <2>6. /\ {h \in own : ports[h].device[1] = "device"} = {i}
        /\ {h \in own : ports[h].device[1] = "alias"} = {j}
    BY <2>2, <2>3, <2>5
  <2>7. Nodes' = {"device", "alias"} /\ (Metadata(d))' = {Null} /\ name'[d] = name[d]
    BY <1>1, <1>2, <1>3, SameFacts DEF Nodes
  <2> QED
    BY <1>1, <1>2, <1>3, <1>5, <2>1, <2>5, <2>6, <2>7 DEF Answer
<1>6. CASE request.kind = "find"
  <2>1. "path" \in DOMAIN request /\ "serial" \notin DOMAIN request
    BY <1>6, RequestFacts DEF Concerned, Unknown, StayInv
  <2>2. PICK k \in {"device", "alias"} : wanted = <<k, name[d]>>
    BY <1>2, <2>1 DEF WantedIs
  <2>3. Matching \in SUBSET Nat
    BY <1>3 DEF Matching
  <2>4. PICK i \in 1..Len(ports) : ports[i].device = wanted
    BY <1>4, <2>2
  <2>5. i \in Matching
    <3>1. canonical_port_name(ports[i].device) = wanted
      BY <2>2, <2>4 DEF canonical_port_name
    <3> QED
      BY <1>3, <2>1, <3>1 DEF Matching, Matches
  <2>6. Min(Matching) \in Matching
    BY <2>3, <2>5, LeastNatural
  <2>7. result' = <<ports[Min(Matching)]>>
    BY <1>1, <1>6, <2>5 DEF first_match
  <2>8. PICK m \in 1..Len(ports) : m = Min(Matching) /\ Matches(ports[m])
    BY <1>3, <2>6 DEF Matching
  <2>9. ports[m].device = wanted
    <3>1. canonical_port_name(ports[m].device) = wanted /\ ports[m] \in PortInfo
      BY <1>3, <2>1, <2>8 DEF Matches
    <3> QED
      BY <3>1 DEF canonical_port_name, PortInfo
  <2> QED
    BY <1>2, <1>3, <1>6, <2>2, <2>7, <2>8, <2>9, FoundOne
<1> QED
  BY <1>3, <1>5, <1>6, RequestFacts DEF StayInv

LEMMA FinishWalk ==
  ASSUME StayInv, Finish, NEW d \in stayed, Concerned(d), system # "bsd"
  PROVE  (Answer(d))'
<1>1. /\ pc = "next" /\ todo = <<>>
      /\ result' = IF system = "linux" /\ request.kind = "resolve" THEN ports ELSE first_match
      /\ UNCHANGED <<system, request, name, loc, wanted>>
  BY DEF Finish, Return, tree
<1>2. /\ Same(d) /\ WalkOK(d) /\ WantedIs(d) /\ d # Null /\ d \in Devices
  BY <1>1, StayFacts, DevicesAssumption DEF Same, Walking, Devices
<1>3. /\ ports \in Seq(PortInfo) /\ DOMAIN ports = 1..Len(ports)
      /\ \A j \in 1..Len(ports) : Right(ports[j], d) /\ ports[j] \in PortInfo
      /\ Nodes = {"device"}
  BY <1>2 DEF WalkOK, Nodes
<1>4. PICK i \in 1..Len(ports) :
        /\ ports[i].device[2] = name[d]
        /\ \A j \in 1..Len(ports) : ports[j].device[2] = name[d] => j = i
  BY <1>1, <1>2 DEF WalkOK
<1>5. /\ ports[i].device[1] = "device" /\ ports[i].device = <<"device", name[d]>>
      /\ ports[i].vid \in Metadata(d) /\ ports[i].serial \in Metadata(d)
  <2>1. ports[i].device = <<ports[i].device[1], ports[i].device[2]>>
    BY <1>3 DEF PortInfo
  <2>2. Right(ports[i], d)
    BY <1>3
  <2> QED
    BY <1>4, <2>1, <2>2 DEF Right
<1>6. Matching \in SUBSET Nat
  BY <1>3 DEF Matching
<1>7. ASSUME i \in Matching, \A j \in Matching : j = i, request.kind # "list",
             ~ (system = "linux" /\ request.kind = "resolve")
      PROVE  (Answer(d))'
  <2>1. Min(Matching) = i
    BY <1>6, <1>7, LeastNatural
  <2>2. result' = <<ports[i]>>
    BY <1>1, <1>7, <2>1 DEF first_match
  <2> QED
    BY <1>2, <1>3, <1>4, <1>5, <1>7, <2>2, FoundOne
<1>8. CASE request.kind = "list" \/ (system = "linux" /\ request.kind = "resolve")
  <2>1. result' = ports
    BY <1>1, <1>8 DEF first_match
  <2> QED
    BY <1>2, <1>4, <2>1, ListedOnce
<1>9. CASE /\ "path" \in DOMAIN request /\ request.kind # "list"
           /\ ~ (system = "linux" /\ request.kind = "resolve")
  <2>1. system = "darwin" => request.kind = "find"
    <3>1. ports # <<>>
      BY <1>4
    <3> QED
      BY <1>1, <1>2, <1>9, <3>1, RequestFacts DEF WalkOK, StayInv
  <2>2. i \in Matching
    BY <1>2, <1>3, <1>5, <1>9, <2>1, ListedMatches DEF Matching, StayInv, CallOK
  <2>3. \A j \in Matching : j = i
    BY <1>2, <1>3, <1>4, <1>9, <2>1, ListedMatches DEF Matching, StayInv, CallOK
  <2> QED
    BY <1>7, <1>9, <2>2, <2>3
<1>10. CASE "serial" \in DOMAIN request
  <2>1. /\ request.kind = "find" /\ request.serial = d /\ d \in Usb
        /\ "path" \notin DOMAIN request
    BY <1>10, RequestFacts DEF StayInv, Concerned, Asked
  <2>2. \A j \in DOMAIN ports : j \in Matching <=> ports[j].serial = d
    BY <1>10, <2>1 DEF Matching, Matches
  <2>3. \A j \in Matching : j = i
    <3> SUFFICES ASSUME NEW j \in Matching PROVE j = i
      OBVIOUS
    <3>1. j \in 1..Len(ports) /\ ports[j].serial = d
      BY <1>3, <2>2 DEF Matching
    <3>2. ports[j].device[2] = name[d]
      BY <1>3, <3>1 DEF Right
    <3> QED
      BY <1>4, <3>1, <3>2
  <2>4. CASE i \in Matching
    BY <1>7, <2>1, <2>3, <2>4
  <2>5. CASE i \notin Matching
    <3>1. Matching = {} /\ ports[i].serial # d
      BY <1>3, <2>2, <2>3, <2>5
    <3>2. system = "darwin"
      BY <1>5, <2>1, <3>1, DevicesAssumption DEF Metadata
    <3>3. result' = <<>>
      BY <1>1, <2>1, <3>1, <3>2 DEF first_match
    <3>4. DOMAIN result' = {}
      BY <3>3
    <3> QED
      BY <1>1, <1>10, <3>2, <3>4 DEF Answer
  <2> QED
    BY <2>4, <2>5
<1> QED
  BY <1>8, <1>9, <1>10, RequestFacts DEF StayInv

LEMMA FinishStay ==
  ASSUME StayInv, Finish
  PROVE  StayInv'
<1>1. /\ pc = "next" /\ pc' = "done"
      /\ UNCHANGED <<system, request, name, loc, stayed, alive, wanted>>
  BY DEF Finish, Return, tree
<1>2. ASSUME NEW d \in stayed, Concerned(d) PROVE (Kept(d))'
  BY <1>1, <1>2, FinishNodes, FinishWalk DEF Kept
<1> QED
  BY <1>1, <1>2, StepStay DEF Walking

-----------------------------------------------------------------------------

LEMMA StutterStay ==
  ASSUME StayInv, UNCHANGED vars
  PROVE  StayInv'
<1>1. /\ UNCHANGED <<system, request, name, loc, stayed, alive, wanted>>
      /\ UNCHANGED <<pc, todo, entry, source, ports, result>>
  BY DEF vars, tree, walk
<1>2. ASSUME NEW d PROVE Same(d)
  BY <1>1 DEF Same
<1>3. TreeOK'
  BY <1>1 DEF StayInv, TreeOK, Plugged
<1>4. CallOK'
  <2>1. request' \in (Requests(system))'
    BY <1>1 DEF StayInv, CallOK, Requests, Kinds, PathsOf, Paths
  <2>2. pc' # "start" => \A d \in stayed' : (Concerned(d))' => (WantedIs(d))'
    BY <1>1, <1>2, SameFacts DEF StayInv, CallOK
  <2> QED
    BY <1>1, <2>1, <2>2 DEF StayInv, CallOK
<1>5. ASSUME NEW d \in stayed, Concerned(d) PROVE (Kept(d))'
  <2>1. Kept(d)
    BY <1>5 DEF StayInv
  <2>2. (Answer(d))' <=> Answer(d)
    BY <1>1 DEF Answer, Nodes, Metadata
  <2>3. (WalkOK(d) => (WalkOK(d))') /\ (NodesOK(d) => (NodesOK(d))')
    BY <1>1, <1>2, SameWalk
  <2> QED
    BY <1>1, <2>1, <2>2, <2>3 DEF Kept
<1>6. \A d \in stayed' : (Concerned(d))' => Concerned(d)
  BY <1>2, SameFacts
<1> QED
  BY <1>1, <1>3, <1>4, <1>5, <1>6 DEF StayInv

LEMMA StepStayInv == StayInv /\ [Next]_vars => StayInv'
<1> SUFFICES ASSUME StayInv, [Next]_vars PROVE StayInv'
  OBVIOUS
<1>1. CASE \E d \in Usb : Unplug(d) \/ Plug(d)
  BY <1>1, MoveStay
<1>2. CASE Canonicalize
  BY <1>2, CanonicalizeStay
<1>3. CASE Snapshot
  BY <1>3, SnapshotStay
<1>4. CASE ResolveBsd
  BY <1>4, ResolveBsdStay
<1>5. CASE _resolve_entry \/ _find_usb_device \/ _resolve_usb \/ _device_to_port_info
  BY <1>5, ResolveEntryStay, FindUsbDeviceStay, ResolveUsbStay, DeviceToPortInfoStay
<1>6. CASE NextService \/ find_usb_parent \/ ReadParent \/ Drop
  BY <1>6, NextServiceStay, FindUsbParentStay, ReadParentStay, DropStay
<1>7. CASE _resolve_interface \/ _parse_device_ids \/ EndSetupApi \/ _enumerate_registry_fallback
  BY <1>7, ResolveInterfaceStay, ParseDeviceIdsStay, EndSetupApiStay, RegistryStay
<1>8. CASE NextPattern
  BY <1>8, NextPatternStay
<1>9. CASE Finish
  BY <1>9, FinishStay
<1>10. CASE UNCHANGED vars
  BY <1>10, StutterStay
<1> QED
  BY <1>1, <1>2, <1>3, <1>4, <1>5, <1>6, <1>7, <1>8, <1>9, <1>10 DEF Next

\* A listing has each node of a device that stays plugged in exactly once, one
\* node per device and on BSD two, and a search for the device returns one of
\* them: under its own name and with its own metadata.  No other port has its
\* metadata, for any number of devices, names and locations and however often
\* the others are moved.
THEOREM StayedCorrect == Spec => []StayedPortsListed
<1>1. StayInv => StayedPortsListed
  <2> SUFFICES ASSUME StayInv, pc = "done" PROVE StayedPortsListed
    BY DEF StayedPortsListed
  <2>1. \A d \in stayed : Asked(d) /\ ~Unknown(d) => Answer(d)
    BY DEF StayInv, Concerned, Kept
  <2> QED
    BY <2>1 DEF StayedPortsListed, Answer
<1> QED
  BY <1>1, InitStay, StepStayInv, PTL DEF Spec
==============================================================================
