------------------------------ MODULE Discovery ------------------------------
(***************************************************************************)
(* Port discovery: list_serial_ports, find_serial_port and the lookup of   *)
(* one path that open_serial_port makes, on each native backend and on     *)
(* pyudev, while devices are unplugged and plugged in again between the    *)
(* steps of the walk.  The walk runs in one thread, alone.                 *)
(*                                                                         *)
(* External: the device tree.  A USB device has a name (ttyUSB0, COM3) and *)
(* a location (the port of the hub) for as long as it is plugged in.       *)
(***************************************************************************)
EXTENDS Naturals, Sequences, FiniteSets, FiniteSetsExt

CONSTANTS
  Usb,        \* USB serial adapters
  Boards,     \* ports of the board: never unplugged, without USB metadata
  Names,      \* device names, numbers in their sorting order
  Consoles,   \* names of /sys/class/tty that have no device link
  Locations,  \* where an adapter can be plugged in
  Hub,        \* the root hub, which on Linux is an ancestor of every location
  Null,       \* None, or nowhere
  MaxChanges  \* bound on the number of times a device is moved during a call

ASSUME NamesAssumption ==
  /\ Names \subseteq Nat /\ Consoles \subseteq Nat /\ Consoles \cap Names = {}
  /\ IsFiniteSet(Names) /\ IsFiniteSet(Consoles)
ASSUME DevicesAssumption ==
  /\ Usb \cap Boards = {} /\ Hub \notin Usb \cup Boards \cup Locations \cup {Null}
  /\ Null \notin Usb \cup Boards \cup Names \cup Locations

Devices == Usb \cup Boards

VARIABLES
  system,    \* the enumerator _select_discovery chose
  request,   \* the call: its kind and its filter
  name, loc, \* name and location of each device
  changes,   \* number of moves
  stayed,    \* devices plugged in and not moved since the call began
  alive,     \* devices plugged in and not moved since the walk began
  pc,        \* what the worker thread does next
  wanted,    \* the canonical name find_serial_port and resolve look for
  todo,      \* entries of the walk that are left
  entry,     \* the PortInfo under construction
  source,    \* what its metadata is read from
  held,      \* number of open handles of each kind
  leaked,    \* number of CF values that are never released
  ports,     \* what the walk has listed
  result     \* what the call returned

tree == <<name, loc, changes, stayed, alive>>
walk == <<todo, entry, source, held, leaked, ports>>
vars == <<system, request, tree, pc, wanted, walk, result>>

\* Names of a port.  "device" is what a listing shows (/dev/ttyUSB0,
\* /dev/cu.x, COM3), "alias" another spelling (/dev/tty.x, \\.\com3), "link" a
\* symlink of /dev/serial/by-id that udev keeps for a device, and "interface"
\* the long SetupAPI path of a port whose friendly name cannot be read.
Paths == {<<"device", n>> : n \in Names} \cup {<<"alias", n>> : n \in Names}
           \cup {<<"link", d>> : d \in Usb}

PathsOf(s) ==
  {p \in Paths : /\ p[1] = "link" => s \in {"linux", "pyudev"}
                 /\ p[1] = "alias" => s \notin {"linux", "pyudev"}}

\* open_serial_port asks native backends only.
Kinds(s) == IF s = "pyudev" THEN {"find"} ELSE {"find", "resolve"}

Requests(s) ==
  {[kind |-> "list"]}
    \cup {[kind |-> "find", serial |-> d] : d \in Usb}
    \cup {[kind |-> k, path |-> p] : k \in Kinds(s), p \in PathsOf(s)}

Plugged == {d \in Devices : name[d] # Null}
Handles == {"iterator", "service", "parent", "list", "key"}
NoHandles == [h \in Handles |-> 0]
Listing(n) == [device |-> <<"device", n>>, vid |-> Null, serial |-> Null]

Init ==
  /\ system \in {"linux", "pyudev", "darwin", "bsd", "win32"}
  /\ request \in Requests(system)
  /\ name \in [Devices -> Names \cup {Null}]
  /\ loc \in [Devices -> Locations \cup {Null}]
  /\ \A d \in Devices : name[d] = Null => d \in Usb
  /\ \A d \in Devices : loc[d] = Null <=> name[d] = Null \/ d \in Boards
  /\ \A d, e \in Plugged : d # e => name[d] # name[e] /\ (loc[d] = Null \/ loc[d] # loc[e])
  /\ changes = 0 /\ stayed = Plugged /\ alive = {}
  /\ pc = "start" /\ wanted = Null
  /\ todo = <<>> /\ entry = Null /\ source = Null
  /\ held = NoHandles /\ leaked = 0
  /\ ports = <<>> /\ result = Null

-----------------------------------------------------------------------------
(* The device tree changes (external) *)

Move(d) ==
  /\ pc # "done" /\ changes < MaxChanges
  /\ changes' = changes + 1
  /\ stayed' = stayed \ {d} /\ alive' = alive \ {d}
  /\ UNCHANGED <<system, request, pc, wanted, walk, result>>

Unplug(d) ==
  /\ d \in Usb \cap Plugged
  /\ name' = [name EXCEPT ![d] = Null] /\ loc' = [loc EXCEPT ![d] = Null]
  /\ Move(d)

\* The names and the locations that are free are given out.
Plug(d) ==
  /\ d \in Usb \ Plugged
  /\ \E n \in Names, l \in Locations :
       /\ \A e \in Devices : name[e] # n /\ loc[e] # l
       /\ name' = [name EXCEPT ![d] = n] /\ loc' = [loc EXCEPT ![d] = l]
  /\ Move(d)

-----------------------------------------------------------------------------
(* canonical_port_name and the beginning of a call *)

\* Windows strips the prefix and upper-cases; elsewhere a path that exists is
\* resolved and any other path stays as it is.
canonical_port_name(path) ==
  CASE system = "win32" /\ path[1] = "alias" -> <<"device", path[2]>>
    [] path[1] = "link" /\ path[2] \in Plugged -> <<"device", name[path[2]]>>
    [] OTHER -> path

Return(ps) == pc' = "done" /\ result' = ps

\* The name is canonicalised before the walk.  The lookup of one path on Linux,
\* macOS and BSD compares the name as it was given.
Canonicalize ==
  /\ pc = "start"
  /\ pc' = "snapshot"
  /\ wanted' = IF "path" \notin DOMAIN request THEN Null
               ELSE IF request.kind = "find" \/ system = "win32"
               THEN canonical_port_name(request.path) ELSE request.path
  /\ UNCHANGED <<system, request, tree, walk, result>>

\* sorted(): as many elements come before the i-th as are smaller.
Sorted(S) ==
  [i \in 1..Cardinality(S) |->
     CHOOSE n \in S : Cardinality({m \in S : m < n}) = i - 1]

\* The devices of D by name, as a walk finds them when it begins.
Services(D) ==
  LET names == Sorted({name[d] : d \in D})
  IN  [i \in DOMAIN names |-> <<names[i], CHOOSE d \in D : name[d] = names[i]>>]

\* sorted(sys_root.iterdir()), or the one entry with the basename of the path;
\* with pyudev the devices of the tty subsystem.
SnapshotLinux ==
  /\ system \in {"linux", "pyudev"}
  /\ todo' = IF request.kind # "resolve"
             THEN Sorted({name[d] : d \in Plugged} \cup Consoles)
             ELSE IF wanted[1] = "device" THEN <<wanted[2]>> ELSE <<>>
  /\ UNCHANGED held

\* IOServiceGetMatchingServices; SetupDiGetClassDevs, which does not list a
\* driver that registers no interface: here that of a board.
SnapshotServices ==
  /\ system \in {"darwin", "win32"}
  /\ todo' = Services(IF system = "darwin" THEN Plugged ELSE Plugged \cap Usb)
  /\ held' = [held EXCEPT ![IF system = "darwin" THEN "iterator" ELSE "list"] = @ + 1]

\* The patterns of FreeBSD and NetBSD, callout nodes before dial-in nodes.
SnapshotBsd ==
  /\ system = "bsd" /\ request.kind # "resolve"
  /\ todo' = <<"device", "alias">>
  /\ UNCHANGED held

Snapshot ==
  /\ pc = "snapshot"
  /\ SnapshotLinux \/ SnapshotServices \/ SnapshotBsd
  /\ pc' = "next"
  /\ alive' = Plugged
  /\ UNCHANGED <<system, request, name, loc, changes, stayed, wanted, entry,
                 source, leaked, ports, result>>

\* resolve_port_info of _bsd looks at the name only.
ResolveBsd ==
  /\ pc = "snapshot" /\ system = "bsd" /\ request.kind = "resolve"
  /\ Return(<<[Listing(0) EXCEPT !.device = wanted]>>)
  /\ UNCHANGED <<system, request, tree, wanted, walk>>

\* Definitions named Bad... are faulty variants; the specification uses none
\* of them.  Here: an entry that has gone ends the walk.
BadSkip == todo' = <<>> /\ pc' = "next" /\ UNCHANGED <<entry, source, ports>>

Skip == todo' = Tail(todo) /\ pc' = "next" /\ UNCHANGED <<entry, source, ports>>

Add(e) ==
  /\ ports' = Append(ports, e)
  /\ todo' = Tail(todo) /\ pc' = "next"
  /\ UNCHANGED <<entry, source>>

Step == UNCHANGED <<system, request, tree, wanted, result>>

-----------------------------------------------------------------------------
(* _linux/discovery.py: the entries are names, the metadata is under the     *)
(* location that the name's device link pointed at                           *)

\* The device link exists and resolves, or the entry is skipped.
_resolve_entry ==
  /\ system = "linux" /\ pc = "next" /\ todo # <<>>
  /\ \/ /\ \A d \in Devices : name[d] # Head(todo)
        /\ Skip
     \/ \E d \in Devices :
          /\ name[d] = Head(todo)
          /\ entry' = Listing(name[d]) /\ source' = loc[d]
          /\ pc' = "usb"
          /\ UNCHANGED <<todo, ports>>
  /\ Step /\ UNCHANGED <<held, leaked>>

At(l) == {d \in Usb : loc[d] = l}

\* The first ancestor with an idVendor: the device that is at the location now,
\* or the hub if there is none.
_find_usb_device ==
  /\ system = "linux" /\ pc = "usb"
  /\ \/ source = Null /\ Add(entry)
     \/ /\ source # Null
        /\ source' = IF At(source) = {} THEN Hub ELSE source
        /\ pc' = "vid"
        /\ UNCHANGED <<todo, entry, ports>>
  /\ Step /\ UNCHANGED <<held, leaked>>

\* The file of an attribute, or None.
_read_text == IF source = Hub THEN {Hub} ELSE IF At(source) = {} THEN {Null} ELSE At(source)

\* The attributes are read one after the other; the vendor id and the serial
\* number stand for all of them.
_resolve_usb ==
  /\ system = "linux"
  /\ \E d \in _read_text :
       \/ /\ pc = "vid" /\ pc' = "serial"
          /\ entry' = [entry EXCEPT !.vid = d]
          /\ UNCHANGED <<todo, source, ports>>
       \/ pc = "serial" /\ Add([entry EXCEPT !.serial = d])
  /\ Step /\ UNCHANGED <<held, leaked>>

\* _discovery/pyudev.py: libudev keeps the properties of a device, which it finds
\* by its name, together.
_device_to_port_info ==
  /\ system = "pyudev" /\ pc = "next" /\ todo # <<>>
  /\ LET d == {e \in Devices : name[e] = Head(todo)}
     IN  \/ d = {} /\ Skip
         \/ \E e \in d :
              LET m == IF e \in Usb THEN e ELSE Null
              IN  Add([device |-> <<"device", name[e]>>, vid |-> m, serial |-> m])
  /\ Step /\ UNCHANGED <<held, leaked>>

-----------------------------------------------------------------------------
(* _darwin/discovery.py: the entries are retained services, which keep their *)
(* properties when the device goes                                           *)

Hold(h) == held' = [held EXCEPT ![h] = @ + 1]
Release(h) == held' = [held EXCEPT ![h] = @ - 1]

\* The lookup of one path knows the callout and the dial-in node of a service.
IsService(s) ==
  request.kind = "resolve" => wanted \in {<<"device", s[1]>>, <<"alias", s[1]>>}

NextService ==
  /\ system = "darwin" /\ pc = "next" /\ todo # <<>>
  /\ Hold("service")
  /\ entry' = Listing(Head(todo)[1]) /\ source' = Head(todo)[2]
  /\ pc' = IF IsService(Head(todo)) THEN "usb" ELSE "drop"
  /\ Step /\ UNCHANGED <<todo, leaked, ports>>

Listed(e) == ports' = Append(ports, e) /\ pc' = "drop" /\ UNCHANGED <<todo, entry, source>>

\* A service that is gone has no parent.  A parent that is no USB device is
\* released before the climb goes on from it, so that a second hop may fail.
\* The idVendor that ends the climb is not released.
find_usb_parent ==
  /\ system = "darwin" /\ pc = "usb"
  /\ \/ Listed(entry) /\ UNCHANGED <<held, leaked>>
     \/ /\ source \in Usb \cap alive
        /\ Hold("parent") /\ leaked' = leaked + 1
        /\ pc' = "vid" /\ UNCHANGED <<todo, entry, source, ports>>
  /\ Step

ReadParent ==
  /\ system = "darwin"
  /\ \E d \in (IF source \in alive THEN {source} ELSE {source, Null}) :
       \/ /\ pc = "vid" /\ pc' = "serial"
          /\ entry' = [entry EXCEPT !.vid = d]
          /\ UNCHANGED <<todo, source, ports, held>>
       \/ /\ pc = "serial"
          /\ Listed([entry EXCEPT !.serial = d])
          /\ Release("parent")
  /\ Step /\ UNCHANGED leaked

\* Faulty: the return from within the loop releases nothing.
BadDrop ==
  /\ system = "darwin" /\ pc = "drop"
  /\ IF request.kind = "resolve" /\ ports # <<>>
     THEN todo' = <<>> /\ Return(ports) /\ UNCHANGED held
     ELSE todo' = Tail(todo) /\ pc' = "next" /\ Release("service") /\ UNCHANGED result
  /\ UNCHANGED <<system, request, tree, wanted, entry, source, leaked, ports>>

\* The service is released; the lookup of one path returns from within the
\* loop, which closes the generator and with it the iterator.
Drop ==
  /\ system = "darwin" /\ pc = "drop"
  /\ IF request.kind = "resolve" /\ ports # <<>>
     THEN /\ held' = [held EXCEPT !["service"] = @ - 1, !["iterator"] = @ - 1]
          /\ todo' = <<>> /\ Return(ports)
     ELSE todo' = Tail(todo) /\ pc' = "next" /\ Release("service") /\ UNCHANGED result
  /\ UNCHANGED <<system, request, tree, wanted, entry, source, leaked, ports>>

-----------------------------------------------------------------------------
(* _windows/discovery.py: the entries are interfaces of a SetupAPI list      *)

\* A call on an interface whose device has gone may fail.
Possible(d) == IF d \in alive THEN {TRUE} ELSE BOOLEAN

\* Without the friendly name the port goes by its interface path.
_resolve_interface ==
  /\ system = "win32" /\ pc = "next" /\ todo # <<>>
  /\ LET n == Head(todo)[1]
         d == Head(todo)[2]
     IN  \E detail, friendly \in Possible(d) :
           \/ ~detail /\ Skip
           \/ /\ detail
              /\ entry' = [Listing(n) EXCEPT !.device[1] =
                             IF friendly THEN "device" ELSE "interface"]
              /\ source' = d
              /\ pc' = "serial"
              /\ UNCHANGED <<todo, ports>>
  /\ Step /\ UNCHANGED <<held, leaked>>

\* The instance id names both; the hardware id, its fallback, no serial number.
_parse_device_ids ==
  /\ system = "win32" /\ pc = "serial"
  /\ \E instance, hardware \in Possible(source) :
       Add([device |-> entry.device,
            vid |-> IF instance \/ hardware THEN source ELSE Null,
            serial |-> IF instance THEN source ELSE Null])
  /\ Step /\ UNCHANGED <<held, leaked>>

Matches(p) ==
  /\ "serial" \in DOMAIN request => p.serial = request.serial
  /\ "path" \in DOMAIN request => canonical_port_name(p.device) = wanted

Matching == {i \in DOMAIN ports : Matches(ports[i])}

\* The list is destroyed.  The registry is asked when it was empty, and by the
\* lookup of one path when the path is not in it.
EndSetupApi ==
  /\ system = "win32" /\ pc = "next" /\ todo = <<>> /\ held["list"] > 0
  /\ IF ports = <<>> \/ (request.kind = "resolve" /\ Matching = {})
     THEN /\ held' = [held EXCEPT !["list"] = @ - 1, !["key"] = @ + 1]
          /\ ports' = <<>> /\ pc' = "key"
     ELSE Release("list") /\ pc' = "next" /\ UNCHANGED ports
  /\ Step /\ UNCHANGED <<todo, entry, source, leaked>>

\* EnumValue(key, index) of SERIALCOMM, until there is none with the index.
_enumerate_registry_fallback ==
  /\ pc = "key"
  /\ LET i == Len(ports) + 1
         values == Services(Plugged)
     IN  IF i > Len(values) THEN pc' = "next" /\ Release("key") /\ UNCHANGED ports
         ELSE ports' = Append(ports, Listing(values[i][1])) /\ UNCHANGED <<pc, held>>
  /\ Step /\ UNCHANGED <<todo, entry, source, leaked>>

-----------------------------------------------------------------------------
(* _bsd/discovery.py: the nodes of /dev                                      *)

\* Every device has a node of both kinds.
NextPattern ==
  /\ system = "bsd" /\ pc = "next" /\ todo # <<>>
  /\ LET nodes == Services(Plugged)
     IN  ports' = ports \o [i \in DOMAIN nodes |->
                    [Listing(0) EXCEPT !.device = <<Head(todo), nodes[i][1]>>]]
  /\ todo' = Tail(todo)
  /\ Step /\ UNCHANGED <<pc, entry, source, held, leaked>>

-----------------------------------------------------------------------------
(* The end of a call *)

\* The first port that passes every filter; a listing returns them all.
first_match ==
  IF request.kind = "list" THEN ports
  ELSE IF Matching = {} THEN <<>> ELSE <<ports[Min(Matching)]>>

\* The one entry that Linux looked up was not compared with anything.
Finish ==
  /\ pc = "next" /\ todo = <<>> /\ held["list"] = 0
  /\ Return(IF system = "linux" /\ request.kind = "resolve" THEN ports ELSE first_match)
  /\ held' = [held EXCEPT !["iterator"] = 0]
  /\ UNCHANGED <<system, request, tree, wanted, todo, entry, source, leaked, ports>>

Next ==
  \/ \E d \in Usb : Unplug(d) \/ Plug(d)
  \/ Canonicalize \/ Snapshot \/ ResolveBsd
  \/ _resolve_entry \/ _find_usb_device \/ _resolve_usb \/ _device_to_port_info
  \/ NextService \/ find_usb_parent \/ ReadParent \/ Drop
  \/ _resolve_interface \/ _parse_device_ids \/ EndSetupApi
  \/ _enumerate_registry_fallback \/ NextPattern \/ Finish

Spec == Init /\ [][Next]_vars

-----------------------------------------------------------------------------
(* Properties *)

\* The device whose name the caller asked for.
Asked(d) ==
  CASE request.kind = "list" -> TRUE
    [] "serial" \in DOMAIN request -> request.serial = d
    [] OTHER -> request.path \in {<<"device", name[d]>>, <<"alias", name[d]>>, <<"link", d>>}

\* Ports this system cannot show the caller, whatever happens: the Windows
\* listing has no port of a board once it has any other, find_serial_port on
\* macOS does not know a dial-in node, a BSD listing has no serial numbers, and
\* the lookup of a path on Linux does not follow a symlink.
Unknown(d) ==
  \/ system = "win32" /\ d \in Boards
  \/ system = "darwin" /\ request.kind = "find" /\ "path" \in DOMAIN request
       /\ request.path[1] = "alias"
  \/ system = "bsd" /\ "serial" \in DOMAIN request
  \/ system = "linux" /\ request.kind = "resolve" /\ request.path[1] = "link"

\* macOS may find no metadata of a port, BSD never has any.
Metadata(d) ==
  IF d \in Boards \/ system = "bsd" THEN {Null}
  ELSE IF system = "darwin" THEN {d, Null} ELSE {d}

\* The nodes of a device that a listing shows.  On BSD a device has a callout and
\* a dial-in node and both are listed: enumerate_ports leaves out a path it has
\* seen, never a second path of the same device.  (The comment over its
\* patterns says "the first match wins when the same underlying device has
\* multiple nodes"; nothing in the walk knows which nodes are of one device.)
Nodes == IF system = "bsd" THEN {"device", "alias"} ELSE {"device"}

\* Of a device that stays plugged in throughout a call a listing has each of its
\* nodes exactly once: one entry, on BSD two, one per node.  A search or a lookup
\* that asks for the device returns exactly one of them.  An entry goes under
\* the device's own name, with its own metadata, and no other entry has its
\* metadata, whatever is unplugged, plugged in or renamed meanwhile: an entry
\* that goes never costs another one its place in the list, and a name or a
\* location that changes hands never lends it another device's identity.  (On
\* macOS, where metadata may be missing, a search for it may find nothing.)
StayedPortsListed ==
  pc = "done" => \A d \in stayed : Asked(d) /\ ~Unknown(d) =>
    LET own == {i \in DOMAIN result : result[i].device[2] = name[d]
                                        /\ result[i].device[1] \in Nodes}
    IN  /\ \/ /\ request.kind = "list"
              /\ \A n \in Nodes : \E i \in own :
                   {j \in own : result[j].device[1] = n} = {i}
           \/ request.kind # "list" /\ \E i \in own : own = {i}
           \/ own = {} /\ system = "darwin" /\ "serial" \in DOMAIN request
        /\ \A i \in own : result[i].vid \in Metadata(d) /\ result[i].serial \in Metadata(d)
        /\ \A i \in DOMAIN result \ own : result[i].vid # d /\ result[i].serial # d

\* A walk holds one handle of a kind at a time and none when it has returned,
\* also when the lookup of one path returns from the middle of it: the iterator,
\* the service and its parent of IOKit, the list of SetupAPI, the registry key.
HandlesReleased ==
  /\ \A h \in Handles : held[h] <= 1
  /\ pc = "done" => held = NoHandles
=============================================================================
