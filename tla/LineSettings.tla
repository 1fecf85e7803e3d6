---------------------------- MODULE LineSettings ----------------------------
(***************************************************************************)
(* How a backend turns a SerialConfig into the settings of the line, on    *)
(* Linux, macOS, the BSDs and Windows.  The device is found the way other  *)
(* programs left it, so every builder must own its bits: a flag that is    *)
(* neither cleared nor set survives into the new configuration.  open,     *)
(* configure and close run without an await; a call is one step, except    *)
(* that macOS sets a custom baud rate with a second ioctl, which is a step *)
(* of its own because it may fail after the first has taken effect.        *)
(*                                                                         *)
(* A termios or DCB flag word is the set of the names of its bits.  The    *)
(* low-latency and RS-485 calls of Linux are modelled in LinuxBackend.     *)
(***************************************************************************)
EXTENDS Naturals

CONSTANTS
  Systems,       \* operating systems of this instance
  StandardRates, \* rates with a termios.Bxxxx constant
  CustomRates,   \* other rates
  Requests,      \* configs a caller may ask for
  Leftovers,     \* termios settings other programs may have left behind
  DcbLeftovers,  \* the same for the DCB of Windows
  MayFail        \* system calls the driver may refuse in this instance

IFlags == {"IGNBRK", "BRKINT", "PARMRK", "ISTRIP", "INLCR", "IGNCR", "ICRNL",
           "IXON", "IXOFF", "IXANY", "INPCK"}
OFlags == {"OPOST", "ONLCR"}
LFlags == {"ECHO", "ECHONL", "ICANON", "ISIG", "IEXTEN", "TOSTOP"}
CFlags == {"PARENB", "PARODD", "CMSPAR", "CSTOPB", "CREAD", "CLOCAL", "HUPCL",
           "CRTSCTS", "CCTS_OFLOW", "CRTS_IFLOW"}

ByteSizes == 5..8
Parities  == {"none", "odd", "even", "mark", "space"}
StopBits  == {"1", "1.5", "2"}
FlowModes == {"xon_xoff", "rts_cts", "dtr_dsr"}
Extras    == {"low_latency", "rs485"}
Policies  == {"RAISE", "WARN", "IGNORE"}
Features  == Extras \cup FlowModes \cup
             {"custom_baudrate", "mark_space_parity", "one_point_five_stop_bits"}
Rates     == StandardRates \cup CustomRates

BOTHER == 0             \* the CBAUD slot says: read c_ospeed
PlaceholderSpeed == 9600
DefaultBaudrate == 115200

\* struct termios (termios2 on Linux).  slot is the CBAUD field of c_cflag
\* and means something on Linux only; elsewhere the rate is in ospeed.
Attrs == [iflag : SUBSET IFlags, oflag : SUBSET OFlags, lflag : SUBSET LFlags,
          cflag : SUBSET CFlags, csize : ByteSizes, slot : Rates \cup {BOTHER},
          ospeed : Rates, vmin : 0..1, vtime : 0..1]

DcbFlags == {"fBinary", "fAbortOnError", "fNull", "fErrorChar",
             "fDsrSensitivity", "fTXContinueOnXoff", "fParity", "fOutX",
             "fInX", "fOutxCtsFlow", "fOutxDsrFlow"}
LineControls == {"DISABLE", "ENABLE", "HANDSHAKE"}
Dcb == [BaudRate : Rates, ByteSize : ByteSizes, Parity : Parities,
        StopBits : StopBits, flags : SUBSET DcbFlags, xonLimits : BOOLEAN,
        fRtsControl : LineControls, fDtrControl : LineControls]

\* SerialConfig as __post_init__ lets it through: the rate is positive.
Config == [baudrate : Rates, byte_size : ByteSizes, parity : Parities,
           stop_bits : StopBits, flow_control : SUBSET FlowModes,
           hangup_on_close : BOOLEAN, extras : SUBSET Extras,
           policy : Policies]

ASSUME RatesAssumption ==
  /\ StandardRates \cap CustomRates = {}
  /\ Rates \subseteq Nat \ {0}
  /\ {PlaceholderSpeed, DefaultBaudrate} \subseteq StandardRates
ASSUME LeftoversAssumption ==
  /\ Leftovers \subseteq Attrs /\ Leftovers # {}
  /\ DcbLeftovers \subseteq Dcb /\ DcbLeftovers # {}
ASSUME RequestsAssumption == Requests \subseteq Config
ASSUME SystemsAssumption ==
  /\ Systems \subseteq {"linux", "darwin", "bsd", "win32"}
  /\ MayFail \subseteq {"open", "tcsetattr", "IOSSIOSPEED", "SetCommState"}

VARIABLES
  build,   \* the system, and what its termios module defines
  attrs,   \* termios settings the kernel holds
  rate,    \* rate the hardware runs at
  dcb,     \* the DCB the Windows driver holds
  pc,      \* "closed", "open", or "IOSSIOSPEED" inside a call
  opening, \* the call in progress is open(), not configure()
  config,  \* SerialPort._config; the default while no port is open
  pending, \* config of the call in progress
  result,  \* how the last call ended
  blamed,  \* features the last call asked for, if a feature was refused
  warned,  \* features the call that configured the port warned about
  half     \* IOSSIOSPEED was refused since the last success (history)

line == <<attrs, rate, dcb>>
vars == <<build, line, pc, opening, config, pending, result, blamed,
          warned, half>>

\* _CMSPAR and _RTS_CTS_MASK of termios_apply.py as each system has them.
Builds ==
  {b \in [os : Systems, cmspar : BOOLEAN,
          rtscts : {{"CRTSCTS"}, {"CCTS_OFLOW", "CRTS_IFLOW"}}] :
     /\ b.os \in {"linux", "win32"} => b.cmspar /\ b.rtscts = {"CRTSCTS"}
     /\ b.os = "darwin" => ~b.cmspar /\ b.rtscts # {"CRTSCTS"}}

-----------------------------------------------------------------------------
(* The builders of termios_apply.py. *)

Put(flags, bits, on) == IF on THEN flags \cup bits ELSE flags \ bits

RawIflags == {"IGNBRK", "BRKINT", "PARMRK", "ISTRIP", "INLCR", "IGNCR",
              "ICRNL", "IXON"}
RawLflags == {"ECHO", "ECHONL", "ICANON", "ISIG", "IEXTEN"}

apply_raw_mode(a) ==
  [a EXCEPT !.iflag = @ \ RawIflags, !.oflag = @ \ {"OPOST"},
            !.lflag = @ \ RawLflags,
            !.cflag = (@ \ {"PARENB"}) \cup {"CREAD", "CLOCAL"},
            !.csize = 8, !.vmin = 1, !.vtime = 0]

apply_byte_size(a, n) == [a EXCEPT !.csize = n]

ParityBits(p) == (IF p # "none" THEN {"PARENB"} ELSE {}) \cup
                 (IF p \in {"odd", "mark"} THEN {"PARODD"} ELSE {}) \cup
                 (IF p \in {"mark", "space"} THEN {"CMSPAR"} ELSE {})
\* The CMSPAR bit of the previous configuration is not cleared.
BadParity(a, p) ==
  [a EXCEPT !.cflag = (@ \ {"PARENB", "PARODD"}) \cup ParityBits(p)]
apply_parity(a, p) ==
  [a EXCEPT !.cflag = (@ \ {"PARENB", "PARODD", "CMSPAR"}) \cup ParityBits(p)]

apply_stop_bits(a, n) == [a EXCEPT !.cflag = Put(@, {"CSTOPB"}, n = "2")]

apply_flow_control(a, flow) ==
  [a EXCEPT
     !.iflag = (@ \ {"IXON", "IXOFF", "IXANY"}) \cup
               (IF "xon_xoff" \in flow THEN {"IXON", "IXOFF"} ELSE {}),
     !.cflag = Put(@, build.rtscts, "rts_cts" \in flow)]

apply_hangup(a, on) == [a EXCEPT !.cflag = Put(@, {"HUPCL"}, on)]

Apply(a, c) ==
  apply_hangup(
    apply_flow_control(
      apply_stop_bits(
        apply_parity(apply_byte_size(apply_raw_mode(a), c.byte_size), c.parity),
        c.stop_bits),
      c.flow_control),
    c.hangup_on_close)

\* 1.5 stop bits, DTR/DSR, and MARK or SPACE without CMSPAR: a builder raises
\* UnsupportedFeatureError, whatever the policy says.
BadBuilderRaises(c) == c.stop_bits = "1.5" \/ "dtr_dsr" \in c.flow_control
BuilderRaises(c) ==
  \/ c.parity \in {"mark", "space"} /\ ~build.cmspar
  \/ c.stop_bits = "1.5"
  \/ "rts_cts" \in c.flow_control /\ build.rtscts = {}
  \/ "dtr_dsr" \in c.flow_control

-----------------------------------------------------------------------------
(* The DCB builder of Windows. *)

apply_config(d, c) ==
  LET on(f) == f \in c.flow_control
  IN [d EXCEPT
        !.BaudRate = c.baudrate, !.ByteSize = c.byte_size,
        !.Parity = c.parity, !.StopBits = c.stop_bits,
        !.flags = {"fBinary"} \cup
                  (IF c.parity # "none" THEN {"fParity"} ELSE {}) \cup
                  (IF on("xon_xoff") THEN {"fOutX", "fInX"} ELSE {}) \cup
                  (IF on("rts_cts") THEN {"fOutxCtsFlow"} ELSE {}) \cup
                  (IF on("dtr_dsr") THEN {"fOutxDsrFlow"} ELSE {}),
        !.xonLimits = @ \/ on("xon_xoff"),
        !.fRtsControl = IF on("rts_cts") THEN "HANDSHAKE" ELSE "ENABLE",
        !.fDtrControl = IF on("dtr_dsr") THEN "HANDSHAKE" ELSE "ENABLE"]

read_dcb(d) ==
  [baudrate |-> d.BaudRate, byte_size |-> d.ByteSize, parity |-> d.Parity,
   stop_bits |-> d.StopBits,
   flow_control |->
     {f \in FlowModes :
        \/ f = "xon_xoff" /\ {"fOutX", "fInX"} \subseteq d.flags
        \/ f = "rts_cts" /\ "fOutxCtsFlow" \in d.flags
                         /\ d.fRtsControl = "HANDSHAKE"
        \/ f = "dtr_dsr" /\ "fOutxDsrFlow" \in d.flags
                         /\ d.fDtrControl = "HANDSHAKE"},
   f_binary |-> "fBinary" \in d.flags,
   f_abort_on_error |-> "fAbortOnError" \in d.flags,
   f_parity |-> "fParity" \in d.flags]

-----------------------------------------------------------------------------
(* What a backend says it can do, and what a config asks for. *)

Snapshot(unsupported, unknown) ==
  [f \in Features |-> IF f \in unsupported THEN "UNSUPPORTED"
                      ELSE IF f \in unknown THEN "UNKNOWN" ELSE "SUPPORTED"]

linux_capabilities == Snapshot({"one_point_five_stop_bits", "dtr_dsr"}, {})
darwin_capabilities ==
  Snapshot({"mark_space_parity", "one_point_five_stop_bits", "dtr_dsr",
            "low_latency", "rs485"}, {})
bsd_capabilities ==
  Snapshot({"one_point_five_stop_bits", "dtr_dsr", "low_latency", "rs485"},
           {"mark_space_parity"})
windows_capabilities == Snapshot({"low_latency", "rs485"}, {})

capabilities ==
  CASE build.os = "linux"  -> linux_capabilities
    [] build.os = "darwin" -> darwin_capabilities
    [] build.os = "bsd"    -> bsd_capabilities
    [] build.os = "win32"  -> windows_capabilities

Asked(c) ==
  c.extras \cup c.flow_control \cup
  (IF c.baudrate \in CustomRates THEN {"custom_baudrate"} ELSE {}) \cup
  (IF c.parity \in {"mark", "space"} THEN {"mark_space_parity"} ELSE {}) \cup
  (IF c.stop_bits = "1.5" THEN {"one_point_five_stop_bits"} ELSE {})

-----------------------------------------------------------------------------
(* One call. *)

\* The defaults of SerialConfig.
DefaultConfig ==
  [baudrate |-> DefaultBaudrate, byte_size |-> 8, parity |-> "none",
   stop_bits |-> "1", flow_control |-> {}, hangup_on_close |-> TRUE,
   extras |-> {}, policy |-> "RAISE"]

\* What the hardware runs at once the kernel has settings a.
DriverRate(a) == IF build.os = "linux" /\ a.slot # BOTHER THEN a.slot ELSE a.ospeed

Init ==
  /\ build \in Builds
  /\ \E a \in Leftovers :
       attrs = [a EXCEPT !.cflag = IF build.cmspar THEN @ ELSE @ \ {"CMSPAR"}]
  /\ build.os = "win32" => attrs = CHOOSE a \in Leftovers : TRUE  \* unused
  /\ dcb \in DcbLeftovers
  /\ build.os # "win32" => dcb = CHOOSE d \in DcbLeftovers : TRUE  \* unused
  /\ rate = IF build.os = "win32" THEN dcb.BaudRate ELSE DriverRate(attrs)
  /\ pc = "closed" /\ opening = FALSE
  /\ config = DefaultConfig /\ pending = DefaultConfig
  /\ result = "none" /\ blamed = {} /\ warned = {} /\ half = FALSE

KeepLine == UNCHANGED line

\* _reject_darwin_unsupported and _reject_bsd_unsupported: RAISE raises before
\* the device is touched, under WARN every feature is warned about.
Rejects == build.os \in {"darwin", "bsd"}
Rejected(c) == Rejects /\ c.policy = "RAISE" /\ c.extras # {}
\* The method returns after its first warning.
BadWarnings(c) ==
  IF Rejects /\ c.policy = "WARN" /\ c.extras # {}
  THEN {CHOOSE f \in c.extras : TRUE} ELSE {}
Warnings(c) == IF Rejects /\ c.policy = "WARN" THEN c.extras ELSE {}

\* The call returns; the port takes over the config.
Succeed(c) ==
  /\ pc' = "open" /\ config' = c /\ result' = "ok" /\ blamed' = {}
  /\ warned' = Warnings(c) /\ half' = FALSE
  /\ opening' = FALSE /\ pending' = DefaultConfig

\* The call raises: an open closes the descriptor, a configure leaves the port
\* open under its old config.
Fail(c, first, r) ==
  /\ pc' = (IF first THEN "closed" ELSE "open")
  /\ result' = r /\ half' = (half \/ pc = "IOSSIOSPEED")
  /\ blamed' = (IF r = "UnsupportedFeature" THEN Asked(c) ELSE {})
  /\ opening' = FALSE /\ pending' = DefaultConfig
  /\ UNCHANGED <<config, warned>>

\* PosixBackend._apply_config_to_fd: one tcsetattr.  On Linux the C library
\* puts the speed constant into the CBAUD slot.
tcsetattr(c, speed) ==
  /\ attrs' = [Apply(attrs, c) EXCEPT !.ospeed = speed,
                 !.slot = IF build.os = "linux" THEN speed ELSE @]
  /\ rate' = DriverRate(attrs')
  /\ UNCHANGED dcb

\* LinuxBackend._apply_custom_baud_config: TCGETS2, the builders, BOTHER in
\* the CBAUD slot, TCSETS2.
write_termios2(c) ==
  /\ attrs' = [Apply(attrs, c) EXCEPT !.ospeed = c.baudrate, !.slot = BOTHER]
  /\ rate' = DriverRate(attrs')
  /\ UNCHANGED dcb

is_standard_baud(r) == r \in StandardRates

\* _apply_config_to_fd with a standard rate, the same for all POSIX backends.
ApplyStandard(c) == tcsetattr(c, c.baudrate) /\ Succeed(c)

\* _apply_custom_baud_config of the three backends.
ApplyLinuxCustom(c) == build.os = "linux" /\ write_termios2(c) /\ Succeed(c)

ApplyBsdCustom(c) == build.os = "bsd" /\ tcsetattr(c, c.baudrate) /\ Succeed(c)

ApplyDarwinCustom(c, first) ==
  /\ build.os = "darwin" /\ tcsetattr(c, PlaceholderSpeed)
  /\ pc' = "IOSSIOSPEED" /\ opening' = first /\ pending' = c
  /\ UNCHANGED <<config, result, blamed, warned, half>>

ApplyPosix(c, first) ==
  \/ BuilderRaises(c) /\ Fail(c, first, "UnsupportedFeature") /\ KeepLine
  \/ /\ ~BuilderRaises(c)
     /\ \/ "tcsetattr" \in MayFail /\ Fail(c, first, "driver") /\ KeepLine
        \/ is_standard_baud(c.baudrate) /\ ApplyStandard(c)
        \/ /\ ~is_standard_baud(c.baudrate)
           /\ \/ ApplyLinuxCustom(c) \/ ApplyBsdCustom(c)
              \/ ApplyDarwinCustom(c, first)

\* set_iossiospeed: the hardware takes the rate, the termios struct keeps the
\* placeholder.  Nothing is undone when it fails.
set_iossiospeed ==
  /\ pc = "IOSSIOSPEED"
  /\ \/ rate' = pending.baudrate /\ Succeed(pending) /\ UNCHANGED <<attrs, dcb>>
     \/ "IOSSIOSPEED" \in MayFail /\ Fail(pending, opening, "driver") /\ KeepLine
  /\ UNCHANGED build

\* WindowsBackend._apply_dcb: GetCommState, apply_config, SetCommState.
ApplyDcb(c, first) ==
  \/ "SetCommState" \in MayFail /\ Fail(c, first, "driver") /\ KeepLine
  \/ /\ dcb' = apply_config(dcb, c) /\ rate' = dcb'.BaudRate
     /\ Succeed(c) /\ UNCHANGED attrs

Call(c, first) ==
  /\ \/ Rejected(c) /\ Fail(c, first, "UnsupportedFeature") /\ KeepLine
     \/ ~Rejected(c) /\ build.os # "win32" /\ ApplyPosix(c, first)
     \/ build.os = "win32" /\ ApplyDcb(c, first)
  /\ UNCHANGED build

\* os.open and flock, or CreateFileW, come between the rejection and the rest.
open(c) ==
  /\ pc = "closed"
  /\ \/ Call(c, TRUE)
     \/ ~Rejected(c) /\ "open" \in MayFail /\ Fail(c, TRUE, "driver")
        /\ KeepLine /\ UNCHANGED build

configure(c) == pc = "open" /\ Call(c, FALSE)

\* close leaves the line as it is; the next open makes a port of its own.
close ==
  /\ pc = "open" /\ pc' = "closed" /\ result' = "none" /\ blamed' = {}
  /\ config' = DefaultConfig /\ warned' = {}
  /\ KeepLine /\ UNCHANGED <<build, opening, pending, half>>

Next == close \/ set_iossiospeed \/ \E c \in Requests : open(c) \/ configure(c)

Spec == Init /\ [][Next]_vars

-----------------------------------------------------------------------------
(* Correctness. *)

\* How a UART driver reads the parity bits.
ParityOf(cflag) ==
  CASE "PARENB" \notin cflag -> "none"
    [] {"PARENB", "CMSPAR"} \subseteq cflag ->
         IF "PARODD" \in cflag THEN "mark" ELSE "space"
    [] OTHER -> IF "PARODD" \in cflag THEN "odd" ELSE "even"

Raw(a) ==
  /\ a.iflag \cap {"IGNBRK", "BRKINT", "PARMRK", "ISTRIP", "INLCR", "IGNCR",
                   "ICRNL"} = {}
  /\ "OPOST" \notin a.oflag
  /\ a.lflag \cap {"ECHO", "ECHONL", "ICANON", "ISIG", "IEXTEN"} = {}
  /\ {"CREAD", "CLOCAL"} \subseteq a.cflag
  /\ a.vmin = 1 /\ a.vtime = 0

TermiosIs(c) ==
  /\ attrs.csize = c.byte_size
  /\ ParityOf(attrs.cflag) = c.parity
  /\ ("CSTOPB" \in attrs.cflag) = (c.stop_bits = "2")
  /\ ("IXON" \in attrs.iflag) = ("xon_xoff" \in c.flow_control)
  /\ ("IXOFF" \in attrs.iflag) = ("xon_xoff" \in c.flow_control)
  /\ "IXANY" \notin attrs.iflag
  /\ \A f \in build.rtscts :
       (f \in attrs.cflag) = ("rts_cts" \in c.flow_control)
  /\ ("HUPCL" \in attrs.cflag) = c.hangup_on_close

DcbIs(c) ==
  /\ "xon_xoff" \in c.flow_control => dcb.xonLimits
  /\ read_dcb(dcb) =
       [baudrate |-> c.baudrate, byte_size |-> c.byte_size,
        parity |-> c.parity, stop_bits |-> c.stop_bits,
        flow_control |-> c.flow_control, f_binary |-> TRUE,
        f_abort_on_error |-> FALSE, f_parity |-> c.parity # "none"]

\* While the port is open the line is raw and runs exactly what port.config
\* says, whatever the device was set to before and whatever calls failed.
\* The one exception: on macOS a refused IOSSIOSPEED leaves the framing of the
\* refused config, at the placeholder rate.
LineMatchesConfig ==
  pc = "open" =>
    CASE build.os = "win32" -> DcbIs(config) /\ rate = config.baudrate
      [] half -> Raw(attrs) /\ build.os = "darwin" /\ rate = PlaceholderSpeed
      [] OTHER -> Raw(attrs) /\ TermiosIs(config) /\ rate = config.baudrate

\* A feature of port.config that the platform lacks is never dropped without a
\* word: the policy is not RAISE, and WARN has warned about each one.
\* (Windows drops low_latency and rs485 silently.)
DropsAnnounced ==
  pc = "open" /\ Rejects =>
    \A f \in config.extras :
      config.policy = "IGNORE" \/ (config.policy = "WARN" /\ f \in warned)

\* port.capabilities and the code agree: only a config that asks for something
\* not SUPPORTED is refused as a feature, and nothing UNSUPPORTED is accepted
\* but an extra the policy lets pass.
CapabilitiesHonest ==
  /\ result = "UnsupportedFeature" => \E f \in blamed : capabilities[f] # "SUPPORTED"
  /\ pc = "open" =>
       \A f \in Asked(config) :
         capabilities[f] = "UNSUPPORTED" =>
           f \in Extras /\ (config.policy # "RAISE" \/ build.os = "win32")
=============================================================================
