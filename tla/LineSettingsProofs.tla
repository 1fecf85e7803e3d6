-------------------------- MODULE LineSettingsProofs --------------------------
(***************************************************************************)
(* Whatever other programs left on the line and whatever calls failed, the *)
(* line runs what the port's config says, on every system, and the backend *)
(* promises and drops no more features than its code does.                 *)
(***************************************************************************)
EXTENDS LineSettings, TLAPS

Typed ==
  /\ build \in Builds
  /\ attrs \in Attrs /\ dcb \in Dcb
  /\ config \in Config /\ pending \in Config
  /\ pc \in {"closed", "open", "IOSSIOSPEED"}
  /\ half \in BOOLEAN /\ opening \in BOOLEAN

\* A config that got as far as the line: neither the rejection nor a builder
\* has raised.
Accepted(c) == ~Rejected(c) /\ (build.os # "win32" => ~BuilderRaises(c))

\* A feature the rejection lets pass is ignored or was warned about.
Announced ==
  Rejects => \A f \in config.extras :
    config.policy = "IGNORE" \/ (config.policy = "WARN" /\ f \in warned)

\* Also while a configure is between its two ioctls, the port has its config.
PortExists == pc = "open" \/ (pc = "IOSSIOSPEED" /\ ~opening)

\* Between the two ioctls of macOS the line already has the framing of the
\* config in progress, at the placeholder rate.
HalfWay ==
  pc = "IOSSIOSPEED" =>
    /\ build.os = "darwin" /\ Accepted(pending)
    /\ Raw(attrs) /\ TermiosIs(pending) /\ rate = PlaceholderSpeed

\* A refused feature is one the platform does not promise.
Blamed == result = "UnsupportedFeature" => \E f \in blamed : capabilities[f] # "SUPPORTED"

IInv ==
  /\ Typed /\ HalfWay /\ Blamed
  /\ PortExists => Accepted(config) /\ Announced
  /\ LineMatchesConfig

-----------------------------------------------------------------------------
(* The builders of termios_apply.py *)

\* Settings a run exactly the config c: TermiosIs of the settings on the line.
Framed(a, c) ==
  /\ a.csize = c.byte_size
  /\ ParityOf(a.cflag) = c.parity
  /\ ("CSTOPB" \in a.cflag) = (c.stop_bits = "2")
  /\ ("IXON" \in a.iflag) = ("xon_xoff" \in c.flow_control)
  /\ ("IXOFF" \in a.iflag) = ("xon_xoff" \in c.flow_control)
  /\ "IXANY" \notin a.iflag
  /\ \A f \in build.rtscts : (f \in a.cflag) = ("rts_cts" \in c.flow_control)
  /\ ("HUPCL" \in a.cflag) = c.hangup_on_close

LEMMA TermiosIsFramed == \A c : TermiosIs(c) <=> Framed(attrs, c)
BY DEF TermiosIs, Framed

LEMMA PutFacts ==
  ASSUME NEW flags, NEW bits, NEW on \in BOOLEAN, NEW f
  PROVE  /\ f \in bits => ((f \in Put(flags, bits, on)) = on)
         /\ f \notin bits => ((f \in Put(flags, bits, on)) = (f \in flags))
BY DEF Put

\* A UART driver reads back the parity whose bits are on the line, and no
\* other; the builder owns the three bits.
LEMMA ParityReadsBack ==
  ASSUME NEW p \in Parities, NEW cflag,
         \A f \in {"PARENB", "PARODD", "CMSPAR"} : f \in cflag <=> f \in ParityBits(p)
  PROVE  ParityOf(cflag) = p
<1>1. /\ "PARENB" \in cflag <=> p # "none"
      /\ "PARODD" \in cflag <=> p \in {"odd", "mark"}
      /\ "CMSPAR" \in cflag <=> p \in {"mark", "space"}
  BY DEF ParityBits
<1>2. p \in {"none", "odd", "even", "mark", "space"}
  BY DEF Parities
<1>3. {"PARENB", "CMSPAR"} \subseteq cflag <=> "PARENB" \in cflag /\ "CMSPAR" \in cflag
  OBVIOUS
<1>4. CASE p = "none"
  BY <1>1, <1>4 DEF ParityOf
<1>5. CASE p \in {"mark", "space"}
  BY <1>1, <1>3, <1>5 DEF ParityOf
<1>6. CASE p \in {"odd", "even"}
  <2>1. "PARENB" \in cflag /\ ~({"PARENB", "CMSPAR"} \subseteq cflag)
    BY <1>1, <1>3, <1>6
  <2> QED
    BY <1>1, <1>6, <2>1 DEF ParityOf
<1> QED
  BY <1>2, <1>4, <1>5, <1>6

LEMMA BuildFacts ==
  ASSUME build \in Builds
  PROVE  /\ build.os \in {"linux", "darwin", "bsd", "win32"}
         /\ build.cmspar \in BOOLEAN
         /\ build.rtscts # {} /\ build.rtscts \subseteq {"CRTSCTS", "CCTS_OFLOW", "CRTS_IFLOW"}
         /\ build.os \in {"linux", "win32"} => build.cmspar
         /\ build.os = "darwin" => ~build.cmspar
BY SystemsAssumption DEF Builds

\* The flag words and fields after all builders have run.
LEMMA ApplyIs ==
  ASSUME build \in Builds, NEW a \in Attrs, NEW c \in Config
  PROVE  LET cf == (((a.cflag \ {"PARENB"}) \cup {"CREAD", "CLOCAL"})
                      \ {"PARENB", "PARODD", "CMSPAR"}) \cup ParityBits(c.parity)
         IN /\ Apply(a, c) \in Attrs
            /\ Apply(a, c).iflag =
                 ((a.iflag \ RawIflags) \ {"IXON", "IXOFF", "IXANY"}) \cup
                 (IF "xon_xoff" \in c.flow_control THEN {"IXON", "IXOFF"} ELSE {})
            /\ Apply(a, c).oflag = a.oflag \ {"OPOST"}
            /\ Apply(a, c).lflag = a.lflag \ RawLflags
            /\ Apply(a, c).cflag =
                 Put(Put(Put(cf, {"CSTOPB"}, c.stop_bits = "2"),
                         build.rtscts, "rts_cts" \in c.flow_control),
                     {"HUPCL"}, c.hangup_on_close)
            /\ Apply(a, c).csize = c.byte_size
            /\ Apply(a, c).vmin = 1 /\ Apply(a, c).vtime = 0
<1> DEFINE cf == (((a.cflag \ {"PARENB"}) \cup {"CREAD", "CLOCAL"})
                    \ {"PARENB", "PARODD", "CMSPAR"}) \cup ParityBits(c.parity)
<1>1. PICK b : b = apply_raw_mode(a)
  OBVIOUS
<1>2. /\ b \in Attrs
      /\ b.iflag = a.iflag \ RawIflags /\ b.oflag = a.oflag \ {"OPOST"}
      /\ b.lflag = a.lflag \ RawLflags
      /\ b.cflag = (a.cflag \ {"PARENB"}) \cup {"CREAD", "CLOCAL"}
      /\ b.vmin = 1 /\ b.vtime = 0
  <2>1. /\ (a.cflag \ {"PARENB"}) \cup {"CREAD", "CLOCAL"} \in SUBSET CFlags
        /\ 8 \in ByteSizes /\ 1 \in 0..1 /\ 0 \in 0..1
    BY DEF Attrs, CFlags, ByteSizes
  <2> QED
    BY <1>1, <2>1 DEF apply_raw_mode, Attrs
<1>3. PICK d : d = apply_parity(apply_byte_size(b, c.byte_size), c.parity)
  OBVIOUS
<1>4. /\ d \in Attrs /\ d.cflag = cf /\ d.csize = c.byte_size
      /\ d.iflag = b.iflag /\ d.oflag = b.oflag /\ d.lflag = b.lflag
      /\ d.vmin = b.vmin /\ d.vtime = b.vtime
  <2>1. cf \in SUBSET CFlags /\ c.byte_size \in ByteSizes
    BY DEF Attrs, CFlags, Config, ParityBits
  <2> HIDE DEF cf
  <2>2. d = [[b EXCEPT !.csize = c.byte_size] EXCEPT !.cflag = cf]
    BY <1>2, <1>3 DEF apply_parity, apply_byte_size, cf, Attrs
  <2> QED
    BY <1>2, <2>1, <2>2 DEF Attrs
<1> HIDE DEF cf
<1>5. PICK fl : fl = (d.iflag \ {"IXON", "IXOFF", "IXANY"}) \cup
                      (IF "xon_xoff" \in c.flow_control THEN {"IXON", "IXOFF"} ELSE {})
  OBVIOUS
<1>6. PICK cg, ch, ci : /\ cg = Put(cf, {"CSTOPB"}, c.stop_bits = "2")
                        /\ ch = Put(cg, build.rtscts, "rts_cts" \in c.flow_control)
                        /\ ci = Put(ch, {"HUPCL"}, c.hangup_on_close)
  OBVIOUS
<1>7. /\ fl \in SUBSET IFlags /\ cg \in SUBSET CFlags /\ ch \in SUBSET CFlags
      /\ ci \in SUBSET CFlags
  <2>1. build.rtscts \subseteq CFlags
    BY BuildFacts DEF CFlags
  <2>2. d.iflag \in SUBSET IFlags /\ cf \in SUBSET CFlags
    BY <1>4 DEF Attrs
  <2>3. fl \in SUBSET IFlags
    BY <1>5, <2>2 DEF IFlags
  <2>4. {"CSTOPB", "HUPCL"} \subseteq CFlags
    BY DEF CFlags
  <2> QED
    BY <1>6, <2>1, <2>2, <2>3, <2>4 DEF Put
<1>8. PICK e, f, g : /\ e = apply_stop_bits(d, c.stop_bits)
                     /\ f = apply_flow_control(e, c.flow_control)
                     /\ g = apply_hangup(f, c.hangup_on_close)
  OBVIOUS
<1>9. Apply(a, c) = g
  BY <1>1, <1>3, <1>8 DEF Apply
<1>10. e = [d EXCEPT !.cflag = cg] /\ e \in Attrs
  BY <1>4, <1>6, <1>7, <1>8 DEF apply_stop_bits, Attrs
<1>11. f = [e EXCEPT !.iflag = fl, !.cflag = ch] /\ f \in Attrs
  <2>1. e.cflag = cg /\ e.iflag = d.iflag
    BY <1>4, <1>10 DEF Attrs
  <2> QED
    BY <1>5, <1>6, <1>7, <1>8, <1>10, <2>1 DEF apply_flow_control, Attrs
<1>12. g = [f EXCEPT !.cflag = ci] /\ g \in Attrs
  <2>1. f.cflag = ch
    BY <1>10, <1>11 DEF Attrs
  <2> QED
    BY <1>6, <1>7, <1>8, <1>11, <2>1 DEF apply_hangup, Attrs
<1>13. /\ g.iflag = fl /\ g.cflag = ci /\ g.oflag = d.oflag /\ g.lflag = d.lflag
       /\ g.csize = d.csize /\ g.vmin = d.vmin /\ g.vtime = d.vtime
  <2>1. d \in Attrs
    BY <1>4
  <2> QED
    BY <1>10, <1>11, <1>12, <2>1 DEF Attrs
<1> QED
  BY <1>2, <1>4, <1>5, <1>6, <1>9, <1>12, <1>13 DEF cf

\* The struct that goes to the kernel: all builders, and the speed.
Written(b, a, c, s, t) == b = [Apply(a, c) EXCEPT !.ospeed = s, !.slot = t]

\* After the builders the settings are raw and are those of the config,
\* whatever flags were set or clear before.
LEMMA ApplyFrames ==
  ASSUME build \in Builds, NEW a \in Attrs, NEW c \in Config, c.stop_bits # "1.5",
         NEW s \in Rates, NEW t \in Rates \cup {BOTHER},
         NEW b, Written(b, a, c, s, t)
  PROVE  b \in Attrs /\ Raw(b) /\ Framed(b, c) /\ b.ospeed = s /\ b.slot = t
<1>1. PICK g \in Attrs : g = Apply(a, c)
  BY ApplyIs
<1>2. /\ b \in Attrs /\ b.ospeed = s /\ b.slot = t
      /\ b.iflag = g.iflag /\ b.oflag = g.oflag /\ b.lflag = g.lflag /\ b.cflag = g.cflag
      /\ b.csize = g.csize /\ b.vmin = g.vmin /\ b.vtime = g.vtime
  BY <1>1 DEF Attrs, Written
<1>3. PICK cf : cf = (((a.cflag \ {"PARENB"}) \cup {"CREAD", "CLOCAL"})
                       \ {"PARENB", "PARODD", "CMSPAR"}) \cup ParityBits(c.parity)
  OBVIOUS
<1>4. PICK cg, ch : /\ cg = Put(cf, {"CSTOPB"}, c.stop_bits = "2")
                    /\ ch = Put(cg, build.rtscts, "rts_cts" \in c.flow_control)
  OBVIOUS
<1>5. /\ b.iflag = ((a.iflag \ RawIflags) \ {"IXON", "IXOFF", "IXANY"}) \cup
                   (IF "xon_xoff" \in c.flow_control THEN {"IXON", "IXOFF"} ELSE {})
      /\ b.oflag = a.oflag \ {"OPOST"} /\ b.lflag = a.lflag \ RawLflags
      /\ b.cflag = Put(ch, {"HUPCL"}, c.hangup_on_close)
      /\ b.csize = c.byte_size /\ b.vmin = 1 /\ b.vtime = 0
  BY <1>1, <1>2, <1>3, <1>4, ApplyIs
<1>6. c.hangup_on_close \in BOOLEAN /\ c.parity \in Parities
  BY DEF Config
<1>7. ASSUME NEW f, f \notin {"CSTOPB", "HUPCL"} \cup build.rtscts
      PROVE  f \in b.cflag <=> f \in cf
  <2>1. f \in cg <=> f \in cf
    BY <1>4, <1>7 DEF Put
  <2>2. f \in ch <=> f \in cg
    BY <1>4, <1>7 DEF Put
  <2> QED
    BY <1>5, <1>7, <2>1, <2>2 DEF Put
<1>8. \A f \in {"PARENB", "PARODD", "CMSPAR", "CREAD", "CLOCAL"} :
         f \notin {"CSTOPB", "HUPCL"} \cup build.rtscts
  BY BuildFacts
<1>9. ParityOf(b.cflag) = c.parity
  <2>1. \A f \in {"PARENB", "PARODD", "CMSPAR"} : f \in b.cflag <=> f \in ParityBits(c.parity)
    BY <1>3, <1>7, <1>8
  <2> QED
    BY <1>6, <2>1, ParityReadsBack
<1>10. {"CREAD", "CLOCAL"} \subseteq b.cflag
  <2>1. "CREAD" \in cf /\ "CLOCAL" \in cf
    BY <1>3
  <2> QED
    BY <1>7, <1>8, <2>1
<1>11. Raw(b)
  BY <1>5, <1>10 DEF Raw, RawIflags, RawLflags
<1>12. ("HUPCL" \in b.cflag) = c.hangup_on_close
  BY <1>5, <1>6 DEF Put
<1>13. "CSTOPB" \notin build.rtscts /\ "HUPCL" \notin build.rtscts
  BY BuildFacts
<1>14. ("CSTOPB" \in b.cflag) = (c.stop_bits = "2")
  <2>1. ("CSTOPB" \in cg) = (c.stop_bits = "2")
    BY <1>4 DEF Put
  <2>2. ("CSTOPB" \in ch) = ("CSTOPB" \in cg)
    BY <1>4, <1>13 DEF Put
  <2>3. ("CSTOPB" \in b.cflag) = ("CSTOPB" \in ch)
    BY <1>5 DEF Put
  <2> QED
    BY <2>1, <2>2, <2>3
<1>15. ASSUME NEW f \in build.rtscts
       PROVE  (f \in b.cflag) = ("rts_cts" \in c.flow_control)
  <2>1. (f \in ch) = ("rts_cts" \in c.flow_control)
    BY <1>4 DEF Put
  <2>2. (f \in b.cflag) = (f \in ch)
    BY <1>5, <1>13 DEF Put
  <2> QED
    BY <2>1, <2>2
<1>16. /\ ("IXON" \in b.iflag) = ("xon_xoff" \in c.flow_control)
       /\ ("IXOFF" \in b.iflag) = ("xon_xoff" \in c.flow_control)
       /\ "IXANY" \notin b.iflag
  BY <1>5 DEF RawIflags
<1>17. Framed(b, c)
  BY <1>5, <1>9, <1>12, <1>14, <1>15, <1>16 DEF Framed
<1> QED
  BY <1>2, <1>11, <1>17

\* apply_config of the DCB builder, read back by read_dcb.
LEMMA DcbReadsBack ==
  ASSUME NEW d \in Dcb, NEW c \in Config, NEW b, b = apply_config(d, c)
  PROVE  /\ b \in Dcb /\ b.BaudRate = c.baudrate
         /\ "xon_xoff" \in c.flow_control => b.xonLimits
         /\ read_dcb(b) =
              [baudrate |-> c.baudrate, byte_size |-> c.byte_size,
               parity |-> c.parity, stop_bits |-> c.stop_bits,
               flow_control |-> c.flow_control, f_binary |-> TRUE,
               f_abort_on_error |-> FALSE, f_parity |-> c.parity # "none"]
<1>1. PICK fl, r, t, x :
        /\ fl = {"fBinary"} \cup
                (IF c.parity # "none" THEN {"fParity"} ELSE {}) \cup
                (IF "xon_xoff" \in c.flow_control THEN {"fOutX", "fInX"} ELSE {}) \cup
                (IF "rts_cts" \in c.flow_control THEN {"fOutxCtsFlow"} ELSE {}) \cup
                (IF "dtr_dsr" \in c.flow_control THEN {"fOutxDsrFlow"} ELSE {})
        /\ r = IF "rts_cts" \in c.flow_control THEN "HANDSHAKE" ELSE "ENABLE"
        /\ t = IF "dtr_dsr" \in c.flow_control THEN "HANDSHAKE" ELSE "ENABLE"
        /\ x = (d.xonLimits \/ "xon_xoff" \in c.flow_control)
  OBVIOUS
<1>2. b = [d EXCEPT !.BaudRate = c.baudrate, !.ByteSize = c.byte_size,
             !.Parity = c.parity, !.StopBits = c.stop_bits, !.flags = fl,
             !.xonLimits = x, !.fRtsControl = r, !.fDtrControl = t]
  BY <1>1 DEF apply_config, Dcb
<1>3. /\ c.baudrate \in Rates /\ c.byte_size \in ByteSizes /\ c.parity \in Parities
      /\ c.stop_bits \in StopBits /\ c.flow_control \subseteq FlowModes
  BY DEF Config
<1>4. /\ fl \in SUBSET DcbFlags /\ r \in LineControls /\ t \in LineControls
      /\ x \in BOOLEAN
  <2>1. fl \in SUBSET DcbFlags
    BY <1>1 DEF DcbFlags
  <2>2. d.xonLimits \in BOOLEAN
    BY DEF Dcb
  <2> QED
    BY <1>1, <2>1, <2>2 DEF LineControls
<1>5. /\ b \in Dcb /\ b.BaudRate = c.baudrate /\ b.ByteSize = c.byte_size
      /\ b.Parity = c.parity /\ b.StopBits = c.stop_bits /\ b.flags = fl
      /\ b.xonLimits = x /\ b.fRtsControl = r /\ b.fDtrControl = t
  BY <1>2, <1>3, <1>4 DEF Dcb
<1>6. {f \in FlowModes :
         \/ f = "xon_xoff" /\ {"fOutX", "fInX"} \subseteq fl
         \/ f = "rts_cts" /\ "fOutxCtsFlow" \in fl /\ r = "HANDSHAKE"
         \/ f = "dtr_dsr" /\ "fOutxDsrFlow" \in fl /\ t = "HANDSHAKE"} = c.flow_control
  <2>1. /\ {"fOutX", "fInX"} \subseteq fl <=> "xon_xoff" \in c.flow_control
        /\ "fOutxCtsFlow" \in fl <=> "rts_cts" \in c.flow_control
        /\ "fOutxDsrFlow" \in fl <=> "dtr_dsr" \in c.flow_control
    BY <1>1
  <2>2. /\ r = "HANDSHAKE" <=> "rts_cts" \in c.flow_control
        /\ t = "HANDSHAKE" <=> "dtr_dsr" \in c.flow_control
    BY <1>1
  <2> QED
    BY <1>3, <2>1, <2>2 DEF FlowModes
<1>7. /\ ("fBinary" \in fl) = TRUE /\ ("fAbortOnError" \in fl) = FALSE
      /\ ("fParity" \in fl) = (c.parity # "none")
  BY <1>1
<1>8. read_dcb(b) =
        [baudrate |-> c.baudrate, byte_size |-> c.byte_size,
         parity |-> c.parity, stop_bits |-> c.stop_bits,
         flow_control |-> c.flow_control, f_binary |-> TRUE,
         f_abort_on_error |-> FALSE, f_parity |-> c.parity # "none"]
  BY <1>5, <1>6, <1>7 DEF read_dcb
<1> QED
  BY <1>1, <1>5, <1>8

-----------------------------------------------------------------------------
(* The capabilities of a backend *)

LEMMA CapabilityFacts ==
  ASSUME build \in Builds
  PROVE  /\ build.os = "linux" => \A f \in Features :
              capabilities[f] = IF f \in {"one_point_five_stop_bits", "dtr_dsr"}
                                THEN "UNSUPPORTED" ELSE "SUPPORTED"
         /\ build.os = "darwin" => \A f \in Features :
              capabilities[f] = IF f \in {"mark_space_parity", "one_point_five_stop_bits",
                                          "dtr_dsr", "low_latency", "rs485"}
                                THEN "UNSUPPORTED" ELSE "SUPPORTED"
         /\ build.os = "bsd" => \A f \in Features :
              capabilities[f] = IF f \in {"one_point_five_stop_bits", "dtr_dsr",
                                          "low_latency", "rs485"}
                                THEN "UNSUPPORTED"
                                ELSE IF f = "mark_space_parity" THEN "UNKNOWN"
                                ELSE "SUPPORTED"
         /\ build.os = "win32" => \A f \in Features :
              capabilities[f] = IF f \in {"low_latency", "rs485"}
                                THEN "UNSUPPORTED" ELSE "SUPPORTED"
<1>1. build.os = "linux" => capabilities = linux_capabilities
  BY DEF capabilities
<1>2. build.os = "darwin" => capabilities = darwin_capabilities
  BY DEF capabilities
<1>3. build.os = "bsd" => capabilities = bsd_capabilities
  BY DEF capabilities
<1>4. build.os = "win32" => capabilities = windows_capabilities
  BY DEF capabilities
<1>5. ASSUME NEW u, NEW k, NEW f \in Features
      PROVE  Snapshot(u, k)[f] = IF f \in u THEN "UNSUPPORTED"
                                 ELSE IF f \in k THEN "UNKNOWN" ELSE "SUPPORTED"
  BY DEF Snapshot
<1>6. CASE build.os = "linux"
  BY <1>1, <1>5, <1>6 DEF linux_capabilities
<1>7. CASE build.os = "darwin"
  BY <1>2, <1>5, <1>7 DEF darwin_capabilities
<1>8. CASE build.os = "bsd"
  BY <1>3, <1>5, <1>8 DEF bsd_capabilities
<1>9. CASE build.os = "win32"
  BY <1>4, <1>5, <1>9 DEF windows_capabilities
<1> QED
  BY <1>6, <1>7, <1>8, <1>9, BuildFacts

LEMMA AskedFeatures ==
  ASSUME NEW c \in Config
  PROVE  /\ Asked(c) \subseteq Features
         /\ c.extras \subseteq Asked(c)
         /\ "dtr_dsr" \in Asked(c) <=> "dtr_dsr" \in c.flow_control
         /\ "one_point_five_stop_bits" \in Asked(c) <=> c.stop_bits = "1.5"
         /\ "mark_space_parity" \in Asked(c) <=> c.parity \in {"mark", "space"}
         /\ \A f \in Extras : f \in Asked(c) <=> f \in c.extras
<1>1. c.extras \subseteq Extras /\ c.flow_control \subseteq FlowModes
  BY DEF Config
<1> QED
  BY <1>1 DEF Asked, Features, Extras, FlowModes

\* A config is refused as a feature only for one that is not promised.
LEMMA RefusedHonest ==
  ASSUME build \in Builds, NEW c \in Config,
         Rejected(c) \/ (build.os # "win32" /\ BuilderRaises(c))
  PROVE  \E f \in Asked(c) : capabilities[f] # "SUPPORTED"
<1>1. CASE Rejected(c)
  <2>1. build.os \in {"darwin", "bsd"} /\ c.extras # {}
    BY <1>1 DEF Rejected, Rejects
  <2>2. PICK f \in c.extras : TRUE
    BY <2>1
  <2>3. f \in {"low_latency", "rs485"} /\ f \in Features /\ f \in Asked(c)
    BY <2>2, AskedFeatures DEF Config, Extras
  <2>4. capabilities[f] = "UNSUPPORTED"
    BY <2>1, <2>3, CapabilityFacts
  <2> QED
    BY <2>3, <2>4
<1>2. CASE build.os # "win32" /\ BuilderRaises(c)
  <2>1. build.os \in {"linux", "darwin", "bsd"} /\ build.rtscts # {}
    BY <1>2, BuildFacts
  <2>2. CASE c.stop_bits = "1.5"
    <3>1. "one_point_five_stop_bits" \in Asked(c) /\ "one_point_five_stop_bits" \in Features
      BY <2>2, AskedFeatures
    <3>2. capabilities["one_point_five_stop_bits"] = "UNSUPPORTED"
      BY <2>1, <3>1, CapabilityFacts
    <3> QED
      BY <3>1, <3>2
  <2>3. CASE "dtr_dsr" \in c.flow_control
    <3>1. "dtr_dsr" \in Asked(c) /\ "dtr_dsr" \in Features
      BY <2>3, AskedFeatures
    <3>2. capabilities["dtr_dsr"] = "UNSUPPORTED"
      BY <2>1, <3>1, CapabilityFacts
    <3> QED
      BY <3>1, <3>2
  <2>4. CASE c.parity \in {"mark", "space"} /\ ~build.cmspar
    <3>1. "mark_space_parity" \in Asked(c) /\ "mark_space_parity" \in Features
      BY <2>4, AskedFeatures
    <3>2. build.os \in {"darwin", "bsd"}
      BY <2>1, <2>4, BuildFacts
    <3>3. capabilities["mark_space_parity"] # "SUPPORTED"
      BY <3>1, <3>2, CapabilityFacts
    <3> QED
      BY <3>1, <3>3
  <2> QED
    BY <1>2, <2>1, <2>2, <2>3, <2>4 DEF BuilderRaises
<1> QED
  BY <1>1, <1>2

\* A config that is accepted asks for nothing unsupported but an extra that its
\* policy lets pass.
LEMMA AcceptedHonest ==
  ASSUME build \in Builds, NEW c \in Config, Accepted(c),
         NEW f \in Asked(c), capabilities[f] = "UNSUPPORTED"
  PROVE  f \in Extras /\ (c.policy # "RAISE" \/ build.os = "win32")
<1>1. f \in Features
  BY AskedFeatures
<1>2. CASE build.os = "win32"
  BY <1>1, <1>2, CapabilityFacts DEF Extras
<1>3. CASE build.os # "win32"
  <2>1. ~BuilderRaises(c) /\ ~Rejected(c)
    BY <1>3 DEF Accepted
  <2>2. f # "one_point_five_stop_bits" /\ f # "dtr_dsr"
    BY <2>1, AskedFeatures DEF BuilderRaises
  <2>3. build.os = "darwin" => f # "mark_space_parity"
    BY <2>1, AskedFeatures, BuildFacts DEF BuilderRaises
  <2>4. build.os \in {"darwin", "bsd"} /\ f \in {"low_latency", "rs485"}
    BY <1>1, <1>3, <2>2, <2>3, CapabilityFacts, BuildFacts
  <2>5. f \in c.extras
    BY <2>4, AskedFeatures DEF Extras
  <2>6. c.policy # "RAISE"
    BY <2>1, <2>4, <2>5 DEF Rejected, Rejects
  <2> QED
    BY <2>4, <2>6 DEF Extras
<1> QED
  BY <1>2, <1>3

-----------------------------------------------------------------------------
(* The inductive invariant *)

LEMMA RateFacts ==
  /\ \A r \in Rates : r # BOTHER
  /\ PlaceholderSpeed \in Rates /\ DefaultBaudrate \in Rates
  /\ StandardRates \subseteq Rates
BY RatesAssumption DEF Rates, BOTHER, PlaceholderSpeed, DefaultBaudrate

LEMMA DefaultConfigType == DefaultConfig \in Config
BY RateFacts DEF DefaultConfig, Config, ByteSizes, Parities, StopBits, FlowModes, Extras, Policies

LEMMA InitInv == Init => IInv
<1> SUFFICES ASSUME Init PROVE IInv
  OBVIOUS
<1>1. attrs \in Attrs
  <2>1. PICK a \in Leftovers :
          attrs = [a EXCEPT !.cflag = IF build.cmspar THEN @ ELSE @ \ {"CMSPAR"}]
    BY DEF Init
  <2>2. a \in Attrs
    BY LeftoversAssumption
  <2>3. PICK cf : cf = IF build.cmspar THEN a.cflag ELSE a.cflag \ {"CMSPAR"}
    OBVIOUS
  <2>4. cf \in SUBSET CFlags
    BY <2>2, <2>3 DEF Attrs
  <2> QED
    BY <2>1, <2>2, <2>3, <2>4 DEF Attrs
<1>2. dcb \in Dcb
  BY LeftoversAssumption DEF Init
<1>3. Typed
  BY <1>1, <1>2, DefaultConfigType DEF Init, Typed
<1>4. pc = "closed" /\ result = "none"
  BY DEF Init
<1> QED
  BY <1>3, <1>4 DEF IInv, HalfWay, Blamed, PortExists, LineMatchesConfig

LEMMA SameBuild ==
  ASSUME UNCHANGED build
  PROVE  /\ capabilities' = capabilities /\ Rejects' = Rejects
         /\ \A c : (Accepted(c)' <=> Accepted(c)) /\ (Rejected(c)' <=> Rejected(c))
BY DEF capabilities, Rejects, Accepted, Rejected, BuilderRaises

\* The calls that begin in this state: an open of a closed port, a configure of
\* an open one, and the rest of either.
Begins(c, first) ==
  \/ pc = "closed" /\ first = TRUE
  \/ pc = "open" /\ first = FALSE
  \/ pc = "IOSSIOSPEED" /\ c = pending /\ first = opening

LEMMA FailInv ==
  ASSUME IInv, NEW c \in Config, NEW first, NEW r, Begins(c, first), Fail(c, first, r),
         UNCHANGED <<build, attrs, rate, dcb>>,
         r = "UnsupportedFeature" =>
           Rejected(c) \/ (build.os # "win32" /\ BuilderRaises(c))
  PROVE  IInv'
<1>1. /\ pc' = IF first THEN "closed" ELSE "open"
      /\ result' = r /\ half' = (half \/ pc = "IOSSIOSPEED")
      /\ blamed' = IF r = "UnsupportedFeature" THEN Asked(c) ELSE {}
      /\ opening' = FALSE /\ pending' = DefaultConfig
      /\ UNCHANGED <<config, warned>>
  BY DEF Fail
<1>2. Typed
  BY DEF IInv
<1>3. first \in BOOLEAN
  BY <1>2 DEF Begins, Typed
<1>4. Typed'
  <2>1. half' \in BOOLEAN
    BY <1>1, <1>2 DEF Typed
  <2> QED
    BY <1>1, <1>2, <1>3, <2>1, DefaultConfigType DEF Typed
<1>5. HalfWay'
  BY <1>1, <1>3 DEF HalfWay
<1>6. Blamed'
  <2> SUFFICES ASSUME r = "UnsupportedFeature"
               PROVE  \E f \in blamed' : capabilities'[f] # "SUPPORTED"
    BY <1>1 DEF Blamed
  <2>1. \E f \in Asked(c) : capabilities[f] # "SUPPORTED"
    BY <1>2, RefusedHonest DEF Typed
  <2> QED
    BY <1>1, <2>1, SameBuild
<1>7. CASE first
  <2>1. pc' = "closed"
    BY <1>1, <1>7
  <2> QED
    BY <1>4, <1>5, <1>6, <2>1 DEF IInv, PortExists, LineMatchesConfig
<1>8. CASE ~first
  <2>1. PortExists /\ pc' = "open"
    BY <1>1, <1>8 DEF Begins, PortExists
  <2>2. Accepted(config) /\ Announced
    BY <2>1 DEF IInv
  <2>3. Accepted(config)' /\ Announced'
    BY <1>1, <2>2, SameBuild DEF Announced, Accepted, Rejected, BuilderRaises, Rejects
  <2>4. LineMatchesConfig'
    <3>1. CASE pc = "IOSSIOSPEED"
      <4>1. build.os = "darwin" /\ Raw(attrs) /\ rate = PlaceholderSpeed
        BY <3>1 DEF IInv, HalfWay
      <4>2. half' = TRUE
        BY <1>1, <3>1
      <4>3. Raw(attrs)'
        BY <4>1 DEF Raw
      <4> QED
        BY <4>1, <4>2, <4>3 DEF LineMatchesConfig
    <3>2. CASE pc # "IOSSIOSPEED"
      <4>1. pc = "open" /\ half' = half
        BY <1>1, <1>2, <1>8, <3>2 DEF Begins, Typed
      <4>2. /\ Raw(attrs)' <=> Raw(attrs)
            /\ TermiosIs(config)' <=> TermiosIs(config)
            /\ DcbIs(config)' <=> DcbIs(config)
        BY <1>1 DEF Raw, TermiosIs, DcbIs
      <4>3. LineMatchesConfig
        BY DEF IInv
      <4> QED
        BY <2>1, <4>1, <4>2, <4>3, <1>1 DEF LineMatchesConfig
    <3> QED
      BY <3>1, <3>2
  <2> QED
    BY <1>4, <1>5, <1>6, <2>3, <2>4 DEF IInv
<1> QED
  BY <1>3, <1>7, <1>8

LEMMA SucceedInv ==
  ASSUME IInv, NEW c \in Config, Succeed(c), Accepted(c), UNCHANGED build,
         attrs' \in Attrs, dcb' \in Dcb, rate' = c.baudrate,
         IF build.os = "win32" THEN DcbIs(c)' ELSE Raw(attrs)' /\ TermiosIs(c)'
  PROVE  IInv'
<1>1. /\ pc' = "open" /\ config' = c /\ result' = "ok" /\ blamed' = {}
      /\ warned' = Warnings(c) /\ half' = FALSE
      /\ opening' = FALSE /\ pending' = DefaultConfig
  BY DEF Succeed
<1>2. Typed'
  BY <1>1, DefaultConfigType DEF IInv, Typed
<1>3. HalfWay' /\ Blamed'
  BY <1>1 DEF HalfWay, Blamed
<1>4. Accepted(config)'
  BY <1>1, SameBuild DEF Accepted, Rejected, BuilderRaises, Rejects
<1>5. Announced'
  <2> SUFFICES ASSUME Rejects, NEW f \in c.extras
               PROVE  c.policy = "IGNORE" \/ (c.policy = "WARN" /\ f \in Warnings(c))
    BY <1>1, SameBuild DEF Announced
  <2>1. c.policy \in {"RAISE", "WARN", "IGNORE"}
    BY DEF Config, Policies
  <2>2. c.policy # "RAISE"
    BY DEF Accepted, Rejected
  <2> QED
    BY <2>1, <2>2 DEF Warnings
<1>6. LineMatchesConfig'
  <2>1. CASE build.os = "win32"
    <3>1. DcbIs(config)'
      BY <1>1, <2>1 DEF DcbIs
    <3> QED
      BY <1>1, <2>1, <3>1 DEF LineMatchesConfig
  <2>2. CASE build.os # "win32"
    <3>1. Raw(attrs)' /\ TermiosIs(config)'
      BY <1>1, <2>2 DEF TermiosIs
    <3> QED
      BY <1>1, <2>2, <3>1 DEF LineMatchesConfig
  <2> QED
    BY <2>1, <2>2
<1> QED
  BY <1>2, <1>3, <1>4, <1>5, <1>6 DEF IInv

\* One tcsetattr, or TCSETS2, puts exactly the config and the speed on the line.
LEMMA LineWritten ==
  ASSUME build \in Builds, attrs \in Attrs, NEW c \in Config, ~BuilderRaises(c), UNCHANGED build,
         NEW s \in Rates,
         \/ tcsetattr(c, s)
         \/ build.os = "linux" /\ s = c.baudrate /\ write_termios2(c)
  PROVE  /\ attrs' \in Attrs /\ Raw(attrs)' /\ TermiosIs(c)'
         /\ rate' = s /\ dcb' = dcb
<1>1. c.stop_bits # "1.5"
  BY DEF BuilderRaises
<1>2. Apply(attrs, c) \in Attrs
  BY ApplyIs
<1>3. PICK b : b = attrs'
  OBVIOUS
<1>4. PICK t \in Rates \cup {BOTHER} :
        /\ b = [Apply(attrs, c) EXCEPT !.ospeed = s, !.slot = t]
        /\ build.os = "linux" => t \in {s, BOTHER}
  <2>1. CASE tcsetattr(c, s)
    <3>1. PICK t : t = IF build.os = "linux" THEN s ELSE Apply(attrs, c).slot
      OBVIOUS
    <3>2. t \in Rates \cup {BOTHER}
      BY <1>2, <3>1 DEF Attrs
    <3>3. b = [Apply(attrs, c) EXCEPT !.ospeed = s, !.slot = t]
      BY <1>2, <1>3, <2>1, <3>1 DEF tcsetattr, Attrs
    <3> QED
      BY <3>1, <3>2, <3>3
  <2>2. CASE build.os = "linux" /\ s = c.baudrate /\ write_termios2(c)
    BY <1>3, <2>2 DEF write_termios2
  <2> QED
    BY <2>1, <2>2
<1>5. b \in Attrs /\ Raw(b) /\ Framed(b, c) /\ b.ospeed = s /\ b.slot = t
  <2>1. PICK a \in Attrs : a = attrs
    OBVIOUS
  <2>2. Written(b, a, c, s, t)
    BY <1>4, <2>1 DEF Written
  <2> QED
    BY <1>1, <2>2, ApplyFrames
<1>6. TermiosIs(c)'
  BY <1>3, <1>5 DEF TermiosIs, Framed
<1>7. rate' = s /\ dcb' = dcb
  <2>1. rate' = DriverRate(b) /\ dcb' = dcb
    BY <1>3 DEF tcsetattr, write_termios2
  <2>2. DriverRate(b) = s
    BY <1>4, <1>5 DEF DriverRate
  <2> QED
    BY <2>1, <2>2
<1>8. Raw(attrs)'
  BY <1>3, <1>5 DEF Raw
<1> QED
  BY <1>3, <1>5, <1>6, <1>7, <1>8

LEMMA ApplyPosixInv ==
  ASSUME IInv, NEW c \in Config, NEW first, Begins(c, first), pc # "IOSSIOSPEED",
         ~Rejected(c), build.os # "win32", ApplyPosix(c, first), UNCHANGED build
  PROVE  IInv'
<1>1. build \in Builds /\ attrs \in Attrs /\ dcb \in Dcb /\ c.baudrate \in Rates
      /\ PlaceholderSpeed \in Rates
  BY RateFacts DEF IInv, Typed, Config
<1>2. CASE BuilderRaises(c) /\ Fail(c, first, "UnsupportedFeature") /\ KeepLine
  BY <1>2, FailInv DEF KeepLine, line
<1>3. CASE Fail(c, first, "driver") /\ KeepLine
  BY <1>3, FailInv DEF KeepLine, line
<1>4. CASE ~BuilderRaises(c) /\ Succeed(c)
           /\ \/ tcsetattr(c, c.baudrate)
              \/ build.os = "linux" /\ write_termios2(c)
  <2>1. /\ attrs' \in Attrs /\ Raw(attrs)' /\ TermiosIs(c)'
        /\ rate' = c.baudrate /\ dcb' = dcb
    BY <1>1, <1>4, LineWritten
  <2>2. Accepted(c)
    BY <1>4 DEF Accepted
  <2> QED
    BY <1>1, <1>4, <2>1, <2>2, SucceedInv
<1>5. CASE ~BuilderRaises(c) /\ ApplyDarwinCustom(c, first)
  <2>1. /\ tcsetattr(c, PlaceholderSpeed) /\ build.os = "darwin"
        /\ pc' = "IOSSIOSPEED" /\ opening' = first /\ pending' = c
        /\ UNCHANGED <<config, result, blamed, warned, half>>
    BY <1>5 DEF ApplyDarwinCustom
  <2>2. /\ attrs' \in Attrs /\ Raw(attrs)' /\ TermiosIs(c)'
        /\ rate' = PlaceholderSpeed /\ dcb' = dcb
    BY <1>1, <1>5, <2>1, LineWritten
  <2>3. first \in BOOLEAN /\ (first = FALSE => pc = "open")
    BY DEF Begins
  <2>4. Typed'
    BY <1>1, <2>1, <2>2, <2>3 DEF IInv, Typed
  <2>5. HalfWay'
    <3>1. Accepted(pending)'
      BY <1>5, <2>1 DEF Accepted, Rejected, BuilderRaises, Rejects
    <3>2. TermiosIs(pending)'
      BY <2>1, <2>2 DEF TermiosIs
    <3> QED
      BY <2>1, <2>2, <3>1, <3>2 DEF HalfWay
  <2>6. Blamed'
    BY <2>1, SameBuild DEF IInv, Blamed
  <2>7. PortExists' => Accepted(config)' /\ Announced'
    <3> SUFFICES ASSUME PortExists' PROVE Accepted(config)' /\ Announced'
      OBVIOUS
    <3>1. PortExists
      BY <2>1, <2>3 DEF PortExists
    <3>2. Accepted(config) /\ Announced
      BY <3>1 DEF IInv
    <3> QED
      BY <2>1, <3>2 DEF Accepted, Rejected, BuilderRaises, Rejects, Announced
  <2>8. LineMatchesConfig'
    BY <2>1 DEF LineMatchesConfig
  <2> QED
    BY <2>4, <2>5, <2>6, <2>7, <2>8 DEF IInv
<1>6. ~BuilderRaises(c) =>
        \/ Fail(c, first, "driver") /\ KeepLine
        \/ ApplyStandard(c) \/ ApplyLinuxCustom(c) \/ ApplyBsdCustom(c)
        \/ ApplyDarwinCustom(c, first)
  BY Zenon DEF ApplyPosix
<1>7. BuilderRaises(c) => Fail(c, first, "UnsupportedFeature") /\ KeepLine
  BY Zenon DEF ApplyPosix
<1>8. CASE ~BuilderRaises(c) /\ (ApplyStandard(c) \/ ApplyLinuxCustom(c) \/ ApplyBsdCustom(c))
  BY <1>4, <1>8 DEF ApplyStandard, ApplyLinuxCustom, ApplyBsdCustom
<1> QED
  BY <1>2, <1>3, <1>5, <1>6, <1>7, <1>8

LEMMA ApplyDcbInv ==
  ASSUME IInv, NEW c \in Config, NEW first, Begins(c, first),
         build.os = "win32", ApplyDcb(c, first), UNCHANGED build
  PROVE  IInv'
<1>1. CASE Fail(c, first, "driver") /\ KeepLine
  BY <1>1, FailInv DEF KeepLine, line
<1>2. CASE /\ dcb' = apply_config(dcb, c) /\ rate' = dcb'.BaudRate
           /\ Succeed(c) /\ UNCHANGED attrs
  <2>1. PICK b : b = apply_config(dcb, c)
    OBVIOUS
  <2>2. dcb \in Dcb /\ attrs \in Attrs
    BY DEF IInv, Typed
  <2>3. /\ b \in Dcb /\ b.BaudRate = c.baudrate
        /\ "xon_xoff" \in c.flow_control => b.xonLimits
        /\ read_dcb(b) =
             [baudrate |-> c.baudrate, byte_size |-> c.byte_size,
              parity |-> c.parity, stop_bits |-> c.stop_bits,
              flow_control |-> c.flow_control, f_binary |-> TRUE,
              f_abort_on_error |-> FALSE, f_parity |-> c.parity # "none"]
    BY <2>1, <2>2, DcbReadsBack
  <2>4. dcb' = b
    BY <1>2, <2>1
  <2>5. DcbIs(c)'
    BY <2>3, <2>4 DEF DcbIs
  <2>6. Accepted(c)
    BY DEF Accepted, Rejected, Rejects
  <2> QED
    BY <1>2, <2>2, <2>3, <2>4, <2>5, <2>6, SucceedInv
<1> QED
  BY <1>1, <1>2 DEF ApplyDcb

LEMMA CallInv ==
  ASSUME IInv, NEW c \in Config, NEW first, Begins(c, first), pc # "IOSSIOSPEED",
         Call(c, first)
  PROVE  IInv'
<1>1. CASE Rejected(c) /\ Fail(c, first, "UnsupportedFeature") /\ KeepLine /\ UNCHANGED build
  BY <1>1, FailInv DEF KeepLine, line
<1> QED
  BY <1>1, ApplyPosixInv, ApplyDcbInv DEF Call

LEMMA IossiospeedInv ==
  ASSUME IInv, set_iossiospeed
  PROVE  IInv'
<1>1. pc = "IOSSIOSPEED" /\ UNCHANGED build
  BY DEF set_iossiospeed
<1>2. /\ pending \in Config /\ attrs \in Attrs /\ dcb \in Dcb
      /\ build.os = "darwin" /\ Accepted(pending) /\ Raw(attrs) /\ TermiosIs(pending)
  BY <1>1 DEF IInv, Typed, HalfWay
<1>3. PICK c \in Config : c = pending
  BY <1>2
<1>4. CASE rate' = pending.baudrate /\ Succeed(pending) /\ UNCHANGED <<attrs, dcb>>
  <2>1. Succeed(c) /\ Accepted(c) /\ rate' = c.baudrate
    BY <1>2, <1>3, <1>4 DEF Succeed, Accepted, Warnings, Rejected, BuilderRaises
  <2>2. Raw(attrs)' /\ TermiosIs(c)'
    BY <1>1, <1>2, <1>3, <1>4 DEF Raw, TermiosIs
  <2> QED
    BY <1>1, <1>2, <1>4, <2>1, <2>2, SucceedInv
<1>5. CASE Fail(pending, opening, "driver") /\ KeepLine
  <2>1. PICK first : first = opening
    OBVIOUS
  <2>2. Fail(c, first, "driver") /\ Begins(c, first)
    BY <1>1, <1>3, <1>5, <2>1 DEF Fail, Begins
  <2> QED
    BY <1>1, <1>5, <2>2, FailInv DEF KeepLine, line
<1> QED
  BY <1>4, <1>5 DEF set_iossiospeed

LEMMA CloseInv ==
  ASSUME IInv, close
  PROVE  IInv'
<1>1. /\ pc' = "closed" /\ result' = "none" /\ config' = DefaultConfig
      /\ UNCHANGED <<attrs, rate, dcb, build, opening, pending, half>>
  BY DEF close, KeepLine, line
<1>2. Typed'
  BY <1>1, DefaultConfigType DEF IInv, Typed
<1> QED
  BY <1>1, <1>2 DEF IInv, HalfWay, Blamed, PortExists, LineMatchesConfig

LEMMA StepInv == IInv /\ [Next]_vars => IInv'
<1> SUFFICES ASSUME IInv, [Next]_vars PROVE IInv'
  OBVIOUS
<1>1. CASE UNCHANGED vars
  BY <1>1 DEF vars, line, IInv, Typed, HalfWay, Blamed, PortExists, LineMatchesConfig,
    Accepted, Announced, Rejected, Rejects, BuilderRaises, capabilities, TermiosIs, DcbIs
<1>2. CASE close
  BY <1>2, CloseInv
<1>3. CASE set_iossiospeed
  BY <1>3, IossiospeedInv
<1>4. ASSUME NEW c \in Requests, open(c) PROVE IInv'
  <2>1. c \in Config /\ pc = "closed" /\ Begins(c, TRUE)
    BY <1>4, RequestsAssumption DEF open, Begins
  <2>2. CASE Call(c, TRUE)
    BY <2>1, <2>2, CallInv
  <2>3. CASE Fail(c, TRUE, "driver") /\ KeepLine /\ UNCHANGED build
    BY <2>1, <2>3, FailInv DEF KeepLine, line
  <2> QED
    BY <1>4, <2>2, <2>3 DEF open
<1>5. ASSUME NEW c \in Requests, configure(c) PROVE IInv'
  <2>1. c \in Config /\ pc = "open" /\ Begins(c, FALSE) /\ Call(c, FALSE)
    BY <1>5, RequestsAssumption DEF configure, Begins
  <2> QED
    BY <2>1, CallInv
<1> QED
  BY <1>1, <1>2, <1>3, <1>4, <1>5 DEF Next

LEMMA Invariance == Spec => []IInv
BY InitInv, StepInv, PTL DEF Spec

\* While a port is open the line is raw and runs exactly what port.config says:
\* for every set of leftover settings, of configs and of rates, on the four
\* systems, whatever system calls the driver refuses (the builders of
\* termios_apply.py and of the DCB own every bit they have to, and no failed
\* call touches the line but a refused IOSSIOSPEED).
THEOREM LineCorrect == Spec => []LineMatchesConfig
<1>1. IInv => LineMatchesConfig
  BY DEF IInv
<1> QED
  BY <1>1, Invariance, PTL

\* No extra of port.config is dropped without a word on macOS and the BSDs
\* (_reject_darwin_unsupported and _reject_bsd_unsupported).
THEOREM DropsAreAnnounced == Spec => []DropsAnnounced
<1>1. IInv => DropsAnnounced
  BY DEF IInv, PortExists, Announced, DropsAnnounced
<1> QED
  BY <1>1, Invariance, PTL

\* The capabilities of each backend and the calls of its code agree.
THEOREM CapabilitiesCorrect == Spec => []CapabilitiesHonest
<1>1. IInv => CapabilitiesHonest
  <2> SUFFICES ASSUME IInv PROVE CapabilitiesHonest
    OBVIOUS
  <2>1. ASSUME pc = "open", NEW f \in Asked(config), capabilities[f] = "UNSUPPORTED"
        PROVE  f \in Extras /\ (config.policy # "RAISE" \/ build.os = "win32")
    <3>1. Accepted(config) /\ config \in Config /\ build \in Builds
      BY <2>1 DEF IInv, PortExists, Typed
    <3>2. PICK c \in Config : c = config
      BY <3>1
    <3>3. Accepted(c) /\ f \in Asked(c)
      BY <2>1, <3>1, <3>2 DEF Accepted, Rejected, BuilderRaises, Asked
    <3> QED
      BY <2>1, <3>1, <3>2, <3>3, AcceptedHonest
  <2> QED
    BY <2>1 DEF IInv, Blamed, CapabilitiesHonest
<1> QED
  BY <1>1, Invariance, PTL
==============================================================================
