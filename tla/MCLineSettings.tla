--------------------------- MODULE MCLineSettings ---------------------------
EXTENDS LineSettings, FiniteSets

\* Every builder works bit by bit, so the two extremes show each flag both
\* left set and left clear.
MCLeftovers ==
  {[iflag |-> {}, oflag |-> {}, lflag |-> {}, cflag |-> {}, csize |-> 5,
    slot |-> BOTHER, ospeed |-> 250000, vmin |-> 0, vtime |-> 1],
   [iflag |-> IFlags, oflag |-> OFlags, lflag |-> LFlags, cflag |-> CFlags,
    csize |-> 7, slot |-> 115200, ospeed |-> 115200, vmin |-> 0, vtime |-> 0]}

MCDcbLeftovers ==
  {[BaudRate |-> 115200, ByteSize |-> 7, Parity |-> "odd", StopBits |-> "2",
    flags |-> f, xonLimits |-> FALSE, fRtsControl |-> r, fDtrControl |-> r] :
   f \in {{}, DcbFlags}, r \in {"DISABLE", "HANDSHAKE"}}

\* Configs that differ from the default in at most two line settings (with an
\* earlier config of that kind on the line, four change together), and every
\* choice of extras and policy with every rate.
MCRequests ==
  {c \in [baudrate : Rates, byte_size : {7, 8}, parity : Parities,
          stop_bits : StopBits,
          flow_control : {{}, {"xon_xoff"}, {"rts_cts"}, {"dtr_dsr"},
                          {"xon_xoff", "rts_cts"}},
          hangup_on_close : BOOLEAN, extras : SUBSET Extras,
          policy : Policies] :
     LET changed == {f \in DOMAIN c : c[f] # DefaultConfig[f]}
     IN \/ c.extras = {} /\ c.policy = "RAISE" /\ Cardinality(changed) <= 2
        \/ c.extras # {} /\ changed \subseteq {"baudrate", "extras", "policy"}}
=============================================================================
