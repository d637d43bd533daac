--------------------------- MODULE MCDaemonStart ---------------------------
(* DaemonStart for TLC: every command line of up to three words, as long as  *)
(* the one of the service's unit.                                            *)
EXTENDS DaemonStart, SequencesExt

W(name, value) == [name |-> name, value |-> value]

MCWords == {W("-D", NoValue), W("--help", NoValue), W("jsntpd", NoValue),
            W("--pidfile", NoValue), W("--pidfile", "path"),
            W("--user", NoValue), W("--user", "jsntpd"), W("--user", "ghost"),
            W("--logfile", "path")}

MCCommandLines == SeqOf(MCWords, 3)

L(gid, members) == [gid |-> gid, members |-> members, plain |-> TRUE]

MCGroupFiles ==
  {<<L("i2c", {"jsntpd"})>>,
   <<L("i2c", {"pi", "jsntpd"}), L("video", {"pi"}), L("gpio", {"jsntpd"}),
     L("spi", {"jsntpd"})>>,
   <<L("i2c", {"jsntpd"}), [L("many", {"pi"}) EXCEPT !.plain = FALSE]>>}
=============================================================================
