----------------------------- MODULE MCPeerTimes -----------------------------
(* PeerTimes for TLC, whose integers are 32 bits wide: words of 30 bits, and *)
(* the intervals around every boundary of the text and of the counter.       *)
EXTENDS PeerTimes

MCHalf == 536870912

Around(n, k) == n - k .. n + k

MCGaps == Around(0, 3) \cup Around(2048, 3) \cup Around(2100, 32)
            \cup Around(300 * 60 + 30, 3) \cup Around(301 * 60 + 30, 3)
            \cup Around(330 * 60 + 30, 3) \cup Around(331 * 60, 3)
            \cup Around(96 * 3600 + 31 * 60, 62) \cup Around(100 * 3600, 3)
            \cup Around(108 * 3600 + 30 * 60 + 30, 35)
            \cup {-MCHalf, -MCHalf + 1, -3600, MCHalf - 30, MCHalf - 29, MCHalf - 1}

MCStart == {0, 1, 3600, MCHalf - 1, MCHalf, 2 * MCHalf - 3600, 2 * MCHalf - 1}
==============================================================================
