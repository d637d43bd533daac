---------------------------- MODULE MCStatusRow ----------------------------
(* StatusRow for TLC, with the row put together by hand to compare with.   *)
EXTENDS StatusRow, SequencesExt

\* Addresses on both sides of what inet_ntop() takes, and one that is cut; a
\* reference id that is kept, and one that is dropped.
MCPeers == {[addr |-> 27, refid |-> Address], [addr |-> 28, refid |-> Address],
            [addr |-> 15, refid |-> 4], [addr |-> 28, refid |-> 9]}

RowOf(as) ==
  LET ks == SelectSeq([k \in DOMAIN as |-> k], LAMBDA k : Listed(as[k]))
  IN FlattenSeq([n \in DOMAIN ks |-> (IF n = 1 THEN <<>> ELSE <<Blank>>)
                                     \o Wanted(ks[n], as[ks[n]])])

\* Joined says of a row that it is this one: it has its length, and each of its
\* characters.
ASSUME JoinedIsRowOf ==
  \A as \in UNION {[1..n -> Answers] : n \in 0..3} :
    /\ Joined(RowOf(as), as, Len(as))
    /\ \A r \in {Append(RowOf(as), Blank), Tail(<<Blank>> \o RowOf(as) \o <<Blank>>)} :
         ~Joined(r, as, Len(as))
=============================================================================
