----------------------------- MODULE StatusRow -----------------------------
(***************************************************************************)
(* The row of peers (src/main.cpp:59-123 with ntpqmod_readpeer() and the   *)
(* parts of doreadpeer() that the row uses, src/ntpqmod.c:106-183 and      *)
(* 219-250).  One pass asks ntpd for the associations, then reads each of  *)
(* them, any of which may fail, into one peerinfo, and appends to the row  *)
(* what it then holds.                                                     *)
(*                                                                         *)
(* A character is <<kind, what>>: a tally code, a character of the address *)
(* or of the reference id of an association, or the separating blank.      *)
(***************************************************************************)
EXTENDS Integers, Sequences, FiniteSets

CONSTANTS
  MaxAssoc,   \* bound: the most associations; associds[] takes 128
  Statuses,   \* selection statuses ntpd may give a peer
  Peers       \* what ntpd may send for a peer: the length of its address written
              \* out, 0 for none, and its reference id: its length, or Address

\* The reference id of a peer that has an upstream server of its own.
Address == -1

ASSUME MaxAssocAssumption == MaxAssoc \in Nat
ASSUME StatusesAssumption == Statuses \subseteq 0..7
ASSUME PeersAssumption == Peers \subseteq [addr: Nat, refid: Nat \cup {Address}]

VARIABLES
  numassoc,   \* the associations of this pass; 0 also when the query fails
  i,          \* the loop index; numassoc + 1 when the row is complete
  info,       \* peerinfo
  next,       \* what comes next for this i: "read" or "append"
  isfirst,    \* t_isfirst: 1 when a piece has been appended
  row,        \* strstatus1
  answers,    \* history: what ntpd has answered for each association
  shown       \* history: how many pieces the row is made of

vars == <<numassoc, i, info, next, isfirst, row, answers, shown>>

\* flash3: the tally codes by the peer's selection status.
NotSelected == " "
Flash == <<NotSelected, "x", ".", "-", "+", "#", "*", "o">>

\* peerinfo.c after the memset(), which ends any text it begins.
Nul == "NUL"

Blank == <<"blank", 0>>

Text(kind, k, len) == [n \in 1..len |-> <<kind, k>>]

\* An answer of ntpd: none or an empty one, or a status and what it sends for
\* the peer.
NoAnswer == [ok |-> FALSE]
Answers == {NoAnswer} \cup [ok: {TRUE}, status: Statuses, peer: Peers]

\* memset(pinfo, 0, ...)
Cleared == [c |-> Nul, srcadr |-> <<>>, have_refid |-> 0, refid |-> <<>>]

\* doreadpeer(): a reference id of up to four characters is kept as it is, an
\* address is recognised, and anything else is dropped.  srcadr is binary; it
\* stands here as the address written out in full.
PeerInfo(k, a) ==
  [c |-> Flash[a.status + 1],
   srcadr |-> Text("address", k, a.peer.addr),
   have_refid |-> IF a.peer.refid = Address THEN 2 ELSE IF a.peer.refid \in 1..4 THEN 1 ELSE 0,
   refid |-> IF a.peer.refid \in 1..4 THEN Text("refid", k, a.peer.refid) ELSE <<>>]

Init == /\ numassoc = 0
        /\ i = 1
        /\ info = Cleared
        /\ next = "read"
        /\ isfirst = 0
        /\ row = <<>>
        /\ answers = <<>>
        /\ shown = 0

-----------------------------------------------------------------------------
\* A pass: peerinfo and strstatus1 start empty, and ntpq_read_associations()
\* says how many there are.
BeginPass == /\ i > numassoc
             /\ numassoc' \in 0..MaxAssoc
             /\ i' = 1
             /\ info' = Cleared
             /\ next' = "read"
             /\ isfirst' = 0
             /\ row' = <<>>
             /\ answers' = <<>>
             /\ shown' = 0

\* Mutant: readpeer does not clear what the peer before has left.
ReadPeerKeepsOld == /\ i <= numassoc
                    /\ next = "read"
                    /\ \E a \in Answers : /\ info' = IF a.ok THEN PeerInfo(i, a) ELSE info
                                          /\ answers' = Append(answers, a)
                    /\ next' = "append"
                    /\ UNCHANGED <<numassoc, i, isfirst, row, shown>>

\* ntpqmod_readpeer(&peerinfo, associds[i]), whose result is not looked at: a
\* query that fails leaves the cleared peerinfo.
ReadPeer == /\ i <= numassoc
            /\ next = "read"
            /\ \E a \in Answers : /\ info' = IF a.ok THEN PeerInfo(i, a) ELSE Cleared
                                  /\ answers' = Append(answers, a)
            /\ next' = "append"
            /\ UNCHANGED <<numassoc, i, isfirst, row, shown>>

\* inet_ntop() is told that straddrbuf has sizeof(sockaddr_u) bytes.  An IPv6
\* address that, with its NUL, is longer makes it fail, and straddrbuf, which
\* nothing else fills, stays empty.
SockaddrSize == 28
InetNtop(address) == IF Len(address) < SockaddrSize THEN address ELSE <<>>

Prefix(text, n) == IF Len(text) <= n THEN text ELSE SubSeq(text, 1, n)

\* Mutant: "%c%s", the address at the length inet_ntop() gives it.
PieceUncut(p) ==
  IF p.c = Nul THEN <<>>
  ELSE <<<<"tally", p.c>>>> \o
       IF p.have_refid = 2 THEN InetNtop(p.srcadr) ELSE Prefix(p.refid, 4)

\* sprintf(strbuf, "%c%.8s", c, straddrbuf) or "%c%.4s" with the reference id;
\* behind a NUL nothing is seen.
Piece(p) ==
  IF p.c = Nul THEN <<>>
  ELSE <<<<"tally", p.c>>>> \o
       IF p.have_refid = 2 THEN Prefix(InetNtop(p.srcadr), 8) ELSE Prefix(p.refid, 4)

\* Mutant: the index is raised in the loop and in its head.
SkipPeerTwice == /\ next = "append"
                 /\ info.c = NotSelected
                 /\ i' = i + 2
                 /\ next' = "read"
                 /\ UNCHANGED <<numassoc, info, isfirst, row, answers, shown>>

\* A peer that ntpd has not selected is passed over; the others are appended,
\* with a blank before all but the first.
SkipPeer == /\ next = "append"
            /\ info.c = NotSelected
            /\ i' = i + 1
            /\ next' = "read"
            /\ UNCHANGED <<numassoc, info, isfirst, row, answers, shown>>

AppendPeer == /\ next = "append"
              /\ info.c # NotSelected
              /\ row' = row \o (IF isfirst = 0 THEN <<>> ELSE <<Blank>>) \o Piece(info)
              /\ isfirst' = 1
              /\ i' = i + 1
              /\ next' = "read"
              /\ shown' = shown + 1
              /\ UNCHANGED <<numassoc, info, answers>>

Next == BeginPass \/ ReadPeer \/ SkipPeer \/ AppendPeer

Spec == Init /\ [][Next]_vars

-----------------------------------------------------------------------------
Codes == {Flash[n] : n \in 1..8}

Characters == ({"tally"} \X Codes) \cup {Blank}
                \cup ({"address", "refid"} \X (1..MaxAssoc))

Infos == [c: Codes \cup {Nul}, srcadr: Seq(Characters), have_refid: 0..2,
          refid: Seq(Characters)]

TypeOK == /\ numassoc \in 0..MaxAssoc
          /\ i \in 1 .. MaxAssoc + 1
          /\ next \in {"read", "append"} /\ isfirst \in 0..1
          /\ info \in Infos
          /\ row \in Seq(Characters)
          /\ shown \in 0..MaxAssoc

\* strstatus1 has room for six peers and the NUL at its end, whatever addresses
\* and reference ids ntpd sends: 64 bytes, of which a peer takes at most ten.
RowFits == shown <= 6 => Len(row) < 64

-----------------------------------------------------------------------------
\* What the answer for association k alone asks to be shown, and whether it is:
\* the tally code and the start of the address or a short reference id.  Of an
\* address of 28 characters or more nothing is shown.
Wanted(k, a) ==
  IF ~a.ok THEN <<>>
  ELSE <<<<"tally", Flash[a.status + 1]>>>> \o
       CASE a.peer.refid = Address ->
              Text("address", k, IF a.peer.addr < 8 THEN a.peer.addr
                                 ELSE IF a.peer.addr < 28 THEN 8 ELSE 0)
         [] a.peer.refid \in 1..4 -> Text("refid", k, a.peer.refid)
         [] OTHER -> <<>>

Listed(a) == ~a.ok \/ a.status # 0

\* How many characters come before the piece of association k: the pieces of the
\* listed ones before it, each with a blank after it.
Before(as, k) ==
  Cardinality(UNION {{j} \X (0 .. Len(Wanted(j, as[j]))) : j \in {l \in 1 .. k - 1 : Listed(as[l])}})

\* r has the pieces of the listed ones among the first n, one blank between two,
\* and nothing else.
Joined(r, as, n) ==
  LET listed == {k \in 1..n : Listed(as[k])}
  IN /\ Len(r) = IF listed = {} THEN 0 ELSE Before(as, n + 1) - 1
     /\ \A k \in listed :
          LET at == Before(as, k)
              piece == Wanted(k, as[k])
          IN /\ SubSeq(r, at + 1, at + Len(piece)) = piece
             /\ at > 0 => r[at] = Blank

\* The finished row lists the selected peers of this pass in ntpd's order, one
\* blank between two of them, each with the data of its own answer and nothing
\* left of another peer or of an earlier pass.  A peer that could not be read
\* keeps its place, empty, and one whose address is too long for inet_ntop()
\* keeps its tally code.
RowIsJoin == i > numassoc => Joined(row, answers, numassoc)
=============================================================================
