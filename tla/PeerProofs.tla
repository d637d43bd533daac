----------------------------- MODULE PeerProofs -----------------------------
(***************************************************************************)
(* Proofs about what the daemon makes of ntpd's peers: about StatusRow for *)
(* any number of associations and addresses and reference ids of any       *)
(* length, and about PeerTimes for words of every width, every start of    *)
(* the seconds counter and every interval.  The two have no state in       *)
(* common.                                                                 *)
(***************************************************************************)
EXTENDS StatusRow, PeerTimes, FiniteSetTheorems, SequenceTheorems, TLAPS

\* The pieces, of nine characters at most, with a blank before all but one.
RowBounded ==
  /\ isfirst = 0 <=> shown = 0
  /\ shown = 0 => Len(row) = 0
  /\ shown > 0 => Len(row) <= 10 * shown - 1

\* The loop index: one association after the other, each shown at most once.
IndexAgrees ==
  /\ i <= numassoc + 1
  /\ shown < i
  /\ next = "append" => i <= numassoc

\* The inductive invariant.
IInv == TypeOK /\ RowBounded /\ IndexAgrees

-----------------------------------------------------------------------------
LEMMA TextType ==
  ASSUME NEW kind \in {"address", "refid"}, NEW k \in 1..MaxAssoc, NEW len \in Nat
  PROVE  Text(kind, k, len) \in Seq(Characters)
  BY DEF Text, Characters

LEMMA PrefixShort ==
  ASSUME NEW text \in Seq(Characters), NEW n \in Nat
  PROVE  Prefix(text, n) \in Seq(Characters) /\ Len(Prefix(text, n)) <= n
<1>1. CASE Len(text) <= n
  BY <1>1 DEF Prefix
<1>2. CASE Len(text) > n
  BY <1>2, SubSeqProperties DEF Prefix
<1> QED BY <1>1, <1>2, LenProperties

\* What a peer adds to the row has at most nine characters.
LEMMA PieceShort ==
  ASSUME NEW p \in Infos
  PROVE  Piece(p) \in Seq(Characters) /\ Len(Piece(p)) <= 9
<1>1. /\ Prefix(InetNtop(p.srcadr), 8) \in Seq(Characters)
      /\ Len(Prefix(InetNtop(p.srcadr), 8)) <= 8
  <2>1. InetNtop(p.srcadr) \in Seq(Characters)
    BY DEF Infos, InetNtop
  <2> QED BY <2>1, PrefixShort
<1>2. Prefix(p.refid, 4) \in Seq(Characters) /\ Len(Prefix(p.refid, 4)) <= 4
  BY PrefixShort DEF Infos
<1>3. CASE p.c = Nul
  BY <1>3 DEF Piece
<1>4. CASE p.c # Nul
  <2>1. <<"tally", p.c>> \in Characters
    BY <1>4 DEF Infos, Characters
  <2>2. <<<<"tally", p.c>>>> \in Seq(Characters) /\ Len(<<<<"tally", p.c>>>>) = 1
    BY <2>1
  <2> QED BY <1>1, <1>2, <1>4, <2>2, ConcatProperties, LenProperties DEF Piece
<1> QED BY <1>3, <1>4

LEMMA AnswerFields ==
  ASSUME NEW a \in Answers, a.ok
  PROVE  a.status \in 0..7 /\ a.peer.addr \in Nat
<1>1. ~ NoAnswer.ok
  BY DEF NoAnswer
<1>2. a # NoAnswer
  BY <1>1
<1>3. a \in [ok: {TRUE}, status: Statuses, peer: Peers]
  BY <1>2, Zenon DEF Answers
<1>4. a.status \in Statuses /\ a.peer \in Peers
  BY <1>3
<1> QED BY <1>4, StatusesAssumption, PeersAssumption

LEMMA PeerInfoType ==
  ASSUME NEW k \in 1..MaxAssoc, NEW a \in Answers, a.ok
  PROVE  PeerInfo(k, a) \in Infos
<1>2. a.status \in 0..7
  BY AnswerFields
<1>3. a.peer.addr \in Nat
  BY AnswerFields
<1>4. Flash[a.status + 1] \in Codes
  BY ONLY <1>2 DEF Codes
<1>5. Text("address", k, a.peer.addr) \in Seq(Characters)
  BY <1>3, TextType
<1>6. ASSUME a.peer.refid \in 1..4 PROVE Text("refid", k, a.peer.refid) \in Seq(Characters)
  <2>1. a.peer.refid \in Nat
    BY ONLY <1>6
  <2> QED BY <2>1, TextType
<1>7. (IF a.peer.refid \in 1..4 THEN Text("refid", k, a.peer.refid) ELSE <<>>) \in Seq(Characters)
  BY <1>6
<1>8. (IF a.peer.refid = Address THEN 2 ELSE IF a.peer.refid \in 1..4 THEN 1 ELSE 0) \in 0..2
  OBVIOUS
<1> QED BY <1>4, <1>5, <1>7, <1>8 DEF PeerInfo, Infos

LEMMA EmptyRow == <<>> \in Seq(Characters) /\ Len(<<>>) = 0
  OBVIOUS

LEMMA ClearedType == Cleared \in Infos
  BY DEF Cleared, Infos

-----------------------------------------------------------------------------
LEMMA InitEstablishesIInv == Init => IInv
  BY ClearedType, EmptyRow, MaxAssocAssumption DEF Init, IInv, TypeOK, RowBounded, IndexAgrees

LEMMA NextKeepsIInv == IInv /\ [Next]_vars => IInv'
<1> SUFFICES ASSUME IInv, [Next]_vars PROVE IInv'
  OBVIOUS
<1> USE MaxAssocAssumption DEF IInv, TypeOK, RowBounded, IndexAgrees
<1>1. CASE UNCHANGED vars
  BY <1>1 DEF vars
<1>2. CASE BeginPass
  <2>1. row' \in Seq(Characters) /\ Len(row') = 0
    BY <1>2, EmptyRow DEF BeginPass
  <2>2. info' \in Infos
    BY <1>2, ClearedType DEF BeginPass
  <2>3. TypeOK'
    BY <1>2, <2>1, <2>2 DEF BeginPass
  <2>4. isfirst' = 0 /\ shown' = 0 /\ i' = 1 /\ numassoc' \in Nat /\ next' = "read"
    BY <1>2 DEF BeginPass
  <2>5. RowBounded'
    BY ONLY <2>1, <2>4 DEF RowBounded
  <2>6. IndexAgrees'
    <3>1. i' = 1 /\ shown' = 0
      BY <2>4
    <3>2. i' <= numassoc' + 1
      <4>1. ASSUME NEW n \in Nat PROVE 1 <= n + 1
        BY ONLY TRUE
      <4> QED BY <2>4, <4>1, Zenon
    <3>3. shown' < i'
      BY ONLY <3>1
    <3>4. next' # "append"
      BY <2>4
    <3> QED BY <3>2, <3>3, <3>4 DEF IndexAgrees
  <2> QED BY <2>3, <2>5, <2>6
<1>3. CASE ReadPeer
  <2>1. PICK a \in Answers : info' = IF a.ok THEN PeerInfo(i, a) ELSE Cleared
    BY <1>3 DEF ReadPeer
  <2>2. i \in 1..MaxAssoc
    BY <1>3 DEF ReadPeer
  <2>3. info' \in Infos
    BY <2>1, <2>2, PeerInfoType, ClearedType
  <2> QED BY <1>3, <2>3 DEF ReadPeer
<1>4. CASE SkipPeer
  BY <1>4 DEF SkipPeer
<1>5. CASE AppendPeer
  <2> DEFINE sep == IF isfirst = 0 THEN <<>> ELSE <<Blank>>
             tail == Piece(info)
  <2>1. sep \in Seq(Characters) /\ Len(sep) <= 1 /\ (isfirst = 0 => Len(sep) = 0)
    <3>1. Blank \in Characters
      BY DEF Characters
    <3> QED BY <3>1, EmptyRow
  <2>2. tail \in Seq(Characters) /\ Len(tail) <= 9
    BY PieceShort
  <2>3. row' = (row \o sep) \o tail
    BY <1>5 DEF AppendPeer
  <2>4. row \in Seq(Characters)
    OBVIOUS
  <2> HIDE DEF sep, tail
  <2>5. row \o sep \in Seq(Characters) /\ Len(row \o sep) = Len(row) + Len(sep)
    BY ONLY <2>1, <2>4, ConcatProperties
  <2>6. row' \in Seq(Characters) /\ Len(row') = Len(row) + Len(sep) + Len(tail)
    BY ONLY <2>2, <2>3, <2>5, ConcatProperties
  <2>7. Len(row) \in Nat /\ Len(sep) \in Nat /\ Len(tail) \in Nat
    BY ONLY <2>1, <2>2, <2>4, LenProperties
  <2>8. TypeOK'
    <3>1. i' \in 1 .. MaxAssoc + 1 /\ shown' \in 0..MaxAssoc
      BY <1>5 DEF AppendPeer
    <3> QED BY <1>5, <2>6, <3>1 DEF AppendPeer
  <2>9. RowBounded'
    <3>1. isfirst' = 1 /\ shown' = shown + 1 /\ shown \in Nat
      BY <1>5 DEF AppendPeer
    <3>2. Len(row') <= 10 * shown' - 1
      BY <2>1, <2>2, <2>6, <2>7, <3>1
    <3> QED BY <3>1, <3>2
  <2>10. IndexAgrees'
    BY <1>5 DEF AppendPeer
  <2> QED BY <2>8, <2>9, <2>10
<1> QED BY <1>1, <1>2, <1>3, <1>4, <1>5 DEF Next

\* Every pass runs in the inductive invariant.
THEOREM IInvHolds == Spec => []IInv
  BY InitEstablishesIInv, NextKeepsIInv, PTL DEF Spec

\* Type correctness of the loop over the associations.
THEOREM TypeCorrect == Spec => []TypeOK
<1>1. IInv => TypeOK  BY DEF IInv
<1> QED BY <1>1, IInvHolds, PTL

\* Six peers fit into strstatus1, whatever ntpd answers.
THEOREM RowFitsHolds == Spec => []RowFits
<1>1. IInv => RowFits
  BY LenProperties DEF IInv, TypeOK, RowBounded, RowFits
<1> QED BY <1>1, IInvHolds, PTL

-----------------------------------------------------------------------------
\* The characters before association k, each with the association it belongs to.
Room(as, k) ==
  UNION {{j} \X (0 .. Len(Wanted(j, as[j]))) : j \in {l \in 1 .. k - 1 : Listed(as[l])}}

\* The first n answers ask for pieces of nine characters at most.
Fine(as, n) ==
  \A k \in 1..n : /\ Wanted(k, as[k]) \in Seq(Characters)
                  /\ Len(Wanted(k, as[k])) \in 0..9

LEMMA RoomMember ==
  \A as, k, p : p \in Room(as, k) <=>
    \E j \in 1 .. k - 1 : Listed(as[j]) /\ p \in {j} \X (0 .. Len(Wanted(j, as[j])))
  BY DEF Room

LEMMA RoomFinite ==
  ASSUME NEW as, NEW n \in Nat, Fine(as, n), NEW k \in 1 .. n + 1
  PROVE  IsFiniteSet(Room(as, k)) /\ Before(as, k) \in Nat
<1> DEFINE S == 1 .. k - 1
           T == 0..9
<1>1. IsFiniteSet(S) /\ IsFiniteSet(T)
  <2>1. 0 \in Int /\ 9 \in Int /\ 1 \in Int /\ k - 1 \in Int
    OBVIOUS
  <2>2. \A a \in Int, b \in Int : IsFiniteSet(a..b)
    BY FS_Interval
  <2> QED BY <2>1, <2>2
<1> HIDE DEF S, T
<1>2. IsFiniteSet(S \X T)
  BY <1>1, FS_Product
<1>3. ASSUME NEW p \in Room(as, k) PROVE p \in S \X T
  <2>1. PICK j \in 1 .. k - 1 : p \in {j} \X (0 .. Len(Wanted(j, as[j])))
    BY RoomMember
  <2> DEFINE L == Len(Wanted(j, as[j]))
  <2>2. L \in 0..9
    <3>1. j \in 1..n
      OBVIOUS
    <3> QED BY <3>1 DEF Fine
  <2> HIDE DEF L
  <2>a. 0..L \subseteq T
    BY <2>2 DEF T
  <2>3. 0 .. Len(Wanted(j, as[j])) \subseteq T
    BY <2>a DEF L
  <2>4. j \in S
    BY DEF S
  <2> QED BY <2>1, <2>3, <2>4
<1>4. IsFiniteSet(Room(as, k))
  BY <1>2, <1>3, FS_Subset
<1>5. Cardinality(Room(as, k)) \in Nat
  BY <1>4, FS_CardinalityType
<1> QED BY <1>4, <1>5 DEF Room, Before

LEMMA NothingBeforeFirst == \A as : Before(as, 1) = 0
<1> SUFFICES ASSUME NEW as PROVE Before(as, 1) = 0
  OBVIOUS
<1>1. 1 .. 1 - 1 = {}
  OBVIOUS
<1>2. Room(as, 1) = {}
  BY <1>1, RoomMember
<1> QED BY <1>2, FS_EmptySet DEF Room, Before

\* A listed association takes its piece and one blank, another takes nothing.
LEMMA BeforeNext ==
  ASSUME NEW as, NEW n \in Nat, Fine(as, n), NEW k \in 1..n
  PROVE  Before(as, k + 1) =
           Before(as, k) + IF Listed(as[k]) THEN Len(Wanted(k, as[k])) + 1 ELSE 0
<1> DEFINE L == Len(Wanted(k, as[k]))
           A == Room(as, k)
           B == {k} \X (0..L)
<1>1. L \in 0..9
  BY DEF Fine
<1>2. 1 .. (k + 1) - 1 = 1..k /\ k \in 1 .. n + 1 /\ k + 1 \in 1 .. n + 1
  OBVIOUS
<1>3. IsFiniteSet(A) /\ Before(as, k) \in Nat
  BY <1>2, RoomFinite
<1>4. CASE ~ Listed(as[k])
  <2>1. ASSUME NEW p PROVE p \in Room(as, k + 1) <=> p \in A
    <3>1. \A j \in 1..k : Listed(as[j]) => j \in 1 .. k - 1
      <4> SUFFICES ASSUME NEW j \in 1..k, Listed(as[j]) PROVE j \in 1 .. k - 1
        OBVIOUS
      <4>1. j # k
        BY <1>4
      <4> QED BY <4>1
    <3>2. \A j \in 1 .. k - 1 : j \in 1..k
      OBVIOUS
    <3> QED BY <1>2, <3>1, <3>2, RoomMember
  <2>2. Room(as, k + 1) = A
    BY <2>1
  <2>3. Before(as, k + 1) = Before(as, k)
    BY <2>2 DEF Before, Room
  <2> DEFINE b == Before(as, k)
  <2>4. b \in Nat
    BY <1>3
  <2> HIDE DEF b
  <2>5. b = b + 0
    BY <2>4
  <2> QED BY <1>4, <2>3, <2>5 DEF b
<1>5. CASE Listed(as[k])
  <2>1. ASSUME NEW p PROVE p \in Room(as, k + 1) <=> p \in A \cup B
    <3>1. \A j \in 1..k : j = k \/ j \in 1 .. k - 1
      OBVIOUS
    <3>2. k \in 1..k /\ \A j \in 1 .. k - 1 : j \in 1..k
      OBVIOUS
    <3>3. p \in B <=> Listed(as[k]) /\ p \in {k} \X (0 .. Len(Wanted(k, as[k])))
      BY <1>5
    <3>4. p \in A <=>
            \E j \in 1 .. k - 1 : Listed(as[j]) /\ p \in {j} \X (0 .. Len(Wanted(j, as[j])))
      BY RoomMember
    <3>5. p \in Room(as, k + 1) <=>
            \E j \in 1..k : Listed(as[j]) /\ p \in {j} \X (0 .. Len(Wanted(j, as[j])))
      BY <1>2, RoomMember
    <3> HIDE DEF A, B
    <3> QED BY <3>1, <3>2, <3>3, <3>4, <3>5
  <2>2. Room(as, k + 1) = A \cup B
    BY <2>1
  <2>3. A \cap B = {}
    <3> SUFFICES ASSUME NEW p \in A, p \in B PROVE FALSE
      OBVIOUS
    <3>1. PICK j \in 1 .. k - 1 : p \in {j} \X (0 .. Len(Wanted(j, as[j])))
      BY RoomMember
    <3>2. p[1] = j /\ p[1] = k
      BY <3>1
    <3> QED BY <3>2
  <2>4. IsFiniteSet(B) /\ Cardinality(B) = L + 1
    <3> HIDE DEF L
    <3>1. IsFiniteSet(0..L) /\ Cardinality(0..L) = L + 1
      BY <1>1, FS_Interval
    <3>2. IsFiniteSet({k}) /\ Cardinality({k}) = 1
      BY FS_Singleton
    <3> DEFINE I == 0..L
               K == {k}
    <3>3. \A X, Y : IsFiniteSet(X) /\ IsFiniteSet(Y) =>
             /\ IsFiniteSet(X \X Y)
             /\ Cardinality(X \X Y) = Cardinality(X) * Cardinality(Y)
      BY FS_Product
    <3>4. IsFiniteSet(K \X I) /\ Cardinality(K \X I) = Cardinality(K) * Cardinality(I)
      <4> HIDE DEF I, K
      <4>1. IsFiniteSet(I) /\ IsFiniteSet(K)
        BY <3>1, <3>2 DEF I, K
      <4> QED BY <3>3, <4>1
    <3>5. Cardinality(K \X I) = 1 * (L + 1)
      BY <3>1, <3>2, <3>4
    <3>6. 1 * (L + 1) = L + 1
      BY <1>1
    <3> QED BY <3>4, <3>5, <3>6
  <2> HIDE DEF A, B
  <2>5. Cardinality(A \cup B) = Cardinality(A) + Cardinality(B) - 0
    <3>1. Cardinality(A \cap B) = 0
      BY <2>3, FS_EmptySet
    <3>2. Cardinality(A \cup B) = Cardinality(A) + Cardinality(B) - Cardinality(A \cap B)
      BY <1>3, <2>4, FS_Union
    <3> QED BY <3>1, <3>2
  <2>6. Cardinality(A) = Before(as, k)
    BY DEF A, Before, Room
  <2>7. Before(as, k + 1) = Cardinality(A \cup B)
    BY <2>2 DEF Before, Room
  <2> HIDE DEF L
  <2>8. Before(as, k + 1) = Before(as, k) + (L + 1)
    <3> DEFINE b == Before(as, k)
    <3>a. b \in Nat
      BY <1>3
    <3>b. L \in Nat
      BY <1>1
    <3>1. b \in Nat /\ L \in Nat
      BY <3>a, <3>b
    <3>2. Before(as, k + 1) = b + (L + 1) - 0
      BY <2>4, <2>5, <2>6, <2>7
    <3> HIDE DEF b
    <3>3. b + (L + 1) - 0 = b + (L + 1)
      BY <3>1
    <3> QED BY <3>2, <3>3 DEF b
  <2> QED BY <1>5, <2>8 DEF L
<1> QED BY <1>4, <1>5

LEMMA BeforeGrows ==
  ASSUME NEW as, NEW n \in Nat, Fine(as, n), NEW j \in 1 .. n + 1, NEW k \in j .. n + 1
  PROVE  Before(as, j) <= Before(as, k)
<1>1. \A l \in 1 .. j - 1 : l \in 1 .. k - 1
  OBVIOUS
<1>2. Room(as, j) \subseteq Room(as, k)
  <2> SUFFICES ASSUME NEW p \in Room(as, j) PROVE p \in Room(as, k)
    OBVIOUS
  <2>1. PICK l \in 1 .. j - 1 : Listed(as[l]) /\ p \in {l} \X (0 .. Len(Wanted(l, as[l])))
    BY RoomMember
  <2> QED BY <1>1, <2>1, RoomMember
<1>3. k \in 1 .. n + 1
  OBVIOUS
<1>4. IsFiniteSet(Room(as, k))
  BY <1>3, RoomFinite
<1>5. Cardinality(Room(as, j)) <= Cardinality(Room(as, k))
  BY <1>2, <1>4, FS_Subset
<1> QED BY <1>5 DEF Before, Room

\* Only the answers before k matter.
LEMMA BeforeOfSame ==
  ASSUME NEW as, NEW bs, NEW k, \A j \in 1 .. k - 1 : bs[j] = as[j]
  PROVE  Before(bs, k) = Before(as, k)
<1>1. ASSUME NEW p PROVE p \in Room(bs, k) <=> p \in Room(as, k)
  <2>1. p \in Room(bs, k) <=>
          \E j \in 1 .. k - 1 : Listed(bs[j]) /\ p \in {j} \X (0 .. Len(Wanted(j, bs[j])))
    BY RoomMember
  <2>2. p \in Room(as, k) <=>
          \E j \in 1 .. k - 1 : Listed(as[j]) /\ p \in {j} \X (0 .. Len(Wanted(j, as[j])))
    BY RoomMember
  <2> QED BY <2>1, <2>2
<1>2. Room(bs, k) = Room(as, k)
  BY <1>1
<1> QED BY <1>2 DEF Before, Room


-----------------------------------------------------------------------------
\* peerinfo after readpeer() of association k.
Made(k, a) == IF a.ok THEN PeerInfo(k, a) ELSE Cleared

\* The tally codes of the peers that are listed.
Marks == {"x", ".", "-", "+", "#", "*", "o"}

LEMMA MarksApart == Nul # NotSelected /\ \A code \in Marks : code # Nul /\ code # NotSelected
  BY DEF Marks, Nul, NotSelected

LEMMA CodesApart == Flash[1] = NotSelected /\ \A n \in 2..8 : Flash[n] \in Marks
<1>2. Flash[2] \in Marks
  BY DEF Flash, Marks
<1>3. Flash[3] \in Marks
  BY DEF Flash, Marks
<1>4. Flash[4] \in Marks
  BY DEF Flash, Marks
<1>5. Flash[5] \in Marks
  BY DEF Flash, Marks
<1>6. Flash[6] \in Marks
  BY DEF Flash, Marks
<1>7. Flash[7] \in Marks
  BY DEF Flash, Marks
<1>8. Flash[8] \in Marks
  BY DEF Flash, Marks
<1>9. \A n \in 2..8 : n = 2 \/ n = 3 \/ n = 4 \/ n = 5 \/ n = 6 \/ n = 7 \/ n = 8
  OBVIOUS
<1>10. Flash[1] = NotSelected
  BY DEF Flash
<1> QED BY <1>2, <1>3, <1>4, <1>5, <1>6, <1>7, <1>8, <1>9, <1>10

LEMMA PrefixOfText ==
  ASSUME NEW kind, NEW k, NEW len \in Nat, NEW n \in Nat
  PROVE  Prefix(Text(kind, k, len), n) = Text(kind, k, IF len < n THEN len ELSE n)
<1> DEFINE S == {<<kind, k>>}
           t == Text(kind, k, len)
           m == IF len < n THEN len ELSE n
           u == Text(kind, k, m)
<1>1. \A l \in Nat : /\ Text(kind, k, l) \in Seq(S) /\ Len(Text(kind, k, l)) = l
                     /\ \A j \in 1..l : Text(kind, k, l)[j] = <<kind, k>>
  BY DEF Text
<1>2. m \in Nat
  OBVIOUS
<1>3. /\ t \in Seq(S) /\ Len(t) = len /\ \A j \in 1..len : t[j] = <<kind, k>>
      /\ u \in Seq(S) /\ Len(u) = m /\ \A j \in 1..m : u[j] = <<kind, k>>
  BY <1>1, <1>2
<1> HIDE DEF S, t, u
<1>4. CASE len <= n
  <2>1. m = len
    BY <1>4
  <2> QED BY <1>3, <1>4, <2>1 DEF Prefix, t, u
<1>5. CASE len > n
  <2>1. m = n /\ n <= len
    BY <1>5
  <2>2. Prefix(t, n) = SubSeq(t, 1, n)
    BY <1>3, <1>5 DEF Prefix
  <2>3. \A j \in 1..n : t[j] \in S /\ t[j] = <<kind, k>>
    BY <1>3, <2>1 DEF S
  <2>4. /\ SubSeq(t, 1, n) \in Seq(S) /\ Len(SubSeq(t, 1, n)) = n
        /\ \A j \in 1..n : SubSeq(t, 1, n)[j] = t[j]
    BY <2>3, SubSeqProperties
  <2>5. SubSeq(t, 1, n) = u
    BY <1>3, <2>1, <2>3, <2>4, SeqEqual
  <2> QED BY <2>2, <2>5 DEF t, u
<1> QED BY <1>4, <1>5

LEMMA NtopOfText ==
  ASSUME NEW kind, NEW k, NEW len \in Nat
  PROVE  InetNtop(Text(kind, k, len)) = Text(kind, k, IF len < 28 THEN len ELSE 0)
<1> DEFINE S == {<<kind, k>>}
           t == Text(kind, k, len)
<1>1. \A l \in Nat : Text(kind, k, l) \in Seq(S) /\ Len(Text(kind, k, l)) = l
  BY DEF Text
<1>2. Len(t) = len
  BY <1>1
<1>3. CASE len < 28
  BY <1>2, <1>3 DEF InetNtop, SockaddrSize
<1>4. CASE ~ (len < 28)
  <2>1. InetNtop(t) = <<>>
    BY <1>2, <1>4 DEF InetNtop, SockaddrSize
  <2>2. Text(kind, k, 0) = <<>>
    BY <1>1, EmptySeq
  <2> QED BY <1>4, <2>1, <2>2
<1> QED BY <1>3, <1>4

\* sprintf() makes of what readpeer() has kept what the answer asks for, and the
\* tally code tells whether it is listed.
LEMMA PieceIsWanted ==
  ASSUME NEW k \in 1..MaxAssoc, NEW a \in Answers
  PROVE  /\ Piece(Made(k, a)) = Wanted(k, a)
         /\ Made(k, a).c = NotSelected <=> ~ Listed(a)
<1>1. CASE ~ a.ok
  <2>1. Made(k, a).c = Nul
    BY <1>1 DEF Made, Cleared
  <2>2. Nul # NotSelected
    BY DEF Nul, NotSelected
  <2> QED BY <1>1, <2>1, <2>2 DEF Piece, Wanted, Listed
<1>2. CASE a.ok
  <2> DEFINE p == PeerInfo(k, a)
             c == Flash[a.status + 1]
             head == <<<<"tally", c>>>>
             shown8 == IF a.peer.addr < 8 THEN a.peer.addr ELSE IF a.peer.addr < 28 THEN 8 ELSE 0
  <2>1. a.status \in 0..7 /\ a.peer.addr \in Nat
    BY <1>2, AnswerFields
  <2>2. c # Nul /\ (c = NotSelected <=> a.status = 0)
    <3>1. CASE a.status = 0
      <4>1. a.status + 1 = 1
        BY <3>1
      <4>2. c = NotSelected
        BY <4>1, CodesApart
      <4> QED BY <3>1, <4>2, MarksApart
    <3>2. CASE a.status # 0
      <4>1. a.status + 1 \in 2..8
        BY <2>1, <3>2
      <4>2. c \in Marks
        BY <4>1, CodesApart
      <4> HIDE DEF c
      <4> QED BY <3>2, <4>2, MarksApart
    <3> QED BY <3>1, <3>2
  <2>3. Made(k, a) = p
    BY <1>2 DEF Made
  <2>4. /\ p.c = c /\ p.srcadr = Text("address", k, a.peer.addr)
        /\ p.have_refid = IF a.peer.refid = Address THEN 2 ELSE IF a.peer.refid \in 1..4 THEN 1 ELSE 0
        /\ p.refid = IF a.peer.refid \in 1..4 THEN Text("refid", k, a.peer.refid) ELSE <<>>
    BY DEF PeerInfo
  <2> HIDE DEF p, c
  <2>5. Piece(p) = head \o IF p.have_refid = 2 THEN Prefix(InetNtop(p.srcadr), 8) ELSE Prefix(p.refid, 4)
    BY <2>2, <2>4 DEF Piece
  <2>6. Wanted(k, a) =
          head \o CASE a.peer.refid = Address -> Text("address", k, shown8)
                    [] a.peer.refid \in 1..4 -> Text("refid", k, a.peer.refid)
                    [] OTHER -> <<>>
    BY <1>2 DEF Wanted, c
  <2> HIDE DEF head
  <2>7. CASE a.peer.refid = Address
    <3>1. p.have_refid = 2
      BY <2>4, <2>7
    <3> DEFINE len == a.peer.addr
               m == IF len < 28 THEN len ELSE 0
    <3>a. len \in Nat /\ m \in Nat /\ (IF m < 8 THEN m ELSE 8) = shown8
      BY <2>1
    <3>b. p.srcadr = Text("address", k, len)
      BY <2>4
    <3>c. InetNtop(p.srcadr) = Text("address", k, m)
      <4> HIDE DEF len
      <4> QED BY <3>a, <3>b, NtopOfText
    <3> HIDE DEF len, m, shown8
    <3>2. Prefix(InetNtop(p.srcadr), 8) = Text("address", k, shown8)
      BY <3>a, <3>c, PrefixOfText
    <3>3. a.peer.refid \notin 1..4
      BY <2>7 DEF Address
    <3>4. Piece(p) = Wanted(k, a)
      BY <2>5, <2>6, <2>7, <3>1, <3>2, <3>3
    <3> QED BY <1>2, <2>2, <2>3, <2>4, <3>4 DEF Listed
  <2>8. CASE a.peer.refid # Address /\ a.peer.refid \in 1..4
    <3>1. p.have_refid # 2 /\ p.refid = Text("refid", k, a.peer.refid)
      BY <2>4, <2>8
    <3> DEFINE len == a.peer.refid
    <3>2. len \in Nat /\ (IF len < 4 THEN len ELSE 4) = len
      BY <2>8
    <3> HIDE DEF len
    <3>3. Prefix(Text("refid", k, len), 4) = Text("refid", k, len)
      BY <3>2, PrefixOfText
    <3>4. Piece(p) = Wanted(k, a)
      BY <2>5, <2>6, <2>8, <3>1, <3>3 DEF len
    <3> QED BY <1>2, <2>2, <2>3, <2>4, <3>4 DEF Listed
  <2>9. CASE a.peer.refid # Address /\ a.peer.refid \notin 1..4
    <3>1. p.have_refid # 2 /\ p.refid = <<>>
      BY <2>4, <2>9
    <3>2. Prefix(<<>>, 4) = <<>>
      BY EmptyRow DEF Prefix
    <3>3. Piece(p) = Wanted(k, a)
      BY <2>5, <2>6, <2>9, <3>1, <3>2
    <3> QED BY <1>2, <2>2, <2>3, <2>4, <3>3 DEF Listed
  <2> QED BY <2>7, <2>8, <2>9
<1> QED BY <1>1, <1>2

LEMMA MadeType == ASSUME NEW k \in 1..MaxAssoc, NEW a \in Answers PROVE Made(k, a) \in Infos
  BY PeerInfoType, ClearedType DEF Made

LEMMA AnswersFine ==
  ASSUME NEW as, NEW n \in 0..MaxAssoc, \A k \in 1..n : as[k] \in Answers
  PROVE  Fine(as, n)
<1> SUFFICES ASSUME NEW k \in 1..n
             PROVE /\ Wanted(k, as[k]) \in Seq(Characters)
                   /\ Len(Wanted(k, as[k])) \in 0..9
  BY DEF Fine
<1>1. k \in 1..MaxAssoc /\ as[k] \in Answers
  <2>1. n \in Nat /\ MaxAssoc \in Nat /\ n <= MaxAssoc
    BY MaxAssocAssumption
  <2>2. k \in 1..MaxAssoc
    BY <2>1
  <2> QED BY <2>2
<1> DEFINE w == Wanted(k, as[k])
<1>2. w \in Seq(Characters) /\ Len(w) <= 9
  BY <1>1, MadeType, PieceShort, PieceIsWanted
<1>3. Len(w) \in Nat
  BY <1>2, LenProperties
<1> HIDE DEF w
<1> DEFINE l == Len(w)
<1>4. l \in Nat /\ l <= 9
  BY <1>2, <1>3
<1> HIDE DEF l
<1>5. l \in 0..9
  BY <1>4
<1> QED BY <1>2, <1>5 DEF l, w

-----------------------------------------------------------------------------
LEMMA StretchKept ==
  ASSUME NEW S, NEW r \in Seq(S), NEW t \in Seq(S), NEW a \in Nat, NEW l \in Nat, a + l <= Len(r)
  PROVE  SubSeq(r \o t, a + 1, a + l) = SubSeq(r, a + 1, a + l)
<1>1. CASE l = 0
  <2>1. a + 1 \in Int /\ a + l \in Int /\ a + l < a + 1
    BY <1>1
  <2> QED BY <2>1, SubSeqEmpty
<1>2. CASE l > 0
  <2> DEFINE m == Len(r)
  <2>1. m \in Nat
    BY LenProperties
  <2> HIDE DEF m
  <2>2. a + l <= m
    BY DEF m
  <2>3. a + 1 \in 1..m /\ a + l \in 1..m
    BY <1>2, <2>1, <2>2
  <2> QED BY <2>3, SubSeqOfConcat1 DEF m
<1> QED BY <1>1, <1>2

LEMMA StretchAdded ==
  ASSUME NEW S, NEW r \in Seq(S), NEW t \in Seq(S)
  PROVE  SubSeq(r \o t, Len(r) + 1, Len(r) + Len(t)) = t
<1> DEFINE m == Len(r)
           l == Len(t)
<1>1. m \in Nat /\ l \in Nat
  BY LenProperties
<1>2. CASE l = 0
  <2>1. t = <<>>
    BY <1>2, EmptySeq
  <2>2. SubSeq(r \o t, m + 1, m + l) = <<>>
    <3> HIDE DEF m, l
    <3>1. m + 1 \in Int /\ m + l \in Int /\ m + l < m + 1
      BY <1>1, <1>2
    <3> QED BY <3>1, SubSeqEmpty
  <2> QED BY <2>1, <2>2
<1>3. CASE l > 0
  <2> HIDE DEF m, l
  <2>1. m + 1 \in m + 1 .. m + l /\ m + l \in m + 1 .. m + l
    BY <1>1, <1>3
  <2>2. SubSeq(r \o t, m + 1, m + l) = SubSeq(t, (m + 1) - m, (m + l) - m)
    BY <2>1, SubSeqOfConcat2 DEF m, l
  <2>3. (m + 1) - m = 1 /\ (m + l) - m = l
    BY <1>1
  <2>4. SubSeq(t, 1, l) = t
    BY SubSeqFull DEF l
  <2> QED BY <2>2, <2>3, <2>4 DEF m, l
<1> QED BY <1>1, <1>2, <1>3

-----------------------------------------------------------------------------
\* None of the first n associations is listed.
NoneListed(as, n) == \A k \in 1..n : ~ Listed(as[k])

\* The piece of association k stands at its place.
Stands(r, as, k) ==
  /\ SubSeq(r, Before(as, k) + 1, Before(as, k) + Len(Wanted(k, as[k]))) = Wanted(k, as[k])
  /\ Before(as, k) > 0 => r[Before(as, k)] = Blank

LEMMA JoinedParts ==
  ASSUME NEW r, NEW as, NEW n
  PROVE  Joined(r, as, n) <=>
           /\ Len(r) = IF NoneListed(as, n) THEN 0 ELSE Before(as, n + 1) - 1
           /\ \A k \in 1..n : Listed(as[k]) => Stands(r, as, k)
<1>1. {k \in 1..n : Listed(as[k])} = {} <=> NoneListed(as, n)
  BY DEF NoneListed
<1> QED BY <1>1 DEF Joined, Stands

LEMMA NothingBeforeListed ==
  ASSUME NEW as, NEW n \in Nat, NoneListed(as, n) PROVE Before(as, n + 1) = 0
<1>1. 1 .. (n + 1) - 1 = 1..n
  OBVIOUS
<1>2. Room(as, n + 1) = {}
  BY <1>1, RoomMember DEF NoneListed
<1> QED BY <1>2, FS_EmptySet DEF Room, Before

\* The piece of a listed association and its blank come before the next ones.
LEMMA PieceEndsBefore ==
  ASSUME NEW as, NEW n \in Nat, Fine(as, n), NEW k \in 1..n, Listed(as[k])
  PROVE  /\ Before(as, k) \in Nat /\ Before(as, n + 1) \in Nat
         /\ Before(as, k) + Len(Wanted(k, as[k])) + 1 <= Before(as, n + 1)
<1>1. k \in 1 .. n + 1 /\ n + 1 \in 1 .. n + 1 /\ k + 1 \in 1 .. n + 1 /\ n + 1 \in k + 1 .. n + 1
  OBVIOUS
<1>2. Before(as, k) \in Nat /\ Before(as, n + 1) \in Nat
  BY <1>1, RoomFinite
<1>3. Before(as, k + 1) = Before(as, k) + (Len(Wanted(k, as[k])) + 1)
  BY BeforeNext
<1>4. Before(as, k + 1) <= Before(as, n + 1)
  BY <1>1, BeforeGrows
<1>5. Len(Wanted(k, as[k])) \in 0..9
  BY DEF Fine
<1> DEFINE b == Before(as, k)
           e == Before(as, n + 1)
           l == Len(Wanted(k, as[k]))
<1>6. b \in Nat /\ e \in Nat /\ l \in 0..9 /\ b + (l + 1) <= e
  BY <1>2, <1>3, <1>4, <1>5
<1> HIDE DEF b, e, l
<1>7. b + l + 1 <= e
  BY <1>6
<1> QED BY <1>2, <1>7 DEF b, e, l

-----------------------------------------------------------------------------
LEMMA FineFirst ==
  ASSUME NEW as, NEW n \in Nat, Fine(as, n + 1) PROVE Fine(as, n) /\ n + 1 \in 1 .. n + 1
<1>1. \A k \in 1..n : k \in 1 .. n + 1
  OBVIOUS
<1>2. n + 1 \in 1 .. n + 1
  OBVIOUS
<1> QED BY <1>1, <1>2 DEF Fine

\* An association that is passed over leaves the row as it should be.
LEMMA JoinedSkips ==
  ASSUME NEW r, NEW as, NEW n \in Nat, Fine(as, n + 1), Joined(r, as, n), ~ Listed(as[n + 1])
  PROVE  Joined(r, as, n + 1)
<1>1. \A k \in 1 .. n + 1 : k = n + 1 \/ k \in 1..n
  OBVIOUS
<1>2. \A k \in 1..n : k \in 1 .. n + 1
  OBVIOUS
<1>3. NoneListed(as, n + 1) <=> NoneListed(as, n)
  BY <1>1, <1>2 DEF NoneListed
<1>4. Before(as, (n + 1) + 1) = Before(as, n + 1)
  <2>1. n + 1 \in Nat /\ n + 1 \in 1 .. n + 1
    OBVIOUS
  <2>2. Before(as, (n + 1) + 1) = Before(as, n + 1) + 0
    BY <2>1, BeforeNext
  <2> DEFINE b == Before(as, n + 1)
  <2>3. b \in Nat
    <3>1. n + 1 \in 1 .. (n + 1) + 1
      OBVIOUS
    <3> QED BY <2>1, <3>1, RoomFinite
  <2> HIDE DEF b
  <2>4. b + 0 = b
    BY <2>3
  <2> QED BY <2>2, <2>4 DEF b
<1>5. /\ Len(r) = IF NoneListed(as, n) THEN 0 ELSE Before(as, n + 1) - 1
      /\ \A k \in 1..n : Listed(as[k]) => Stands(r, as, k)
  BY JoinedParts
<1>6. \A k \in 1 .. n + 1 : Listed(as[k]) => Stands(r, as, k)
  BY <1>1, <1>5
<1> QED BY <1>3, <1>4, <1>5, <1>6, JoinedParts

\* A piece put behind the row, with a blank before it unless it is the first,
\* makes the row that is due with one association more.
LEMMA JoinedGrows ==
  ASSUME NEW r \in Seq(Characters), NEW as, NEW n \in Nat, Fine(as, n + 1), Joined(r, as, n),
         Listed(as[n + 1]),
         NEW sep, sep = IF NoneListed(as, n) THEN <<>> ELSE <<Blank>>
  PROVE  Joined((r \o sep) \o Wanted(n + 1, as[n + 1]), as, n + 1)
<1> DEFINE w == Wanted(n + 1, as[n + 1])
           b == Before(as, n + 1)
           l == Len(w)
           q == (r \o sep) \o w
<1>1. n + 1 \in Nat /\ n + 1 \in 1 .. n + 1 /\ n + 1 \in 1 .. (n + 1) + 1
  OBVIOUS
<1>2. w \in Seq(Characters) /\ l \in 0..9
  BY <1>1 DEF Fine
<1>3. b \in Nat /\ Before(as, (n + 1) + 1) = b + (l + 1)
  BY <1>1, RoomFinite, BeforeNext
<1>4. /\ Len(r) = IF NoneListed(as, n) THEN 0 ELSE b - 1
      /\ \A k \in 1..n : Listed(as[k]) => Stands(r, as, k)
  BY JoinedParts
<1>5. ~ NoneListed(as, n + 1)
  BY <1>1 DEF NoneListed
<1>6. \A k \in 1 .. n + 1 : k = n + 1 \/ k \in 1..n
  OBVIOUS
<1>7. CASE NoneListed(as, n)
  <2>1. r = <<>> /\ sep = <<>>
    BY <1>4, <1>7, EmptySeq
  <2>2. q = w
    <3>1. r \o sep = <<>>
      BY <2>1, EmptyRow, ConcatEmptySeq
    <3> QED BY <1>2, <3>1, ConcatEmptySeq
  <2>3. b = 0
    BY <1>7, NothingBeforeListed
  <2> HIDE DEF q, w, l, b
  <2>4. l = (0 + (l + 1)) - 1
    BY <1>2
  <2>5. Len(q) = Before(as, (n + 1) + 1) - 1
    BY <1>3, <2>2, <2>3, <2>4 DEF l
  <2>6. SubSeq(q, 0 + 1, 0 + l) = w
    <3>1. 0 + 1 = 1 /\ 0 + l = l
      BY <1>2
    <3> QED BY <1>2, <2>2, <3>1, SubSeqFull DEF l
  <2>7. Stands(q, as, n + 1)
    <3>1. SubSeq(q, b + 1, b + l) = w /\ ~ (b > 0)
      BY <2>3, <2>6
    <3> QED BY <3>1 DEF Stands, b, l, w
  <2>8. \A k \in 1 .. n + 1 : Listed(as[k]) => Stands(q, as, k)
    BY <1>6, <1>7, <2>7 DEF NoneListed
  <2>9. Joined(q, as, n + 1)
    BY <1>5, <2>5, <2>8, JoinedParts
  <2> QED BY <2>9 DEF q, w
<1>8. CASE ~ NoneListed(as, n)
  <2> DEFINE u == r \o sep
             t == sep \o w
             m == Len(r)
  <2>1. sep = <<Blank>> /\ sep \in Seq(Characters) /\ Len(sep) = 1
    <3>1. Blank \in Characters
      BY DEF Characters
    <3> QED BY <1>8, <3>1
  <2> HIDE DEF w, l, b
  <2>2. /\ u \in Seq(Characters) /\ Len(u) = m + 1
        /\ \A j \in 1 .. m + 1 : u[j] = IF j <= m THEN r[j] ELSE sep[j - m]
    BY <2>1, ConcatProperties
  <2>t. t \in Seq(Characters)
    BY <1>2, <2>1, ConcatProperties
  <2>q. q = r \o t
    <3>1. sep \in Seq(Characters) /\ w \in Seq(Characters)
      BY <1>2, <2>1
    <3>2. (r \o sep) \o w = r \o (sep \o w)
      BY ONLY <3>1, r \in Seq(Characters), ConcatAssociative
    <3> QED BY <3>2
  <2>c. /\ Len(q) = Len(u) + Len(w)
        /\ \A j \in 1 .. Len(u) + Len(w) : q[j] = IF j <= Len(u) THEN u[j] ELSE w[j - Len(u)]
        /\ SubSeq(q, Len(u) + 1, Len(u) + Len(w)) = w
    <3> HIDE DEF u
    <3>1. q = u \o w
      BY DEF u
    <3> HIDE DEF q
    <3> QED BY <1>2, <2>2, <3>1, ConcatProperties, StretchAdded
  <2>m. m \in Nat /\ m = b - 1
    BY <1>4, <1>8, LenProperties
  <2> HIDE DEF m, t, q, u
  <2>3. b = m + 1 /\ b >= 1
    BY <1>3, <2>m
  <2>4. u[b] = Blank
    <3>1. b \in 1 .. m + 1 /\ ~ (b <= m) /\ b - m = 1
      BY <2>m, <2>3
    <3>2. u[b] = sep[1]
      BY <2>2, <3>1
    <3> QED BY <2>1, <3>2
  <2>5. /\ SubSeq(q, b + 1, b + l) = w
        /\ Len(q) = b + l
        /\ \A j \in 1..b : q[j] = u[j]
    <3>1. Len(u) = b /\ Len(w) = l
      BY <2>2, <2>3 DEF l
    <3>2. \A j \in 1..b : j \in 1 .. b + l /\ j <= b
      BY <1>2, <1>3
    <3> QED BY <2>c, <3>1, <3>2
  <2>8. Stands(q, as, n + 1)
    <3>1. b \in 1..b
      BY <1>3, <2>3
    <3>2. q[b] = Blank
      BY <2>4, <2>5, <3>1
    <3> QED BY <2>5, <3>2 DEF Stands, b, l, w
  <2>9. ASSUME NEW k \in 1..n, Listed(as[k]) PROVE Stands(q, as, k)
    <3> DEFINE a == Before(as, k)
               h == Len(Wanted(k, as[k]))
    <3>1. Stands(r, as, k)
      BY <1>4, <2>9
    <3>2. Fine(as, n)
      BY FineFirst
    <3>3. a \in Nat /\ a + h + 1 <= b
      BY <2>9, <3>2, PieceEndsBefore DEF b
    <3>4. h \in 0..9
      BY <3>2 DEF Fine
    <3> HIDE DEF a, h
    <3>5. h \in Nat /\ a + h <= m /\ a <= m
      BY <1>3, <2>m, <2>3, <3>3, <3>4
    <3>6. SubSeq(q, a + 1, a + h) = SubSeq(r, a + 1, a + h)
      <4> QED BY <2>t, <2>q, <3>3, <3>5, StretchKept DEF m
    <3>7. a > 0 => q[a] = r[a]
      <4> HAVE a > 0
      <4>1. a \in 1 .. m + 1 /\ a <= m /\ a \in 1..b
        BY <1>3, <2>m, <2>3, <3>3, <3>5
      <4> QED BY <2>2, <2>5, <4>1
    <3> QED BY <3>1, <3>6, <3>7 DEF Stands, a, h
  <2>10. Len(q) = Before(as, (n + 1) + 1) - 1
    <3>1. b + l = (b + (l + 1)) - 1
      BY <1>2, <1>3
    <3> QED BY <1>3, <2>5, <3>1
  <2>11. \A k \in 1 .. n + 1 : Listed(as[k]) => Stands(q, as, k)
    <3> QED BY <1>6, <2>8, <2>9
  <2>12. Joined(q, as, n + 1)
    BY <1>5, <2>10, <2>11, JoinedParts
  <2> QED BY <2>12 DEF q, w
<1> QED BY <1>7, <1>8

\* An answer more changes nothing of what the row says of the ones before.
LEMMA JoinedOfSame ==
  ASSUME NEW r, NEW as, NEW bs, NEW n \in Nat, \A k \in 1..n : bs[k] = as[k], Joined(r, as, n)
  PROVE  Joined(r, bs, n)
<1>1. ASSUME NEW k \in 1 .. n + 1 PROVE Before(bs, k) = Before(as, k)
  <2>1. \A j \in 1 .. k - 1 : j \in 1..n
    OBVIOUS
  <2> QED BY <2>1, BeforeOfSame
<1>2. n + 1 \in 1 .. n + 1 /\ \A k \in 1..n : k \in 1 .. n + 1
  OBVIOUS
<1>3. NoneListed(bs, n) <=> NoneListed(as, n)
  BY DEF NoneListed
<1>4. /\ Len(r) = IF NoneListed(as, n) THEN 0 ELSE Before(as, n + 1) - 1
      /\ \A k \in 1..n : Listed(as[k]) => Stands(r, as, k)
  BY JoinedParts
<1>5. ASSUME NEW k \in 1..n, Listed(bs[k]) PROVE Stands(r, bs, k)
  <2>1. bs[k] = as[k] /\ Before(bs, k) = Before(as, k)
    BY <1>1, <1>2
  <2>2. Stands(r, as, k)
    BY <1>4, <1>5, <2>1
  <2> QED BY <2>1, <2>2 DEF Stands
<1>6. Before(bs, n + 1) = Before(as, n + 1)
  BY <1>1, <1>2
<1> QED BY <1>3, <1>4, <1>5, <1>6, JoinedParts

-----------------------------------------------------------------------------
\* Between two associations the row is the one due with those before; peerinfo
\* is what the last answer makes of it.
JoinAgrees ==
  /\ answers \in Seq(Answers)
  /\ Len(answers) = IF next = "read" THEN i - 1 ELSE i
  /\ next = "append" => info = Made(i, answers[i])
  /\ isfirst = 0 <=> NoneListed(answers, i - 1)
  /\ Joined(row, answers, i - 1)

LEMMA NothingJoined == \A as : NoneListed(as, 0) /\ Joined(<<>>, as, 0)
<1> SUFFICES ASSUME NEW as PROVE NoneListed(as, 0) /\ Joined(<<>>, as, 0)
  OBVIOUS
<1>1. 1..0 = {}
  OBVIOUS
<1>2. NoneListed(as, 0)
  BY <1>1 DEF NoneListed
<1>3. Len(<<>>) = 0
  BY EmptyRow
<1> DEFINE r == <<>>
           z == 0
<1> HIDE DEF r, z
<1>4. Len(r) = IF NoneListed(as, z) THEN 0 ELSE Before(as, z + 1) - 1
  BY <1>2, <1>3 DEF r, z
<1>5. \A k \in 1..z : Listed(as[k]) => Stands(r, as, k)
  BY <1>1 DEF z
<1>6. Joined(r, as, z)
  BY <1>4, <1>5, JoinedParts
<1> QED BY <1>2, <1>6 DEF r, z

LEMMA InitJoins == Init => JoinAgrees
<1> SUFFICES ASSUME Init PROVE JoinAgrees
  OBVIOUS
<1>1. <<>> \in Seq(Answers) /\ Len(<<>>) = 0
  OBVIOUS
<1>2. 1 - 1 = 0
  OBVIOUS
<1> QED BY <1>1, <1>2, NothingJoined DEF Init, JoinAgrees

LEMMA NextKeepsJoinAgrees == IInv /\ JoinAgrees /\ [Next]_vars => JoinAgrees'
<1> SUFFICES ASSUME IInv, JoinAgrees, [Next]_vars PROVE JoinAgrees'
  OBVIOUS
<1> DEFINE n == i - 1
<1>1. n \in Nat /\ n + 1 = i /\ i \in Nat /\ (i + 1) - 1 = i
  BY DEF IInv, TypeOK
<1>2. row \in Seq(Characters)
  BY DEF IInv, TypeOK
<1>3. CASE UNCHANGED vars
  BY <1>3 DEF vars, JoinAgrees
<1>4. CASE BeginPass
  <2>1. <<>> \in Seq(Answers) /\ Len(<<>>) = 0
    OBVIOUS
  <2>2. 1 - 1 = 0
    OBVIOUS
  <2> QED BY <1>4, <2>1, <2>2, NothingJoined DEF BeginPass, JoinAgrees
<1>5. CASE ReadPeer
  <2>1. PICK a \in Answers : info' = Made(i, a) /\ answers' = Append(answers, a)
    BY <1>5 DEF ReadPeer, Made
  <2>2. answers \in Seq(Answers) /\ Len(answers) = n
    BY <1>5 DEF ReadPeer, JoinAgrees
  <2> HIDE DEF n
  <2>3. /\ answers' \in Seq(Answers) /\ Len(answers') = i
        /\ answers'[i] = a /\ \A k \in 1..n : answers'[k] = answers[k]
    BY <1>1, <2>1, <2>2, AppendProperties
  <2>4. Joined(row, answers, n) /\ (isfirst = 0 <=> NoneListed(answers, n))
    BY DEF JoinAgrees, n
  <2>5. Joined(row, answers', n)
    BY <1>1, <2>3, <2>4, JoinedOfSame
  <2>6. NoneListed(answers', n) <=> NoneListed(answers, n)
    BY <2>3 DEF NoneListed
  <2>7. next' = "append" /\ UNCHANGED <<i, isfirst, row>>
    BY <1>5 DEF ReadPeer
  <2>8. /\ Joined(row', answers', i' - 1)
        /\ isfirst' = 0 <=> NoneListed(answers', i' - 1)
    BY <2>4, <2>5, <2>6, <2>7 DEF n
  <2> QED BY <2>1, <2>3, <2>7, <2>8 DEF JoinAgrees
<1>6. ASSUME next = "append"
      PROVE  /\ answers \in Seq(Answers) /\ Len(answers) = i
             /\ Fine(answers, n + 1)
             /\ Piece(info) = Wanted(i, answers[i])
             /\ info.c = NotSelected <=> ~ Listed(answers[i])
             /\ info.c = NotSelected => (NoneListed(answers, i) <=> NoneListed(answers, n))
             /\ info.c # NotSelected => ~ NoneListed(answers, i)
  <2>1. answers \in Seq(Answers) /\ Len(answers) = i /\ info = Made(i, answers[i])
    BY <1>6 DEF JoinAgrees
  <2>2. i \in 1..i /\ i \in 1..MaxAssoc /\ i \in 0..MaxAssoc
    BY <1>6, MaxAssocAssumption DEF IInv, TypeOK, IndexAgrees
  <2>3. \A k \in 1..i : answers[k] \in Answers
    BY <2>1, LenProperties
  <2>4. Fine(answers, n + 1)
    BY <1>1, <2>2, <2>3, AnswersFine
  <2>5. /\ Piece(info) = Wanted(i, answers[i])
        /\ info.c = NotSelected <=> ~ Listed(answers[i])
    BY <2>1, <2>2, <2>3, PieceIsWanted
  <2>6. (\A k \in 1..i : k = i \/ k \in 1..n) /\ \A k \in 1..n : k \in 1..i
    BY <1>1
  <2> QED BY <2>1, <2>2, <2>4, <2>5, <2>6 DEF NoneListed
<1>7. CASE SkipPeer
  <2>1. next = "append" /\ info.c = NotSelected /\ next' = "read" /\ i' = i + 1
        /\ UNCHANGED <<isfirst, row, answers>>
    BY <1>7 DEF SkipPeer
  <2>2. Joined(row, answers, n) /\ (isfirst = 0 <=> NoneListed(answers, n))
    BY DEF JoinAgrees
  <2> HIDE DEF n
  <2>3. Joined(row, answers, i)
    BY <1>1, <1>6, <2>1, <2>2, JoinedSkips
  <2>4. i' - 1 = i
    BY <1>1, <2>1
  <2> QED BY <1>6, <2>1, <2>2, <2>3, <2>4 DEF JoinAgrees
<1>8. CASE AppendPeer
  <2> DEFINE sep == IF isfirst = 0 THEN <<>> ELSE <<Blank>>
  <2>1. /\ next = "append" /\ info.c # NotSelected /\ next' = "read" /\ i' = i + 1
        /\ isfirst' = 1 /\ row' = (row \o sep) \o Piece(info) /\ UNCHANGED answers
    BY <1>8 DEF AppendPeer
  <2>2. Joined(row, answers, n) /\ (isfirst = 0 <=> NoneListed(answers, n))
    BY DEF JoinAgrees
  <2>3. sep = IF NoneListed(answers, n) THEN <<>> ELSE <<Blank>>
    BY <2>2
  <2> HIDE DEF n, sep
  <2>4. Joined((row \o sep) \o Wanted(n + 1, answers[n + 1]), answers, n + 1)
    BY <1>1, <1>2, <1>6, <2>1, <2>2, <2>3, JoinedGrows
  <2>5. Joined(row', answers, i)
    BY <1>1, <1>6, <2>1, <2>4
  <2>6. i' - 1 = i
    BY <1>1, <2>1
  <2> QED BY <1>6, <2>1, <2>5, <2>6 DEF JoinAgrees
<1> QED BY <1>3, <1>4, <1>5, <1>7, <1>8 DEF Next

\* The finished row lists the selected peers of this pass in ntpd's order, one
\* blank between two of them, each with the data of its own answer, however many
\* associations there are and whichever of them cannot be read.
THEOREM RowIsJoinHolds == Spec => []RowIsJoin
<1>1. IInv /\ JoinAgrees => RowIsJoin
  <2> SUFFICES ASSUME IInv, JoinAgrees, i > numassoc PROVE Joined(row, answers, numassoc)
    BY DEF RowIsJoin
  <2>1. i - 1 = numassoc
    BY MaxAssocAssumption DEF IInv, TypeOK, IndexAgrees
  <2> QED BY <2>1 DEF JoinAgrees
<1> QED BY <1>1, IInvHolds, InitJoins, NextKeepsJoinAgrees, PTL DEF Spec

-----------------------------------------------------------------------------
\* The counter is where the last packet and the time since then put it.
CounterAgrees == rec # 0 => now = Unsigned(rec + elapsed)

\* The inductive invariant.
TimesIInv == TimesTypeOK /\ CounterAgrees

LEMMA InitEstablishesTimesIInv == TimesInit => TimesIInv
  BY HalfAssumption, StartAssumption
  DEF TimesInit, TimesIInv, TimesTypeOK, CounterAgrees, Words, Word, Unsigned

LEMMA ClockKeepsTimesIInv == TimesIInv /\ [Clock]_timesVars => TimesIInv'
<1> SUFFICES ASSUME TimesIInv, [Clock]_timesVars PROVE TimesIInv'
  OBVIOUS
<1> USE HalfAssumption DEF TimesIInv, TimesTypeOK, CounterAgrees, Words, Word, Unsigned
<1>1. CASE UNCHANGED timesVars
  BY <1>1 DEF timesVars
<1>2. CASE Clock
  <2>1. PICK gap \in -Half .. Half - 1 :
          /\ elapsed' = gap
          /\ now' = Unsigned(now + (gap - elapsed))
          /\ UNCHANGED <<rec, reftime>>
    BY <1>2, GapsAssumption DEF Clock
  <2> QED BY <2>1
<1> QED BY <1>1, <1>2 DEF Clock

\* A peer's times stay in the inductive invariant.
THEOREM TimesIInvHolds == TimesSpec => []TimesIInv
  BY InitEstablishesTimesIInv, ClockKeepsTimesIInv, PTL DEF TimesSpec

\* Type correctness of the counters.
THEOREM TimesTypeCorrect == TimesSpec => []TimesTypeOK
<1>1. TimesIInv => TimesTypeOK  BY DEF TimesIInv
<1> QED BY <1>1, TimesIInvHolds, PTL

-----------------------------------------------------------------------------
\* Reading the unsigned difference of two counters as a signed word gives the
\* interval between them, through wrap-around and a clock set back.
LEMMA DifferenceIsInterval ==
  ASSUME NEW n \in Words, NEW r \in Words, NEW ref, NEW gap \in -Half .. Half - 1,
         r # 0, n = Unsigned(r + gap)
  PROVE  When(n, r, ref) = gap
  BY HalfAssumption DEF Words, Word, Unsigned, Signed, When

LEMMA TimesIInvGivesWhen == TimesIInv /\ rec # 0 => When(now, rec, reftime) = elapsed
  BY DifferenceIsInterval DEF TimesIInv, TimesTypeOK, CounterAgrees

\* "when" shows the time since the last packet, for words of every width.
THEOREM WhenIsElapsedHolds == TimesSpec => []WhenIsElapsed
<1>1. TimesIInv => WhenIsElapsed
  BY TimesIInvGivesWhen DEF WhenIsElapsed
<1> QED BY <1>1, TimesIInvHolds, PTL

-----------------------------------------------------------------------------
\* Rounding to sixties is off by at most half of one.
LEMMA SixtiesAreClose ==
  ASSUME NEW x \in Nat
  PROVE  /\ (x + 29) \div 60 \in Nat
         /\ Within(60 * ((x + 29) \div 60) - x, 30)
  BY Z3 DEF Within

LEMMA DaysAreClose ==
  ASSUME NEW x \in Nat
  PROVE  /\ (x + 11) \div 24 \in Nat
         /\ Within(24 * ((x + 11) \div 24) - x, 12)
  BY Z3 DEF Within

\* The slack adds up over the units.
LEMMA SlackAddsUp ==
  ASSUME NEW d \in Int, NEW m \in Int, NEW h \in Int, NEW y \in Int,
         Within(60 * m - d, 30), Within(60 * h - m, 30), Within(24 * y - h, 12)
  PROVE  /\ Within(m * 60 - d, 30)
         /\ Within(h * 3600 - d, 1830)
         /\ Within(y * 86400 - d, 45030)
  BY DEF Within

\* The text of an interval is off by at most half of its unit and what the
\* units below have added.
LEMMA PrettyIsClose ==
  ASSUME NEW d \in Nat \ {0}
  PROVE  Within(Pretty(d).n * Pretty(d).unit - d, Slack(Pretty(d).unit))
<1> DEFINE m == (d + 29) \div 60
           h == (m + 29) \div 60
           y == (h + 11) \div 24
<1>1. m \in Nat /\ Within(60 * m - d, 30)
  BY SixtiesAreClose
<1>2. h \in Nat /\ Within(60 * h - m, 30)
  BY <1>1, SixtiesAreClose
<1>3. y \in Nat /\ Within(24 * y - h, 12)
  BY <1>2, DaysAreClose
<1>4. Pretty(d) = Chosen(d, m, h, y)
  BY DEF Pretty
<1> HIDE DEF m, h, y
<1>5. Within(d * 1 - d, 0) /\ Within(m * 60 - d, 30) /\ Within(h * 3600 - d, 1830)
      /\ Within(y * 86400 - d, 45030)
  BY <1>1, <1>2, <1>3, SlackAddsUp DEF Within
<1>6. Slack(1) = 0 /\ Slack(60) = 30 /\ Slack(3600) = 1830 /\ Slack(86400) = 45030
  BY DEF Slack
<1>7. Pretty(d) \in {[n |-> d, unit |-> 1], [n |-> m, unit |-> 60],
                     [n |-> h, unit |-> 3600], [n |-> y, unit |-> 86400]}
  BY <1>1, <1>2, <1>4 DEF Chosen
<1> QED BY <1>5, <1>6, <1>7

\* What the "when" column shows is close to the time since the last packet.
THEOREM ShownIsCloseHolds == TimesSpec => []ShownIsClose
<1>1. TimesIInv => ShownIsClose
  <2> SUFFICES ASSUME TimesIInv, rec # 0, elapsed \in 1 .. Half - 30
               PROVE  Within(Shown.n * Shown.unit - elapsed, Slack(Shown.unit))
    BY DEF ShownIsClose
  <2>1. Shown = Pretty(elapsed)
    BY TimesIInvGivesWhen DEF Shown
  <2>2. elapsed \in Nat \ {0}
    BY HalfAssumption
  <2> QED BY <2>1, <2>2, PrettyIsClose
<1> QED BY <1>1, TimesIInvHolds, PTL

-----------------------------------------------------------------------------
\* A longer interval never has a text before that of a shorter one.
LEMMA PrettyGrows ==
  ASSUME NEW d \in Nat \ {0}, NEW e \in Nat, d < e
  PROVE  NotBefore(Pretty(d), Pretty(e))
<1> DEFINE M(x) == (x + 29) \div 60
           Y(x) == (x + 11) \div 24
<1>1. \A a, b \in Nat : a <= b => M(a) \in Nat /\ M(b) \in Nat /\ M(a) <= M(b)
  BY Z3
<1>2. \A a, b \in Nat : a <= b => Y(a) \in Nat /\ Y(b) \in Nat /\ Y(a) <= Y(b)
  BY Z3
<1>3. M(d) \in Nat /\ M(e) \in Nat /\ M(d) <= M(e)
  BY <1>1
<1>4. M(M(d)) \in Nat /\ M(M(e)) \in Nat /\ M(M(d)) <= M(M(e))
  BY <1>1, <1>3
<1>5. Y(M(M(d))) \in Nat /\ Y(M(M(e))) \in Nat /\ Y(M(M(d))) <= Y(M(M(e)))
  BY <1>2, <1>4
<1>6. \A x : Pretty(x) = Chosen(x, M(x), M(M(x)), Y(M(M(x))))
  BY DEF Pretty
<1> HIDE DEF M, Y
<1> QED BY <1>3, <1>4, <1>5, <1>6 DEF NotBefore, Chosen

\* The "when" column never goes back while no packet comes.
THEOREM ShownGrowsHolds == TimesSpec => ShownGrows
<1>1. TimesIInv /\ TimesIInv' /\ [Clock]_timesVars =>
        [rec # 0 /\ 0 < elapsed /\ elapsed < elapsed' /\ elapsed' <= Half - 30
           => NotBefore(Shown, Shown')]_timesVars
  <2> SUFFICES ASSUME TimesIInv, TimesIInv', Clock, rec # 0, 0 < elapsed, elapsed < elapsed'
               PROVE  NotBefore(Shown, Shown')
    OBVIOUS
  <2>1. Shown = Pretty(elapsed)
    BY TimesIInvGivesWhen DEF Shown
  <2>2. rec' # 0
    BY DEF Clock
  <2>3. Shown' = Pretty(elapsed')
    <3>1. When(now, rec, reftime)' = elapsed'
      BY <2>2, DifferenceIsInterval DEF TimesIInv, TimesTypeOK, CounterAgrees
    <3> QED BY <3>1 DEF Shown
  <2>4. elapsed \in Nat \ {0} /\ elapsed' \in Nat
    BY HalfAssumption DEF TimesIInv, TimesTypeOK
  <2> QED BY <2>1, <2>3, <2>4, PrettyGrows
<1> QED BY <1>1, TimesIInvHolds, PTL DEF ShownGrows, TimesSpec
=============================================================================
