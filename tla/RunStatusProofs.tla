-------------------------- MODULE RunStatusProofs --------------------------
(***************************************************************************)
(* Proofs about RunStatus for any number of signals: they are repeated, and*)
(* come on either thread, between any two accesses of an operation.        *)
(*                                                                         *)
(* Each thread has a stack of operations, a handler's above the one it has *)
(* interrupted, and the nesting count that an operation reads is made by   *)
(* those below it.  The invariant says at each place of each operation of  *)
(* the stack how its local count, and the mutexes in its hand, agree with  *)
(* the operations below.                                                   *)
(***************************************************************************)
EXTENDS RunStatus, FiniteSetTheorems, SequenceTheorems, TLAPS

\* The operation's lock() has stored its count, its unlock() has not yet.
Counted(f) == f.call \in {"body", "unlock"}

\* How many of the operations below the j-th are counted.
Base(s, j) == Cardinality({k \in 1 .. j - 1 : Counted(s[k])})

\* An operation that has the map's mutex in hand, and one that waits for it, or
\* may, with nothing in hand.
HoldsMap(f) == f.part \in {"get", "set"}
AtMap(f) == f.call = "lock" /\ f.part = "getEnter"

\* An operation that has not passed m_lock.lock() yet, and one that has passed it
\* and not given it back.
BeforeMutex(f) == f.call = "lock" /\ f.part \in {"getEnter", "get", "mutex"}
PastMutex(f) == \/ f.call = "lock" /\ f.part \in {"setEnter", "set"}
                \/ f.call = "body"
                \/ f.call = "unlock" /\ f.part \in {"getEnter", "get", "mutex"}

\* Of them only the one that found the count 0 has taken the mutex.
HasMutex(s, k) == Base(s, k) = 0 /\ PastMutex(s[k])

\* The local count of an operation above b counted ones.
FrameOK(f, b) ==
  /\ f.op = "getifset" => f.by # NoSignal
  /\ f.by # NoSignal => f.op = "getifset"
  /\ f.call = "body" => f.part \in {"load", "store"}
  /\ f.part \in {"load", "store"} => f.call = "body"
  /\ f.call = "lock" /\ f.part = "mutex" => f.locked = b
  /\ f.call = "lock" /\ f.part \in {"setEnter", "set"} => f.locked = b + 1
  /\ f.call = "unlock" /\ f.part = "mutex" => f.locked = b + 1
  /\ f.call = "unlock" /\ f.part \in {"setEnter", "set"} => f.locked = b

\* A stack: one handler of a signal at most, the main thread's own operation at
\* the bottom.  Above an operation that has a mutex in hand and that the count
\* does not show, no other gets past that mutex.
StackOK(s) ==
  /\ s \in Seq(Frames)
  /\ \A k \in 1 .. Len(s) : FrameOK(s[k], Base(s, k))
  /\ \A j, k \in 1 .. Len(s) : s[j].by = s[k].by => j = k
  /\ \A k \in 1 .. Len(s) : s[k].by = NoSignal => k = 1
  /\ \A j, k \in 1 .. Len(s) : j < k /\ HoldsMap(s[j]) => AtMap(s[k])
  /\ \A j, k \in 1 .. Len(s) : j < k /\ HasMutex(s, j) /\ ~ Counted(s[j]) => BeforeMutex(s[k])

StacksOK == stack \in [Threads -> Seq(Frames)] /\ \A t \in Threads : StackOK(stack[t])

\* The map's mutex, m_lock and the nesting counts are those of the stacks.
MapAgrees ==
  \A t \in Threads : maplock = t <=> \E k \in 1 .. Len(stack[t]) : HoldsMap(stack[t][k])

MutexAgrees ==
  \A t \in Threads : mlock = t <=> \E k \in 1 .. Len(stack[t]) : HasMutex(stack[t], k)

CountAgrees == \A t \in Threads : tinfo[t] = Base(stack[t], Len(stack[t]) + 1)

\* Unless a signal was caught, no operation that has been interrupted has a mutex
\* in hand that the count does not show.
InHand(s, k) == HoldsMap(s[k]) \/ (HasMutex(s, k) /\ ~ Counted(s[k]))

NothingInHand ==
  ~ caught => \A t \in Threads : \A k \in 1 .. Len(stack[t]) - 1 : ~ InHand(stack[t], k)

\* Which operations there are at each place of the main thread, what the status
\* is there, and that a value read is never above the status.
StatusAgrees ==
  /\ pc \in {"starting", "installed", "killed"} => status = 0
  /\ pc \in {"looping", "polling", "returned"} => status # 0
  /\ pc = "assigning" =>
       /\ Len(stack["main"]) > 0
       /\ stack["main"][1].op = "assign"
       /\ stack["main"][1].call = "unlock" <=> status # 0
  /\ \A t \in Threads : \A k \in 1 .. Len(stack[t]) :
       /\ stack[t][k].old <= status
       /\ stack[t][k].by = NoSignal => t = "main"
       /\ stack[t][k].op = "assign" => pc = "assigning"
       /\ stack[t][k].op = "get" => pc = "polling"
  /\ Len(stack["worker"]) > 0 => pc \in {"looping", "polling", "returned"}

\* The inductive invariant.
IInv == /\ TypeOK
        /\ StacksOK
        /\ MapAgrees
        /\ MutexAgrees
        /\ CountAgrees
        /\ NothingInHand
        /\ StatusAgrees

-----------------------------------------------------------------------------
LEMMA BelowIsFinite ==
  ASSUME NEW s, NEW j \in Nat \ {0}
  PROVE  /\ IsFiniteSet({k \in 1 .. j - 1 : Counted(s[k])})
         /\ Base(s, j) \in Nat
         /\ Base(s, j) <= j - 1
<1> DEFINE S == {k \in 1 .. j - 1 : Counted(s[k])}
<1>1. IsFiniteSet(1 .. j - 1) /\ Cardinality(1 .. j - 1) = j - 1
  BY FS_Interval
<1>2. S \subseteq 1 .. j - 1
  OBVIOUS
<1> HIDE DEF S
<1>3. IsFiniteSet(S) /\ Cardinality(S) <= j - 1
  BY <1>1, <1>2, FS_Subset
<1>4. Cardinality(S) \in Nat
  BY <1>3, FS_CardinalityType
<1> QED BY <1>3, <1>4 DEF Base, S

LEMMA BaseOfFirst == \A s : Base(s, 1) = 0
<1> SUFFICES ASSUME NEW s PROVE Base(s, 1) = 0
  OBVIOUS
<1>1. {k \in 1 .. 1 - 1 : Counted(s[k])} = {}
  OBVIOUS
<1> QED BY <1>1, FS_EmptySet DEF Base

LEMMA BaseOfNext ==
  ASSUME NEW s, NEW j \in Nat \ {0}
  PROVE  /\ Counted(s[j]) => Base(s, j + 1) = Base(s, j) + 1
         /\ ~ Counted(s[j]) => Base(s, j + 1) = Base(s, j)
<1> DEFINE S == {k \in 1 .. j - 1 : Counted(s[k])}
           T == {k \in 1 .. j : Counted(s[k])}
<1>1. Base(s, j) = Cardinality(S) /\ Base(s, j + 1) = Cardinality(T)
  <2>1. (j + 1) - 1 = j
    OBVIOUS
  <2> QED BY <2>1 DEF Base
<1>2. IsFiniteSet(S)
  BY BelowIsFinite
<1>3. ASSUME Counted(s[j]) PROVE T = S \cup {j} /\ j \notin S
  BY <1>3
<1>4. ASSUME ~ Counted(s[j]) PROVE T = S
  BY <1>4
<1> HIDE DEF S, T
<1> QED BY <1>1, <1>2, <1>3, <1>4, FS_AddElement

LEMMA BaseAgrees ==
  ASSUME NEW s, NEW u, NEW j \in Nat \ {0}, \A k \in 1 .. j - 1 : s[k] = u[k]
  PROVE  Base(s, j) = Base(u, j)
<1>1. {k \in 1 .. j - 1 : Counted(s[k])} = {k \in 1 .. j - 1 : Counted(u[k])}
  OBVIOUS
<1> QED BY <1>1 DEF Base

LEMMA BaseCountsBelow ==
  ASSUME NEW s, NEW j \in Nat \ {0}, NEW k \in 1 .. j - 1, Counted(s[k])
  PROVE  Base(s, j) # 0
<1>1. k \in {m \in 1 .. j - 1 : Counted(s[m])}
  OBVIOUS
<1> QED BY <1>1, BelowIsFinite, FS_EmptySet DEF Base

\* Three at most: the main thread's own operation and a handler of each signal.
LEMMA StackIsShort ==
  ASSUME NEW s, StackOK(s)
  PROVE  Len(s) <= 3
<1> SUFFICES ASSUME Len(s) > 3 PROVE FALSE
  BY DEF StackOK
<1>1. 2 \in 1 .. Len(s) /\ 3 \in 1 .. Len(s) /\ 4 \in 1 .. Len(s)
  BY DEF StackOK
<1>2. \A k \in 1 .. Len(s) : s[k].by \in Signals \cup {NoSignal}
  <2> SUFFICES ASSUME NEW k \in 1 .. Len(s) PROVE s[k].by \in Signals \cup {NoSignal}
    OBVIOUS
  <2>1. s[k] \in Frames
    BY ElementOfSeq DEF StackOK
  <2> QED BY <2>1 DEF Frames
<1>3. s[2].by \in Signals /\ s[3].by \in Signals /\ s[4].by \in Signals
  BY <1>1, <1>2 DEF StackOK
<1>4. s[2].by # s[3].by /\ s[2].by # s[4].by /\ s[3].by # s[4].by
  BY <1>1 DEF StackOK
<1> QED BY <1>3, <1>4 DEF Signals

-----------------------------------------------------------------------------
\* What the three changes of a stack keep.

\* What f must be to stand on top of s in the place of the operation there.
FitsOnTop(f, s) ==
  /\ f \in Frames /\ f.by = s[Len(s)].by /\ FrameOK(f, Base(s, Len(s)))
  /\ \A j \in 1 .. Len(s) - 1 :
       /\ HoldsMap(s[j]) => AtMap(f)
       /\ HasMutex(s, j) /\ ~ Counted(s[j]) => BeforeMutex(f)

\* Stacks that are the same up to n, with what is said of these places.
SameUpTo(s, u, n) ==
  /\ \A k \in 1 .. n : /\ u[k] = s[k]
                       /\ HasMutex(u, k) => HasMutex(s, k)
                       /\ HasMutex(s, k) => HasMutex(u, k)
  /\ \A k \in 1 .. n + 1 : Base(u, k) = Base(s, k)

LEMMA PlacesAgree ==
  ASSUME NEW s, NEW u, NEW n \in Nat, \A k \in 1 .. n : u[k] = s[k]
  PROVE  SameUpTo(s, u, n)
<1>1. ASSUME NEW k \in 1 .. n + 1 PROVE Base(u, k) = Base(s, k)
  <2>1. k \in Nat \ {0} /\ \A m \in 1 .. k - 1 : u[m] = s[m]
    OBVIOUS
  <2> QED BY <2>1, BaseAgrees
<1>2. ASSUME NEW k \in 1 .. n
      PROVE  u[k] = s[k] /\ Base(u, k) = Base(s, k)
  BY <1>1
<1> QED BY <1>1, <1>2 DEF HasMutex, SameUpTo

LEMMA TopReplaced ==
  ASSUME NEW s, StackOK(s), Len(s) > 0, NEW f, FitsOnTop(f, s),
         NEW u, u = [s EXCEPT ![Len(s)] = f]
  PROVE  /\ StackOK(u)
         /\ Len(u) = Len(s) /\ u[Len(s)] = f
         /\ SameUpTo(s, u, Len(s) - 1)
<1> DEFINE n == Len(s)
<1>1. s \in Seq(Frames) /\ n \in Nat \ {0}
  BY DEF StackOK
<1>2. u \in Seq(Frames) /\ Len(u) = n /\ u[n] = f /\ \A k \in 1 .. n - 1 : u[k] = s[k]
  BY <1>1 DEF FitsOnTop
<1> HIDE DEF n
<1>3. n - 1 \in Nat /\ (n - 1) + 1 = n
  BY <1>1
<1>4. /\ SameUpTo(s, u, n - 1)
      /\ \A k \in 1 .. n : Base(u, k) = Base(s, k)
      /\ \A k \in 1 .. n - 1 : HasMutex(u, k) => HasMutex(s, k)
  <2>1. n - 1 \in Nat /\ \A k \in 1 .. n - 1 : u[k] = s[k]
    BY <1>2, <1>3
  <2>2. SameUpTo(s, u, n - 1)
    BY <2>1, PlacesAgree
  <2> QED BY <1>3, <2>2 DEF SameUpTo
<1>5. \A k \in 1 .. n : k = n \/ k \in 1 .. n - 1
  BY <1>1
<1>6. StackOK(u)
  <2>1. ASSUME NEW k \in 1 .. n PROVE u[k].by = s[k].by
    BY <1>2, <1>5 DEF n, FitsOnTop
  <2>2. ASSUME NEW k \in 1 .. n PROVE FrameOK(u[k], Base(u, k))
    BY <1>2, <1>4, <1>5 DEF StackOK, FitsOnTop, n
  <2>3. ASSUME NEW j \in 1 .. n, NEW k \in 1 .. n, j < k
        PROVE  /\ HoldsMap(u[j]) => AtMap(u[k])
               /\ HasMutex(u, j) /\ ~ Counted(u[j]) => BeforeMutex(u[k])
    <3>1. j \in 1 .. n - 1
      BY <1>1, <2>3
    <3>2. u[j] = s[j] /\ (HasMutex(u, j) => HasMutex(s, j))
      BY <1>2, <1>4, <3>1
    <3>3. CASE k = n
      BY <1>2, <3>1, <3>2, <3>3 DEF FitsOnTop, n
    <3>4. CASE k \in 1 .. n - 1
      BY <1>2, <2>3, <3>2, <3>4 DEF StackOK, n
    <3> QED BY <1>5, <3>3, <3>4
  <2>4. ASSUME NEW j \in 1 .. n, NEW k \in 1 .. n, u[j].by = u[k].by PROVE j = k
    BY <2>1, <2>4 DEF StackOK, n
  <2>5. ASSUME NEW k \in 1 .. n, u[k].by = NoSignal PROVE k = 1
    BY <2>1, <2>5 DEF StackOK, n
  <2> QED BY <1>2, <2>2, <2>3, <2>4, <2>5 DEF StackOK
<1> QED BY <1>2, <1>4, <1>6 DEF n

LEMMA OperationOK ==
  ASSUME NEW name, NEW by \in Signals \cup {NoSignal}, NEW b,
         by = NoSignal => name \in {"assign", "get"},
         by # NoSignal => name = "getifset"
  PROVE  /\ Operation(name, by) \in Frames
         /\ FrameOK(Operation(name, by), b)
         /\ AtMap(Operation(name, by)) /\ BeforeMutex(Operation(name, by))
         /\ ~ Counted(Operation(name, by)) /\ ~ HoldsMap(Operation(name, by))
         /\ ~ PastMutex(Operation(name, by))
         /\ Operation(name, by).by = by /\ Operation(name, by).op = name
         /\ Operation(name, by).old = 0
  BY DEF Operation, Frames, FrameOK, AtMap, BeforeMutex, Counted, HoldsMap, PastMutex, Parts,
         Signals, NoSignal

\* What f must be to begin on top of s.
BeginsOn(f, s) ==
  /\ f \in Frames /\ \A b : FrameOK(f, b)
  /\ AtMap(f) /\ BeforeMutex(f) /\ ~ Counted(f) /\ ~ PastMutex(f)
  /\ f.by = NoSignal => Len(s) = 0
  /\ \A k \in 1 .. Len(s) : s[k].by # f.by

LEMMA OperationPushed ==
  ASSUME NEW s, StackOK(s), NEW f, BeginsOn(f, s), NEW u, u = Append(s, f)
  PROVE  /\ StackOK(u)
         /\ Len(u) = Len(s) + 1 /\ u[Len(s) + 1] = f
         /\ SameUpTo(s, u, Len(s))
         /\ Base(u, Len(u) + 1) = Base(s, Len(s) + 1)
<1> DEFINE n == Len(s)
<1>1. /\ f \in Frames /\ \A b : FrameOK(f, b)
      /\ AtMap(f) /\ BeforeMutex(f) /\ ~ Counted(f) /\ ~ PastMutex(f)
      /\ \A k \in 1 .. n : s[k].by # f.by
  BY DEF BeginsOn
<1>2. s \in Seq(Frames) /\ n \in Nat
  BY DEF StackOK
<1>3. u \in Seq(Frames) /\ Len(u) = n + 1 /\ u[n + 1] = f /\ \A k \in 1 .. n : u[k] = s[k]
  BY <1>1, <1>2
<1>4. f.by = NoSignal => n = 0
  BY DEF BeginsOn
<1> HIDE DEF n
<1>5. /\ SameUpTo(s, u, n)
      /\ \A k \in 1 .. n + 1 : Base(u, k) = Base(s, k)
      /\ \A k \in 1 .. n : HasMutex(u, k) => HasMutex(s, k)
  <2>1. n \in Nat /\ \A k \in 1 .. n : u[k] = s[k]
    BY <1>2, <1>3
  <2>2. SameUpTo(s, u, n)
    BY <2>1, PlacesAgree
  <2> QED BY <2>2 DEF SameUpTo
<1>6. Base(u, (n + 1) + 1) = Base(s, n + 1)
  <2>1. n + 1 \in Nat \ {0} /\ n + 1 \in 1 .. n + 1
    BY <1>2
  <2> QED BY <1>1, <1>3, <1>5, <2>1, BaseOfNext
<1>7. \A k \in 1 .. n + 1 : k = n + 1 \/ k \in 1 .. n
  BY <1>2
<1>8. StackOK(u)
  <2>1. ASSUME NEW k \in 1 .. n + 1 PROVE FrameOK(u[k], Base(u, k))
    BY <1>1, <1>3, <1>5, <1>7 DEF StackOK, n
  <2>2. ASSUME NEW j \in 1 .. n + 1, NEW k \in 1 .. n + 1, u[j].by = u[k].by
        PROVE  j = k
    <3>1. CASE j = n + 1 /\ k \in 1 .. n
      BY <1>1, <1>3, <2>2, <3>1
    <3>2. CASE k = n + 1 /\ j \in 1 .. n
      BY <1>1, <1>3, <2>2, <3>2
    <3>3. CASE k \in 1 .. n /\ j \in 1 .. n
      BY <1>3, <2>2, <3>3 DEF StackOK, n
    <3> QED BY <1>7, <3>1, <3>2, <3>3
  <2>3. ASSUME NEW k \in 1 .. n + 1, u[k].by = NoSignal PROVE k = 1
    BY <1>2, <1>3, <1>4, <1>7, <2>3 DEF StackOK, n
  <2>4. ASSUME NEW j \in 1 .. n + 1, NEW k \in 1 .. n + 1, j < k
        PROVE  /\ HoldsMap(u[j]) => AtMap(u[k])
               /\ HasMutex(u, j) /\ ~ Counted(u[j]) => BeforeMutex(u[k])
    <3>1. j \in 1 .. n
      BY <1>2, <2>4
    <3>2. u[j] = s[j] /\ (HasMutex(u, j) => HasMutex(s, j))
      BY <1>3, <1>5, <3>1
    <3>3. CASE k = n + 1
      BY <1>1, <1>3, <3>3
    <3>4. CASE k \in 1 .. n
      BY <1>3, <2>4, <3>1, <3>2, <3>4 DEF StackOK, n
    <3> QED BY <1>7, <3>3, <3>4
  <2> QED BY <1>3, <2>1, <2>2, <2>3, <2>4 DEF StackOK
<1> QED BY <1>3, <1>5, <1>6, <1>8 DEF n

LEMMA OperationPopped ==
  ASSUME NEW s, StackOK(s), Len(s) > 0, NEW u, u = SubSeq(s, 1, Len(s) - 1)
  PROVE  /\ StackOK(u)
         /\ Len(u) = Len(s) - 1
         /\ SameUpTo(s, u, Len(u))
<1> DEFINE n == Len(s) - 1
<1>1. s \in Seq(Frames) /\ n \in Nat /\ Len(s) = n + 1
  BY DEF StackOK
<1>2. u \in Seq(Frames) /\ Len(u) = n /\ \A k \in 1 .. n : u[k] = s[k]
  BY <1>1, SubSeqProperties
<1> HIDE DEF n
<1>3. /\ SameUpTo(s, u, n)
      /\ \A k \in 1 .. n + 1 : Base(u, k) = Base(s, k)
      /\ \A k \in 1 .. n : HasMutex(u, k) => HasMutex(s, k)
  <2>1. n \in Nat /\ \A k \in 1 .. n : u[k] = s[k]
    BY <1>1, <1>2
  <2> QED BY <2>1, PlacesAgree DEF SameUpTo
<1>4. \A k \in 1 .. n : k \in 1 .. n + 1
  BY <1>1
<1>5. StackOK(u)
  <2>1. ASSUME NEW k \in 1 .. n PROVE FrameOK(u[k], Base(u, k))
    BY <1>1, <1>2, <1>3, <1>4 DEF StackOK
  <2>2. ASSUME NEW j \in 1 .. n, NEW k \in 1 .. n, j < k
        PROVE  /\ HoldsMap(u[j]) => AtMap(u[k])
               /\ HasMutex(u, j) /\ ~ Counted(u[j]) => BeforeMutex(u[k])
    BY <1>1, <1>2, <1>3, <1>4, <2>2 DEF StackOK
  <2> QED BY <1>1, <1>2, <1>4, <2>1, <2>2 DEF StackOK
<1> QED BY <1>1, <1>2, <1>3, <1>5

-----------------------------------------------------------------------------
\* A step inside an operation.

\* Only the top of t's stack changes; it becomes f.
TopBecomes(t, f) ==
  /\ \A u \in Threads \ {t} : stack'[u] = stack[u]
  /\ Len(stack'[t]) = Len(stack[t])
  /\ stack'[t][Len(stack[t])] = f
  /\ SameUpTo(stack[t], stack'[t], Len(stack[t]) - 1)

\* What the invariant says of the top of a stack.
LEMMA TopFacts ==
  ASSUME StacksOK, NEW t \in Threads, stack[t] # <<>>
  PROVE  /\ Len(stack[t]) \in Nat \ {0}
         /\ Len(stack[t]) \in 1 .. Len(stack[t])
         /\ \A k \in 1 .. Len(stack[t]) : k = Len(stack[t]) \/ k \in 1 .. Len(stack[t]) - 1
         /\ Top(t) \in Frames
         /\ FrameOK(Top(t), Base(stack[t], Len(stack[t])))
         /\ Base(stack[t], Len(stack[t])) \in 0 .. 2
         /\ \A j \in 1 .. Len(stack[t]) - 1 :
              /\ j \in 1 .. Len(stack[t])
              /\ HoldsMap(stack[t][j]) => AtMap(Top(t))
              /\ HasMutex(stack[t], j) /\ ~ Counted(stack[t][j]) => BeforeMutex(Top(t))
<1> DEFINE n == Len(stack[t])
<1>1. StackOK(stack[t]) /\ stack[t] \in Seq(Frames)
  BY DEF StacksOK
<1>2. n \in Nat \ {0} /\ n <= 3
  BY <1>1, StackIsShort, EmptySeq
<1>3. n \in 1 .. n /\ \A k \in 1 .. n - 1 : k \in 1 .. n /\ k < n
  BY <1>2
<1>4. \A k \in 1 .. n : k = n \/ k \in 1 .. n - 1
  BY <1>2
<1>5. Base(stack[t], n) \in 0 .. 2
  <2>1. Base(stack[t], n) \in Nat /\ Base(stack[t], n) <= n - 1
    BY <1>2, BelowIsFinite
  <2> QED BY <1>2, <2>1
<1>6. Top(t) \in Frames
  BY <1>1, <1>3, ElementOfSeq DEF Top
<1> QED BY <1>1, <1>2, <1>3, <1>4, <1>5, <1>6 DEF StackOK, Top

LEMMA StepInOperation ==
  ASSUME StacksOK, NEW t \in Threads, stack[t] # <<>>, NEW f, Continue(t, f),
         FitsOnTop(f, stack[t])
  PROVE  StacksOK' /\ TopBecomes(t, f)
<1>1. stack \in [Threads -> Seq(Frames)] /\ StackOK(stack[t])
  BY DEF StacksOK
<1>2. stack'[t] = [stack[t] EXCEPT ![Len(stack[t])] = f]
      /\ \A u \in Threads \ {t} : stack'[u] = stack[u]
  BY <1>1 DEF Continue
<1>3. Len(stack[t]) > 0
  BY TopFacts
<1>4. TopBecomes(t, f) /\ StackOK(stack'[t])
  BY <1>1, <1>2, <1>3, TopReplaced DEF TopBecomes
<1>5. stack' \in [Threads -> Seq(Frames)]
  <2>1. stack'[t] \in Seq(Frames)
    BY <1>4 DEF StackOK
  <2> QED BY <1>1, <2>1 DEF Continue
<1>6. \A u \in Threads : StackOK(stack'[u])
  BY <1>2, <1>4 DEF StacksOK
<1> QED BY <1>4, <1>5, <1>6 DEF StacksOK

\* Most steps neither enter the map nor get past m_lock.
LEMMA StepElsewhere ==
  ASSUME StacksOK, NEW t \in Threads, stack[t] # <<>>, NEW f \in Frames, Continue(t, f),
         f.by = Top(t).by, FrameOK(f, Base(stack[t], Len(stack[t]))),
         ~ AtMap(Top(t)), BeforeMutex(Top(t)) => BeforeMutex(f)
  PROVE  StacksOK' /\ TopBecomes(t, f)
<1>1. FitsOnTop(f, stack[t])
  BY TopFacts DEF FitsOnTop, Top
<1> QED BY <1>1, StepInOperation

\* The three ways of the map's mutex: nobody's change, taken, given back.
MapMoves(t, f) ==
  \/ maplock' = maplock /\ ~ HoldsMap(Top(t)) /\ ~ HoldsMap(f)
  \/ maplock = "none" /\ maplock' = t /\ HoldsMap(f)
  \/ HoldsMap(Top(t)) /\ maplock' = "none" /\ ~ HoldsMap(f)

LEMMA MapStillAgrees ==
  ASSUME StacksOK, MapAgrees, NEW t \in Threads, stack[t] # <<>>, NEW f, TopBecomes(t, f),
         MapMoves(t, f)
  PROVE  MapAgrees'
<1> DEFINE n == Len(stack[t])
<1>1. /\ n \in Nat \ {0} /\ n \in 1 .. n
      /\ \A k \in 1 .. n : k = n \/ k \in 1 .. n - 1
      /\ \A k \in 1 .. n - 1 : k \in 1 .. n /\ (HoldsMap(stack[t][k]) => AtMap(Top(t)))
  BY TopFacts
<1>2. /\ \A u \in Threads \ {t} : stack'[u] = stack[u]
      /\ Len(stack'[t]) = n /\ stack'[t][n] = f
      /\ \A k \in 1 .. n - 1 : stack'[t][k] = stack[t][k]
  BY DEF TopBecomes, SameUpTo
<1>3. stack[t][n] = Top(t)
  BY DEF Top
<1> HIDE DEF n
<1>4. t # "none" /\ \A u \in Threads : u # "none"
  BY DEF Threads
<1>5. ASSUME NEW u \in Threads \ {t}
      PROVE  maplock' = u <=> \E k \in 1 .. Len(stack'[u]) : HoldsMap(stack'[u][k])
  <2>2. HoldsMap(Top(t)) => maplock = t
    BY <1>1, <1>3 DEF MapAgrees, n
  <2>3. (maplock' = u => maplock = u) /\ (maplock = u => maplock' = u)
    BY <1>4, <1>5, <2>2 DEF MapMoves
  <2> QED BY <1>2, <1>5, <2>3 DEF MapAgrees
<1>6. maplock' = t <=> \E k \in 1 .. n : HoldsMap(stack'[t][k])
  <2>1. (maplock = t => \E k \in 1 .. n : HoldsMap(stack[t][k]))
        /\ ((\E k \in 1 .. n : HoldsMap(stack[t][k])) => maplock = t)
    BY DEF MapAgrees, n
  <2>2. CASE maplock' = maplock /\ ~ HoldsMap(Top(t)) /\ ~ HoldsMap(f)
    BY <1>1, <1>2, <1>3, <2>1, <2>2
  <2>3. CASE maplock = "none" /\ maplock' = t /\ HoldsMap(f)
    BY <1>1, <1>2, <2>3
  <2>4. CASE HoldsMap(Top(t)) /\ maplock' = "none" /\ ~ HoldsMap(f)
    <3>1. ~ AtMap(Top(t))
      BY <2>4 DEF AtMap, HoldsMap
    <3>2. \A k \in 1 .. n : ~ HoldsMap(stack'[t][k])
      BY <1>1, <1>2, <2>4, <3>1
    <3> QED BY <1>4, <2>4, <3>2
  <2> QED BY <2>2, <2>3, <2>4 DEF MapMoves
<1> QED BY <1>2, <1>5, <1>6 DEF MapAgrees

\* And of m_lock.
MutexMoves(t, f) ==
  LET b == Base(stack[t], Len(stack[t])) IN
    \/ /\ mlock' = mlock
       /\ b = 0 /\ PastMutex(f) => PastMutex(Top(t))
       /\ b = 0 /\ PastMutex(Top(t)) => PastMutex(f)
    \/ mlock = "none" /\ mlock' = t /\ b = 0 /\ PastMutex(f)
    \/ /\ mlock' = "none" /\ b = 0
       /\ PastMutex(Top(t)) /\ Counted(Top(t)) /\ ~ PastMutex(f)

LEMMA MutexStillAgrees ==
  ASSUME StacksOK, MutexAgrees, NEW t \in Threads, stack[t] # <<>>, NEW f, TopBecomes(t, f),
         MutexMoves(t, f)
  PROVE  MutexAgrees'
<1> DEFINE n == Len(stack[t])
           b == Base(stack[t], n)
<1>1. /\ n \in Nat \ {0} /\ n \in 1 .. n
      /\ \A k \in 1 .. n : k = n \/ k \in 1 .. n - 1
      /\ \A k \in 1 .. n - 1 :
           /\ k \in 1 .. n
           /\ HasMutex(stack[t], k) /\ ~ Counted(stack[t][k]) => BeforeMutex(Top(t))
  BY TopFacts
<1>2. /\ \A u \in Threads \ {t} : stack'[u] = stack[u]
      /\ Len(stack'[t]) = n
      /\ \A k \in 1 .. n - 1 : /\ HasMutex(stack'[t], k) => HasMutex(stack[t], k)
                               /\ HasMutex(stack[t], k) => HasMutex(stack'[t], k)
  BY DEF TopBecomes, SameUpTo
<1>3. /\ HasMutex(stack[t], n) => b = 0 /\ PastMutex(Top(t))
      /\ b = 0 /\ PastMutex(Top(t)) => HasMutex(stack[t], n)
  BY DEF Top, HasMutex
<1>4. /\ HasMutex(stack'[t], n) => b = 0 /\ PastMutex(f)
      /\ b = 0 /\ PastMutex(f) => HasMutex(stack'[t], n)
  <2>1. stack'[t][n] = f
    BY DEF TopBecomes
  <2>2. Base(stack'[t], n) = b
    <3>1. n \in 1 .. (n - 1) + 1
      BY <1>1
    <3> QED BY <3>1 DEF TopBecomes, SameUpTo
  <2> QED BY <2>1, <2>2 DEF HasMutex
<1>5. \/ /\ mlock' = mlock
         /\ b = 0 /\ PastMutex(f) => PastMutex(Top(t))
         /\ b = 0 /\ PastMutex(Top(t)) => PastMutex(f)
      \/ mlock = "none" /\ mlock' = t /\ b = 0 /\ PastMutex(f)
      \/ /\ mlock' = "none" /\ b = 0
         /\ PastMutex(Top(t)) /\ Counted(Top(t)) /\ ~ PastMutex(f)
  BY DEF MutexMoves
<1>6. \A k \in 1 .. n - 1 : b = 0 => ~ Counted(stack[t][k])
  BY <1>1, BaseCountsBelow
<1>7. /\ mlock = t => \E k \in 1 .. n : HasMutex(stack[t], k)
      /\ (\E k \in 1 .. n : HasMutex(stack[t], k)) => mlock = t
  BY DEF MutexAgrees
<1> HIDE DEF n, b
<1>8. t # "none" /\ \A u \in Threads : u # "none"
  BY DEF Threads
<1>9. ASSUME NEW u \in Threads \ {t}
      PROVE  mlock' = u <=> \E k \in 1 .. Len(stack'[u]) : HasMutex(stack'[u], k)
  <2>1. PastMutex(Top(t)) /\ b = 0 => mlock = t
    BY <1>1, <1>3, <1>7
  <2>2. (mlock' = u => mlock = u) /\ (mlock = u => mlock' = u)
    BY <1>5, <1>8, <1>9, <2>1
  <2> QED BY <1>2, <1>9, <2>2 DEF MutexAgrees
<1>10. mlock' = t <=> \E k \in 1 .. n : HasMutex(stack'[t], k)
  <2>1. CASE mlock' = mlock /\ (b = 0 /\ PastMutex(f) => PastMutex(Top(t)))
                            /\ (b = 0 /\ PastMutex(Top(t)) => PastMutex(f))
    <3>1. ASSUME NEW k \in 1 .. n
          PROVE  /\ HasMutex(stack'[t], k) => HasMutex(stack[t], k)
                 /\ HasMutex(stack[t], k) => HasMutex(stack'[t], k)
      BY <1>1, <1>2, <1>3, <1>4, <2>1
    <3> QED BY <1>7, <2>1, <3>1
  <2>2. CASE mlock = "none" /\ mlock' = t /\ b = 0 /\ PastMutex(f)
    BY <1>1, <1>4, <2>2
  <2>3. CASE mlock' = "none" /\ b = 0 /\ PastMutex(Top(t)) /\ Counted(Top(t)) /\ ~ PastMutex(f)
    <3>1. ~ BeforeMutex(Top(t))
      BY <2>3 DEF BeforeMutex, Counted
    <3>2. ASSUME NEW k \in 1 .. n PROVE ~ HasMutex(stack'[t], k)
      BY <1>1, <1>2, <1>4, <1>6, <2>3, <3>1
    <3> QED BY <1>8, <2>3, <3>2
  <2> QED BY <1>5, <2>1, <2>2, <2>3
<1> QED BY <1>2, <1>9, <1>10 DEF MutexAgrees, n

\* A count is stored when the operation begins to be counted.
CountMoves(t, f) ==
  LET b == Base(stack[t], Len(stack[t])) IN
    \/ /\ tinfo' = tinfo
       /\ Counted(f) => Counted(Top(t))
       /\ Counted(Top(t)) => Counted(f)
    \/ tinfo' = [tinfo EXCEPT ![t] = b + 1] /\ Counted(f)

LEMMA CountStillAgrees ==
  ASSUME StacksOK, CountAgrees, NEW t \in Threads, stack[t] # <<>>, NEW f, TopBecomes(t, f),
         CountMoves(t, f), tinfo \in [Threads -> 0..3]
  PROVE  CountAgrees'
<1> DEFINE n == Len(stack[t])
           b == Base(stack[t], n)
<1>1. n \in Nat \ {0} /\ b \in 0 .. 2
  BY TopFacts
<1>2. /\ \A u \in Threads \ {t} : stack'[u] = stack[u]
      /\ Len(stack'[t]) = n /\ stack'[t][n] = f
  BY DEF TopBecomes
<1>3. Base(stack'[t], n) = b
  <2>1. n \in 1 .. (n - 1) + 1
    BY <1>1
  <2> QED BY <2>1 DEF TopBecomes, SameUpTo
<1>4. /\ Counted(f) => Base(stack'[t], n + 1) = b + 1
      /\ ~ Counted(f) => Base(stack'[t], n + 1) = b
  BY <1>1, <1>2, <1>3, BaseOfNext
<1>5. /\ Counted(Top(t)) => Base(stack[t], n + 1) = b + 1
      /\ ~ Counted(Top(t)) => Base(stack[t], n + 1) = b
  BY <1>1, BaseOfNext DEF Top
<1>6. tinfo[t] = Base(stack[t], n + 1)
  BY DEF CountAgrees
<1>7. \/ /\ tinfo' = tinfo
         /\ Counted(f) => Counted(Top(t))
         /\ Counted(Top(t)) => Counted(f)
      \/ tinfo' = [tinfo EXCEPT ![t] = b + 1] /\ Counted(f)
  BY DEF CountMoves
<1> HIDE DEF n, b
<1>8. tinfo'[t] = Base(stack'[t], n + 1)
  BY <1>4, <1>5, <1>6, <1>7
<1>9. \A u \in Threads \ {t} : tinfo'[u] = tinfo[u]
  BY <1>7
<1> QED BY <1>2, <1>8, <1>9 DEF CountAgrees, n

LEMMA NothingStillInHand ==
  ASSUME StacksOK, NothingInHand, NEW t \in Threads, stack[t] # <<>>, NEW f,
         TopBecomes(t, f), caught' = caught
  PROVE  NothingInHand'
<1> SUFFICES ASSUME ~ caught, NEW u \in Threads, NEW k \in 1 .. Len(stack'[u]) - 1
             PROVE  ~ InHand(stack'[u], k)
  BY DEF NothingInHand
<1>1. CASE u = t
  <2>1. k \in 1 .. Len(stack[t]) - 1
    BY <1>1 DEF TopBecomes
  <2>2. ~ InHand(stack[t], k)
    BY <2>1 DEF NothingInHand
  <2> QED BY <1>1, <2>1, <2>2 DEF TopBecomes, SameUpTo, InHand
<1>2. CASE u # t
  BY <1>2 DEF TopBecomes, NothingInHand
<1> QED BY <1>1, <1>2

\* A step that changes neither the status nor what it depends on.
LEMMA StatusStillAgrees ==
  ASSUME StacksOK, StatusAgrees, NEW t \in Threads, stack[t] # <<>>, NEW f, TopBecomes(t, f),
         status' = status, pc' = pc,
         f.op = Top(t).op, f.by = Top(t).by, f.old <= status,
         f.call = "unlock" => Top(t).call = "unlock",
         Top(t).call = "unlock" => f.call = "unlock"
  PROVE  StatusAgrees'
<1> DEFINE n == Len(stack[t])
<1>1. /\ n \in Nat \ {0} /\ n \in 1 .. n
      /\ \A k \in 1 .. n : k = n \/ k \in 1 .. n - 1
  BY TopFacts
<1>2. /\ \A u \in Threads \ {t} : stack'[u] = stack[u]
      /\ Len(stack'[t]) = n /\ stack'[t][n] = f
      /\ \A k \in 1 .. n - 1 : stack'[t][k] = stack[t][k]
  BY DEF TopBecomes, SameUpTo
<1>3. stack[t][n] = Top(t)
  BY DEF Top
<1> HIDE DEF n
<1>4. ASSUME NEW u \in Threads PROVE Len(stack'[u]) = Len(stack[u])
  BY <1>2 DEF n
<1>5. ASSUME NEW u \in Threads, NEW k \in 1 .. Len(stack[u])
      PROVE  /\ stack'[u][k].op = stack[u][k].op /\ stack'[u][k].by = stack[u][k].by
             /\ stack'[u][k].old <= status
             /\ stack'[u][k].call = "unlock" => stack[u][k].call = "unlock"
             /\ stack[u][k].call = "unlock" => stack'[u][k].call = "unlock"
  <2>1. CASE u = t /\ k = n
    BY <1>2, <1>3, <2>1
  <2>2. CASE u = t /\ k # n
    <3>1. k \in 1 .. n - 1
      BY <1>1, <2>2 DEF n
    <3> QED BY <1>2, <2>2, <3>1 DEF StatusAgrees
  <2>3. CASE u # t
    BY <1>2, <2>3 DEF StatusAgrees
  <2> QED BY <2>1, <2>2, <2>3
<1>6. "main" \in Threads /\ "worker" \in Threads
  BY DEF Threads
<1>7. pc = "assigning" => 1 \in 1 .. Len(stack["main"])
  <2>1. stack["main"] \in Seq(Frames)
    BY <1>6 DEF StacksOK
  <2> QED BY <2>1, LenProperties DEF StatusAgrees
<1> QED BY <1>4, <1>5, <1>6, <1>7 DEF StatusAgrees

LEMMA StepKeepsIInv ==
  ASSUME IInv, NEW t \in Threads, stack[t] # <<>>, NEW f, StacksOK', TopBecomes(t, f),
         MapMoves(t, f), MutexMoves(t, f), CountMoves(t, f),
         UNCHANGED <<pc, Rest>>, StatusAgrees', status' \in 0..2
  PROVE  IInv'
<1>1. MapAgrees'
  BY MapStillAgrees DEF IInv
<1>2. MutexAgrees'
  BY MutexStillAgrees DEF IInv
<1>3. CountAgrees'
  BY CountStillAgrees DEF IInv, TypeOK
<1>4. NothingInHand'
  BY NothingStillInHand DEF IInv, Rest
<1>5. TypeOK'
  <2>1. mlock' \in Threads \cup {"none"} /\ maplock' \in Threads \cup {"none"}
    BY DEF MapMoves, MutexMoves, IInv, TypeOK
  <2>2. tinfo' \in [Threads -> 0..3]
    <3>1. Base(stack[t], Len(stack[t])) + 1 \in 0..3
      BY TopFacts DEF IInv
    <3> QED BY <3>1 DEF CountMoves, IInv, TypeOK
  <2>3. \A u \in Threads : \A i \in DOMAIN stack'[u] : stack'[u][i] \in Frames
    BY ElementOfSeq DEF StacksOK
  <2> QED BY <2>1, <2>2, <2>3 DEF IInv, TypeOK, Rest
<1> QED BY <1>1, <1>2, <1>3, <1>4, <1>5 DEF IInv

-----------------------------------------------------------------------------
\* The steps of an operation, one by one.

LEMMA EnterMapKeeps ==
  ASSUME IInv, NEW t \in Threads, EnterMap(t)
  PROVE  IInv'
<1>1. PICK half \in {<<"getEnter", "get">>, <<"setEnter", "set">>} :
        /\ In(t, half[1])
        /\ maplock = "none"
        /\ maplock' = t
        /\ Continue(t, [Top(t) EXCEPT !.part = half[2]])
        /\ UNCHANGED <<status, mlock, tinfo, pc, Rest>>
  BY DEF EnterMap
<1> DEFINE f == [Top(t) EXCEPT !.part = half[2]]
<1>2. StacksOK /\ stack[t] # <<>> /\ Top(t).part = half[1]
  BY <1>1 DEF In, IInv
<1>3. Top(t) \in Frames /\ FrameOK(Top(t), Base(stack[t], Len(stack[t])))
  BY <1>2, TopFacts
<1>4. (half[1] = "getEnter" /\ half[2] = "get") \/ (half[1] = "setEnter" /\ half[2] = "set")
  OBVIOUS
<1>5. /\ f \in Frames /\ f.part = half[2] /\ f.op = Top(t).op /\ f.by = Top(t).by
      /\ f.call = Top(t).call /\ f.locked = Top(t).locked /\ f.old = Top(t).old
  BY <1>3, <1>4 DEF Frames, Parts
<1>6. stack[t][Len(stack[t])] = Top(t)
  BY DEF Top
<1> HIDE DEF f
<1>7. FitsOnTop(f, stack[t])
  <2>1. FrameOK(f, Base(stack[t], Len(stack[t])))
    BY <1>2, <1>3, <1>4, <1>5 DEF FrameOK
  <2>2. \A j \in 1 .. Len(stack[t]) - 1 : ~ HoldsMap(stack[t][j])
    <3>1. t # "none"
      BY DEF Threads
    <3> QED BY <1>1, <1>2, <3>1, TopFacts DEF IInv, MapAgrees
  <2>3. BeforeMutex(Top(t)) => BeforeMutex(f)
    BY <1>2, <1>4, <1>5 DEF BeforeMutex
  <2> QED BY <1>2, <1>5, <1>6, <2>1, <2>2, <2>3, TopFacts DEF FitsOnTop
<1>8. StacksOK' /\ TopBecomes(t, f)
  BY <1>1, <1>2, <1>7, StepInOperation DEF f
<1>9. MapMoves(t, f)
  BY <1>1, <1>4, <1>5 DEF MapMoves, HoldsMap
<1>10. MutexMoves(t, f)
  BY <1>1, <1>2, <1>4, <1>5 DEF MutexMoves, PastMutex
<1>11. CountMoves(t, f)
  BY <1>1, <1>5 DEF CountMoves, Counted
<1>12. StatusAgrees'
  BY <1>1, <1>2, <1>5, <1>6, <1>8, TopFacts, StatusStillAgrees DEF IInv, StatusAgrees
<1> QED BY <1>1, <1>2, <1>8, <1>9, <1>10, <1>11, <1>12, StepKeepsIInv DEF IInv, TypeOK

LEMMA MapGetKeeps ==
  ASSUME IInv, NEW t \in Threads, MapGet(t)
  PROVE  IInv'
<1> DEFINE n == Len(stack[t])
           b == Base(stack[t], n)
           f == [Top(t) EXCEPT !.part = "mutex", !.locked = tinfo[t]]
<1>1. /\ maplock' = "none" /\ Continue(t, f)
      /\ UNCHANGED <<status, mlock, tinfo, pc, Rest>>
  BY DEF MapGet
<1>2. StacksOK /\ stack[t] # <<>> /\ Top(t).part = "get"
  BY DEF MapGet, In, IInv
<1>3. Top(t) \in Frames /\ FrameOK(Top(t), b) /\ b \in 0 .. 2 /\ n \in Nat \ {0}
  BY <1>2, TopFacts
<1>4. stack[t][n] = Top(t)
  BY DEF Top
<1>5. Top(t).call \in {"lock", "unlock"}
  BY <1>2, <1>3 DEF FrameOK, Frames
<1>6. tinfo[t] \in 0..3 /\ tinfo[t] = Base(stack[t], n + 1)
  BY DEF IInv, TypeOK, CountAgrees
<1>7. (Top(t).call = "lock" => tinfo[t] = b) /\ (Top(t).call = "unlock" => tinfo[t] = b + 1)
  BY <1>3, <1>4, <1>6, BaseOfNext DEF Counted
<1>8. /\ f \in Frames /\ f.part = "mutex" /\ f.locked = tinfo[t] /\ f.op = Top(t).op
      /\ f.by = Top(t).by /\ f.call = Top(t).call /\ f.old = Top(t).old
  BY <1>3, <1>6 DEF Frames, Parts
<1> HIDE DEF f, b, n
<1>9. FrameOK(f, b)
  BY <1>3, <1>5, <1>7, <1>8 DEF FrameOK
<1>10. ~ AtMap(Top(t)) /\ (BeforeMutex(Top(t)) => BeforeMutex(f))
  BY <1>2, <1>8 DEF AtMap, BeforeMutex
<1>11. StacksOK' /\ TopBecomes(t, f)
  BY <1>1, <1>2, <1>8, <1>9, <1>10, StepElsewhere DEF b, n
<1>12. MapMoves(t, f)
  BY <1>1, <1>2, <1>8 DEF MapMoves, HoldsMap
<1>13. MutexMoves(t, f)
  BY <1>1, <1>2, <1>5, <1>8 DEF MutexMoves, PastMutex
<1>14. CountMoves(t, f)
  BY <1>1, <1>8 DEF CountMoves, Counted
<1>15. StatusAgrees'
  BY <1>1, <1>2, <1>4, <1>8, <1>11, TopFacts, StatusStillAgrees DEF IInv, StatusAgrees, n
<1> QED BY <1>1, <1>2, <1>11, <1>12, <1>13, <1>14, <1>15, StepKeepsIInv DEF IInv, TypeOK

\* Who has got past m_lock.lock() with a count of 0 is below no other that does.
LEMMA OneGetsPast ==
  ASSUME StacksOK, MutexAgrees, NEW t \in Threads, stack[t] # <<>>,
         Base(stack[t], Len(stack[t])) = 0 => mlock = "none",
         NEW j \in 1 .. Len(stack[t]) - 1, HasMutex(stack[t], j)
  PROVE  Counted(stack[t][j])
<1> SUFFICES ASSUME ~ Counted(stack[t][j]) PROVE FALSE
  OBVIOUS
<1> DEFINE n == Len(stack[t])
<1>1. n \in Nat \ {0} /\ j \in 1 .. n /\ j \in Nat \ {0}
  BY TopFacts
<1>2. mlock = t /\ t # "none"
  BY <1>1 DEF MutexAgrees, Threads
<1>3. Base(stack[t], n) # 0
  BY <1>2
<1> HIDE DEF n
<1>4. PICK k \in 1 .. n - 1 : Counted(stack[t][k])
  <2>1. {m \in 1 .. n - 1 : Counted(stack[t][m])} # {}
    BY <1>3, FS_EmptySet DEF Base
  <2> QED BY <2>1
<1>5. Base(stack[t], j) = 0
  BY DEF HasMutex
<1>6. CASE k < j
  <2>1. k \in 1 .. j - 1
    BY <1>1, <1>6
  <2> QED BY <1>1, <1>4, <1>5, <2>1, BaseCountsBelow
<1>7. CASE j < k
  <2>1. k \in 1 .. n
    BY <1>1
  <2>2. BeforeMutex(stack[t][k])
    BY <1>1, <1>7, <2>1 DEF StacksOK, StackOK, n
  <2> QED BY <1>4, <2>2 DEF Counted, BeforeMutex
<1>8. j # k
  BY <1>4
<1> QED BY <1>1, <1>6, <1>7, <1>8

LEMMA TakeMutexKeeps ==
  ASSUME IInv, NEW t \in Threads, TakeMutex(t)
  PROVE  IInv'
<1> DEFINE n == Len(stack[t])
           b == Base(stack[t], n)
           f == [Top(t) EXCEPT !.part = "setEnter", !.locked = @ + 1]
<1>1. /\ Continue(t, f)
      /\ IF Top(t).locked = 0 THEN mlock = "none" /\ mlock' = t ELSE UNCHANGED mlock
      /\ UNCHANGED <<status, maplock, tinfo, pc, Rest>>
  BY DEF TakeMutex
<1>2. StacksOK /\ stack[t] # <<>> /\ Top(t).part = "mutex" /\ Top(t).call = "lock"
  BY DEF TakeMutex, In, IInv
<1>3. Top(t) \in Frames /\ FrameOK(Top(t), b) /\ b \in 0 .. 2
  BY <1>2, TopFacts
<1>4. stack[t][n] = Top(t)
  BY DEF Top
<1>5. Top(t).locked = b
  BY <1>2, <1>3 DEF FrameOK
<1>6. /\ f \in Frames /\ f.part = "setEnter" /\ f.locked = b + 1 /\ f.op = Top(t).op
      /\ f.by = Top(t).by /\ f.call = "lock" /\ f.old = Top(t).old
  <2>1. Top(t).locked + 1 \in 0 .. 3
    BY <1>3, <1>5
  <2> QED BY <1>2, <1>3, <1>5, <2>1 DEF Frames, Parts
<1> HIDE DEF f
<1>7. FitsOnTop(f, stack[t])
  <2>1. FrameOK(f, b)
    BY <1>3, <1>6 DEF FrameOK
  <2>2. ~ AtMap(Top(t))
    BY <1>2 DEF AtMap
  <2>3. ASSUME NEW j \in 1 .. n - 1 PROVE HasMutex(stack[t], j) => Counted(stack[t][j])
    BY <1>1, <1>2, <1>5, OneGetsPast DEF IInv
  <2> QED BY <1>2, <1>4, <1>6, <2>1, <2>2, <2>3, TopFacts DEF FitsOnTop
<1>8. StacksOK' /\ TopBecomes(t, f)
  BY <1>1, <1>2, <1>7, StepInOperation
<1>9. MapMoves(t, f)
  BY <1>1, <1>2, <1>6 DEF MapMoves, HoldsMap
<1>10. MutexMoves(t, f)
  BY <1>1, <1>5, <1>6 DEF MutexMoves, PastMutex
<1>11. CountMoves(t, f)
  BY <1>1, <1>2, <1>6 DEF CountMoves, Counted
<1>12. StatusAgrees'
  BY <1>1, <1>2, <1>4, <1>6, <1>8, TopFacts, StatusStillAgrees DEF IInv, StatusAgrees
<1> QED BY <1>1, <1>2, <1>8, <1>9, <1>10, <1>11, <1>12, StepKeepsIInv DEF IInv, TypeOK

LEMMA FreeMutexKeeps ==
  ASSUME IInv, NEW t \in Threads, FreeMutex(t)
  PROVE  IInv'
<1> DEFINE n == Len(stack[t])
           b == Base(stack[t], n)
           f == [Top(t) EXCEPT !.part = "setEnter", !.locked = @ - 1]
<1>1. /\ Continue(t, f)
      /\ mlock' = IF Top(t).locked = 1 THEN "none" ELSE mlock
      /\ UNCHANGED <<status, maplock, tinfo, pc, Rest>>
  BY DEF FreeMutex
<1>2. StacksOK /\ stack[t] # <<>> /\ Top(t).part = "mutex" /\ Top(t).call = "unlock"
  BY DEF FreeMutex, In, IInv
<1>3. Top(t) \in Frames /\ FrameOK(Top(t), b) /\ b \in 0 .. 2
  BY <1>2, TopFacts
<1>4. stack[t][n] = Top(t)
  BY DEF Top
<1>5. Top(t).locked = b + 1
  BY <1>2, <1>3 DEF FrameOK
<1>6. /\ f \in Frames /\ f.part = "setEnter" /\ f.locked = b /\ f.op = Top(t).op
      /\ f.by = Top(t).by /\ f.call = "unlock" /\ f.old = Top(t).old
  <2>1. Top(t).locked - 1 = b /\ b \in 0 .. 3
    BY <1>3, <1>5
  <2> QED BY <1>2, <1>3, <2>1 DEF Frames, Parts
<1> HIDE DEF f
<1>7. FrameOK(f, b)
  BY <1>3, <1>6 DEF FrameOK
<1>8. ~ AtMap(Top(t)) /\ ~ BeforeMutex(Top(t))
  BY <1>2 DEF AtMap, BeforeMutex
<1>9. StacksOK' /\ TopBecomes(t, f)
  BY <1>1, <1>2, <1>6, <1>7, <1>8, StepElsewhere
<1>10. MapMoves(t, f)
  BY <1>1, <1>2, <1>6 DEF MapMoves, HoldsMap
<1>11. MutexMoves(t, f)
  <2>1. PastMutex(Top(t)) /\ Counted(Top(t)) /\ ~ PastMutex(f)
    BY <1>2, <1>6 DEF PastMutex, Counted
  <2>2. b = 0 => mlock' = "none"
    BY <1>1, <1>5
  <2>3. b # 0 => mlock' = mlock
    BY <1>1, <1>3, <1>5
  <2> QED BY <2>1, <2>2, <2>3 DEF MutexMoves
<1>12. CountMoves(t, f)
  BY <1>1, <1>2, <1>6 DEF CountMoves, Counted
<1>13. StatusAgrees'
  BY <1>1, <1>2, <1>4, <1>6, <1>9, TopFacts, StatusStillAgrees DEF IInv, StatusAgrees
<1> QED BY <1>1, <1>2, <1>9, <1>10, <1>11, <1>12, <1>13, StepKeepsIInv DEF IInv, TypeOK

LEMMA LockedKeeps ==
  ASSUME IInv, NEW t \in Threads, Locked(t)
  PROVE  IInv'
<1> DEFINE n == Len(stack[t])
           b == Base(stack[t], n)
           f == [Top(t) EXCEPT !.call = "body", !.part = "load"]
<1>1. /\ Continue(t, f)
      /\ tinfo' = [tinfo EXCEPT ![t] = Top(t).locked]
      /\ maplock' = "none"
      /\ UNCHANGED <<status, mlock, pc, Rest>>
  BY DEF Locked
<1>2. StacksOK /\ stack[t] # <<>> /\ Top(t).part = "set" /\ Top(t).call = "lock"
  BY DEF Locked, In, IInv
<1>3. Top(t) \in Frames /\ FrameOK(Top(t), b)
  BY <1>2, TopFacts
<1>4. stack[t][n] = Top(t)
  BY DEF Top
<1>5. Top(t).locked = b + 1
  BY <1>2, <1>3 DEF FrameOK
<1>6. /\ f \in Frames /\ f.part = "load" /\ f.op = Top(t).op
      /\ f.by = Top(t).by /\ f.call = "body" /\ f.old = Top(t).old
  BY <1>3 DEF Frames, Parts
<1> HIDE DEF f
<1>7. FrameOK(f, b)
  BY <1>3, <1>6 DEF FrameOK
<1>8. ~ AtMap(Top(t)) /\ ~ BeforeMutex(Top(t))
  BY <1>2 DEF AtMap, BeforeMutex
<1>9. StacksOK' /\ TopBecomes(t, f)
  BY <1>1, <1>2, <1>6, <1>7, <1>8, StepElsewhere
<1>10. MapMoves(t, f)
  BY <1>1, <1>2, <1>6 DEF MapMoves, HoldsMap
<1>11. MutexMoves(t, f)
  BY <1>1, <1>2, <1>6 DEF MutexMoves, PastMutex
<1>12. CountMoves(t, f)
  BY <1>1, <1>5, <1>6 DEF CountMoves, Counted
<1>13. StatusAgrees'
  BY <1>1, <1>2, <1>4, <1>6, <1>9, TopFacts, StatusStillAgrees DEF IInv, StatusAgrees
<1> QED BY <1>1, <1>2, <1>9, <1>10, <1>11, <1>12, <1>13, StepKeepsIInv DEF IInv, TypeOK

LEMMA LoadKeeps ==
  ASSUME IInv, NEW t \in Threads, Load(t)
  PROVE  IInv'
<1> DEFINE n == Len(stack[t])
           b == Base(stack[t], n)
           f == [Top(t) EXCEPT !.part = "store", !.old = status]
<1>1. Continue(t, f) /\ UNCHANGED <<status, mlock, maplock, tinfo, pc, Rest>>
  BY DEF Load
<1>2. StacksOK /\ stack[t] # <<>> /\ Top(t).part = "load" /\ status \in 0 .. 2
  BY DEF Load, In, IInv, TypeOK
<1>3. Top(t) \in Frames /\ FrameOK(Top(t), b)
  BY <1>2, TopFacts
<1>4. Top(t).call = "body"
  BY <1>2, <1>3 DEF FrameOK
<1>5. /\ f \in Frames /\ f.part = "store" /\ f.op = Top(t).op
      /\ f.by = Top(t).by /\ f.call = "body" /\ f.old = status
  BY <1>2, <1>3, <1>4 DEF Frames, Parts
<1> HIDE DEF f
<1>6. FrameOK(f, b)
  BY <1>3, <1>5 DEF FrameOK
<1>7. ~ AtMap(Top(t)) /\ ~ BeforeMutex(Top(t))
  BY <1>2, <1>4 DEF AtMap, BeforeMutex
<1>8. StacksOK' /\ TopBecomes(t, f)
  BY <1>1, <1>2, <1>5, <1>6, <1>7, StepElsewhere
<1>9. MapMoves(t, f)
  BY <1>1, <1>2, <1>5 DEF MapMoves, HoldsMap
<1>10. MutexMoves(t, f)
  BY <1>1, <1>4, <1>5 DEF MutexMoves, PastMutex
<1>11. CountMoves(t, f)
  BY <1>1, <1>4, <1>5 DEF CountMoves, Counted
<1>12. StatusAgrees'
  BY <1>1, <1>2, <1>4, <1>5, <1>8, StatusStillAgrees DEF IInv
<1> QED BY <1>1, <1>2, <1>8, <1>9, <1>10, <1>11, <1>12, StepKeepsIInv DEF IInv, TypeOK

\* What is stored: the status goes on by one, or stays, and it leaves 0 only for
\* the main thread's assignment.
LEMMA StoredNext ==
  ASSUME IInv, NEW t \in Threads, In(t, "store")
  PROVE  /\ Stored(Top(t)) \in 0 .. 2
         /\ Stored(Top(t)) \in {status, status + 1}
         /\ Top(t).op = "assign" => /\ t = "main" /\ Len(stack[t]) = 1
                                    /\ Stored(Top(t)) = 1
         /\ Top(t).op # "assign" /\ status = 0 => Stored(Top(t)) = 0
<1> DEFINE n == Len(stack[t])
           f == Top(t)
<1>1. StacksOK /\ stack[t] # <<>> /\ f.part = "store" /\ status \in 0 .. 2
  BY DEF In, IInv, TypeOK
<1>2. f \in Frames /\ FrameOK(f, Base(stack[t], n)) /\ n \in 1 .. n
  BY <1>1, TopFacts
<1>3. f = stack[t][n]
  BY DEF Top
<1>4. f.call = "body"
  BY <1>1, <1>2 DEF FrameOK
<1>5. f.old \in 0 .. 2 /\ f.old <= status /\ f.op \in {"assign", "get", "getifset"}
  BY <1>2, <1>3 DEF IInv, StatusAgrees, Frames
<1>6. ASSUME f.op = "assign" PROVE t = "main" /\ n = 1 /\ status = 0
  <2>1. f.by = NoSignal
    BY <1>2, <1>6 DEF FrameOK
  <2>2. n = 1 /\ t = "main"
    BY <1>1, <1>2, <1>3, <2>1 DEF IInv, StatusAgrees, StacksOK, StackOK
  <2>3. pc = "assigning"
    BY <1>2, <1>3, <1>6 DEF IInv, StatusAgrees
  <2> QED BY <1>3, <1>4, <2>2, <2>3 DEF IInv, StatusAgrees
<1>7. /\ f.op = "assign" => Stored(f) = 1
      /\ f.op = "getifset" /\ f.old = 1 => Stored(f) = 2
      /\ f.op # "assign" /\ ~(f.op = "getifset" /\ f.old = 1) => Stored(f) = status
  BY DEF Stored
<1> HIDE DEF f, n
<1>8. Stored(f) \in {status, status + 1} /\ Stored(f) \in 0 .. 2
  BY <1>1, <1>5, <1>6, <1>7
<1>9. f.op # "assign" /\ status = 0 => Stored(f) = 0
  BY <1>5, <1>7
<1> QED BY <1>6, <1>7, <1>8, <1>9 DEF f, n

LEMMA StoreKeeps ==
  ASSUME IInv, NEW t \in Threads, Store(t)
  PROVE  IInv'
<1> DEFINE n == Len(stack[t])
           b == Base(stack[t], n)
           f == [Top(t) EXCEPT !.call = "unlock", !.part = "getEnter"]
<1>1. /\ status' = Stored(Top(t)) /\ Continue(t, f) /\ In(t, "store")
      /\ UNCHANGED <<mlock, maplock, tinfo, pc, Rest>>
  BY DEF Store
<1>2. StacksOK /\ stack[t] # <<>> /\ Top(t).part = "store" /\ status \in 0 .. 2
  BY DEF Store, In, IInv, TypeOK
<1>3. /\ Top(t) \in Frames /\ FrameOK(Top(t), b) /\ n \in Nat \ {0} /\ n \in 1 .. n
      /\ \A k \in 1 .. n : k = n \/ k \in 1 .. n - 1
  BY <1>2, TopFacts
<1>4. Top(t).call = "body"
  BY <1>2, <1>3 DEF FrameOK
<1>5. /\ f \in Frames /\ f.part = "getEnter" /\ f.op = Top(t).op
      /\ f.by = Top(t).by /\ f.call = "unlock" /\ f.old = Top(t).old
  BY <1>3 DEF Frames, Parts
<1>6. stack[t][n] = Top(t)
  BY DEF Top
<1> HIDE DEF f, n, b
<1>7. FrameOK(f, b)
  BY <1>3, <1>5 DEF FrameOK
<1>8. ~ AtMap(Top(t)) /\ ~ BeforeMutex(Top(t))
  BY <1>2, <1>4 DEF AtMap, BeforeMutex
<1>9. StacksOK' /\ TopBecomes(t, f)
  BY <1>1, <1>2, <1>5, <1>7, <1>8, StepElsewhere DEF n, b
<1>10. MapMoves(t, f)
  BY <1>1, <1>2, <1>5 DEF MapMoves, HoldsMap
<1>11. MutexMoves(t, f)
  BY <1>1, <1>4, <1>5 DEF MutexMoves, PastMutex
<1>12. CountMoves(t, f)
  BY <1>1, <1>4, <1>5 DEF CountMoves, Counted
<1>13. /\ status' \in 0 .. 2 /\ status <= status'
       /\ Top(t).op = "assign" => t = "main" /\ n = 1 /\ status' = 1
       /\ Top(t).op # "assign" /\ status = 0 => status' = 0
  BY <1>1, <1>2, StoredNext DEF n
<1>14. StatusAgrees'
  <2>1. /\ \A u \in Threads \ {t} : stack'[u] = stack[u]
        /\ Len(stack'[t]) = n /\ stack'[t][n] = f
        /\ \A k \in 1 .. n - 1 : stack'[t][k] = stack[t][k]
    BY <1>9 DEF TopBecomes, SameUpTo, n
  <2>2. ASSUME NEW u \in Threads PROVE Len(stack'[u]) = Len(stack[u])
    BY <2>1 DEF n
  <2>3. ASSUME NEW u \in Threads, NEW k \in 1 .. Len(stack[u])
        PROVE  /\ stack'[u][k].op = stack[u][k].op /\ stack'[u][k].by = stack[u][k].by
               /\ stack'[u][k].old = stack[u][k].old
               /\ ~(u = t /\ k = n) => stack'[u][k] = stack[u][k]
    <3>1. CASE u = t /\ k = n
      BY <1>5, <1>6, <2>1, <3>1
    <3>2. CASE u = t /\ k # n
      <4>1. k \in 1 .. n - 1
        BY <1>3, <3>2 DEF n
      <4> QED BY <2>1, <3>2, <4>1
    <3>3. CASE u # t
      BY <2>1, <3>3
    <3> QED BY <3>1, <3>2, <3>3
  <2>4. "main" \in Threads /\ "worker" \in Threads
    BY DEF Threads
  <2>5. \A u \in Threads : \A k \in 1 .. Len(stack[u]) : stack[u][k].old \in Int
    <3> SUFFICES ASSUME NEW u \in Threads, NEW k \in 1 .. Len(stack[u])
                 PROVE  stack[u][k].old \in Int
      OBVIOUS
    <3>1. stack[u][k] \in Frames
      BY <1>2, ElementOfSeq DEF StacksOK
    <3> QED BY <3>1 DEF Frames
  <2>6. \A u \in Threads : \A k \in 1 .. Len(stack'[u]) :
          /\ stack'[u][k].old <= status'
          /\ stack'[u][k].by = NoSignal => u = "main"
          /\ stack'[u][k].op = "assign" => pc = "assigning"
          /\ stack'[u][k].op = "get" => pc = "polling"
    <3> SUFFICES ASSUME NEW u \in Threads, NEW k \in 1 .. Len(stack'[u])
                 PROVE  /\ stack'[u][k].old <= status'
                        /\ stack'[u][k].by = NoSignal => u = "main"
                        /\ stack'[u][k].op = "assign" => pc = "assigning"
                        /\ stack'[u][k].op = "get" => pc = "polling"
      OBVIOUS
    <3>1. k \in 1 .. Len(stack[u])
      BY <2>2
    <3>2. stack[u][k].old <= status /\ stack[u][k].old \in Int
      BY <2>5, <3>1 DEF IInv, StatusAgrees
    <3>3. stack'[u][k].old <= status'
      BY <1>2, <1>13, <2>3, <3>1, <3>2
    <3> QED BY <2>3, <3>1, <3>3 DEF IInv, StatusAgrees
  <2>7. ASSUME Top(t).op = "assign" PROVE pc = "assigning"
    BY <1>3, <1>6, <2>7 DEF IInv, StatusAgrees, n
  <2>8. ASSUME pc \in {"starting", "installed", "killed"} PROVE status' = 0
    BY <1>13, <2>7, <2>8 DEF IInv, StatusAgrees
  <2>9. ASSUME pc \in {"looping", "polling", "returned"} PROVE status' # 0
    BY <1>2, <1>13, <2>9 DEF IInv, StatusAgrees
  <2>10. ASSUME pc = "assigning"
         PROVE  /\ Len(stack'["main"]) > 0
                /\ stack'["main"][1].op = "assign"
                /\ stack'["main"][1].call = "unlock" <=> status' # 0
    <3>1. Len(stack["main"]) > 0 /\ stack["main"][1].op = "assign"
          /\ (stack["main"][1].call = "unlock" => status # 0)
          /\ (status # 0 => stack["main"][1].call = "unlock")
      BY <2>10 DEF IInv, StatusAgrees
    <3>2. 1 \in 1 .. Len(stack["main"])
      <4>1. stack["main"] \in Seq(Frames)
        BY <1>2, <2>4 DEF StacksOK
      <4> QED BY <3>1, <4>1, LenProperties
    <3>3. Len(stack'["main"]) > 0 /\ stack'["main"][1].op = "assign"
      BY <2>2, <2>3, <2>4, <3>1, <3>2
    <3>4. CASE Top(t).op = "assign"
      BY <1>5, <1>13, <2>1, <3>3, <3>4
    <3>5. CASE Top(t).op # "assign"
      <4>1. ~("main" = t /\ 1 = n)
        BY <1>6, <3>1, <3>5
      <4>2. stack'["main"][1] = stack["main"][1]
        BY <2>3, <2>4, <3>1, <3>2, <4>1
      <4>3. (status = 0 => status' = 0) /\ (status # 0 => status' # 0)
        BY <1>2, <1>13, <3>5
      <4> QED BY <3>1, <3>3, <4>2, <4>3
    <3> QED BY <3>4, <3>5
  <2>11. pc' = pc
    BY <1>1
  <2>12. Len(stack'["worker"]) > 0 => pc \in {"looping", "polling", "returned"}
    BY <2>2, <2>4 DEF IInv, StatusAgrees
  <2> QED BY <2>6, <2>8, <2>9, <2>10, <2>11, <2>12 DEF StatusAgrees
<1> QED BY <1>1, <1>2, <1>9, <1>10, <1>11, <1>12, <1>13, <1>14, StepKeepsIInv

\* The operation on top returns.
LEMMA UnlockedKeeps ==
  ASSUME IInv, NEW t \in Threads, Unlocked(t)
  PROVE  IInv'
<1> DEFINE n == Len(stack[t])
           b == Base(stack[t], n)
           f == Top(t)
<1>1. /\ tinfo' = [tinfo EXCEPT ![t] = f.locked]
      /\ maplock' = "none"
      /\ stack' = [stack EXCEPT ![t] = SubSeq(@, 1, Len(@) - 1)]
      /\ pc' = Resume(t, f)
      /\ UNCHANGED <<status, mlock, Rest>>
  BY DEF Unlocked
<1>2. /\ StacksOK /\ stack[t] # <<>> /\ f.part = "set" /\ f.call = "unlock"
      /\ pc \notin {"returned", "killed"}
  BY DEF Unlocked, In, IInv
<1>3. /\ f \in Frames /\ FrameOK(f, b) /\ b \in 0 .. 2 /\ n \in Nat \ {0} /\ n \in 1 .. n
      /\ \A k \in 1 .. n : k = n \/ k \in 1 .. n - 1
      /\ \A k \in 1 .. n - 1 : k \in 1 .. n /\ (HoldsMap(stack[t][k]) => AtMap(f))
  BY <1>2, TopFacts
<1>4. f = stack[t][n]
  BY DEF Top
<1>5. f.locked = b
  BY <1>2, <1>3 DEF FrameOK
<1>6. HoldsMap(f) /\ ~ AtMap(f) /\ ~ PastMutex(f)
  BY <1>2 DEF HoldsMap, AtMap, PastMutex
<1>7. /\ stack \in [Threads -> Seq(Frames)] /\ StackOK(stack[t])
      /\ stack'[t] = SubSeq(stack[t], 1, n - 1)
      /\ \A u \in Threads \ {t} : stack'[u] = stack[u]
  BY <1>1, <1>2 DEF StacksOK
<1>8. StackOK(stack'[t]) /\ Len(stack'[t]) = n - 1 /\ SameUpTo(stack[t], stack'[t], n - 1)
  <2> DEFINE v == stack'[t]
             s == stack[t]
  <2>1. StackOK(s) /\ Len(s) > 0 /\ v = SubSeq(s, 1, Len(s) - 1) /\ n = Len(s)
    BY <1>3, <1>7
  <2> HIDE DEF v, s, n
  <2>2. StackOK(v) /\ Len(v) = Len(s) - 1 /\ SameUpTo(s, v, Len(v))
    BY <2>1, OperationPopped
  <2>3. SameUpTo(s, v, n - 1)
    BY <2>1, <2>2
  <2> QED BY <2>1, <2>2, <2>3 DEF v, s
<1>9. StacksOK'
  <2>1. stack'[t] \in Seq(Frames)
    BY <1>8 DEF StackOK
  <2>2. stack' \in [Threads -> Seq(Frames)]
    BY <1>1, <1>7, <2>1
  <2> QED BY <1>2, <1>7, <1>8, <2>2 DEF StacksOK
<1>10. /\ \A k \in 1 .. n - 1 : /\ stack'[t][k] = stack[t][k]
                                /\ HasMutex(stack'[t], k) => HasMutex(stack[t], k)
                                /\ HasMutex(stack[t], k) => HasMutex(stack'[t], k)
       /\ Base(stack'[t], n) = b
  <2>1. n \in 1 .. (n - 1) + 1
    BY <1>3
  <2> QED BY <1>8, <2>1 DEF SameUpTo
<1> HIDE DEF n, b, f
<1>11. t # "none" /\ \A u \in Threads : u # "none"
  BY DEF Threads
<1>12. MapAgrees'
  <2>1. maplock = t
    BY <1>3, <1>4, <1>6 DEF IInv, MapAgrees, n
  <2>2. ASSUME NEW u \in Threads, NEW k \in 1 .. Len(stack'[u]) PROVE ~ HoldsMap(stack'[u][k])
    <3>1. CASE u = t
      BY <1>3, <1>6, <1>8, <1>10, <3>1
    <3>2. CASE u # t
      BY <1>7, <2>1, <3>2 DEF IInv, MapAgrees
    <3> QED BY <3>1, <3>2
  <2> QED BY <1>1, <1>11, <2>2 DEF MapAgrees
<1>13. MutexAgrees'
  <2>1. ~ HasMutex(stack[t], n)
    BY <1>4, <1>6 DEF HasMutex
  <2>2. (\E k \in 1 .. n : HasMutex(stack[t], k)) <=> \E k \in 1 .. n - 1 : HasMutex(stack'[t], k)
    BY <1>3, <1>10, <2>1
  <2>3. mlock = t <=> \E k \in 1 .. Len(stack'[t]) : HasMutex(stack'[t], k)
    BY <1>8, <2>2 DEF IInv, MutexAgrees, n
  <2> QED BY <1>1, <1>7, <2>3 DEF IInv, MutexAgrees
<1>14. CountAgrees'
  <2>1. tinfo'[t] = b /\ \A u \in Threads \ {t} : tinfo'[u] = tinfo[u]
    BY <1>1, <1>5 DEF IInv, TypeOK
  <2>2. Len(stack'[t]) + 1 = n
    BY <1>3, <1>8
  <2> QED BY <1>7, <1>10, <2>1, <2>2 DEF IInv, CountAgrees
<1>15. NothingInHand'
  <2> SUFFICES ASSUME ~ caught, NEW u \in Threads, NEW k \in 1 .. Len(stack'[u]) - 1
               PROVE  ~ InHand(stack'[u], k)
    BY <1>1 DEF NothingInHand, Rest
  <2>1. CASE u = t
    <3>1. k \in 1 .. Len(stack[t]) - 1 /\ k \in 1 .. n - 1
      BY <1>3, <1>8, <2>1 DEF n
    <3> QED BY <1>10, <2>1, <3>1 DEF IInv, NothingInHand, InHand
  <2>2. CASE u # t
    BY <1>7, <2>2 DEF IInv, NothingInHand
  <2> QED BY <2>1, <2>2
<1>16. /\ f.op \in {"assign", "get"} => t = "main" /\ n = 1
       /\ f.op = "assign" => pc = "assigning" /\ pc' = "looping"
       /\ f.op = "get" => pc = "polling" /\ pc' \in {"looping", "returned"}
       /\ f.op \notin {"assign", "get"} => pc' = pc
  <2>1. f.op \in {"assign", "get", "getifset"}
    BY <1>3 DEF Frames
  <2>2. /\ f.op = "assign" => pc' = "looping"
        /\ f.op = "get" => pc' \in {"looping", "returned"}
        /\ f.op = "getifset" => pc' = pc
    BY <1>1 DEF Resume
  <2>3. (f.op = "assign" => pc = "assigning") /\ (f.op = "get" => pc = "polling")
    BY <1>3, <1>4 DEF IInv, StatusAgrees, n
  <2>4. ASSUME f.op \in {"assign", "get"} PROVE t = "main" /\ n = 1
    <3>1. f.by = NoSignal
      BY <1>3, <2>4 DEF FrameOK
    <3> QED BY <1>3, <1>4, <1>7, <3>1 DEF IInv, StatusAgrees, StackOK, n
  <2> QED BY <2>1, <2>2, <2>3, <2>4
<1>17. ASSUME NEW u \in Threads, NEW k \in 1 .. Len(stack'[u])
       PROVE  /\ k \in 1 .. Len(stack[u]) /\ stack'[u][k] = stack[u][k]
              /\ ~(u = t /\ k = n)
  <2>1. CASE u = t
    BY <1>3, <1>8, <1>10, <2>1 DEF n
  <2>2. CASE u # t
    BY <1>7, <2>2
  <2> QED BY <2>1, <2>2
<1>18. StatusAgrees'
  <2>1. "main" \in Threads /\ "worker" \in Threads /\ status' = status /\ status \in 0 .. 2
    BY <1>1 DEF Threads, IInv, TypeOK
  <2>2. ASSUME NEW u \in Threads, NEW k \in 1 .. Len(stack'[u])
        PROVE  /\ stack'[u][k].old <= status'
               /\ stack'[u][k].by = NoSignal => u = "main"
               /\ stack'[u][k].op = "assign" => pc' = "assigning"
               /\ stack'[u][k].op = "get" => pc' = "polling"
    <3>1. stack[u][k].op \in {"assign", "get"} => u = "main" /\ k = 1
      <4>1. FrameOK(stack[u][k], Base(stack[u], k)) /\ StackOK(stack[u])
        BY <1>2, <1>17 DEF StacksOK, StackOK
      <4> QED BY <1>17, <4>1 DEF FrameOK, IInv, StatusAgrees, StackOK
    <3>2. stack[u][k].op \in {"assign", "get"} => f.op \notin {"assign", "get"}
      BY <1>16, <1>17, <3>1
    <3> QED BY <1>16, <1>17, <2>1, <3>2 DEF IInv, StatusAgrees
  <2>3. pc' \in {"starting", "installed", "killed"} => status' = 0
    BY <1>16, <2>1 DEF IInv, StatusAgrees
  <2>4. ASSUME pc' \in {"looping", "polling", "returned"} PROVE status' # 0
    <3>1. CASE f.op = "assign"
      <4>1. stack["main"][1].call = "unlock"
        BY <1>2, <1>4, <1>16, <3>1
      <4> QED BY <1>16, <2>1, <3>1, <4>1 DEF IInv, StatusAgrees
    <3>2. CASE f.op # "assign"
      BY <1>16, <2>1, <2>4, <3>2 DEF IInv, StatusAgrees
    <3> QED BY <3>1, <3>2
  <2>5. ASSUME pc' = "assigning"
        PROVE  /\ Len(stack'["main"]) > 0
               /\ stack'["main"][1].op = "assign"
               /\ stack'["main"][1].call = "unlock" <=> status' # 0
    <3>1. pc = "assigning" /\ f.op # "assign"
      BY <1>16, <2>5
    <3>2. /\ Len(stack["main"]) > 0 /\ stack["main"][1].op = "assign"
          /\ stack["main"][1].call = "unlock" <=> status # 0
      BY <3>1 DEF IInv, StatusAgrees
    <3>3. t = "main" => n > 1
      BY <1>3, <1>4, <3>1, <3>2
    <3>4. Len(stack'["main"]) > 0 /\ stack'["main"][1] = stack["main"][1]
      <4>1. CASE t = "main"
        <5>1. 1 \in 1 .. n - 1
          BY <1>3, <3>3, <4>1
        <5> QED BY <1>3, <1>8, <1>10, <3>3, <4>1, <5>1
      <4>2. CASE t # "main"
        BY <1>7, <2>1, <3>2, <4>2
      <4> QED BY <4>1, <4>2
    <3> QED BY <2>1, <3>2, <3>4
  <2>6. ASSUME Len(stack'["worker"]) > 0 PROVE pc' \in {"looping", "polling", "returned"}
    <3>1. Len(stack["worker"]) > 0
      <4>1. CASE t = "worker"
        BY <1>3, <4>1 DEF n
      <4>2. CASE t # "worker"
        BY <1>7, <2>1, <2>6, <4>2
      <4> QED BY <4>1, <4>2
    <3> QED BY <1>16, <3>1 DEF IInv, StatusAgrees
  <2> QED BY <2>2, <2>3, <2>4, <2>5, <2>6 DEF StatusAgrees
<1>19. TypeOK'
  <2>1. pc' \in Places
    BY <1>16 DEF IInv, TypeOK, Places
  <2>2. tinfo' \in [Threads -> 0..3]
    BY <1>1, <1>3, <1>5 DEF IInv, TypeOK
  <2>3. \A u \in Threads : \A i \in DOMAIN stack'[u] : stack'[u][i] \in Frames
    BY <1>9, ElementOfSeq DEF StacksOK
  <2> QED BY <1>1, <2>1, <2>2, <2>3 DEF IInv, TypeOK, Rest
<1> QED BY <1>9, <1>12, <1>13, <1>14, <1>15, <1>18, <1>19 DEF IInv

-----------------------------------------------------------------------------
\* A new operation begins on top of t's stack.
LEMMA PushStacks ==
  ASSUME IInv, NEW t \in Threads, NEW name, NEW by \in Signals \cup {NoSignal}, Push(t, name, by),
         by = NoSignal => name \in {"assign", "get"} /\ stack[t] = <<>>,
         by # NoSignal => name = "getifset",
         by # NoSignal => ~ Blocked(by, t),
         UNCHANGED <<mlock, maplock, tinfo>>
  PROVE  /\ StacksOK' /\ MapAgrees' /\ MutexAgrees' /\ CountAgrees'
         /\ \A u \in Threads \ {t} : stack'[u] = stack[u]
         /\ Len(stack'[t]) = Len(stack[t]) + 1 /\ Len(stack[t]) \in Nat
         /\ stack'[t][Len(stack[t]) + 1] = Operation(name, by)
         /\ SameUpTo(stack[t], stack'[t], Len(stack[t]))
         /\ \A u \in Threads : \A i \in DOMAIN stack'[u] : stack'[u][i] \in Frames
<1> DEFINE f == Operation(name, by)
           s == stack[t]
           v == stack'[t]
<1>1. /\ f \in Frames /\ \A b : FrameOK(f, b)
      /\ AtMap(f) /\ BeforeMutex(f) /\ ~ Counted(f) /\ ~ HoldsMap(f) /\ ~ PastMutex(f)
      /\ f.by = by
  BY OperationOK
<1>2. stack \in [Threads -> Seq(Frames)] /\ StacksOK
  BY DEF IInv, StacksOK
<1>3. v = Append(s, f) /\ \A u \in Threads \ {t} : stack'[u] = stack[u]
  BY <1>2 DEF Push
<1>4. StackOK(s) /\ s \in Seq(Frames) /\ Len(s) \in Nat
  BY <1>2 DEF StacksOK
<1>5. \A k \in 1 .. Len(s) : s[k].by # by
  <2>1. CASE by = NoSignal
    BY <2>1
  <2>2. CASE by # NoSignal
    BY <1>4, <2>2 DEF Blocked
  <2> QED BY <2>1, <2>2
<1> HIDE DEF f, s, v
<1>6. BeginsOn(f, s)
  <2>1. by = NoSignal => Len(s) = 0
    BY DEF s
  <2> QED BY <1>1, <1>5, <2>1 DEF BeginsOn
<1>7. /\ StackOK(v) /\ Len(v) = Len(s) + 1 /\ v[Len(s) + 1] = f /\ SameUpTo(s, v, Len(s))
      /\ Base(v, Len(v) + 1) = Base(s, Len(s) + 1)
  BY <1>3, <1>4, <1>6, OperationPushed
<1>8. StacksOK'
  <2>1. v \in Seq(Frames)
    BY <1>7 DEF StackOK
  <2>2. stack' \in [Threads -> Seq(Frames)]
    BY <1>2, <2>1 DEF Push, v
  <2> QED BY <1>2, <1>3, <1>7, <2>2 DEF StacksOK, v
<1>9. /\ \A k \in 1 .. Len(s) : /\ v[k] = s[k]
                                /\ HasMutex(v, k) => HasMutex(s, k)
                                /\ HasMutex(s, k) => HasMutex(v, k)
      /\ ~ HasMutex(v, Len(s) + 1)
  BY <1>1, <1>7 DEF SameUpTo, HasMutex
<1>10. \A k \in 1 .. Len(v) : k = Len(s) + 1 \/ k \in 1 .. Len(s)
  BY <1>4, <1>7
<1>11. \A k \in 1 .. Len(s) : k \in 1 .. Len(v)
  BY <1>4, <1>7
<1>12. MapAgrees'
  <2>1. (\E k \in 1 .. Len(v) : HoldsMap(v[k])) <=> \E k \in 1 .. Len(s) : HoldsMap(s[k])
    BY <1>1, <1>7, <1>9, <1>10, <1>11
  <2> QED BY <1>3, <2>1 DEF IInv, MapAgrees, s, v
<1>13. MutexAgrees'
  <2>1. (\E k \in 1 .. Len(v) : HasMutex(v, k)) <=> \E k \in 1 .. Len(s) : HasMutex(s, k)
    BY <1>7, <1>9, <1>10, <1>11
  <2> QED BY <1>3, <2>1 DEF IInv, MutexAgrees, s, v
<1>14. CountAgrees'
  BY <1>3, <1>7 DEF IInv, CountAgrees, s, v
<1>15. \A u \in Threads : \A i \in DOMAIN stack'[u] : stack'[u][i] \in Frames
  BY <1>8, ElementOfSeq DEF StacksOK
<1> QED BY <1>3, <1>4, <1>7, <1>8, <1>12, <1>13, <1>14, <1>15 DEF f, s, v

\* Above an empty stack a new operation leaves nothing in hand below it.
LEMMA AboveNothing ==
  ASSUME IInv, NEW t \in Threads, stack[t] = <<>>, caught' = caught,
         \A u \in Threads \ {t} : stack'[u] = stack[u], Len(stack'[t]) = Len(stack[t]) + 1
  PROVE  NothingInHand'
<1> SUFFICES ASSUME ~ caught, NEW u \in Threads, NEW k \in 1 .. Len(stack'[u]) - 1
             PROVE  ~ InHand(stack'[u], k)
  BY DEF NothingInHand
<1>1. u # t
  <2>1. Len(<<>>) = 0
    OBVIOUS
  <2>2. Len(stack'[t]) = 1
    BY <2>1
  <2>3. ASSUME u = t PROVE FALSE
    <3>1. k \in 1 .. 1 - 1
      BY <2>2, <2>3
    <3> QED BY <3>1
  <2> QED BY <2>3
<1> QED BY <1>1 DEF IInv, NothingInHand

LEMMA AssignKeeps == IInv /\ Assign => IInv'
<1> SUFFICES ASSUME IInv, Assign PROVE IInv'
  OBVIOUS
<1> DEFINE f == Operation("assign", NoSignal)
<1>1. /\ pc = "installed" /\ stack["main"] = <<>> /\ Push("main", "assign", NoSignal)
      /\ pc' = "assigning" /\ UNCHANGED <<status, mlock, maplock, tinfo, Rest>>
  BY DEF Assign, MainAt
<1>2. "main" \in Threads /\ "worker" \in Threads /\ "worker" # "main"
  BY DEF Threads
<1>3. /\ StacksOK' /\ MapAgrees' /\ MutexAgrees' /\ CountAgrees'
      /\ \A u \in Threads \ {"main"} : stack'[u] = stack[u]
      /\ Len(stack'["main"]) = 1 /\ stack'["main"][1] = f
      /\ \A u \in Threads : \A i \in DOMAIN stack'[u] : stack'[u][i] \in Frames
  <2>1. Len(stack["main"]) = 0 /\ stack["main"] = <<>>
    BY <1>1
  <2>2. NoSignal \in Signals \cup {NoSignal} /\ UNCHANGED <<mlock, maplock, tinfo>>
    BY <1>1
  <2> HIDE DEF f
  <2>3. /\ StacksOK' /\ MapAgrees' /\ MutexAgrees' /\ CountAgrees'
        /\ \A u \in Threads \ {"main"} : stack'[u] = stack[u]
        /\ Len(stack'["main"]) = Len(stack["main"]) + 1
        /\ stack'["main"][Len(stack["main"]) + 1] = f
        /\ \A u \in Threads : \A i \in DOMAIN stack'[u] : stack'[u][i] \in Frames
    BY <1>1, <1>2, <2>1, <2>2, PushStacks DEF f
  <2> QED BY <2>1, <2>3
<1>4. NothingInHand'
  <2>1. Len(stack'["main"]) = Len(stack["main"]) + 1 /\ caught' = caught
    BY <1>1, <1>3 DEF Rest
  <2> QED BY <1>1, <1>2, <1>3, <2>1, AboveNothing
<1>5. f.op = "assign" /\ f.call = "lock" /\ f.old = 0 /\ f.by = NoSignal
  BY DEF Operation
<1>6. StatusAgrees'
  <2>1. status' = 0 /\ ~(Len(stack["worker"]) > 0)
    BY <1>1 DEF IInv, StatusAgrees
  <2>2. Len(stack'["worker"]) = Len(stack["worker"])
    BY <1>2, <1>3
  <2> HIDE DEF f
  <2>3. ASSUME NEW u \in Threads, NEW k \in 1 .. Len(stack'[u])
        PROVE  u = "main" /\ k = 1 /\ stack'[u][k] = f
    <3>1. u = "main"
      <4>1. stack["worker"] \in Seq(Frames)
        BY <1>2 DEF IInv, StacksOK
      <4>2. 1 .. Len(stack["worker"]) = {}
        BY <2>1, <4>1
      <4>3. u = "worker" \/ u = "main"
        BY DEF Threads
      <4> QED BY <2>2, <4>2, <4>3
    <3>2. Len(stack'["main"]) = 1 /\ stack'["main"][1] = f
      BY <1>3
    <3>3. k = 1
      BY <3>1, <3>2
    <3> QED BY <3>1, <3>2, <3>3
  <2> QED BY <1>1, <1>3, <1>5, <2>1, <2>2, <2>3 DEF StatusAgrees
<1>7. TypeOK'
  BY <1>1, <1>3 DEF IInv, TypeOK, Places, Rest
<1> QED BY <1>3, <1>4, <1>6, <1>7 DEF IInv

LEMMA PollKeeps == IInv /\ Poll => IInv'
<1> SUFFICES ASSUME IInv, Poll PROVE IInv'
  OBVIOUS
<1> DEFINE f == Operation("get", NoSignal)
<1>1. /\ pc = "looping" /\ stack["main"] = <<>> /\ Push("main", "get", NoSignal)
      /\ pc' = "polling" /\ UNCHANGED <<status, mlock, maplock, tinfo, Rest>>
  BY DEF Poll, MainAt
<1>2. "main" \in Threads /\ "worker" \in Threads /\ "worker" # "main"
  BY DEF Threads
<1>3. /\ StacksOK' /\ MapAgrees' /\ MutexAgrees' /\ CountAgrees'
      /\ \A u \in Threads \ {"main"} : stack'[u] = stack[u]
      /\ Len(stack'["main"]) = 1 /\ stack'["main"][1] = f
      /\ \A u \in Threads : \A i \in DOMAIN stack'[u] : stack'[u][i] \in Frames
  <2>1. Len(stack["main"]) = 0 /\ stack["main"] = <<>>
    BY <1>1
  <2>2. NoSignal \in Signals \cup {NoSignal} /\ UNCHANGED <<mlock, maplock, tinfo>>
    BY <1>1
  <2> HIDE DEF f
  <2>3. /\ StacksOK' /\ MapAgrees' /\ MutexAgrees' /\ CountAgrees'
        /\ \A u \in Threads \ {"main"} : stack'[u] = stack[u]
        /\ Len(stack'["main"]) = Len(stack["main"]) + 1
        /\ stack'["main"][Len(stack["main"]) + 1] = f
        /\ \A u \in Threads : \A i \in DOMAIN stack'[u] : stack'[u][i] \in Frames
    BY <1>1, <1>2, <2>1, <2>2, PushStacks DEF f
  <2> QED BY <2>1, <2>3
<1>4. NothingInHand'
  <2>1. Len(stack'["main"]) = Len(stack["main"]) + 1 /\ caught' = caught
    BY <1>1, <1>3 DEF Rest
  <2> QED BY <1>1, <1>2, <1>3, <2>1, AboveNothing
<1>5. f.op = "get" /\ f.old = 0 /\ f.by = NoSignal
  BY DEF Operation
<1>6. StatusAgrees'
  <2>1. status' # 0 /\ status' = status /\ status \in 0 .. 2
    BY <1>1 DEF IInv, StatusAgrees, TypeOK
  <2>2. ASSUME NEW u \in Threads, NEW k \in 1 .. Len(stack'[u])
        PROVE  /\ stack'[u][k].old <= status'
               /\ stack'[u][k].by = NoSignal => u = "main"
               /\ stack'[u][k].op = "assign" => pc' = "assigning"
               /\ stack'[u][k].op = "get" => pc' = "polling"
    <3> HIDE DEF f
    <3>1. CASE u = "main"
      BY <1>1, <1>3, <1>5, <2>1, <3>1
    <3>2. CASE u # "main"
      BY <1>1, <1>3, <2>1, <3>2 DEF IInv, StatusAgrees
    <3> QED BY <3>1, <3>2
  <2> QED BY <1>1, <2>1, <2>2 DEF StatusAgrees
<1>7. TypeOK'
  BY <1>1, <1>3 DEF IInv, TypeOK, Places, Rest
<1> QED BY <1>3, <1>4, <1>6, <1>7 DEF IInv

\* A signal: what the interrupted operation has in hand is in hand below the
\* handler now, and the history says so.
LEMMA HandlerKeeps ==
  ASSUME IInv, NEW s \in Signals, NEW t \in Threads, Handler(s, t)
  PROVE  IInv'
<1> DEFINE f == Operation("getifset", s)
           n == Len(stack[t])
<1>1. /\ ~ Blocked(s, t) /\ pc \notin {"returned", "killed"} /\ Push(t, "getifset", s)
      /\ t = "worker" => pc \in {"looping", "polling"}
      /\ arriving > 0 /\ arriving' = arriving - 1
      /\ asked' = (asked \/ status # 0)
      /\ caught' = (caught \/ Caught(t))
      /\ UNCHANGED <<status, mlock, maplock, tinfo, pc, handled>>
  BY DEF Handler
<1>2. s # NoSignal
  BY DEF Signals, NoSignal
<1>3. /\ StacksOK' /\ MapAgrees' /\ MutexAgrees' /\ CountAgrees'
      /\ \A u \in Threads \ {t} : stack'[u] = stack[u]
      /\ Len(stack'[t]) = n + 1 /\ n \in Nat /\ stack'[t][n + 1] = f
      /\ SameUpTo(stack[t], stack'[t], n)
      /\ \A u \in Threads : \A i \in DOMAIN stack'[u] : stack'[u][i] \in Frames
  BY <1>1, <1>2, PushStacks
<1>4. /\ \A k \in 1 .. n : /\ stack'[t][k] = stack[t][k]
                           /\ HasMutex(stack'[t], k) => HasMutex(stack[t], k)
      /\ \A k \in 1 .. n + 1 : k = n + 1 \/ k \in 1 .. n
  BY <1>3 DEF SameUpTo
<1>5. f.op = "getifset" /\ f.old = 0 /\ f.by = s
  BY DEF Operation
<1> HIDE DEF f, n
<1>6. NothingInHand'
  <2> SUFFICES ASSUME ~ caught, ~ Caught(t), NEW u \in Threads, NEW k \in 1 .. Len(stack'[u]) - 1
               PROVE  ~ InHand(stack'[u], k)
    BY <1>1 DEF NothingInHand
  <2>1. CASE u # t
    BY <1>3, <2>1 DEF IInv, NothingInHand
  <2>2. CASE u = t
    <3>1. k \in 1 .. n
      BY <1>3, <2>2
    <3>2. ~ InHand(stack[t], k)
      <4>1. CASE k = n
        <5>1. ~ HoldsMap(stack[t][n])
          BY <3>1, <4>1 DEF IInv, MapAgrees, Caught, n
        <5>2. ASSUME HasMutex(stack[t], n), ~ Counted(stack[t][n]) PROVE FALSE
          <6>1. mlock = t
            BY <3>1, <4>1, <5>2 DEF IInv, MutexAgrees, n
          <6>2. Base(stack[t], n + 1) = 0
            BY <1>3, <3>1, <5>2, BaseOfNext DEF HasMutex
          <6>3. tinfo[t] = 0
            BY <6>2 DEF IInv, CountAgrees, n
          <6> QED BY <6>1, <6>3 DEF Caught
        <5> QED BY <4>1, <5>1, <5>2 DEF InHand
      <4>2. CASE k # n
        <5>1. k \in 1 .. Len(stack[t]) - 1
          BY <1>3, <3>1, <4>2 DEF n
        <5> QED BY <5>1 DEF IInv, NothingInHand
      <4> QED BY <4>1, <4>2
    <3> QED BY <1>4, <2>2, <3>1, <3>2 DEF InHand
  <2> QED BY <2>1, <2>2
<1>7. StatusAgrees'
  <2>1. status \in 0 .. 2 /\ status' = status /\ pc' = pc
    BY <1>1 DEF IInv, TypeOK
  <2>2. ASSUME NEW u \in Threads, NEW k \in 1 .. Len(stack'[u])
        PROVE  /\ stack'[u][k].old <= status'
               /\ stack'[u][k].by = NoSignal => u = "main"
               /\ stack'[u][k].op = "assign" => pc' = "assigning"
               /\ stack'[u][k].op = "get" => pc' = "polling"
    <3>1. CASE u = t /\ k = n + 1
      BY <1>2, <1>3, <1>5, <2>1, <3>1
    <3>2. CASE u = t /\ k # n + 1
      <4>1. k \in 1 .. n
        BY <1>3, <1>4, <3>2
      <4> QED BY <1>4, <2>1, <3>2, <4>1 DEF IInv, StatusAgrees, n
    <3>3. CASE u # t
      BY <1>3, <2>1, <3>3 DEF IInv, StatusAgrees
    <3> QED BY <3>1, <3>2, <3>3
  <2>3. "main" \in Threads /\ "worker" \in Threads
    BY DEF Threads
  <2>4. ASSUME pc = "assigning"
        PROVE  Len(stack'["main"]) > 0 /\ stack'["main"][1] = stack["main"][1]
    <3>1. Len(stack["main"]) > 0
      BY <2>4 DEF IInv, StatusAgrees
    <3>2. CASE t = "main"
      BY <1>3, <1>4, <3>1, <3>2 DEF n
    <3>3. CASE t # "main"
      BY <1>3, <2>3, <3>1, <3>3
    <3> QED BY <3>2, <3>3
  <2>5. Len(stack'["worker"]) > 0 => pc \in {"looping", "polling", "returned"}
    <3>1. CASE t = "worker"
      BY <1>1, <3>1
    <3>2. CASE t # "worker"
      BY <1>3, <2>3, <3>2 DEF IInv, StatusAgrees
    <3> QED BY <3>1, <3>2
  <2> QED BY <2>1, <2>2, <2>4, <2>5 DEF IInv, StatusAgrees
<1>8. TypeOK'
  BY <1>1, <1>3, MaxSignalsAssumption DEF IInv, TypeOK
<1> QED BY <1>3, <1>6, <1>7, <1>8 DEF IInv

-----------------------------------------------------------------------------
LEMMA InitEstablishesIInv == Init => IInv
<1> SUFFICES ASSUME Init PROVE IInv
  OBVIOUS
<1>1. \A t \in Threads : stack[t] = <<>> /\ Len(stack[t]) = 0 /\ 1 .. Len(stack[t]) = {}
  <2>1. \A t \in Threads : stack[t] = <<>>
    BY DEF Init
  <2>2. Len(<<>>) = 0 /\ 1 .. 0 = {}
    OBVIOUS
  <2> QED BY <2>1, <2>2
<1>2. stack \in [Threads -> Seq(Frames)]
  BY DEF Init
<1>3. TypeOK
  <2>1. \A t \in Threads : \A i \in DOMAIN stack[t] : stack[t][i] \in Frames
    BY <1>2, ElementOfSeq
  <2>2. arriving \in 0 .. MaxSignals
    BY MaxSignalsAssumption DEF Init
  <2>3. tinfo \in [Threads -> 0..3]
    BY DEF Init
  <2>4. asked \in BOOLEAN /\ caught \in BOOLEAN
    BY DEF Init
  <2>5. status \in 0..2 /\ pc \in Places /\ handled \subseteq Signals
    BY DEF Init, Places
  <2>6. mlock \in Threads \cup {"none"} /\ maplock \in Threads \cup {"none"}
    BY DEF Init
  <2> QED BY <2>1, <2>2, <2>3, <2>4, <2>5, <2>6 DEF TypeOK
<1>4. \A t \in Threads : StackOK(stack[t])
  BY <1>1, <1>2 DEF StackOK
<1>5. MapAgrees /\ MutexAgrees
  BY <1>1 DEF Init, MapAgrees, MutexAgrees, Threads
<1>6. CountAgrees
  <2> SUFFICES ASSUME NEW t \in Threads PROVE tinfo[t] = Base(stack[t], Len(stack[t]) + 1)
    BY DEF CountAgrees
  <2>1. tinfo[t] = 0 /\ Len(stack[t]) + 1 = 1
    BY <1>1 DEF Init
  <2> QED BY <2>1, BaseOfFirst
<1>7. NothingInHand
  <2>1. \A t \in Threads : 1 .. Len(stack[t]) - 1 = {}
    <3>1. 1 .. 0 - 1 = {}
      OBVIOUS
    <3> QED BY <1>1, <3>1
  <2> QED BY <2>1 DEF NothingInHand
<1>8. StatusAgrees
  BY <1>1 DEF Init, StatusAgrees, Threads
<1> QED BY <1>2, <1>3, <1>4, <1>5, <1>6, <1>7, <1>8 DEF IInv, StacksOK

\* What a step leaves alone keeps the invariant.
LEMMA StacksUntouchedKeep ==
  ASSUME IInv, UNCHANGED <<lockVars, caught>>, TypeOK', StatusAgrees'
  PROVE  IInv'
<1>1. StacksOK' /\ MapAgrees' /\ MutexAgrees' /\ CountAgrees' /\ NothingInHand'
  BY DEF IInv, lockVars, StacksOK, MapAgrees, MutexAgrees, CountAgrees, NothingInHand
<1> QED BY <1>1 DEF IInv

LEMMA NextKeepsIInv == IInv /\ [Next]_vars => IInv'
<1> SUFFICES ASSUME IInv, [Next]_vars PROVE IInv'
  OBVIOUS
<1>1. CASE UNCHANGED vars
  <2>1. TypeOK' /\ StatusAgrees'
    BY <1>1 DEF vars, lockVars, IInv, TypeOK, StatusAgrees
  <2> QED BY <1>1, <2>1, StacksUntouchedKeep DEF vars
<1>2. CASE Install
  <2>1. TypeOK'
    BY <1>2 DEF Install, lockVars, IInv, TypeOK, Places, Signals
  <2>2. StatusAgrees'
    BY <1>2 DEF Install, MainAt, lockVars, IInv, StatusAgrees
  <2> QED BY <1>2, <2>1, <2>2, StacksUntouchedKeep DEF Install
<1>3. ASSUME NEW s \in Signals, DefaultAction(s) PROVE IInv'
  <2>1. TypeOK'
    BY <1>3, MaxSignalsAssumption DEF DefaultAction, lockVars, IInv, TypeOK, Places
  <2>2. StatusAgrees'
    BY <1>3 DEF DefaultAction, lockVars, IInv, StatusAgrees
  <2> QED BY <1>3, <2>1, <2>2, StacksUntouchedKeep DEF DefaultAction
<1>4. ASSUME NEW t \in Threads, Step(t) PROVE IInv'
  BY <1>4, EnterMapKeeps, MapGetKeeps, TakeMutexKeeps, FreeMutexKeeps, LockedKeeps, LoadKeeps,
     StoreKeeps, UnlockedKeeps DEF Step
<1> QED BY <1>1, <1>2, <1>3, <1>4, AssignKeeps, PollKeeps, HandlerKeeps DEF Next, Main

\* Whatever signals interrupt, the operations keep to the inductive invariant.
THEOREM IInvHolds == Spec => []IInv
  BY InitEstablishesIInv, NextKeepsIInv, PTL DEF Spec

\* Type correctness of the status, its lock and the operations under way.
THEOREM TypeCorrect == Spec => []TypeOK
<1>1. IInv => TypeOK  BY DEF IInv
<1> QED BY <1>1, IInvHolds, PTL

\* A thread waits for itself only where a signal has met it with a mutex in hand.
THEOREM OnlyCaughtIsStuckHolds == Spec => []OnlyCaughtIsStuck
<1>1. IInv => OnlyCaughtIsStuck
  <2> SUFFICES ASSUME IInv, NEW t \in Threads, Stuck(t), ~ caught PROVE FALSE
    BY DEF OnlyCaughtIsStuck
  <2> DEFINE n == Len(stack[t])
  <2>1. stack[t] # <<>> /\ StacksOK
    BY DEF Stuck, IInv
  <2>2. /\ n \in Nat \ {0} /\ FrameOK(Top(t), Base(stack[t], n))
        /\ \A k \in 1 .. n : k = n \/ k \in 1 .. n - 1
    BY <2>1, TopFacts
  <2>3. stack[t][n] = Top(t)
    BY DEF Top
  <2>4. \A k \in 1 .. n - 1 : ~ InHand(stack[t], k)
    BY DEF IInv, NothingInHand
  <2>5. CASE Top(t).part \in {"getEnter", "setEnter"} /\ maplock = t
    <3>1. PICK k \in 1 .. n : HoldsMap(stack[t][k])
      BY <2>5 DEF IInv, MapAgrees
    <3> QED BY <2>2, <2>3, <2>4, <2>5, <3>1 DEF InHand, HoldsMap
  <2>6. CASE Top(t).part = "mutex" /\ Top(t).call = "lock" /\ Top(t).locked = 0 /\ mlock = t
    <3>1. PICK k \in 1 .. n : HasMutex(stack[t], k)
      BY <2>6 DEF IInv, MutexAgrees
    <3>2. k \in 1 .. n - 1
      BY <2>2, <2>3, <2>6, <3>1 DEF HasMutex, PastMutex
    <3>3. Counted(stack[t][k])
      BY <2>4, <3>1, <3>2 DEF InHand
    <3>4. Base(stack[t], n) = 0
      BY <2>2, <2>6 DEF FrameOK
    <3> QED BY <2>2, <3>2, <3>3, <3>4, BaseCountsBelow
  <2> QED BY <2>5, <2>6 DEF Stuck
<1> QED BY <1>1, IInvHolds, PTL

\* The status goes from 0 to 1 to 2, though handlers and the main thread store it
\* without excluding each other where m_lock is passed by.
THEOREM StatusMovesOnHolds == Spec => StatusMovesOn
<1>1. IInv /\ [Next]_vars => [status' \in {status, status + 1}]_status
  <2> SUFFICES ASSUME IInv, [Next]_vars, status' # status
               PROVE  status' \in {status, status + 1}
    OBVIOUS
  <2>1. PICK t \in Threads : Store(t)
    BY DEF Next, Main, Install, Assign, Poll, Handler, DefaultAction, Step, EnterMap, MapGet,
       TakeMutex, FreeMutex, Locked, Load, Unlocked, vars, lockVars
  <2> QED BY <2>1, StoredNext DEF Store
<1> QED BY <1>1, IInvHolds, PTL DEF Spec, StatusMovesOn
=============================================================================
