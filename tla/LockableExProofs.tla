-------------------------- MODULE LockableExProofs --------------------------
(***************************************************************************)
(* Proofs about LockableEx for every set of threads and every nesting      *)
(* bound.  The safety properties are not inductive by themselves: what     *)
(* carries them is that the count each call works on is the right one for  *)
(* its place in lock() or unlock(), and that the mutex belongs to exactly  *)
(* the thread whose count in force is positive.                            *)
(***************************************************************************)
EXTENDS LockableEx, TLAPS

\* The count a thread works on, the count stored for it and its caller's
\* balance of calls agree as its place in the code says.
CountsAgree(t) ==
  /\ pc[t] \in {"client", "lock", "lockSet"} => tinfo[t] = calls[t]
  /\ pc[t] \in {"unlock", "unlockSet"} => tinfo[t] = calls[t] + 1
  /\ pc[t] \in {"lock", "unlock"} => locked[t] = tinfo[t]
  /\ pc[t] = "lockSet" => locked[t] = calls[t] + 1
  /\ pc[t] = "unlockSet" => locked[t] = calls[t]

\* The owner of the mutex is the thread whose count in force is positive.
OwnerIsHolder == \A t \in Threads : mutex = t <=> Depth(t) > 0

\* The inductive invariant.
IInv == /\ TypeOK
        /\ \A t \in Threads : CountsAgree(t)
        /\ OwnerIsHolder

-----------------------------------------------------------------------------
LEMMA InitEstablishesIInv == Init => IInv
  BY NoThreadAssumption DEF Init, IInv, TypeOK, Parts, CountsAgree,
                            OwnerIsHolder, Depth

\* A step of one thread keeps the counts of every thread in agreement.
LEMMA StepKeepsTypesAndCounts ==
  ASSUME IInv, NEW t \in Threads,
         \/ LockGet(t)
         \/ calls[t] > 0 /\ UnlockGet(t)
         \/ Inside(t)
  PROVE  TypeOK' /\ \A u \in Threads : CountsAgree(u)'
<1> USE DEF IInv, TypeOK, Parts, CountsAgree
<1>1. CASE LockGet(t)              BY <1>1 DEF LockGet
<1>2. CASE calls[t] > 0 /\ UnlockGet(t)
                                   BY <1>2 DEF UnlockGet
<1>3. CASE LockMutex(t)            BY <1>3 DEF LockMutex
<1>4. CASE LockSet(t)              BY <1>4 DEF LockSet
<1>5. CASE UnlockMutex(t)          BY <1>5 DEF UnlockMutex
<1>6. CASE UnlockSet(t)            BY <1>6 DEF UnlockSet
<1> QED BY <1>1, <1>2, <1>3, <1>4, <1>5, <1>6 DEF Inside

\* A step of one thread keeps the mutex with the thread whose count is in
\* force.
LEMMA StepKeepsOwner ==
  ASSUME IInv, NEW t \in Threads,
         \/ LockGet(t)
         \/ calls[t] > 0 /\ UnlockGet(t)
         \/ Inside(t)
  PROVE  OwnerIsHolder'
<1> USE NoThreadAssumption DEF IInv, TypeOK, Parts, CountsAgree, OwnerIsHolder, Depth
<1>1. CASE LockGet(t)              BY <1>1 DEF LockGet
<1>2. CASE calls[t] > 0 /\ UnlockGet(t)
                                   BY <1>2 DEF UnlockGet
<1>3. CASE LockMutex(t)            BY <1>3 DEF LockMutex
<1>4. CASE LockSet(t)              BY <1>4 DEF LockSet
<1>5. CASE UnlockMutex(t)          BY <1>5 DEF UnlockMutex
<1>6. CASE UnlockSet(t)            BY <1>6 DEF UnlockSet
<1> QED BY <1>1, <1>2, <1>3, <1>4, <1>5, <1>6 DEF Inside

LEMMA NextKeepsIInv == IInv /\ [Next]_vars => IInv'
<1> SUFFICES ASSUME IInv, [Next]_vars PROVE IInv'
  OBVIOUS
<1>1. CASE UNCHANGED vars
  BY <1>1 DEF vars, IInv, TypeOK, CountsAgree, OwnerIsHolder, Depth
<1>2. CASE Next
  <2>1. PICK t \in Threads : \/ LockGet(t)
                             \/ calls[t] > 0 /\ UnlockGet(t)
                             \/ Inside(t)
    BY <1>2 DEF Next
  <2> QED BY <2>1, StepKeepsTypesAndCounts, StepKeepsOwner DEF IInv
<1> QED BY <1>1, <1>2

\* LockableEx runs in the inductive invariant for ever.
THEOREM IInvHolds == Spec => []IInv
  BY InitEstablishesIInv, NextKeepsIInv, PTL DEF Spec

-----------------------------------------------------------------------------
\* Type correctness of lock() and unlock() for every set of threads.
THEOREM TypeCorrect == Spec => []TypeOK
<1>1. IInv => TypeOK  BY DEF IInv
<1> QED BY <1>1, IInvHolds, PTL

\* Two threads are never between lock() and unlock() of one LockableEx at
\* once, for every set of threads and every nesting depth.
THEOREM MutualExclusionHolds == Spec => []MutualExclusion
<1>1. IInv => MutualExclusion
  <2> SUFFICES ASSUME IInv, NEW t \in Threads, NEW u \in Threads,
                      calls[t] > 0, calls[u] > 0
               PROVE  t = u
    BY DEF MutualExclusion, InCriticalSection
  <2>1. Depth(t) > 0 /\ Depth(u) > 0
    BY DEF IInv, TypeOK, Parts, CountsAgree, Depth
  <2> QED BY <2>1 DEF IInv, OwnerIsHolder
<1> QED BY <1>1, IInvHolds, PTL

\* A thread that calls lock() while it holds the lock never waits for its own
\* mutex, whatever the nesting depth.
THEOREM NoSelfDeadlockHolds == Spec => []NoSelfDeadlock
<1>1. IInv => NoSelfDeadlock
  BY DEF IInv, TypeOK, Parts, CountsAgree, OwnerIsHolder, Depth, NoSelfDeadlock
<1> QED BY <1>1, IInvHolds, PTL

\* The pthread mutex is only ever unlocked by the thread that owns it.
THEOREM OwnerUnlocksHolds == Spec => []OwnerUnlocks
<1>1. IInv => OwnerUnlocks
  BY DEF IInv, TypeOK, Parts, CountsAgree, OwnerIsHolder, Depth, OwnerUnlocks
<1> QED BY <1>1, IInvHolds, PTL

-----------------------------------------------------------------------------
\* Every step of LockableEx is a step of the abstract recursive lock or leaves
\* it alone.
LEMMA StepRefines ==
  ASSUME IInv, IInv', [Next]_vars
  PROVE  [Recursive!Next]_(Recursive!lockVars)
<1> USE NoThreadAssumption DEF IInv, TypeOK, Parts, CountsAgree, OwnerIsHolder, Depth
<1>1. CASE UNCHANGED vars
  BY <1>1 DEF vars, Recursive!lockVars
<1>2. ASSUME NEW t \in Threads, LockGet(t)
      PROVE  UNCHANGED Recursive!lockVars
  BY <1>2 DEF LockGet, Recursive!lockVars
<1>3. ASSUME NEW t \in Threads, calls[t] > 0, UnlockGet(t)
      PROVE  UNCHANGED Recursive!lockVars
  BY <1>3 DEF UnlockGet, Recursive!lockVars
<1>4. ASSUME NEW t \in Threads, LockMutex(t)
      PROVE  Recursive!Acquire(t)
  BY <1>4 DEF LockMutex, Recursive!Acquire
<1>5. ASSUME NEW t \in Threads, LockSet(t)
      PROVE  UNCHANGED Recursive!lockVars
  BY <1>5 DEF LockSet, Recursive!lockVars
<1>6. ASSUME NEW t \in Threads, UnlockMutex(t)
      PROVE  Recursive!Release(t)
  BY <1>6 DEF UnlockMutex, Recursive!Release
<1>7. ASSUME NEW t \in Threads, UnlockSet(t)
      PROVE  UNCHANGED Recursive!lockVars
  BY <1>7 DEF UnlockSet, Recursive!lockVars
<1> QED BY <1>1, <1>2, <1>3, <1>4, <1>5, <1>6, <1>7 DEF Next, Inside, Recursive!Next

\* LockableEx implements the recursive lock: to its callers every lock() and
\* every unlock() happens in one step, for every set of threads.
THEOREM RefinesRecursiveLock == Spec => ImplementsRecursiveLock
<1>1. Init => Recursive!Init
  BY DEF Init, Recursive!Init
<1> QED BY <1>1, IInvHolds, StepRefines, PTL
        DEF Spec, ImplementsRecursiveLock, Recursive!Spec
=============================================================================
