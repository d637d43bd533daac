----------------------------- MODULE LockableEx -----------------------------
(***************************************************************************)
(* JsCPPUtils::LockableEx, the recursive lock under every AtomicNum and    *)
(* under GPSWork::Data (src/JsCPPUtils/LockableEx.h).  It is built from a  *)
(* plain, non-recursive pthread mutex (m_lock) and a map from thread to    *)
(* nesting count (m_tinfo).  lock() and unlock() read the caller's count,  *)
(* touch the mutex only at the outermost level, and write the count back;  *)
(* the three parts are separate steps between which other threads run.     *)
(*                                                                         *)
(* TSSimpleMap::get and ::set hold the map's own mutex for their whole     *)
(* body and take no other lock inside, so each is one step here.  The      *)
(* interruption of those bodies by a signal handler is RunStatus.tla.      *)
(***************************************************************************)
EXTENDS Integers

CONSTANTS Threads,   \* the threads that call lock() and unlock()
          NoThread,  \* the owner of a free mutex
          MaxDepth   \* bound: how deep the callers nest their lock() calls

ASSUME NoThreadAssumption == NoThread \notin Threads
ASSUME MaxDepthAssumption == MaxDepth \in Nat \ {0}

VARIABLES
  mutex,    \* m_lock: the thread that owns the pthread mutex, or NoThread
  tinfo,    \* m_tinfo: the nesting count stored for each thread
  locked,   \* the local variable _locked of the call each thread is in
  pc,       \* the part of lock() or unlock() each thread executes next
  calls     \* caller's view: lock() calls returned minus unlock() calls made

vars == <<mutex, tinfo, locked, pc, calls>>

Parts == {"client", "lock", "lockSet", "unlock", "unlockSet"}

\* m_map[key] of an unknown thread value-initialises its count to 0.
Init == /\ mutex = NoThread
        /\ tinfo = [t \in Threads |-> 0]
        /\ locked = [t \in Threads |-> 0]
        /\ pc = [t \in Threads |-> "client"]
        /\ calls = [t \in Threads |-> 0]

-----------------------------------------------------------------------------
\* lock(): int _locked = m_tinfo.get(curthread)
LockGet(t) == /\ pc[t] = "client"
              /\ locked' = [locked EXCEPT ![t] = tinfo[t]]
              /\ pc' = [pc EXCEPT ![t] = "lock"]
              /\ UNCHANGED <<mutex, tinfo, calls>>

\* Mutant: lock() tests the count after it has been raised.
LockMutexPreIncrement(t) == /\ pc[t] = "lock"
                            /\ locked' = [locked EXCEPT ![t] = @ + 1]
                            /\ pc' = [pc EXCEPT ![t] = "lockSet"]
                            /\ UNCHANGED <<mutex, tinfo, calls>>

\* lock(): if(_locked++ == 0) m_lock.lock() -- the caller waits for the mutex
\* at the outermost level and passes through at an inner one.
LockMutex(t) == /\ pc[t] = "lock"
                /\ IF locked[t] = 0 THEN mutex = NoThread /\ mutex' = t
                                    ELSE UNCHANGED mutex
                /\ locked' = [locked EXCEPT ![t] = @ + 1]
                /\ pc' = [pc EXCEPT ![t] = "lockSet"]
                /\ UNCHANGED <<tinfo, calls>>

\* Mutant: lock() does not store the count.
LockSetForgets(t) == /\ pc[t] = "lockSet"
                     /\ pc' = [pc EXCEPT ![t] = "client"]
                     /\ calls' = [calls EXCEPT ![t] = @ + 1]
                     /\ UNCHANGED <<mutex, tinfo, locked>>

\* lock(): m_tinfo.set(curthread, _locked), and return
LockSet(t) == /\ pc[t] = "lockSet"
              /\ tinfo' = [tinfo EXCEPT ![t] = locked[t]]
              /\ pc' = [pc EXCEPT ![t] = "client"]
              /\ calls' = [calls EXCEPT ![t] = @ + 1]
              /\ UNCHANGED <<mutex, locked>>

\* unlock(): int _locked = m_tinfo.get(curthread)
UnlockGet(t) == /\ pc[t] = "client"
                /\ locked' = [locked EXCEPT ![t] = tinfo[t]]
                /\ pc' = [pc EXCEPT ![t] = "unlock"]
                /\ calls' = [calls EXCEPT ![t] = @ - 1]
                /\ UNCHANGED <<mutex, tinfo>>

\* Mutant: unlock() frees the mutex at every level.
UnlockMutexAlways(t) == /\ pc[t] = "unlock"
                        /\ mutex' = NoThread
                        /\ locked' = [locked EXCEPT ![t] = @ - 1]
                        /\ pc' = [pc EXCEPT ![t] = "unlockSet"]
                        /\ UNCHANGED <<tinfo, calls>>

\* unlock(): if(--_locked == 0) m_lock.unlock()
UnlockMutex(t) == /\ pc[t] = "unlock"
                  /\ mutex' = IF locked[t] = 1 THEN NoThread ELSE mutex
                  /\ locked' = [locked EXCEPT ![t] = @ - 1]
                  /\ pc' = [pc EXCEPT ![t] = "unlockSet"]
                  /\ UNCHANGED <<tinfo, calls>>

\* unlock(): m_tinfo.set(curthread, _locked), and return
UnlockSet(t) == /\ pc[t] = "unlockSet"
                /\ tinfo' = [tinfo EXCEPT ![t] = locked[t]]
                /\ pc' = [pc EXCEPT ![t] = "client"]
                /\ UNCHANGED <<mutex, locked, calls>>

\* The steps of a thread that is inside lock() or unlock().
Inside(t) == LockMutex(t) \/ LockSet(t) \/ UnlockMutex(t) \/ UnlockSet(t)

\* Every caller in the program pairs its calls: it unlocks what it locked,
\* and nests at most MaxDepth levels.
Next == \E t \in Threads : \/ calls[t] < MaxDepth /\ LockGet(t)
                           \/ calls[t] > 0 /\ UnlockGet(t)
                           \/ Inside(t)

Spec == Init /\ [][Next]_vars

-----------------------------------------------------------------------------
TypeOK == /\ mutex \in Threads \cup {NoThread}
          /\ tinfo \in [Threads -> Nat]
          /\ locked \in [Threads -> Nat]
          /\ pc \in [Threads -> Parts]
          /\ calls \in [Threads -> Nat]

\* A thread is in a critical section from the return of its outermost lock()
\* to its outermost call of unlock().
InCriticalSection(t) == calls[t] > 0

\* Two threads are never between lock() and unlock() of one object at once,
\* however their reads and writes of the nesting counts interleave.
MutualExclusion ==
  \A t, u \in Threads :
    InCriticalSection(t) /\ InCriticalSection(u) => t = u

\* No thread blocks on the mutex it owns itself: the pthread mutex is not
\* recursive, so a nesting count read as 0 by its owner would hang it for good.
NoSelfDeadlock ==
  \A t \in Threads : pc[t] = "lock" /\ locked[t] = 0 => mutex # t

\* pthread_mutex_unlock() is called by the owner only; by any other thread it
\* would release a lock somebody else relies on.
OwnerUnlocks ==
  \A t \in Threads : pc[t] = "unlock" /\ locked[t] = 1 => mutex = t

\* The nesting count that is in force for t: the one it is about to store, or
\* the one stored.
Depth(t) == IF pc[t] \in {"lockSet", "unlockSet"} THEN locked[t] ELSE tinfo[t]

\* The lock implements RecursiveLock: each call takes effect in one step.
Recursive == INSTANCE RecursiveLock
               WITH holder <- mutex,
                    depth <- IF mutex = NoThread THEN 0 ELSE Depth(mutex)

ImplementsRecursiveLock == Recursive!Spec
=============================================================================
