---------------------------- MODULE RecursiveLock ----------------------------
(***************************************************************************)
(* What a recursive lock promises, and nothing about how it is built: one  *)
(* thread holds it at a time, the holder may take it again, and it becomes *)
(* free when the holder has given it back as often as it took it.          *)
(* LockableEx is shown to implement this specification.                    *)
(***************************************************************************)
EXTENDS Naturals

CONSTANTS Threads,   \* the threads that may take the lock
          NoThread   \* the holder of a free lock

VARIABLES holder,    \* the thread that holds the lock, or NoThread
          depth      \* how many times the holder has taken it

lockVars == <<holder, depth>>

Init == holder = NoThread /\ depth = 0

Acquire(t) == /\ holder \in {NoThread, t}
              /\ holder' = t
              /\ depth' = depth + 1

Release(t) == /\ holder = t
              /\ depth' = depth - 1
              /\ holder' = IF depth = 1 THEN NoThread ELSE t

Next == \E t \in Threads : Acquire(t) \/ Release(t)

Spec == Init /\ [][Next]_lockVars
=============================================================================
