----------------------------- MODULE RunStatus -----------------------------
(***************************************************************************)
(* m_runstatus of the Daemon (src/JsCPPUtils/Daemon.cpp:60-77, 305-318 and *)
(* the loop of src/main.cpp): an AtomicNum that the main loop polls and    *)
(* that the signal handler sets.  A signal can interrupt a thread anywhere,*)
(* in the middle of an AtomicNum operation too, and its handler performs   *)
(* an AtomicNum operation of its own on the same thread.  So the lock is   *)
(* taken apart here down to the accesses of TSSimpleMap, whose mutex, like *)
(* m_lock, is a plain pthread mutex, and each thread has a stack of the    *)
(* operations it is in the middle of.                                      *)
(*                                                                         *)
(* SIGHUP is left out: main() sets no reload handler and no signal         *)
(* handler, so nothing happens on it.  So is the memory that m_map[key]    *)
(* allocates for a thread that is new to the map.                          *)
(***************************************************************************)
EXTENDS Sequences, Integers

\* The main thread, and the GPS worker as the other thread that signals reach.
Threads == {"main", "worker"}

Signals == {"SIGINT", "SIGTERM"}

CONSTANT MaxSignals   \* bound: how many signals arrive

ASSUME MaxSignalsAssumption == MaxSignals \in Nat

VARIABLES
  status,     \* m_value of m_runstatus
  mlock,      \* the owner of its m_lock
  maplock,    \* the owner of the mutex of its m_tinfo
  tinfo,      \* the nesting counts in m_tinfo
  stack,      \* for each thread, the operations it is in, innermost last
  pc,         \* where Daemon::main() and the main loop are
  handled,    \* the signals whose handler is installed
  arriving,   \* how many signals are still to come
  asked,      \* history: a signal has arrived after the status was set to 1
  caught      \* history: a signal has met its thread with a mutex in hand that
              \* the handler needs

lockVars == <<status, mlock, maplock, tinfo, stack>>
vars == <<lockVars, pc, handled, arriving, asked, caught>>

Places == {"starting", "installed", "assigning", "looping", "polling", "returned", "killed"}

Init == /\ status = 0
        /\ mlock = "none"
        /\ maplock = "none"
        /\ tinfo = [t \in Threads |-> 0]
        /\ stack = [t \in Threads |-> <<>>]
        /\ pc = "starting"
        /\ handled = {}
        /\ arriving = MaxSignals
        /\ asked = FALSE
        /\ caught = FALSE

-----------------------------------------------------------------------------
\* An operation is lock(), a body that loads and stores m_value, and unlock();
\* _locked and old are the locals of the call it is in, by is the signal whose
\* handler it belongs to, or NoSignal.
NoSignal == "none"

Operation(name, by) == [op |-> name, by |-> by, call |-> "lock", part |-> "getEnter",
                        locked |-> 0, old |-> 0]

Top(t) == stack[t][Len(stack[t])]

In(t, part) == stack[t] # <<>> /\ Top(t).part = part /\ pc \notin {"returned", "killed"}

Continue(t, frame) == stack' = [stack EXCEPT ![t][Len(stack[t])] = frame]

Push(t, name, by) == stack' = [stack EXCEPT ![t] = Append(@, Operation(name, by))]

Rest == <<handled, arriving, asked, caught>>

\* TSSimpleMap::get and ::set: lock()
EnterMap(t) ==
  \E half \in {<<"getEnter", "get">>, <<"setEnter", "set">>} :
    /\ In(t, half[1])
    /\ maplock = "none"
    /\ maplock' = t
    /\ Continue(t, [Top(t) EXCEPT !.part = half[2]])
    /\ UNCHANGED <<status, mlock, tinfo, pc, Rest>>

\* Mutant: get() returns its value-initialised local.
MapGetDefault(t) ==
  /\ In(t, "get")
  /\ maplock' = "none"
  /\ Continue(t, [Top(t) EXCEPT !.part = "mutex", !.locked = 0])
  /\ UNCHANGED <<status, mlock, tinfo, pc, Rest>>

\* TSSimpleMap::get: value = m_map[key]; unlock()
MapGet(t) ==
  /\ In(t, "get")
  /\ maplock' = "none"
  /\ Continue(t, [Top(t) EXCEPT !.part = "mutex", !.locked = tinfo[t]])
  /\ UNCHANGED <<status, mlock, tinfo, pc, Rest>>

\* Mutant: m_lock lets its owner pass.
TakeMutexRecursive(t) ==
  /\ In(t, "mutex") /\ Top(t).call = "lock"
  /\ IF Top(t).locked = 0 THEN mlock \in {"none", t} /\ mlock' = t ELSE UNCHANGED mlock
  /\ Continue(t, [Top(t) EXCEPT !.part = "setEnter", !.locked = @ + 1])
  /\ UNCHANGED <<status, maplock, tinfo, pc, Rest>>

\* LockableEx::lock: if(_locked++ == 0) m_lock.lock()
TakeMutex(t) ==
  /\ In(t, "mutex") /\ Top(t).call = "lock"
  /\ IF Top(t).locked = 0 THEN mlock = "none" /\ mlock' = t ELSE UNCHANGED mlock
  /\ Continue(t, [Top(t) EXCEPT !.part = "setEnter", !.locked = @ + 1])
  /\ UNCHANGED <<status, maplock, tinfo, pc, Rest>>

\* Mutant: unlock() tests _locked - 1 and does not lower _locked.
FreeMutexKeepsCount(t) ==
  /\ In(t, "mutex") /\ Top(t).call = "unlock"
  /\ mlock' = IF Top(t).locked = 1 THEN "none" ELSE mlock
  /\ Continue(t, [Top(t) EXCEPT !.part = "setEnter"])
  /\ UNCHANGED <<status, maplock, tinfo, pc, Rest>>

\* LockableEx::unlock: if(--_locked == 0) m_lock.unlock()
FreeMutex(t) ==
  /\ In(t, "mutex") /\ Top(t).call = "unlock"
  /\ mlock' = IF Top(t).locked = 1 THEN "none" ELSE mlock
  /\ Continue(t, [Top(t) EXCEPT !.part = "setEnter", !.locked = @ - 1])
  /\ UNCHANGED <<status, maplock, tinfo, pc, Rest>>

\* TSSimpleMap::set at the end of lock(): m_map[key] = value; unlock()
Locked(t) ==
  /\ In(t, "set") /\ Top(t).call = "lock"
  /\ tinfo' = [tinfo EXCEPT ![t] = Top(t).locked]
  /\ maplock' = "none"
  /\ Continue(t, [Top(t) EXCEPT !.call = "body", !.part = "load"])
  /\ UNCHANGED <<status, mlock, pc, Rest>>

\* The bodies of get(), operator= and getifset(): old = m_value ...
Load(t) ==
  /\ In(t, "load")
  /\ Continue(t, [Top(t) EXCEPT !.part = "store", !.old = status])
  /\ UNCHANGED <<status, mlock, maplock, tinfo, pc, Rest>>

\* Mutant: getifset() without its condition.
StoredAlways(frame) == CASE frame.op = "assign" -> 1
                         [] frame.op = "getifset" -> 2
                         [] OTHER -> status

\* What an operation leaves in m_value: operator=(1), getifset(2, 1), get().
Stored(frame) == CASE frame.op = "assign" -> 1
                   [] frame.op = "getifset" /\ frame.old = 1 -> 2
                   [] OTHER -> status

Store(t) ==
  /\ In(t, "store")
  /\ status' = Stored(Top(t))
  /\ Continue(t, [Top(t) EXCEPT !.call = "unlock", !.part = "getEnter"])
  /\ UNCHANGED <<mlock, maplock, tinfo, pc, Rest>>

\* Mutant: while(pdaemon->getRunStatus())
ResumeNonzero(t, frame) ==
  CASE frame.op = "assign" -> "looping"
    [] frame.op = "get" -> IF frame.old # 0 THEN "looping" ELSE "returned"
    [] frame.op = "getifset" -> pc

\* Where the main thread goes when its own operation returns: the loop goes on
\* while the status it got is 1.
Resume(t, frame) ==
  CASE frame.op = "assign" -> "looping"
    [] frame.op = "get" -> IF frame.old = 1 THEN "looping" ELSE "returned"
    [] frame.op = "getifset" -> pc

\* TSSimpleMap::set at the end of unlock(), and the return from the operation.
Unlocked(t) ==
  /\ In(t, "set") /\ Top(t).call = "unlock"
  /\ tinfo' = [tinfo EXCEPT ![t] = Top(t).locked]
  /\ maplock' = "none"
  /\ stack' = [stack EXCEPT ![t] = SubSeq(@, 1, Len(@) - 1)]
  /\ pc' = Resume(t, Top(t))
  /\ UNCHANGED <<status, mlock, Rest>>

Step(t) == \/ EnterMap(t) \/ MapGet(t) \/ TakeMutex(t) \/ FreeMutex(t)
           \/ Locked(t) \/ Load(t) \/ Store(t) \/ Unlocked(t)

-----------------------------------------------------------------------------
\* The main thread is between two operations, and no handler runs on it.
MainAt(place) == pc = place /\ stack["main"] = <<>>

\* signal(SIGINT, ...), then signal(SIGTERM, ...)
Install == /\ MainAt("starting")
           /\ handled' = IF handled = {} THEN {"SIGINT"} ELSE Signals
           /\ pc' = IF handled = {} THEN "starting" ELSE "installed"
           /\ UNCHANGED <<lockVars, arriving, asked, caught>>

\* m_runstatus = 1
Assign == /\ MainAt("installed")
          /\ Push("main", "assign", NoSignal)
          /\ pc' = "assigning"
          /\ UNCHANGED <<status, mlock, maplock, tinfo, Rest>>

\* while(pdaemon->getRunStatus() == 1); a pass of the loop is one point here.
Poll == /\ MainAt("looping")
        /\ Push("main", "get", NoSignal)
        /\ pc' = "polling"
        /\ UNCHANGED <<status, mlock, maplock, tinfo, Rest>>

\* A mutex that t has in hand and that a handler on t would wait for: the map's
\* mutex, or m_lock before the nesting count says so.
Caught(t) == maplock = t \/ (mlock = t /\ tinfo[t] = 0)

\* While the handler of a signal runs on a thread the signal is blocked there;
\* the other signal is not.
Blocked(s, t) == \E k \in DOMAIN stack[t] : stack[t][k].by = s

\* A signal arrives at a thread; the worker exists while the loop runs.
Handler(s, t) == /\ arriving > 0
                 /\ s \in handled
                 /\ ~Blocked(s, t)
                 /\ pc \notin {"returned", "killed"}
                 /\ t = "worker" => pc \in {"looping", "polling"}
                 /\ Push(t, "getifset", s)
                 /\ arriving' = arriving - 1
                 /\ asked' = (asked \/ status # 0)
                 /\ caught' = (caught \/ Caught(t))
                 /\ UNCHANGED <<status, mlock, maplock, tinfo, pc, handled>>

\* Before its handler is installed a signal ends the process.
DefaultAction(s) == /\ arriving > 0
                    /\ s \in Signals \ handled
                    /\ pc = "starting"
                    /\ pc' = "killed"
                    /\ arriving' = arriving - 1
                    /\ UNCHANGED <<lockVars, handled, asked, caught>>

Main == Install \/ Assign \/ Poll

Next == \/ Main
        \/ \E t \in Threads : Step(t) \/ \E s \in Signals : Handler(s, t)
        \/ \E s \in Signals : DefaultAction(s)

Spec == Init /\ [][Next]_vars

\* Threads are scheduled, and one that waits for a mutex gets it if it keeps
\* coming free: the main loop sleeps 250 ms between two polls.  No signal need
\* arrive.
FairSpec == Spec /\ WF_vars(Main) /\ \A t \in Threads : SF_vars(Step(t))

-----------------------------------------------------------------------------
Parts == {"getEnter", "get", "mutex", "setEnter", "set", "load", "store"}

Frames == [op: {"assign", "get", "getifset"}, by: Signals \cup {NoSignal}, call: {"lock", "body", "unlock"},
           part: Parts, locked: 0..3, old: 0..2]

TypeOK == /\ status \in 0..2
          /\ mlock \in Threads \cup {"none"} /\ maplock \in Threads \cup {"none"}
          /\ tinfo \in [Threads -> 0..3]
          /\ \A t \in Threads : \A i \in DOMAIN stack[t] : stack[t][i] \in Frames
          /\ pc \in Places
          /\ handled \subseteq Signals /\ arriving \in 0..MaxSignals
          /\ asked \in BOOLEAN /\ caught \in BOOLEAN

\* t waits for a mutex that it holds itself: the handler on top of its stack
\* can never go on, and nothing below it can.
Stuck(t) == /\ stack[t] # <<>>
            /\ \/ Top(t).part \in {"getEnter", "setEnter"} /\ maplock = t
               \/ /\ Top(t).part = "mutex" /\ Top(t).call = "lock"
                  /\ Top(t).locked = 0 /\ mlock = t

\* A handler hangs its thread only if the signal met the thread with the map's
\* mutex in hand, or with m_lock in hand and the nesting count not yet stored.
\* Everywhere else in an operation, and in unlock() after m_lock is free, the
\* signal may come.
OnlyCaughtIsStuck == (\E t \in Threads : Stuck(t)) => caught

\* The status goes from 0 to 1 to 2, and the request to stop is never undone,
\* even where a handler gets past m_lock because it interrupts an unlock()
\* whose count is still the old one.
StatusMovesOn == [][status' \in {status, status + 1}]_status

\* And in those two places it hangs, for good: they are exactly the unsafe ones.
CaughtHangs == caught ~> [](pc = "returned" \/ \E t \in Threads : Stuck(t))

\* A signal that arrives while the status is 1 ends the main loop, on whichever
\* thread its handler runs, unless a signal was caught as above.  (One that
\* arrives after signal() and before the 1 is stored is lost.)
AskedStops == asked ~> (pc = "returned" \/ caught)

\* What Daemon.h says of the status: 0 is "stopped", 1 "running", 2 "stopping".
StoppedIsZero == pc = "returned" => status = 0
=============================================================================
