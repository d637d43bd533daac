------------------------------ MODULE MainLoop ------------------------------
(***************************************************************************)
(* daemon_main() (src/main.cpp:30-170) in time: the loop with its two      *)
(* timers, the signals that cut its usleep() short, and its end, where the *)
(* destructor of GPSWork runs against the worker.  What a pass asks and    *)
(* draws is in StatusRow, GPSData and Display; here it only takes time.    *)
(*                                                                         *)
(* The timers are ages, like everything here that is compared with the     *)
(* clock; time passes in GPSWork's ticks.                                  *)
(***************************************************************************)
EXTENDS GPSWork

CONSTANTS
  Period,      \* usleep(250000), and the 250 ms that timers[3] asks for
  SetUpEvery,  \* the 60000 ms that timers[2] asks for
  MaxOpen,     \* bound: the most ticks busOpen() and init_ntpq() take
  MaxQuery,    \* bound: the most ticks the queries of a pass take
  MaxDraw      \* bound: the most ticks init() and the four rows take

ASSUME LoopAssumption == /\ Period \in Nat \ {0} /\ SetUpEvery \in Nat \ {0}
                         /\ MaxOpen \in Nat /\ MaxQuery \in Nat /\ MaxDraw \in Nat

VARIABLES
  at,        \* where the loop is
  left,      \* ticks until what it does there returns
  workAge,   \* time since timers[3]: the start of the last pass that worked
  setUpAge,  \* time since timers[2]: the start of the last pass with an init()
  initAge,   \* time since the last init() itself
  shownAge,  \* age of the time that the last row shows
  stopAge    \* time since a signal has set the status to 2

ages == <<workAge, setUpAge, initAge, shownAge, stopAge>>
loopVars == <<at, left, ages>>
allVars == <<vars, loopVars>>

Never == -1   \* a timer at 0, a row not yet drawn, no signal yet

\* The timers are 0, which is long ago on the clock of a system that is up.
LoopInit == /\ Init
            /\ at = "open"
            /\ left \in 0..MaxOpen
            /\ workAge = Period
            /\ setUpAge = Never /\ initAge = Never /\ shownAge = Never /\ stopAge = Never

Done(p) == at = p /\ left = 0
GoOn(p, t) == at' = p /\ left' \in 0..t

OpenReturns == /\ Done("open")
               /\ GoOn("test", 0)
               /\ UNCHANGED <<vars, ages>>

Pause == at' = "sleep" /\ left' = Period

\* Mutant: timers[3] is set in every pass.
SkipPassResetsTimer == /\ Done("test")
                       /\ stopAge = Never
                       /\ workAge < Period
                       /\ workAge' = 0
                       /\ Pause
                       /\ UNCHANGED <<vars, setUpAge, initAge, shownAge, stopAge>>

\* getRunStatus() == 1, but a signal has woken the loop before its time.
SkipPass == /\ Done("test")
            /\ stopAge = Never
            /\ workAge < Period
            /\ Pause
            /\ UNCHANGED <<vars, ages>>

\* The time that will be shown is read here, and ntpd is asked afterwards.
BeginPass == /\ Done("test")
             /\ stopAge = Never
             /\ workAge >= Period
             /\ workAge' = 0
             /\ GoOn("query", MaxQuery)
             /\ UNCHANGED <<vars, setUpAge, initAge, shownAge, stopAge>>

\* timers[2] is compared with the start of the pass.
SetUpDue == setUpAge = Never \/ setUpAge - workAge >= SetUpEvery

\* Mutant: timers[2] is set in every pass.
QueryReturnsSetsTimer == /\ Done("query")
                         /\ setUpAge' = workAge
                         /\ initAge' = IF SetUpDue THEN 0 ELSE initAge
                         /\ GoOn("draw", MaxDraw)
                         /\ UNCHANGED <<vars, workAge, shownAge, stopAge>>

\* ... and set to it, when init() is called.
QueryReturns == /\ Done("query")
                /\ setUpAge' = IF SetUpDue THEN workAge ELSE setUpAge
                /\ initAge' = IF SetUpDue THEN 0 ELSE initAge
                /\ GoOn("draw", MaxDraw)
                /\ UNCHANGED <<vars, workAge, shownAge, stopAge>>

DrawReturns == /\ Done("draw")
               /\ shownAge' = workAge
               /\ Pause
               /\ UNCHANGED <<vars, workAge, setUpAge, initAge, stopAge>>

Wake == /\ Done("sleep")
        /\ GoOn("test", 0)
        /\ UNCHANGED <<vars, ages>>

\* getRunStatus() == 2: the loop ends, and the destructor begins.
EndLoop == /\ Done("test")
           /\ stopAge # Never
           /\ AskToStop
           /\ GoOn("end", 0)
           /\ UNCHANGED ages

Loop == \/ OpenReturns \/ SkipPass \/ BeginPass \/ QueryReturns \/ DrawReturns
        \/ Wake \/ EndLoop

\* Mutant: the loop sleeps once more, for as long again.
CutPauseRestarts == /\ at = "sleep" /\ left \in 1 .. Period - 1
                    /\ left' = Period
                    /\ UNCHANGED <<vars, at, ages>>

\* A signal ends the loop's usleep() after a tick or more; SIGHUP does nothing
\* else.
CutPause == /\ at = "sleep" /\ left \in 1 .. Period - 1
            /\ left' = 0
            /\ UNCHANGED <<vars, at, ages>>

\* SIGINT or SIGTERM sets the status, wherever it meets the loop.
AskedTo == /\ stopAge = Never /\ at # "end"
           /\ stopAge' = 0
           /\ UNCHANGED <<vars, at, left, workAge, setUpAge, initAge, shownAge>>

Older(age) == IF age = Never THEN Never ELSE age + 1

\* Time passes for the loop and the destructor together with the worker; once
\* the destructor has returned, the process ends.
Time == /\ Elapse
        /\ at # "end" => left > 0
        /\ mpc # "destroyed"
        /\ left' = Elapsed(left)
        /\ workAge' = workAge + 1
        /\ setUpAge' = Older(setUpAge)
        /\ initAge' = Older(initAge)
        /\ shownAge' = Older(shownAge)
        /\ stopAge' = Older(stopAge)
        /\ UNCHANGED at

\* The worker's and the destructor's steps.
Work == /\ Worker \/ Poll \/ Destroy \/ PeerFails \/ CutSleep \/ CutPoll
        /\ mpc # "destroyed"
        /\ UNCHANGED loopVars

LoopNext == Loop \/ CutPause \/ AskedTo \/ Time \/ Work

LoopSpec == LoopInit /\ [][LoopNext]_allVars

\* The threads are scheduled and time passes; signals and gpsd are free.
LoopFairSpec == /\ LoopSpec
                /\ WF_allVars(Loop) /\ WF_allVars(Time)
                /\ WF_allVars(Worker /\ Work) /\ WF_allVars((Poll \/ Destroy) /\ Work)

-----------------------------------------------------------------------------
Longer(a, b) == IF a >= b THEN a ELSE b
MaxPass == MaxQuery + MaxDraw

\* The longest from one working pass to the next: a slow pass and its pause, or
\* pauses that are cut short until the timer is just not due once more.
MaxGap == Longer(MaxPass + Period, 2 * Period - 1)

\* The clock row is never further behind than a pass and the gap before it, also
\* when signals keep cutting the pause short (main.cpp:53-57, 162-166).
ClockInTime == mpc = "running" => shownAge <= MaxGap + MaxPass

\* The set-up that repairs the display comes at its time, though it is decided
\* by the start of a pass that may be slow or left out (main.cpp:57, 134-137).
SetUpInTime == mpc = "running" => initAge < SetUpEvery + MaxGap + MaxQuery

\* A request to stop ends the daemon within one pass, its pause and the wait of
\* the destructor, whatever the worker does (main.cpp:43, 166; GPSWork.cpp:22).
StopsInTime == stopAge <= Longer(MaxOpen, MaxPass + Period) + Polls

\* ... and it does end, though signals may cut its pauses and polls short.
StopsAtAll == stopAge # Never ~> mpc = "destroyed"
=============================================================================
