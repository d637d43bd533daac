--------------------------- MODULE MainLoopProofs ---------------------------
(***************************************************************************)
(* Proofs about the GPS worker and the main loop in time, for every        *)
(* duration of what they do.                                               *)
(*                                                                         *)
(* First the worker with its owner (GPSWork, Spec).  That the destructor   *)
(* outwaits the worker needs an account of time: at each place in its      *)
(* loop, the longest the worker can still need is less than what is left   *)
(* of the destructor's wait.                                               *)
(*                                                                         *)
(* Then the main loop (MainLoop, LoopSpec): it is the owner that GPSWork   *)
(* describes, its clock and its set-up keep their time whatever signals    *)
(* do, and a request to stop is served.                                    *)
(***************************************************************************)
EXTENDS MainLoop, TLAPS

\* What is left of the destructor's wait, whatever signals still cut off it.
Left == (Polls - cnt) + mleft - (MaxCuts - cuts)

InCall == {"open", "stream", "read", "close", "closeLast"}

\* How long the worker stays where it is.
StayBounded ==
  /\ wpc = "sleep" => wleft <= Sleep
  /\ wpc = "wait" => wleft <= Wait
  /\ wpc \in InCall => wleft <= MaxCall
  /\ wpc \notin InCall \cup {"sleep", "wait"} => wleft = 0

\* m_worker_run goes with the places of the two threads; the poll starts at 0.
RunAgrees ==
  /\ mpc = "running" => run = 1 /\ cnt = 0 /\ mleft = 0 /\ cuts = 0
  /\ mpc = "destroyed" => mleft = 0
  /\ mpc # "running" => run # 1
  /\ run = 0 => wpc \in {"tail", "done"}
  /\ wpc \in {"exit", "closeLast", "stop", "tail", "done"} => mpc # "running"

\* m_gpsconn_status says whether the context is open.
ConnAgrees ==
  /\ conn = 0 <=> peer = "none"
  /\ wpc = "open" => conn = 0
  /\ wpc \in {"stream", "wait", "read", "setData", "close", "closeLast"} => conn = 1
  /\ wpc \in {"stop", "tail", "done"} => conn = 0

\* The worker still needs less than what is left of the wait.
InTime ==
  /\ wpc = "sleep" => wleft + Wait + 2 * MaxCall < Left
  /\ wpc \in {"open", "wait"} => wleft + 2 * MaxCall < Left
  /\ wpc \in {"stream", "read", "close"} => wleft + MaxCall < Left
  /\ wpc \in {"test", "setData", "exit"} => MaxCall < Left
  /\ wpc = "closeLast" => wleft < Left
  /\ wpc = "stop" => 0 < Left

Timely == WaitSuffices =>
            /\ mpc = "polling" => InTime
            /\ mpc = "destroyed" => wpc \in {"tail", "done", "absent"}

\* The inductive invariant.
IInv == TypeOK /\ StayBounded /\ RunAgrees /\ ConnAgrees /\ Timely

-----------------------------------------------------------------------------
LEMMA InitEstablishesIInv == Init => IInv
  BY TimesAssumption
  DEF Init, IInv, TypeOK, Peers, WorkerAt, StayBounded, InCall, RunAgrees,
      ConnAgrees, Timely

\* The part of the invariant without time.
LEMMA NextKeepsPlaces ==
  ASSUME IInv, [Next]_vars
  PROVE  TypeOK' /\ StayBounded' /\ RunAgrees' /\ ConnAgrees'
<1> USE TimesAssumption
    DEF IInv, TypeOK, Peers, WorkerAt, StayBounded, InCall, RunAgrees,
        ConnAgrees, Goto, At, workerVars, ownerVars
<1>1. CASE UNCHANGED vars        BY <1>1 DEF vars
<1>2. CASE TestRun               BY <1>2 DEF TestRun
<1>3. CASE Switch                BY <1>3 DEF Switch
<1>4. CASE OpenFails             BY <1>4 DEF OpenFails
<1>5. CASE Open                  BY <1>5 DEF Open
<1>6. CASE StreamReturns         BY <1>6 DEF StreamReturns
<1>7. CASE WaitFails             BY <1>7 DEF WaitFails
<1>8. CASE WaitSucceeds          BY <1>8 DEF WaitSucceeds
<1>9. CASE ReadFails             BY <1>9 DEF ReadFails
<1>10. CASE ReadSucceeds         BY <1>10 DEF ReadSucceeds
<1>11. CASE SetData              BY <1>11 DEF SetData
<1>12. CASE CloseReturns         BY <1>12 DEF CloseReturns
<1>13. CASE LeaveLoop            BY <1>13 DEF LeaveLoop
<1>14. CASE CloseLastReturns     BY <1>14 DEF CloseLastReturns
<1>15. CASE Stop                 BY <1>15 DEF Stop
<1>16. CASE Tail                 BY <1>16 DEF Tail
<1>17. CASE AskToStop            BY <1>17 DEF AskToStop
<1>18. CASE Poll                 BY <1>18 DEF Poll
<1>19. CASE Destroy              BY <1>19 DEF Destroy
<1>20. CASE PeerFails            BY <1>20 DEF PeerFails
<1>21. CASE Tick                 BY <1>21 DEF Tick, Elapse, Elapsed
<1>22. CASE CutSleep             BY <1>22 DEF CutSleep
<1>23. CASE CutPoll              BY <1>23 DEF CutPoll
<1> QED BY <1>1, <1>2, <1>3, <1>4, <1>5, <1>6, <1>7, <1>8, <1>9, <1>10, <1>11,
           <1>12, <1>13, <1>14, <1>15, <1>16, <1>17, <1>18, <1>19, <1>20, <1>21,
           <1>22, <1>23
        DEF Next, Worker

\* A call that may last as long as any fits into what is left for two.
LEMMA OneOfTwoCalls ==
  ASSUME NEW stay \in 0..MaxCall, NEW rest \in Int, MaxCall + MaxCall < rest
  PROVE  stay + MaxCall < rest
  BY TimesAssumption

\* The account of time: each step of the worker takes its longest stay out of
\* what it still needs, and each tick takes as much from both sides.
LEMMA NextKeepsTime ==
  ASSUME IInv, [Next]_vars
  PROVE  Timely'
<1> SUFFICES ASSUME WaitSuffices PROVE Timely'
  BY DEF Timely, WaitSuffices
<1>0. 2 * MaxCall = MaxCall + MaxCall
  BY TimesAssumption
<1> USE TimesAssumption, <1>0
    DEF IInv, TypeOK, StayBounded, InCall, RunAgrees, ConnAgrees, Timely, InTime,
        Left, WaitSuffices, Goto, At, workerVars, ownerVars
<1>1. CASE UNCHANGED vars        BY <1>1 DEF vars
<1>2. CASE TestRun               BY <1>2 DEF TestRun
<1>3. CASE Switch                BY <1>3 DEF Switch
<1>4. CASE OpenFails             BY <1>4 DEF OpenFails
<1>5. CASE Open
  <2>1. wleft = 0 /\ wpc = "open" /\ wpc' = "stream" /\ wleft' \in 0..MaxCall
        /\ UNCHANGED <<mpc, cnt, mleft, cuts>>
    BY <1>5 DEF Open
  <2>2. mpc = "polling" => MaxCall + MaxCall < Left
    BY <2>1
  <2>3. Left' = Left /\ Left \in Int
    BY <2>1
  <2>4. mpc' = "polling" => wleft' + MaxCall < Left'
    BY ONLY <2>1, <2>2, <2>3, OneOfTwoCalls
  <2> QED BY <2>1, <2>4
<1>6. CASE StreamReturns         BY <1>6 DEF StreamReturns
<1>7. CASE WaitFails
  <2>1. wleft = 0 /\ wpc = "wait" /\ wpc' = "close" /\ wleft' \in 0..MaxCall
        /\ UNCHANGED <<mpc, cnt, mleft, cuts>>
    BY <1>7 DEF WaitFails
  <2>2. mpc = "polling" => MaxCall + MaxCall < Left
    BY <2>1
  <2>3. Left' = Left /\ Left \in Int
    BY <2>1
  <2>4. mpc' = "polling" => wleft' + MaxCall < Left'
    BY ONLY <2>1, <2>2, <2>3, OneOfTwoCalls
  <2> QED BY <2>1, <2>4
<1>8. CASE WaitSucceeds
  <2>1. wleft = 0 /\ wpc = "wait" /\ wpc' = "read" /\ wleft' \in 0..MaxCall
        /\ UNCHANGED <<mpc, cnt, mleft, cuts>>
    BY <1>8 DEF WaitSucceeds
  <2>2. mpc = "polling" => MaxCall + MaxCall < Left
    BY <2>1
  <2>3. Left' = Left /\ Left \in Int
    BY <2>1
  <2>4. mpc' = "polling" => wleft' + MaxCall < Left'
    BY ONLY <2>1, <2>2, <2>3, OneOfTwoCalls
  <2> QED BY <2>1, <2>4
<1>9. CASE ReadFails             BY <1>9 DEF ReadFails
<1>10. CASE ReadSucceeds         BY <1>10 DEF ReadSucceeds
<1>11. CASE SetData              BY <1>11 DEF SetData
<1>12. CASE CloseReturns         BY <1>12 DEF CloseReturns
<1>13. CASE LeaveLoop            BY <1>13 DEF LeaveLoop
<1>14. CASE CloseLastReturns     BY <1>14 DEF CloseLastReturns
<1>15. CASE Stop                 BY <1>15 DEF Stop
<1>16. CASE Tail                 BY <1>16 DEF Tail
<1>17. CASE AskToStop            BY <1>17 DEF AskToStop
<1>18. CASE Poll                 BY <1>18 DEF Poll
<1>19. CASE Destroy              BY <1>19 DEF Destroy, WorkerAt
<1>20. CASE PeerFails            BY <1>20 DEF PeerFails
<1>21. CASE Tick                 BY <1>21 DEF Tick, Elapse, Elapsed
<1>22. CASE CutSleep             BY <1>22 DEF CutSleep
<1>23. CASE CutPoll              BY <1>23 DEF CutPoll
<1> QED BY <1>1, <1>2, <1>3, <1>4, <1>5, <1>6, <1>7, <1>8, <1>9, <1>10, <1>11,
           <1>12, <1>13, <1>14, <1>15, <1>16, <1>17, <1>18, <1>19, <1>20, <1>21,
           <1>22, <1>23
        DEF Next, Worker

\* The worker and the destructor run in the inductive invariant for ever.
THEOREM IInvHolds == Spec => []IInv
<1>1. IInv /\ [Next]_vars => IInv'
  BY NextKeepsPlaces, NextKeepsTime DEF IInv
<1> QED BY InitEstablishesIInv, <1>1, PTL DEF Spec

-----------------------------------------------------------------------------
\* Type correctness of the worker and the destructor.
THEOREM TypeCorrect == Spec => []TypeOK
<1>1. IInv => TypeOK  BY DEF IInv
<1> QED BY <1>1, IInvHolds, PTL

\* The gpsd context is opened, used and closed in turn, and is closed when the
\* worker stops.
THEOREM ContextUsedInOrderHolds == Spec => []ContextUsedInOrder
<1>1. IInv => ContextUsedInOrder
  BY DEF IInv, TypeOK, ConnAgrees, ContextUsedInOrder
<1> QED BY <1>1, IInvHolds, PTL

\* For every bound on the libgps calls that keeps the worker's longest way out
\* below the destructor's 750 ms, the worker leaves the object first.
THEOREM WorkerLeavesFirstHolds == Spec => []WorkerLeavesFirst
<1>1. IInv => WorkerLeavesFirst
  BY DEF IInv, Timely, WorkerLeavesFirst
<1> QED BY <1>1, IInvHolds, PTL

-----------------------------------------------------------------------------
\* The main loop.
Age == Nat \cup {Never}

LoopTypeOK == /\ at \in {"open", "test", "query", "draw", "sleep", "end"}
              /\ left \in Nat /\ workAge \in Nat
              /\ setUpAge \in Age /\ initAge \in Age /\ shownAge \in Age /\ stopAge \in Age

\* The loop goes on as long as the owner runs.
EndAgrees == /\ at = "end" <=> mpc # "running"
             /\ at \in {"end", "test"} => left = 0

StopBound == Longer(MaxOpen, MaxPass + Period)

\* How long ago the last working pass began.
WorkRecent ==
  /\ at = "query" => workAge + left <= MaxQuery
  /\ at = "draw" => workAge + left <= MaxPass
  /\ at = "sleep" => workAge + left <= MaxGap /\ left <= Period
  /\ at = "test" => workAge <= MaxGap \/ (workAge >= Period /\ shownAge = Never)
  /\ at = "open" => left <= MaxOpen /\ workAge >= Period
  /\ (at \in {"open", "test"} /\ shownAge = Never) => workAge >= Period

\* The row shows the time of the last pass or, until it is drawn, the one before.
ShownRecent ==
  /\ at \in {"sleep", "test"} => shownAge = Never \/ shownAge = workAge
  /\ at \in {"query", "draw"} => shownAge = Never \/ shownAge <= MaxGap + workAge
  /\ at = "open" => shownAge = Never
  /\ at = "sleep" => shownAge # Never

\* timers[2] has not been due, or is about to be seen to be.
SetUpRecent ==
  /\ initAge = Never <=> setUpAge = Never
  /\ initAge <= setUpAge
  /\ (at \in {"draw", "sleep"} \/ (at = "test" /\ shownAge # Never)) =>
       setUpAge < SetUpEvery + workAge
  /\ at = "query" => setUpAge < SetUpEvery + MaxGap + workAge
  /\ (at = "open" \/ (at = "test" /\ shownAge = Never)) => setUpAge = Never

\* What is left of a request to stop.
StopServed ==
  /\ at = "open" => stopAge + left <= MaxOpen
  /\ at \in {"query", "draw"} => stopAge <= workAge
  /\ at = "sleep" => stopAge + left <= MaxPass + Period
  /\ at = "test" => stopAge <= StopBound
  /\ mpc = "polling" => stopAge + (Polls - cnt) + mleft <= StopBound + Polls
  /\ mpc = "destroyed" => stopAge <= StopBound + Polls

LInv == /\ LoopTypeOK /\ EndAgrees /\ WorkRecent /\ ShownRecent /\ SetUpRecent
        /\ StopServed

-----------------------------------------------------------------------------
\* What the proofs need of the bounds.
LEMMA Bounds ==
  /\ MaxQuery \in Nat /\ MaxDraw \in Nat /\ MaxOpen \in Nat /\ Period \in Nat /\ Period > 0
  /\ SetUpEvery \in Nat /\ SetUpEvery > 0
  /\ MaxPass = MaxQuery + MaxDraw /\ MaxPass \in Nat
  /\ MaxGap \in Nat /\ MaxPass + Period <= MaxGap /\ Period + Period - 1 <= MaxGap
  /\ StopBound \in Nat /\ MaxOpen <= StopBound /\ MaxPass + Period <= StopBound
BY LoopAssumption DEF MaxPass, MaxGap, StopBound, Longer

\* The queries and the drawing together.
LEMMA TwoStays ==
  ASSUME NEW x \in 0..MaxQuery, NEW y \in 0..MaxDraw PROVE x + y <= MaxPass
BY Bounds

\* Every step of the loop is a step of GPSWork, or none.
LEMMA LoopStepIsStep == ASSUME IInv, [LoopNext]_allVars PROVE [Next]_vars
<1>1. ASSUME Time PROVE [Next]_vars
  <2>1. CASE wleft + mleft > 0 BY <1>1, <2>1 DEF Time, Tick, Next
  <2>2. CASE ~(wleft + mleft > 0)
    BY <1>1, <2>2 DEF Time, Elapse, Elapsed, IInv, TypeOK, vars, workerVars, ownerVars
  <2> QED BY <2>1, <2>2
<1>2. ASSUME Loop \/ CutPause \/ AskedTo PROVE [Next]_vars
  BY <1>2 DEF Loop, OpenReturns, SkipPass, BeginPass, QueryReturns, DrawReturns, Wake,
              EndLoop, CutPause, AskedTo, Next
<1>3. ASSUME Work PROVE [Next]_vars BY <1>3 DEF Work, Next
<1> QED BY <1>1, <1>2, <1>3 DEF LoopNext, allVars

LEMMA WorkInvariant == LoopSpec => []IInv
<1>1. LoopInit => IInv BY InitEstablishesIInv DEF LoopInit
<1>2. IInv /\ [LoopNext]_allVars => IInv'
  BY LoopStepIsStep, NextKeepsPlaces, NextKeepsTime DEF IInv
<1> QED BY <1>1, <1>2, PTL DEF LoopSpec

\* The loop is the owner of GPSWork, and its daemon keeps what GPSWork promises.
THEOREM LoopIsOwner == LoopSpec => Spec
<1>1. LoopInit => Init BY DEF LoopInit
<1> QED BY <1>1, LoopStepIsStep, WorkInvariant, PTL DEF LoopSpec, Spec

\* In the daemon, too, the worker has left the object when the destructor returns.
THEOREM LoopWorkerLeavesFirst == LoopSpec => []WorkerLeavesFirst
BY LoopIsOwner, WorkerLeavesFirstHolds, PTL

-----------------------------------------------------------------------------
LEMMA LoopInitially == LoopInit => LInv
BY Bounds DEF LoopInit, Init, LInv, LoopTypeOK, Age, Never, EndAgrees, WorkRecent,
   ShownRecent, SetUpRecent, StopServed

LEMMA LoopKeeps == ASSUME LInv, IInv, [LoopNext]_allVars PROVE LInv'
<1> USE Bounds, TimesAssumption
    DEF LInv, LoopTypeOK, Age, Never, EndAgrees, WorkRecent, ShownRecent, SetUpRecent,
        StopServed, Done, GoOn, Pause, ages, vars, ownerVars, loopVars
<1>0. mleft \in 0..1 /\ cnt \in 0..Polls /\ mpc \in {"running", "polling", "destroyed"}
      /\ (mpc = "running" => cnt = 0 /\ mleft = 0)
  BY DEF IInv, TypeOK, RunAgrees
<1>1. CASE UNCHANGED allVars BY <1>1 DEF allVars
<1>2. CASE OpenReturns BY <1>2 DEF OpenReturns
<1>3. CASE SkipPass BY <1>3 DEF SkipPass
<1>4. CASE BeginPass
  <2>0. left' \in 0..MaxQuery /\ left' \in Nat BY <1>4 DEF BeginPass
  <2>1. LoopTypeOK' /\ EndAgrees' BY <1>4, <2>0 DEF BeginPass
  <2>4. WorkRecent'
    <3>1. at' = "query" /\ workAge' = 0 BY <1>4 DEF BeginPass
    <3> PICK l, w : l = left' /\ w = workAge' OBVIOUS
    <3>2. l \in 0..MaxQuery /\ w = 0
      BY ONLY l = left' /\ w = workAge', <2>0, <3>1, Zenon
    <3>3. w + l <= MaxQuery BY ONLY <3>2, LoopAssumption
    <3>4. workAge' + left' <= MaxQuery BY ONLY l = left' /\ w = workAge', <3>3, Zenon
    <3> QED BY ONLY <3>1, <3>4 DEF WorkRecent
  <2>5. StopServed' BY <1>4, <2>0 DEF BeginPass
  <2>2. ShownRecent' BY <1>4 DEF BeginPass
  <2>3. SetUpRecent' BY <1>4 DEF BeginPass
  <2> QED BY <2>1, <2>2, <2>3, <2>4, <2>5
<1>5. CASE QueryReturns
  <2>0. left' \in 0..MaxDraw /\ left' \in Nat BY <1>5 DEF QueryReturns
  <2>1. LoopTypeOK' /\ EndAgrees' BY <1>5, <2>0 DEF QueryReturns
  <2>4. WorkRecent'
    <3>1. at' = "draw" /\ workAge' = workAge /\ workAge <= MaxQuery /\ workAge \in Nat
      BY <1>5 DEF QueryReturns
    <3> PICK l, w : l = left' /\ w = workAge' OBVIOUS
    <3>2. l \in 0..MaxDraw /\ w = workAge
      BY ONLY l = left' /\ w = workAge', <2>0, <3>1, Zenon
    <3>3. w + l <= MaxPass BY ONLY <3>1, <3>2, TwoStays, Bounds
    <3>4. workAge' + left' <= MaxPass BY ONLY l = left' /\ w = workAge', <3>3, Zenon
    <3> QED BY ONLY <3>1, <3>4 DEF WorkRecent
  <2>2. ShownRecent' /\ StopServed' BY <1>5 DEF QueryReturns
  <2>3. SetUpRecent'
    <3>1. CASE SetUpDue BY <1>5, <3>1 DEF QueryReturns
    <3>2. CASE ~SetUpDue BY <1>5, <3>2 DEF QueryReturns, SetUpDue
    <3> QED BY <3>1, <3>2
  <2> QED BY <2>1, <2>2, <2>3, <2>4
<1>6. CASE DrawReturns BY <1>6 DEF DrawReturns
<1>7. CASE Wake BY <1>7 DEF Wake
<1>8. CASE EndLoop BY <1>0, <1>8 DEF EndLoop, AskToStop
<1>9. CASE CutPause BY <1>9 DEF CutPause
<1>10. CASE AskedTo BY <1>10 DEF AskedTo
<1>11. CASE Time
  <2>1. CASE mpc = "running" BY <1>0, <1>11, <2>1 DEF Time, Elapse, Elapsed, Older
  <2>2. CASE mpc = "polling" BY <1>0, <1>11, <2>2 DEF Time, Elapse, Elapsed, Older
  <2> QED BY <1>0, <1>11, <2>1, <2>2 DEF Time
<1>12. CASE Work
  <2>1. CASE UNCHANGED <<mpc, cnt, mleft>> BY <1>12, <2>1 DEF Work
  <2>2. CASE Poll BY <1>0, <1>12, <2>2 DEF Work, Poll
  <2>3. CASE Destroy BY <1>0, <1>12, <2>3 DEF Work, Destroy
  <2>4. CASE CutPoll BY <1>0, <1>12, <2>4 DEF Work, CutPoll
  <2>5. CASE Worker \/ PeerFails \/ CutSleep
    BY <2>1, <2>5 DEF Worker, TestRun, Switch, OpenFails, Open, StreamReturns, WaitFails,
       WaitSucceeds, ReadFails, ReadSucceeds, SetData, CloseReturns, LeaveLoop,
       CloseLastReturns, Stop, Tail, PeerFails, CutSleep
  <2> QED BY <1>12, <2>2, <2>3, <2>4, <2>5 DEF Work
<1> QED BY <1>1, <1>2, <1>3, <1>4, <1>5, <1>6, <1>7, <1>8, <1>9, <1>10, <1>11, <1>12
        DEF LoopNext, Loop

THEOREM LoopInvariant == LoopSpec => []LInv
<1>1. LInv /\ IInv /\ [LoopNext]_allVars => LInv' BY LoopKeeps
<1> QED BY <1>1, LoopInitially, WorkInvariant, PTL DEF LoopSpec

\* The clock row's time is recent, for every duration of queries and drawing and
\* however often signals cut the pause short (main.cpp:53-57, 162-166).
THEOREM ClockInTimeHolds == LoopSpec => []ClockInTime
<1>1. LInv => ClockInTime
  BY Bounds DEF LInv, LoopTypeOK, Age, Never, EndAgrees, WorkRecent, ShownRecent, ClockInTime
<1> QED BY <1>1, LoopInvariant, PTL

\* init() is called again in time (main.cpp:57, 134-137).
THEOREM SetUpInTimeHolds == LoopSpec => []SetUpInTime
<1>1. ASSUME LInv, mpc = "running" PROVE initAge < SetUpEvery + MaxGap + MaxQuery
  <2>1. initAge <= setUpAge /\ initAge \in Int /\ setUpAge \in Int /\ workAge \in Nat
    BY <1>1 DEF LInv, LoopTypeOK, Age, Never, SetUpRecent
  <2>2. CASE at = "query"
    BY <1>1, <2>1, <2>2, Bounds DEF LInv, LoopTypeOK, WorkRecent, SetUpRecent
  <2>3. CASE at # "query"
    BY <1>1, <2>1, <2>3, Bounds
    DEF LInv, LoopTypeOK, Age, Never, EndAgrees, WorkRecent, ShownRecent, SetUpRecent
  <2> QED BY <2>2, <2>3
<1>2. LInv => SetUpInTime BY <1>1 DEF SetUpInTime
<1> QED BY <1>2, LoopInvariant, PTL

\* A request to stop is served in time (main.cpp:43, 166; GPSWork.cpp:22).
THEOREM StopsInTimeHolds == LoopSpec => []StopsInTime
<1>1. LInv /\ IInv => StopsInTime
  BY Bounds, TimesAssumption
  DEF LInv, LoopTypeOK, Age, Never, EndAgrees, WorkRecent, StopServed, StopsInTime,
      StopBound, IInv, TypeOK
<1> QED BY <1>1, LoopInvariant, WorkInvariant, PTL
=============================================================================
