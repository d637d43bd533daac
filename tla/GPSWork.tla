------------------------------ MODULE GPSWork ------------------------------
(***************************************************************************)
(* GPSWork (src/GPSWork.cpp): the worker thread that keeps a connection to *)
(* gpsd, and the destructor that asks it to stop.  The destructor does not *)
(* join the thread: it polls m_worker_run for a limited time and then lets *)
(* the object go, so whether the worker has left the object by then is a   *)
(* question of time.  Time is counted in ticks of 10 ms, the period of the *)
(* poll; it passes when both threads wait, so a thread that can go on does *)
(* so before the next tick (but in any order with the other thread).       *)
(*                                                                         *)
(* m_worker_run is an AtomicNum; its operations are single steps, which    *)
(* LockableEx justifies, except for the worker's very last one: the lock's *)
(* mutex is free before unlock() has stored the nesting count, so the      *)
(* destructor can see the 0 while the worker is still inside unlock().     *)
(*                                                                         *)
(* A signal with a handler (Daemon.cpp:305-307) ends the usleep() of the   *)
(* thread it is delivered to, so that a poll may take no time.             *)
(***************************************************************************)
EXTENDS Integers

CONSTANTS
  Sleep,     \* the worker's usleep(100000): 10 ticks
  Wait,      \* gps_waiting(&gpsctx, 500000): 50
  Polls,     \* cnt < 75, with a usleep(10000) of one tick each
  MaxCall,   \* bound: the most ticks a call of libgps takes, other
             \* than gps_waiting(), which has a timeout of its own
  MaxCuts    \* bound: the polls of the destructor that signals cut short

ASSUME TimesAssumption == /\ Sleep \in Nat /\ Wait \in Nat /\ Polls \in Nat
                          /\ MaxCall \in Nat /\ MaxCuts \in Nat

VARIABLES
  run,     \* m_worker_run: 1 run, 2 stop, 0 stopped
  conn,    \* m_gpsconn_status: 1 connected
  peer,    \* gpsd's end of the connection
  wpc,     \* where the worker is; a call's name while it is inside the call
  wleft,   \* ticks until the worker's call or sleep returns
  mpc,     \* the owner: running, polling in the destructor, or past it
  cnt,     \* the destructor's polls so far
  mleft,   \* ticks until the destructor's sleep returns
  cuts     \* the polls that signals have cut short

workerVars == <<wpc, wleft>>
ownerVars == <<mpc, cnt, mleft, cuts>>
vars == <<run, conn, peer, workerVars, ownerVars>>

\* good: it delivers; silent: no data, no end; broken: reads fail.
Peers == {"none", "good", "silent", "broken"}

WorkerAt == {"absent", "test", "sleep", "open", "stream", "wait", "read",
             "setData", "close", "exit", "closeLast", "stop", "tail", "done"}

\* The constructor ignores the result of pthread_create(): there may be no
\* worker at all.
Init == /\ run = 1
        /\ conn = 0
        /\ peer = "none"
        /\ wpc \in {"test", "absent"}
        /\ wleft = 0
        /\ mpc = "running"
        /\ cnt = 0
        /\ mleft = 0
        /\ cuts = 0

-----------------------------------------------------------------------------
\* The worker goes on to p, to return from there within at most t ticks.
Goto(p, t) == /\ wpc' = p
              /\ wleft' \in 0..t

At(p) == wpc = p /\ wleft = 0

\* Mutant: while(m_worker_run != 0)
TestRunNonzero == /\ At("test")
                  /\ IF run # 0 THEN wpc' = "sleep" /\ wleft' = Sleep
                                ELSE Goto("exit", 0)
                  /\ UNCHANGED <<run, conn, peer, ownerVars>>

\* while(m_worker_run == 1) { usleep(100000); ...
TestRun == /\ At("test")
           /\ IF run = 1 THEN wpc' = "sleep" /\ wleft' = Sleep
                         ELSE Goto("exit", 0)
           /\ UNCHANGED <<run, conn, peer, ownerVars>>

\* switch(m_gpsconn_status)
Switch == /\ At("sleep")
          /\ IF conn = 0 THEN Goto("open", MaxCall) ELSE Goto("wait", Wait)
          /\ UNCHANGED <<run, conn, peer, ownerVars>>

OpenFails == /\ At("open")
             /\ Goto("test", 0)
             /\ UNCHANGED <<run, conn, peer, ownerVars>>

Open == /\ At("open")
        /\ conn' = 1
        /\ peer' = "good"
        /\ Goto("stream", MaxCall)
        /\ UNCHANGED <<run, ownerVars>>

\* gps_stream() returns; its result is not looked at.
StreamReturns == /\ At("stream")
                 /\ Goto("test", 0)
                 /\ UNCHANGED <<run, conn, peer, ownerVars>>

\* Mutant: bErr is not set.
WaitFailsUnnoticed == /\ At("wait")
                      /\ Goto("test", 0)
                      /\ UNCHANGED <<run, conn, peer, ownerVars>>

\* gps_waiting() returns false: nothing came in time, or select() failed.
\* bErr is set and the connection is closed.
WaitFails == /\ At("wait")
             /\ Goto("close", MaxCall)
             /\ UNCHANGED <<run, conn, peer, ownerVars>>

\* There is something to read; the end of a broken connection is, too.
WaitSucceeds == /\ At("wait")
                /\ peer # "silent"
                /\ Goto("read", MaxCall)
                /\ UNCHANGED <<run, conn, peer, ownerVars>>

\* gps_read() returns -1: the loop goes round and the connection stays.
ReadFails == /\ At("read")
             /\ Goto("test", 0)
             /\ UNCHANGED <<run, conn, peer, ownerVars>>

ReadSucceeds == /\ At("read")
                /\ peer = "good"
                /\ Goto("setData", 0)
                /\ UNCHANGED <<run, conn, peer, ownerVars>>

\* m_last_data.setData(&gpsctx); GPSData has its parts.
SetData == /\ At("setData")
           /\ Goto("test", 0)
           /\ UNCHANGED <<run, conn, peer, ownerVars>>

\* Mutant: m_gpsconn_status stays 1.
CloseReturnsNoReset == /\ At("close")
                       /\ peer' = "none"
                       /\ Goto("test", 0)
                       /\ UNCHANGED <<run, conn, ownerVars>>

CloseReturns == /\ At("close")
                /\ conn' = 0
                /\ peer' = "none"
                /\ Goto("test", 0)
                /\ UNCHANGED <<run, ownerVars>>

\* After the loop: if(m_gpsconn_status == 1) gps_close(&gpsctx)
LeaveLoop == /\ At("exit")
             /\ IF conn = 1 THEN Goto("closeLast", MaxCall) ELSE Goto("stop", 0)
             /\ UNCHANGED <<run, conn, peer, ownerVars>>

CloseLastReturns == /\ At("closeLast")
                    /\ conn' = 0
                    /\ peer' = "none"
                    /\ Goto("stop", 0)
                    /\ UNCHANGED <<run, ownerVars>>

\* m_worker_run = 0, up to the release of the mutex in unlock() ...
Stop == /\ At("stop")
        /\ run' = 0
        /\ Goto("tail", 0)
        /\ UNCHANGED <<conn, peer, ownerVars>>

\* ... and the rest of unlock(), which stores the nesting count.
Tail == /\ At("tail")
        /\ Goto("done", 0)
        /\ UNCHANGED <<run, conn, peer, ownerVars>>

Worker == \/ TestRun \/ Switch \/ OpenFails \/ Open \/ StreamReturns
          \/ WaitFails \/ WaitSucceeds \/ ReadFails \/ ReadSucceeds \/ SetData
          \/ CloseReturns \/ LeaveLoop \/ CloseLastReturns \/ Stop \/ Tail

-----------------------------------------------------------------------------
\* ~GPSWork(): m_worker_run = 2
AskToStop == /\ mpc = "running"
             /\ run' = 2
             /\ mpc' = "polling"
             /\ UNCHANGED <<conn, peer, workerVars, cnt, mleft, cuts>>

\* Mutant: cnt <= 75
PollOnceMore == /\ mpc = "polling" /\ mleft = 0
                /\ cnt <= Polls /\ run # 0
                /\ cnt' = cnt + 1
                /\ mleft' = 1
                /\ UNCHANGED <<run, conn, peer, workerVars, mpc, cuts>>

\* Mutant: usleep(10), which is no tick at all.
PollTooFast == /\ mpc = "polling" /\ mleft = 0
               /\ cnt < Polls /\ run # 0
               /\ cnt' = cnt + 1
               /\ UNCHANGED <<run, conn, peer, workerVars, mpc, mleft, cuts>>

\* The loop's test and its usleep(10000).
Poll == /\ mpc = "polling" /\ mleft = 0
        /\ cnt < Polls /\ run # 0
        /\ cnt' = cnt + 1
        /\ mleft' = 1
        /\ UNCHANGED <<run, conn, peer, workerVars, mpc, cuts>>

\* Mutant: the destructor goes only when the worker has answered.
DestroyAnswered == /\ mpc = "polling" /\ mleft = 0
                   /\ run = 0
                   /\ mpc' = "destroyed"
                   /\ UNCHANGED <<run, conn, peer, workerVars, cnt, mleft, cuts>>

\* The destructor returns and the object is gone.
Destroy == /\ mpc = "polling" /\ mleft = 0
           /\ cnt = Polls \/ run = 0
           /\ mpc' = "destroyed"
           /\ UNCHANGED <<run, conn, peer, workerVars, cnt, mleft, cuts>>

\* gpsd, the receiver or the connection between them fails.
PeerFails == /\ peer = "good"
             /\ peer' \in {"silent", "broken"}
             /\ UNCHANGED <<run, conn, workerVars, ownerVars>>

Elapsed(left) == IF left > 0 THEN left - 1 ELSE 0

\* A signal ends the worker's usleep(), of which a tick has passed: there are no
\* signals without end at one instant.
CutSleep == /\ wpc = "sleep" /\ wleft \in 1 .. Sleep - 1
            /\ wleft' = 0
            /\ UNCHANGED <<run, conn, peer, wpc, ownerVars>>

\* A signal ends the usleep() of one of the destructor's polls.
CutPoll == /\ mleft > 0 /\ cuts < MaxCuts
           /\ mleft' = 0
           /\ cuts' = cuts + 1
           /\ UNCHANGED <<run, conn, peer, workerVars, mpc, cnt>>

\* Time passes when neither thread has anything to do at this instant.
Elapse == /\ wleft > 0 \/ wpc \in {"done", "absent"}
          /\ mleft > 0 \/ mpc \in {"running", "destroyed"}
          /\ wleft' = Elapsed(wleft)
          /\ mleft' = Elapsed(mleft)
          /\ UNCHANGED <<run, conn, peer, wpc, mpc, cnt, cuts>>

Tick == wleft + mleft > 0 /\ Elapse

Next == \/ Worker \/ AskToStop \/ Poll \/ Destroy
        \/ PeerFails \/ CutSleep \/ CutPoll \/ Tick

Spec == Init /\ [][Next]_vars

\* Both threads are scheduled and time passes.  That the daemon ends, that gpsd
\* fails and that gpsd ever answers is not assumed.
FairSpec == Spec /\ WF_vars(Worker) /\ WF_vars(Poll \/ Destroy) /\ WF_vars(Tick)

-----------------------------------------------------------------------------
TypeOK == /\ run \in 0..2
          /\ conn \in 0..1
          /\ peer \in Peers
          /\ wpc \in WorkerAt
          /\ wleft \in Nat
          /\ mpc \in {"running", "polling", "destroyed"}
          /\ cnt \in 0..Polls
          /\ mleft \in 0..1
          /\ cuts \in 0..MaxCuts

\* The worker uses the gpsd context as libgps asks: it opens it only when no
\* connection is open, waits, reads and closes only when one is, and has
\* closed the last one when it stops, on every path through failures, time-outs
\* and the request to stop.
ContextUsedInOrder ==
  /\ wpc = "open" => peer = "none"
  /\ wpc \in {"stream", "wait", "read", "setData", "close", "closeLast"} => peer # "none"
  /\ wpc \in {"stop", "tail", "done"} => peer = "none"

\* The time the destructor waits is longer than the worker can take to stop,
\* also when signals cut some of its polls short: to sleep, wait, read and close,
\* or to sleep, open, start the stream and close.
WaitSuffices == MaxCall <= Wait /\ Sleep + Wait + 2 * MaxCall + MaxCuts < Polls

\* If no call of libgps takes longer than 70 ms (60 with a signal in between),
\* the worker has left the object when the destructor returns, wherever the
\* request to stop met it -- but for the store of the nesting count at the end
\* of its last unlock() (GPSWork.cpp:22, 83).
WorkerLeavesFirst ==
  WaitSuffices /\ mpc = "destroyed" => wpc \in {"tail", "done", "absent"}

\* A connection that has gone silent is given up, so that a new one can be
\* opened.  (One whose reads fail is not: ReadFails keeps it.)
SilenceEndsConnection == peer = "silent" ~> peer = "none"

\* Once the destructor has begun, the worker's thread comes to its end.
WorkerStops == mpc # "running" ~> wpc \in {"done", "absent"}
=============================================================================
