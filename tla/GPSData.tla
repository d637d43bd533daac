------------------------------ MODULE GPSData ------------------------------
(***************************************************************************)
(* GPSWork::Data, the gps_data_t the worker fills and the main loop shows  *)
(* (src/GPSWork.cpp:86-124, src/main.cpp:129-131 and 155-157).  The worker *)
(* copies a whole sample in with memcpy(); the main loop makes one text of *)
(* two counts, each of which walks one of the structure's arrays.  Neither *)
(* is atomic, so it is the lock, taken once around the row and again in    *)
(* each count, that makes the row speak of one sample.                     *)
(*                                                                         *)
(* The lock is the RecursiveLock that LockableEx implements.               *)
(***************************************************************************)
EXTENDS Integers

CONSTANTS Channels,  \* MAXCHANNELS of gps.h: the length of the arrays
          Samples    \* bound: how many samples arrive

ASSUME ChannelsAssumption == Channels \in Nat \ {0}
ASSUME SamplesAssumption == Samples \in Nat

VARIABLES
  holder, depth,  \* the lock of Data
  sample,   \* the number of the last sample taken from gpsd
  gpsdata,  \* for every array element, the sample it comes from
  todo,     \* worker: the elements memcpy() has still to copy
  wpc,      \* worker: idle or copying
  mpc,      \* main loop: idle, in the row's text, or inside a count
  counts,   \* main loop: the counts this row still needs
  at,       \* main loop: the count's array and loop index
  seen,     \* main loop: the samples the row's counts have read from
  shown     \* main loop: the samples in the row last put on the display

workerVars == <<sample, gpsdata, todo, wpc>>
mainVars == <<mpc, counts, at, seen, shown>>
vars == <<holder, depth, workerVars, mainVars>>

Lock == INSTANCE RecursiveLock WITH Threads <- {"main", "worker"}, NoThread <- "none"

\* getUsedSatellitesCount() walks used[], getVisibleSatellitesCount() PRN[].
Arrays == {"used", "PRN"}
Elements == Arrays \X (1..Channels)

\* Sample 0 is whatever the memory held: nothing initialises gpsdata.
Init == /\ Lock!Init
        /\ sample = 0
        /\ gpsdata = [e \in Elements |-> 0]
        /\ todo = {}
        /\ wpc = "idle"
        /\ mpc = "idle"
        /\ counts = {}
        /\ at = <<"used", 1>>
        /\ seen = {}
        /\ shown = {}

-----------------------------------------------------------------------------
\* setData(): lock()
SetDataLock == /\ wpc = "idle"
               /\ sample < Samples
               /\ Lock!Acquire("worker")
               /\ sample' = sample + 1
               /\ todo' = Elements
               /\ wpc' = "copying"
               /\ UNCHANGED <<gpsdata, mainVars>>

\* setData(): memcpy(), which copies in an order of its own.
SetDataCopy == /\ wpc = "copying"
               /\ \E e \in todo : /\ gpsdata' = [gpsdata EXCEPT ![e] = sample]
                                  /\ todo' = todo \ {e}
               /\ UNCHANGED <<holder, depth, sample, wpc, mainVars>>

\* Mutant: setData() unlocks before memcpy() is through.
SetDataUnlockEarly == /\ wpc = "copying"
                      /\ Lock!Release("worker")
                      /\ wpc' = "idle"
                      /\ UNCHANGED <<sample, gpsdata, todo, mainVars>>

\* setData(): unlock()
SetDataUnlock == /\ wpc = "copying"
                 /\ todo = {}
                 /\ Lock!Release("worker")
                 /\ wpc' = "idle"
                 /\ UNCHANGED <<sample, gpsdata, todo, mainVars>>

-----------------------------------------------------------------------------
\* Mutant: the main loop relies on the locks inside the counts.
RowWithoutLock == /\ mpc = "idle"
                  /\ mpc' = "row"
                  /\ counts' = Arrays
                  /\ seen' = {}
                  /\ UNCHANGED <<holder, depth, workerVars, at, shown>>

\* The main loop's m_last_data.lock()
RowLock == /\ mpc = "idle"
           /\ Lock!Acquire("main")
           /\ mpc' = "row"
           /\ counts' = Arrays
           /\ seen' = {}
           /\ UNCHANGED <<workerVars, at, shown>>

\* A count: lock().  The compiler chooses which argument of sprintf() is
\* evaluated first.
CountLock == /\ mpc = "row"
             /\ \E a \in counts : at' = <<a, 1>> /\ counts' = counts \ {a}
             /\ Lock!Acquire("main")
             /\ mpc' = "count"
             /\ UNCHANGED <<workerVars, seen, shown>>

\* A count: one turn of its loop.
CountElement == /\ mpc = "count"
                /\ at[2] <= Channels
                /\ seen' = seen \cup {gpsdata[at]}
                /\ at' = <<at[1], at[2] + 1>>
                /\ UNCHANGED <<holder, depth, workerVars, mpc, counts, shown>>

\* A count: unlock()
CountUnlock == /\ mpc = "count"
               /\ at[2] > Channels
               /\ Lock!Release("main")
               /\ mpc' = "row"
               /\ UNCHANGED <<workerVars, counts, at, seen, shown>>

\* Mutant: the row's unlock() is missing.
RowWithoutUnlock == /\ mpc = "row"
                    /\ counts = {}
                    /\ mpc' = "idle"
                    /\ shown' = seen
                    /\ UNCHANGED <<holder, depth, workerVars, counts, at, seen>>

\* m_last_data.unlock(); the finished text goes to the display.
RowUnlock == /\ mpc = "row"
             /\ counts = {}
             /\ Lock!Release("main")
             /\ mpc' = "idle"
             /\ shown' = seen
             /\ UNCHANGED <<workerVars, counts, at, seen>>

Next == \/ SetDataLock \/ SetDataCopy \/ SetDataUnlock
        \/ RowLock \/ CountLock \/ CountElement \/ CountUnlock \/ RowUnlock

Spec == Init /\ [][Next]_vars

-----------------------------------------------------------------------------
TypeOK == /\ holder \in {"main", "worker", "none"} /\ depth \in 0..2
          /\ sample \in 0..Samples
          /\ gpsdata \in [Elements -> 0..Samples]
          /\ todo \subseteq Elements
          /\ wpc \in {"idle", "copying"}
          /\ mpc \in {"idle", "row", "count"}
          /\ counts \subseteq Arrays
          /\ at \in Arrays \X (1 .. Channels + 1)
          /\ seen \subseteq 0..Samples /\ shown \subseteq 0..Samples

\* The used and the visible satellites of one row come from one sample, as does
\* every element that either count looked at, although samples keep arriving
\* while the row is made.
SnapshotConsistent == \A a, b \in seen : a = b

\* The display never goes back to an older sample.
RowsGoForward == [][\A a \in shown, b \in shown' : a <= b]_vars
=============================================================================
