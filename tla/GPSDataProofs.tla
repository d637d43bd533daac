--------------------------- MODULE GPSDataProofs ---------------------------
(***************************************************************************)
(* Proofs about GPSData for arrays of any length and any number of         *)
(* samples: while the main loop has the lock, the structure holds one      *)
(* sample and keeps it.                                                    *)
(***************************************************************************)
EXTENDS GPSData, TLAPS

\* Who has the lock, and how often, goes with the places of the two threads.
LockAgrees ==
  /\ holder = "worker" <=> wpc = "copying"
  /\ holder = "main" <=> mpc # "idle"
  /\ holder = "none" => depth = 0
  /\ wpc = "copying" \/ mpc = "row" => depth = 1
  /\ mpc = "count" => depth = 2

\* What memcpy() has finished with is of the last sample; so is all that the
\* row under way has read, and nothing shown is newer.
SamplesAgree ==
  /\ wpc = "idle" => todo = {}
  /\ \A e \in Elements \ todo : gpsdata[e] = sample
  /\ mpc # "idle" => seen \subseteq {sample}
  /\ \A a \in seen \cup shown : a <= sample
  /\ \A a, b \in shown : a = b
  /\ SnapshotConsistent

\* The inductive invariant.
IInv == TypeOK /\ LockAgrees /\ SamplesAgree

-----------------------------------------------------------------------------
LEMMA InitEstablishesIInv == Init => IInv
  BY ChannelsAssumption, SamplesAssumption
  DEF Init, Lock!Init, IInv, TypeOK, Arrays, Elements, LockAgrees, SamplesAgree,
      SnapshotConsistent

LEMMA NextKeepsTypes ==
  ASSUME IInv, [Next]_vars
  PROVE  TypeOK' /\ LockAgrees'
<1> USE ChannelsAssumption, SamplesAssumption
    DEF IInv, TypeOK, LockAgrees, Arrays, Elements, workerVars, mainVars,
        Lock!Acquire, Lock!Release
<1>1. CASE UNCHANGED vars     BY <1>1 DEF vars
<1>2. CASE SetDataLock        BY <1>2 DEF SetDataLock
<1>3. CASE SetDataCopy        BY <1>3 DEF SetDataCopy
<1>4. CASE SetDataUnlock      BY <1>4 DEF SetDataUnlock
<1>5. CASE RowLock            BY <1>5 DEF RowLock
<1>6. CASE CountLock          BY <1>6 DEF CountLock
<1>7. CASE CountElement
  <2>1. at \in Elements /\ <<at[1], at[2] + 1>> \in Arrays \X (1 .. Channels + 1)
    BY <1>7 DEF CountElement
  <2>2. gpsdata[at] \in 0..Samples
    BY <2>1
  <2> QED BY <1>7, <2>1, <2>2 DEF CountElement
<1>8. CASE CountUnlock        BY <1>8 DEF CountUnlock
<1>9. CASE RowUnlock          BY <1>9 DEF RowUnlock
<1> QED BY <1>1, <1>2, <1>3, <1>4, <1>5, <1>6, <1>7, <1>8, <1>9 DEF Next

LEMMA NextKeepsSamples ==
  ASSUME IInv, [Next]_vars
  PROVE  SamplesAgree'
<1> USE ChannelsAssumption, SamplesAssumption
    DEF IInv, TypeOK, LockAgrees, SamplesAgree, SnapshotConsistent,
        workerVars, mainVars, Lock!Acquire, Lock!Release
<1>1. CASE UNCHANGED vars     BY <1>1 DEF vars
<1>2. CASE SetDataLock        BY <1>2 DEF SetDataLock
<1>3. CASE SetDataCopy        BY <1>3 DEF SetDataCopy
<1>4. CASE SetDataUnlock      BY <1>4 DEF SetDataUnlock
<1>5. CASE RowLock            BY <1>5 DEF RowLock
<1>6. CASE CountLock          BY <1>6 DEF CountLock
<1>7. CASE CountElement
  <2>1. at \in Elements /\ todo = {}
    BY <1>7 DEF CountElement, Arrays, Elements
  <2>2. gpsdata[at] = sample
    BY <2>1
  <2> QED BY <1>7, <2>2 DEF CountElement
<1>8. CASE CountUnlock        BY <1>8 DEF CountUnlock
<1>9. CASE RowUnlock          BY <1>9 DEF RowUnlock
<1> QED BY <1>1, <1>2, <1>3, <1>4, <1>5, <1>6, <1>7, <1>8, <1>9 DEF Next

\* The worker and the main loop run in the inductive invariant for ever.
THEOREM IInvHolds == Spec => []IInv
<1>1. IInv /\ [Next]_vars => IInv'
  BY NextKeepsTypes, NextKeepsSamples DEF IInv
<1> QED BY InitEstablishesIInv, <1>1, PTL DEF Spec

-----------------------------------------------------------------------------
\* The lock, the copy under way and the row under way keep their types: what is
\* counted never leaves the arrays.
THEOREM TypeCorrect == Spec => []TypeOK
<1>1. IInv => TypeOK  BY DEF IInv
<1> QED BY <1>1, IInvHolds, PTL

\* A row of the display speaks of one sample, for arrays of any length and any
\* number of samples.
THEOREM SnapshotConsistentHolds == Spec => []SnapshotConsistent
<1>1. IInv => SnapshotConsistent
  BY DEF IInv, SamplesAgree
<1> QED BY <1>1, IInvHolds, PTL

\* No row is older than the row before it.
THEOREM RowsGoForwardHolds == Spec => RowsGoForward
<1>1. IInv /\ [Next]_vars => [\A a \in shown, b \in shown' : a <= b]_vars
  <2> SUFFICES ASSUME IInv, Next,
                      NEW a \in shown, NEW b \in shown'
               PROVE  a <= b \/ UNCHANGED vars
    OBVIOUS
  <2>1. CASE RowUnlock
    <3>1. b = sample
      BY <2>1 DEF RowUnlock, IInv, SamplesAgree
    <3> QED BY <3>1 DEF IInv, SamplesAgree
  <2>2. CASE ~RowUnlock
    <3>1. shown' = shown
      BY <2>2 DEF Next, SetDataLock, SetDataCopy, SetDataUnlock, RowLock, CountLock,
                  CountElement, CountUnlock, mainVars
    <3>2. a = b /\ a \in 0..Samples
      BY <3>1 DEF IInv, TypeOK, SamplesAgree
    <3> QED BY <3>2
  <2> QED BY <2>1, <2>2
<1> QED BY <1>1, IInvHolds, PTL DEF Spec, RowsGoForward
=============================================================================
