------------------------------- MODULE Display -------------------------------
(***************************************************************************)
(* The drawing half of the main loop (src/main.cpp:134-163) on the driver  *)
(* and the device of I2CLCD: in each pass the display is set up again if a *)
(* minute has gone by, then the four rows are written.  Nobody looks at    *)
(* what the driver returns; a transfer that fails in the middle of a byte  *)
(* leaves driver and display half a byte apart, and only the next init()   *)
(* brings them together again.                                             *)
(*                                                                         *)
(* One step is one call of the driver (a byte, a nibble, an ioctl).  The   *)
(* environment may fail any transfer, cut the display's power, and kill    *)
(* the process, which systemd starts again (Restart=on-failure).           *)
(***************************************************************************)
EXTENDS I2CLCD

CONSTANTS
  Wants,         \* the texts a pass may have to show: functions from Rows
  ReinitPasses,  \* bound: the most passes between two set-ups; in the code
                 \* 60000 ms of passes of 250 ms and more
  MaxFaults      \* bound: how many faults the environment injects

ASSUME WantsAssumption == Wants \subseteq [Rows -> Seq(0..255)]
ASSUME BoundsAssumption == ReinitPasses \in Nat \ {0} /\ MaxFaults \in Nat

VARIABLES
  dev,      \* the display
  opened,   \* busOpen() succeeded: m_dev_fd # -1
  linked,   \* setSlaveId() has succeeded: m_slave_addr = 0x27
  bl,       \* m_backlightval
  routine,  \* the routine the pass is in, or Idle between two passes
  todo,     \* the calls the routine still has to make
  want,     \* the texts of this pass
  age,      \* passes since the last set-up, or Never: stands for timers[2]
  faults,   \* faults still to come
  clean,    \* history: no call has failed since the last init() was entered
  screen    \* history: the rows as clean drawing has left them

driverVars == <<opened, linked, bl, routine, todo, want, age>>
vars == <<dev, driverVars, faults, clean, screen>>

Never == -1

\* The routines of a pass, in the order they are called; a row stands for its
\* puts_newline().
Idle == -3
SetUp == -2
BacklightOn == -1
Routines == {Idle, SetUp, BacklightOn} \cup Rows

After(r) == IF r = 3 THEN Idle ELSE r + 1

Calls(r) == CASE r = SetUp -> InitCalls
              [] r = BacklightOn -> BacklightCalls
              [] r \in Rows -> PutsNewlineCalls(r, want[r])
              [] r = Idle -> <<>>

BlankScreen == [y \in Rows |-> Padded(<<>>)]

\* A process that has just entered its loop; m_slave_addr and timers[2] are 0.
StartProcess == /\ opened' \in BOOLEAN
                /\ linked' = FALSE
                /\ bl' = FALSE
                /\ routine' = Idle
                /\ todo' = <<>>
                /\ want' = BlankScreen
                /\ age' = Never

Init == /\ dev = PowerOn
        /\ opened \in BOOLEAN
        /\ linked = FALSE
        /\ bl = FALSE
        /\ routine = Idle
        /\ todo = <<>>
        /\ want = BlankScreen
        /\ age = Never
        /\ faults = MaxFaults
        /\ clean = FALSE
        /\ screen = BlankScreen

-----------------------------------------------------------------------------
\* A fault comes out of the environment's budget; without a link every call
\* fails and costs nothing.
Charge(ok) == /\ faults' = IF ok \/ ~linked THEN faults ELSE faults - 1
              /\ faults' >= 0

\* A new pass: timers[2] is 0 or a minute old, so init() is called first.
BeginPassWithInit ==
  /\ routine = Idle
  /\ age # 0
  /\ want' \in Wants
  /\ routine' = SetUp
  /\ todo' = InitCalls
  /\ age' = 0
  /\ clean' = TRUE
  /\ UNCHANGED <<dev, opened, linked, bl, faults, screen>>

\* Mutant: timers[2] is set in every pass.
BeginPassRestartsTimer ==
  /\ routine = Idle
  /\ age \in 0 .. ReinitPasses - 1
  /\ want' \in Wants
  /\ routine' = 0
  /\ todo' = PutsNewlineCalls(0, want'[0])
  /\ UNCHANGED <<dev, opened, linked, bl, age, faults, clean, screen>>

\* Mutant: the time is compared with > instead of >=.
BeginPassOneLate ==
  /\ routine = Idle
  /\ age \in 0 .. ReinitPasses
  /\ want' \in Wants
  /\ routine' = 0
  /\ todo' = PutsNewlineCalls(0, want'[0])
  /\ age' = age + 1
  /\ UNCHANGED <<dev, opened, linked, bl, faults, clean, screen>>

\* A new pass within the minute: straight to the title row.
BeginPass ==
  /\ routine = Idle
  /\ age \in 0 .. ReinitPasses - 1
  /\ want' \in Wants
  /\ routine' = 0
  /\ todo' = PutsNewlineCalls(0, want'[0])
  /\ age' = age + 1
  /\ UNCHANGED <<dev, opened, linked, bl, faults, clean, screen>>

\* A routine has made its calls; the pass goes on to the next routine.
Return ==
  /\ routine # Idle
  /\ todo = <<>>
  /\ routine' = After(routine)
  /\ todo' = Calls(After(routine))
  /\ bl' = (bl \/ After(routine) = BacklightOn)
  /\ screen' = CASE routine = SetUp -> BlankScreen
                 [] routine \in Rows -> [screen EXCEPT ![routine] = Padded(want[routine])]
                 [] OTHER -> screen
  /\ UNCHANGED <<dev, opened, linked, want, age, faults, clean>>

\* setSlaveId() succeeds: transfers now carry the display's address.
LinkSlave ==
  /\ todo # <<>> /\ Head(todo) = SetSlaveId
  /\ opened
  /\ linked' = TRUE
  /\ todo' = Tail(todo)
  /\ UNCHANGED <<dev, opened, bl, routine, want, age, faults, clean, screen>>

\* setSlaveId() fails: init() returns at once, and the address stays as it was.
FailSlave ==
  /\ todo # <<>> /\ Head(todo) = SetSlaveId
  /\ IF opened THEN faults > 0 /\ faults' = faults - 1 ELSE UNCHANGED faults
  /\ todo' = <<>>
  /\ clean' = FALSE
  /\ UNCHANGED <<dev, opened, linked, bl, routine, want, age, screen>>

\* Any other call; a failure is ignored and the next call follows.
Call ==
  /\ todo # <<>> /\ Head(todo) # SetSlaveId
  /\ \E r \in Perform(Head(todo), dev, linked, bl) :
       /\ dev' = r.dev
       /\ Charge(r.ok)
       /\ clean' = (clean /\ r.ok)
  /\ todo' = Tail(todo)
  /\ UNCHANGED <<opened, linked, bl, routine, want, age, screen>>

\* The display loses its power for a moment.
PowerLoss ==
  /\ faults > 0
  /\ faults' = faults - 1
  /\ dev' = PowerOn
  /\ clean' = FALSE
  /\ UNCHANGED <<driverVars, screen>>

\* The process dies anywhere between two calls and is started again.
Restart ==
  /\ faults > 0
  /\ faults' = faults - 1
  /\ StartProcess
  /\ clean' = FALSE
  /\ UNCHANGED <<dev, screen>>

Work == BeginPassWithInit \/ BeginPass \/ Return \/ LinkSlave \/ FailSlave \/ Call

Next == Work \/ PowerLoss \/ Restart

Spec == Init /\ [][Next]_vars

\* The main loop keeps running; faults need not happen.
FairSpec == Spec /\ WF_vars(Work)

-----------------------------------------------------------------------------
TypeOK ==
  /\ dev.wide \in BOOLEAN /\ dev.hi \in {NoNibble} \cup 0..15
  /\ dev.ac \in 0..127 /\ dev.ram \in [Cells -> 0..255]
  /\ opened \in BOOLEAN /\ linked \in BOOLEAN /\ bl \in BOOLEAN
  /\ routine \in Routines
  /\ age \in Never .. ReinitPasses
  /\ faults \in 0..MaxFaults
  /\ clean \in BOOLEAN

\* However an earlier fault, power loss or restart left driver and display, an
\* init() whose own transfers all succeed brings them back in step, and they
\* stay so until the next fault.
InitRecovers == clean /\ routine # SetUp => Ready(dev)

\* While no transfer fails, a row shows its text once it is written and keeps
\* it while the other rows are written: no row runs over into the row that
\* follows it in the display's memory, and no init() loses a row for good.
RowsShowText ==
  clean /\ routine # SetUp =>
    \A y \in Rows \ {routine} : Row(dev, y) = screen[y]

\* A pass has ended with every row on the display, lit.
Shown == /\ routine = Idle
         /\ Ready(dev) /\ dev.port.bl
         /\ \A y \in Rows : Row(dev, y) = Padded(want[y])

\* If the bus could be opened, then after the last fault the display comes back
\* to showing every pass, although no result is ever looked at: the set-up is
\* repeated every minute.
KeepsShowing == <>[]opened => []<>Shown
=============================================================================
