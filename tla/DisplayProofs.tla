---------------------------- MODULE DisplayProofs ----------------------------
(***************************************************************************)
(* Proofs about Display, for displays of any width and any wiring of the   *)
(* unused data lines, and any number of faults: an init() whose transfers  *)
(* succeed brings driver and display back in step from wherever they were, *)
(* and while no transfer fails every row shows its text.                   *)
(***************************************************************************)
EXTENDS Display, SequenceTheorems, TLAPS

Nibbles == 0..15
Bytes == 0..255
Ports == [nib : Nibbles, rs : BOOLEAN, en : BOOLEAN, bl : BOOLEAN]

\* All the states a display can be in; in 8-bit mode no half of a byte waits.
Devices ==
  {d \in [port : Ports, wide : BOOLEAN, hi : Nibbles \cup {NoNibble}, ac : 0..127,
          cg : BOOLEAN, inc : BOOLEAN, slide : BOOLEAN, moved : BOOLEAN,
          on : BOOLEAN, two : BOOLEAN, ram : [Cells -> Bytes]] :
     d.wide => d.hi = NoNibble}

\* What drawing relies on, of two devices.
SameMode(d, e) == /\ e.wide = d.wide /\ e.two = d.two /\ e.on = d.on
                  /\ e.inc = d.inc /\ e.slide = d.slide

-----------------------------------------------------------------------------
\* The address stays one of seven bits.
LEMMA AdvanceInRange == ASSUME NEW d \in Devices PROVE Advance(d) \in 0..127
<1> USE DEF Devices, Advance
<1>1. CASE d.inc BY <1>1
<1>2. CASE ~d.inc BY <1>2
<1> QED BY <1>1, <1>2

\* A character changes no mode, and moves the picture only where it slides.
LEMMA WriteDataDevice ==
  ASSUME NEW d \in Devices, NEW v \in Bytes
  PROVE LET e == WriteData(d, v)
        IN /\ e \in Devices /\ e.port = d.port /\ e.hi = d.hi /\ SameMode(d, e)
           /\ e.moved = (d.moved \/ d.slide)
<1> DEFINE e == WriteData(d, v)
<1> DEFINE m == IF ~d.cg /\ d.ac \in Cells THEN [d.ram EXCEPT ![d.ac] = v] ELSE d.ram
<1>1. m \in [Cells -> Bytes] BY DEF Devices
<1>2. Advance(d) \in 0..127 BY AdvanceInRange
<1>3. e = [d EXCEPT !.ram = m, !.ac = Advance(d), !.moved = d.moved \/ d.slide]
  BY DEF WriteData
<1> HIDE DEF e, m
<1>4. e \in Devices /\ e.port = d.port /\ e.hi = d.hi /\ SameMode(d, e)
      /\ e.moved = (d.moved \/ d.slide)
  BY <1>1, <1>2, <1>3 DEF Devices, SameMode
<1> QED BY <1>4 DEF e

\* No instruction leaves a half byte behind or touches the pins.
LEMMA InstructionDevice ==
  ASSUME NEW d \in Devices, NEW v \in Bytes, d.hi = NoNibble
  PROVE LET e == Instruction(d, v)
        IN e \in Devices /\ e.port = d.port /\ e.hi = NoNibble
<1>a. v \in 0..255 BY DEF Bytes
<1>b. \A w : Bit(v, w) \in BOOLEAN BY DEF Bit
<1> DEFINE home == [d EXCEPT !.ac = 0, !.cg = FALSE]
<1>c. home \in Devices /\ home.port = d.port /\ home.hi = NoNibble
  <2> DEFINE h == [d EXCEPT !.cg = FALSE]
  <2>1. h \in Devices /\ h.port = d.port /\ h.hi = NoNibble BY DEF Devices
  <2>2. home = [h EXCEPT !.ac = 0] BY DEF Devices
  <2> HIDE DEF h, home
  <2> QED BY <2>1, <2>2 DEF Devices
<1>1. CASE v >= 128
  <2>1. Instruction(d, v) = [d EXCEPT !.ac = v - 128, !.cg = FALSE]
    BY <1>1, <1>a DEF Instruction
  <2>2. v - 128 \in 0..127 BY <1>1, <1>a
  <2> QED BY <2>1, <2>2 DEF Devices
<1>2. CASE v \in 64..127
  <2>1. Instruction(d, v) = [d EXCEPT !.ac = v - 64, !.cg = TRUE]
    BY <1>2, <1>a DEF Instruction
  <2>2. v - 64 \in 0..127 BY <1>2, <1>a
  <2> QED BY <2>1, <2>2 DEF Devices
<1>3. CASE v \in 32..63
  <2>1. Instruction(d, v) = [d EXCEPT !.wide = Bit(v, 16), !.two = Bit(v, 8)]
    BY <1>3, <1>a DEF Instruction
  <2> QED BY <2>1, <1>b DEF Devices
<1>4. CASE v \in 16..31
  <2> DEFINE b == [d EXCEPT !.inc = Bit(v, 4)]
  <2>1. b \in Devices BY <1>b DEF Devices
  <2>2. Advance(b) \in 0..127 BY <2>1, AdvanceInRange
  <2>3. Instruction(d, v) = IF Bit(v, 8) THEN [d EXCEPT !.moved = TRUE]
                            ELSE [d EXCEPT !.ac = Advance(b)]
    BY <1>4, <1>a DEF Instruction
  <2> HIDE DEF b
  <2>4. CASE Bit(v, 8)
    <3>1. Instruction(d, v) = [d EXCEPT !.moved = TRUE] BY <2>3, <2>4
    <3> QED BY <3>1 DEF Devices
  <2>5. CASE ~Bit(v, 8) BY <2>2, <2>3, <2>5 DEF Devices
  <2> QED BY <2>4, <2>5
<1>5. CASE v \in 8..15
  <2>1. Instruction(d, v) = [d EXCEPT !.on = Bit(v, 4)]
    BY <1>5, <1>a DEF Instruction
  <2> QED BY <2>1, <1>b DEF Devices
<1>6. CASE v \in 4..7
  <2>1. Instruction(d, v) = [d EXCEPT !.inc = Bit(v, 2), !.slide = Bit(v, 1)]
    BY <1>6, <1>a DEF Instruction
  <2> QED BY <2>1, <1>b DEF Devices
<1>7. CASE v \in 2..3
  <2>1. Instruction(d, v) = [home EXCEPT !.moved = FALSE]
    BY <1>7, <1>a DEF Instruction
  <2> HIDE DEF home
  <2> QED BY <1>c, <2>1 DEF Devices
<1>8. CASE v = 1
  <2> DEFINE b == [home EXCEPT !.moved = FALSE, !.inc = TRUE]
  <2>1. Instruction(d, v) = [b EXCEPT !.ram = [c \in Cells |-> Blank]]
    BY <1>8 DEF Instruction
  <2>2. [c \in Cells |-> Blank] \in [Cells -> Bytes] BY BlankAssumption DEF Bytes
  <2> HIDE DEF home
  <2>3. b \in Devices /\ b.port = d.port /\ b.hi = NoNibble BY <1>c DEF Devices
  <2> HIDE DEF b
  <2> QED BY <2>1, <2>2, <2>3 DEF Devices
<1>9. CASE v = 0 BY <1>9 DEF Instruction
<1> QED BY <1>a, <1>1, <1>2, <1>3, <1>4, <1>5, <1>6, <1>7, <1>8, <1>9

LEMMA ExecuteDevice ==
  ASSUME NEW d \in Devices, NEW v \in Bytes, NEW rs \in BOOLEAN, d.hi = NoNibble
  PROVE LET e == Execute(d, v, rs)
        IN e \in Devices /\ e.port = d.port /\ e.hi = NoNibble
<1>1. CASE rs BY <1>1, WriteDataDevice DEF Execute
<1>2. CASE ~rs BY <1>2, InstructionDevice DEF Execute
<1> QED BY <1>1, <1>2

\* Nor does taking in a nibble, in either mode.
LEMMA TakeNibbleDevices ==
  ASSUME NEW d \in Devices, NEW nib \in Nibbles, NEW rs \in BOOLEAN
  PROVE \A e \in TakeNibble(d, nib, rs) : e \in Devices /\ e.port = d.port
<1> SUFFICES ASSUME NEW e \in TakeNibble(d, nib, rs)
             PROVE e \in Devices /\ e.port = d.port
  OBVIOUS
<1>1. CASE d.wide
  <2>1. PICK low \in Floating : e = Execute(d, nib * 16 + low, rs)
    BY <1>1 DEF TakeNibble
  <2>2. low \in 0..15 BY FloatingAssumption
  <2>3. nib * 16 + low \in Bytes BY <2>2 DEF Nibbles, Bytes
  <2>4. d.hi = NoNibble BY <1>1 DEF Devices
  <2> QED BY <2>1, <2>3, <2>4, ExecuteDevice
<1>2. CASE ~d.wide /\ d.hi = NoNibble
  <2>1. e = [d EXCEPT !.hi = nib] BY <1>2 DEF TakeNibble
  <2> QED BY <1>2, <2>1 DEF Devices
<1>3. CASE ~d.wide /\ d.hi # NoNibble
  <2> DEFINE b == [d EXCEPT !.hi = NoNibble]
  <2>1. e = Execute(b, d.hi * 16 + nib, rs) BY <1>3 DEF TakeNibble
  <2>2. b \in Devices /\ b.hi = NoNibble /\ b.port = d.port BY DEF Devices
  <2>3. d.hi \in 0..15 BY <1>3 DEF Devices, Nibbles
  <2>4. d.hi * 16 + nib \in Bytes BY <2>3 DEF Nibbles, Bytes
  <2> HIDE DEF b
  <2> QED BY <2>1, <2>2, <2>4, ExecuteDevice
<1> QED BY <1>1, <1>2, <1>3

\* Without a falling edge only the pins change.
LEMMA SetPortDevices ==
  ASSUME NEW d \in Devices, NEW p \in Ports
  PROVE /\ \A e \in SetPort(d, p) : e \in Devices /\ e.port = p
        /\ ~(d.port.en /\ ~p.en) => SetPort(d, p) = {[d EXCEPT !.port = p]}
<1> DEFINE e == [d EXCEPT !.port = p]
<1>1. e \in Devices /\ e.port = p BY DEF Devices
<1>2. d.port \in Ports BY DEF Devices
<1>3. d.port.nib \in Nibbles /\ d.port.rs \in BOOLEAN /\ p.nib \in Nibbles /\ p.rs \in BOOLEAN
  BY <1>2 DEF Ports
<1>4. SetPort(d, p) = IF d.port.en /\ ~p.en
                        THEN TakeNibble(e, d.port.nib, d.port.rs) \cup TakeNibble(e, p.nib, p.rs)
                        ELSE {e}
  BY DEF SetPort
<1>5. \A f \in TakeNibble(e, d.port.nib, d.port.rs) \cup TakeNibble(e, p.nib, p.rs) :
         f \in Devices /\ f.port = p
  <2> HIDE DEF e
  <2> QED BY <1>1, <1>3, TakeNibbleDevices
<1> HIDE DEF e
<1>6. \A f \in SetPort(d, p) : f \in Devices /\ f.port = p BY <1>1, <1>4, <1>5
<1>7. ~(d.port.en /\ ~p.en) => SetPort(d, p) = {e} BY <1>4
<1> QED BY <1>6, <1>7 DEF e

\* What an operation yields, whether it succeeds or not.
Results == [dev : Devices, ok : BOOLEAN]

LEMMA PortInPorts ==
  ASSUME NEW nib \in Nibbles, NEW rs \in BOOLEAN, NEW en \in BOOLEAN, NEW light \in BOOLEAN
  PROVE LET p == Port(nib, rs, en, light)
        IN p \in Ports /\ p.en = en /\ p.nib = nib /\ p.rs = rs
BY DEF Port, Ports

LEMMA ExpanderWriteResults ==
  ASSUME NEW d \in Devices, NEW link \in BOOLEAN, NEW light \in BOOLEAN,
         NEW nib \in Nibbles, NEW rs \in BOOLEAN, NEW en \in BOOLEAN,
         NEW r \in ExpanderWrite(d, link, light, nib, rs, en)
  PROVE r \in Results /\ (r.ok => r.dev \in SetPort(d, Port(nib, rs, en, light)))
<1> DEFINE p == Port(nib, rs, en, light)
<1>1. p \in Ports BY PortInPorts
<1>2. \A e \in SetPort(d, p) : e \in Devices BY <1>1, SetPortDevices
<1>3. r \in Result(SetPort(d, p), TRUE) \cup Result(SetPort(d, p) \cup {d}, FALSE)
        \cup Result({d}, FALSE)
  BY DEF ExpanderWrite
<1> HIDE DEF p
<1>4. \/ \E e \in SetPort(d, p) : r = [dev |-> e, ok |-> TRUE]
      \/ \E e \in SetPort(d, p) \cup {d} : r = [dev |-> e, ok |-> FALSE]
  BY <1>3 DEF Result
<1>5. CASE \E e \in SetPort(d, p) : r = [dev |-> e, ok |-> TRUE]
  <2>1. PICK e \in SetPort(d, p) : r = [dev |-> e, ok |-> TRUE] BY <1>5
  <2>2. e \in Devices BY <1>2
  <2>3. r \in Results BY <2>1, <2>2 DEF Results
  <2>4. r.dev = e BY <2>1
  <2> QED BY <2>3, <2>4 DEF p
<1>6. CASE \E e \in SetPort(d, p) \cup {d} : r = [dev |-> e, ok |-> FALSE]
  <2>1. PICK e \in SetPort(d, p) \cup {d} : r = [dev |-> e, ok |-> FALSE] BY <1>6
  <2>2. e \in Devices BY <1>2
  <2>3. r \in Results BY <2>1, <2>2 DEF Results
  <2>4. ~r.ok BY <2>1
  <2> QED BY <2>3, <2>4
<1> QED BY <1>4, <1>5, <1>6

\* Write4bits() ends early or makes its three writes one after the other.
LEMMA Write4bitsResults ==
  ASSUME NEW d \in Devices, NEW link \in BOOLEAN, NEW light \in BOOLEAN,
         NEW nib \in Nibbles, NEW rs \in BOOLEAN,
         NEW r \in Write4bits(d, link, light, nib, rs)
  PROVE /\ r \in Results
        /\ r.ok => \E a \in SetPort(d, Port(nib, rs, FALSE, light)) :
                     \E b \in SetPort(a, Port(nib, rs, TRUE, light)) :
                       r.dev \in SetPort(b, Port(nib, rs, FALSE, light))
<1> DEFINE W(e, en) == ExpanderWrite(e, link, light, nib, rs, en)
<1>1. \A e \in Devices, en \in BOOLEAN : \A s \in W(e, en) :
        s \in Results /\ (s.ok => s.dev \in SetPort(e, Port(nib, rs, en, light)))
  BY ExpanderWriteResults
<1>2. \/ r \in W(d, FALSE) /\ ~r.ok
      \/ \E s \in W(d, FALSE) : s.ok /\ r \in W(s.dev, TRUE) /\ ~r.ok
      \/ \E s \in W(d, FALSE) : \E t \in W(s.dev, TRUE) :
           s.ok /\ t.ok /\ r \in W(t.dev, FALSE)
  BY DEF Write4bits, Then
<1> HIDE DEF W
<1>3. \A s \in Results : s.dev \in Devices /\ s.ok \in BOOLEAN BY DEF Results
<1> QED BY <1>1, <1>2, <1>3

\* With En low before, a write4bits() that returns 1 has given one nibble.
LEMMA Write4bitsTakes ==
  ASSUME NEW d \in Devices, NEW link \in BOOLEAN, NEW light \in BOOLEAN,
         NEW nib \in Nibbles, NEW rs \in BOOLEAN,
         NEW r \in Write4bits(d, link, light, nib, rs), r.ok, ~d.port.en
  PROVE LET e == [d EXCEPT !.port = Port(nib, rs, FALSE, light)]
        IN e \in Devices /\ r.dev \in TakeNibble(e, nib, rs) /\ r.dev.port = e.port
<1> DEFINE lo == Port(nib, rs, FALSE, light)
           hi == Port(nib, rs, TRUE, light)
           e == [d EXCEPT !.port = lo]
<1>1. /\ lo \in Ports /\ ~lo.en /\ lo.nib = nib /\ lo.rs = rs
      /\ hi \in Ports /\ hi.en /\ hi.nib = nib /\ hi.rs = rs
  <2>1. lo \in Ports /\ lo.en = FALSE /\ lo.nib = nib /\ lo.rs = rs
    BY DEF Port, Ports
  <2>2. hi \in Ports /\ hi.en = TRUE /\ hi.nib = nib /\ hi.rs = rs
    BY DEF Port, Ports
  <2> QED BY <2>1, <2>2
<1>2. PICK a \in SetPort(d, lo) : \E b \in SetPort(a, hi) : r.dev \in SetPort(b, lo)
  BY Write4bitsResults
<1>3. PICK b \in SetPort(a, hi) : r.dev \in SetPort(b, lo) BY <1>2
<1> HIDE DEF lo, hi
<1>4. a = e /\ e \in Devices BY <1>1, SetPortDevices
<1>5. a.port = lo BY <1>1, SetPortDevices
<1>a. a \in Devices BY <1>4
<1>6. b = [a EXCEPT !.port = hi] /\ b \in Devices /\ b.port = hi
  BY <1>1, <1>5, <1>a, SetPortDevices
<1>7. [b EXCEPT !.port = lo] = e BY <1>4, <1>6 DEF Devices
<1>8. r.dev \in TakeNibble(e, nib, rs) BY <1>1, <1>3, <1>6, <1>7 DEF SetPort
<1>9. r.dev.port = e.port
  <2> HIDE DEF e
  <2> QED BY <1>4, <1>8, TakeNibbleDevices
<1> QED BY <1>4, <1>8, <1>9 DEF lo

\* Likewise send(), of its two nibbles.
LEMMA SendResults ==
  ASSUME NEW d \in Devices, NEW link \in BOOLEAN, NEW light \in BOOLEAN,
         NEW v \in Bytes, NEW rs \in BOOLEAN, NEW r \in Send(d, link, light, v, rs)
  PROVE /\ r \in Results
        /\ r.ok => \E s \in Write4bits(d, link, light, v \div 16, rs) :
                     s.ok /\ r \in Write4bits(s.dev, link, light, v % 16, rs)
<1>1. v \div 16 \in Nibbles /\ v % 16 \in Nibbles BY DEF Bytes, Nibbles
<1>2. \/ r \in Write4bits(d, link, light, v \div 16, rs) /\ ~r.ok
      \/ \E s \in Write4bits(d, link, light, v \div 16, rs) :
           s.ok /\ r \in Write4bits(s.dev, link, light, v % 16, rs)
  BY DEF Send, Then
<1>3. \A s \in Write4bits(d, link, light, v \div 16, rs) : s \in Results
  BY <1>1, Write4bitsResults
<1>4. \A s \in Results : s.dev \in Devices BY DEF Results
<1>5. \A e \in Devices : \A s \in Write4bits(e, link, light, v % 16, rs) : s \in Results
  BY <1>1, Write4bitsResults
<1> QED BY <1>2, <1>3, <1>4, <1>5

\* d but for its port, where En is low.
Repointed(d, e) == /\ e \in Devices /\ ~e.port.en /\ e.hi = d.hi
                   /\ SameMode(d, e) /\ e.moved = d.moved
                   /\ e.ac = d.ac /\ e.cg = d.cg /\ e.ram = d.ram

\* In step before, a send() that returns 1 has given its byte, once.
LEMMA SendExecutes ==
  ASSUME NEW d \in Devices, NEW link \in BOOLEAN, NEW light \in BOOLEAN,
         NEW v \in Bytes, NEW rs \in BOOLEAN,
         NEW r \in Send(d, link, light, v, rs), r.ok, InStep(d)
  PROVE \E e \in Devices : Repointed(d, e) /\ r.dev = Execute(e, v, rs)
<1> DEFINE h == v \div 16
           l == v % 16
           p1 == Port(h, rs, FALSE, light)
           p2 == Port(l, rs, FALSE, light)
           e1 == [d EXCEPT !.port = p1]
           e2 == [d EXCEPT !.port = p2]
<1>1. h \in Nibbles /\ l \in Nibbles /\ h * 16 + l = v BY DEF Bytes, Nibbles
<1>2. p1 \in Ports /\ p2 \in Ports /\ p1.en = FALSE /\ p2.en = FALSE
  <2> HIDE DEF h, l
  <2> QED BY <1>1 DEF Port, Ports
<1>3. PICK s \in Write4bits(d, link, light, h, rs) :
        s.ok /\ r \in Write4bits(s.dev, link, light, l, rs)
  BY SendResults
<1> HIDE DEF h, l
<1>4. ~d.wide /\ d.hi = NoNibble /\ ~d.port.en BY DEF InStep
<1>a. s.dev \in TakeNibble(e1, h, rs)
  BY <1>1, <1>3, <1>4, Write4bitsTakes
<1> HIDE DEF p1, p2
<1>5. e1 \in Devices BY <1>2 DEF Devices
<1>6. e1.port = p1 /\ ~e1.wide /\ e1.hi = NoNibble BY <1>4 DEF Devices
<1>7. s.dev = [e1 EXCEPT !.hi = h]
  <2> HIDE DEF e1
  <2> QED BY <1>a, <1>6 DEF TakeNibble
<1>8. s.dev \in Devices /\ s.dev.port = p1
  <2> HIDE DEF e1
  <2> QED BY <1>1, <1>a, <1>5, <1>6, TakeNibbleDevices
<1>9. ~s.dev.port.en BY <1>2, <1>8
<1> DEFINE f == [s.dev EXCEPT !.port = p2]
<1>10. r.dev \in TakeNibble(f, l, rs)
  BY <1>1, <1>3, <1>8, <1>9, Write4bitsTakes DEF p2
<1>11. ~f.wide /\ f.hi = h /\ f.hi # NoNibble
  BY <1>1, <1>4, <1>7 DEF Devices, Nibbles, NoNibble
<1>12. [f EXCEPT !.hi = NoNibble] = e2 BY <1>4, <1>7 DEF Devices
<1>13. r.dev = Execute(e2, v, rs)
  <2> HIDE DEF f, e2
  <2>1. TakeNibble(f, l, rs) = {Execute([f EXCEPT !.hi = NoNibble], f.hi * 16 + l, rs)}
    BY <1>11 DEF TakeNibble
  <2> QED BY <1>1, <1>10, <1>11, <1>12, <2>1
<1>14. Repointed(d, e2) BY <1>2 DEF Repointed, Devices, SameMode
<1> HIDE DEF e2
<1> QED BY <1>13, <1>14 DEF Repointed

-----------------------------------------------------------------------------
\* What the driver calls besides setSlaveId().
RowCalls == {Command(v) : v \in 128..255} \cup {PutChar(c) : c \in Bytes}
BareCalls == {Expander(0), Nibble(3), Nibble(2)}
SetUpCommands == {Command(v) : v \in {40, 12, 1, 6, 2}}

LEMMA PerformResults ==
  ASSUME NEW d \in Devices, NEW link \in BOOLEAN, NEW light \in BOOLEAN,
         NEW c \in RowCalls \cup BareCalls \cup SetUpCommands,
         NEW r \in Perform(c, d, link, light)
  PROVE r \in Results
<1>a. FALSE \in BOOLEAN /\ TRUE \in BOOLEAN OBVIOUS
<1>1. CASE c = Expander(0)
  <2>1. r \in ExpanderWrite(d, link, light, 0, FALSE, FALSE)
    BY <1>1 DEF Perform, Expander
  <2>2. 0 \in Nibbles BY DEF Nibbles
  <2> QED BY <1>a, <2>1, <2>2, ExpanderWriteResults
<1>2. ASSUME NEW n \in Nibbles, c = Nibble(n) PROVE r \in Results
  <2>1. r \in Write4bits(d, link, light, n, FALSE) BY <1>2 DEF Perform, Nibble
  <2> QED BY <1>a, <2>1, Write4bitsResults
<1>3. ASSUME NEW v \in Bytes, c = Command(v) PROVE r \in Results
  <2>1. r \in Send(d, link, light, v, FALSE) BY <1>3 DEF Perform, Command
  <2> QED BY <1>a, <2>1, SendResults
<1>4. ASSUME NEW v \in Bytes, c = PutChar(v) PROVE r \in Results
  <2>1. r \in Send(d, link, light, v, TRUE) BY <1>4 DEF Perform, PutChar
  <2> QED BY <1>a, <2>1, SendResults
<1>5. \/ c = Expander(0)
      \/ \E n \in Nibbles : c = Nibble(n)
      \/ \E v \in Bytes : c = Command(v) \/ c = PutChar(v)
  BY DEF RowCalls, BareCalls, SetUpCommands, Bytes, Nibbles
<1> QED BY <1>1, <1>2, <1>3, <1>4, <1>5

\* Drawing keeps a display that is set up set up.
LEMMA DrawingKeepsReady ==
  ASSUME NEW d \in Devices, NEW link \in BOOLEAN, NEW light \in BOOLEAN,
         NEW c \in RowCalls \cup {Expander(0)},
         NEW r \in Perform(c, d, link, light), r.ok, Ready(d)
  PROVE Ready(r.dev)
<1>1. InStep(d) BY DEF Ready
<1>3. CASE c = Expander(0)
  <2>1. r \in ExpanderWrite(d, link, light, 0, FALSE, FALSE)
    BY <1>3 DEF Perform, Expander
  <2> DEFINE p == Port(0, FALSE, FALSE, light)
  <2>2. 0 \in Nibbles /\ FALSE \in BOOLEAN BY DEF Nibbles
  <2>3. r.dev \in SetPort(d, p) BY <2>1, <2>2, ExpanderWriteResults
  <2>4. p \in Ports /\ p.en = FALSE BY DEF Port, Ports, Nibbles
  <2> HIDE DEF p
  <2>5. r.dev = [d EXCEPT !.port = p] BY <1>1, <2>3, <2>4, SetPortDevices DEF InStep
  <2> QED BY <2>4, <2>5 DEF Ready, InStep, Devices
<1>4. ASSUME NEW v \in 128..255, c = Command(v) PROVE Ready(r.dev)
  <2>0. PICK rs \in BOOLEAN : rs = FALSE OBVIOUS
  <2>1. r \in Send(d, link, light, v, rs) BY <1>4, <2>0 DEF Perform, Command
  <2>2. v \in Bytes BY DEF Bytes
  <2>3. PICK e \in Devices : Repointed(d, e) /\ r.dev = Execute(e, v, rs)
    BY <1>1, <2>1, <2>2, SendExecutes
  <2>4. r.dev = [e EXCEPT !.ac = v - 128, !.cg = FALSE]
    BY <2>0, <2>3 DEF Execute, Instruction
  <2> QED BY <2>3, <2>4 DEF Repointed, Devices, Ready, InStep, SameMode
<1>5. ASSUME NEW v \in Bytes, c = PutChar(v) PROVE Ready(r.dev)
  <2>0. PICK rs \in BOOLEAN : rs = TRUE OBVIOUS
  <2>1. r \in Send(d, link, light, v, rs) BY <1>5, <2>0 DEF Perform, PutChar
  <2>3. PICK e \in Devices : Repointed(d, e) /\ r.dev = Execute(e, v, rs)
    BY <1>1, <2>1, SendExecutes
  <2>4. r.dev = WriteData(e, v) BY <2>0, <2>3 DEF Execute
  <2>5. /\ r.dev.port = e.port /\ r.dev.hi = e.hi /\ SameMode(e, r.dev)
        /\ r.dev.moved = (e.moved \/ e.slide)
    BY <2>4, WriteDataDevice
  <2> QED BY <2>3, <2>5 DEF Repointed, Ready, InStep, SameMode
<1> QED BY <1>3, <1>4, <1>5 DEF RowCalls

\* How far a clean init() has come with n calls to go.  Whatever half of a byte
\* the display was waiting for, two of the three 3s put it into 8-bit mode.
SetUpProgress(d, n) ==
  /\ n <= 9 => ~d.port.en
  /\ n = 8 => d.wide \/ d.hi \in {NoNibble, 3}
  /\ n = 7 => d.wide \/ d.hi = 3
  /\ n = 6 => d.wide
  /\ n <= 5 => InStep(d)
  /\ n <= 4 => d.two
  /\ n <= 3 => d.on
  /\ n <= 2 => d.inc /\ ~d.moved
  /\ n <= 1 => ~d.slide

\* What a nibble of init() does, whatever the pins that are not wired read as.
LEMMA NibbleOfInit ==
  ASSUME NEW d \in Devices, NEW link \in BOOLEAN, NEW light \in BOOLEAN,
         NEW nib \in {2, 3},
         NEW r \in Perform(Nibble(nib), d, link, light), r.ok, ~d.port.en
  PROVE /\ r.dev \in Devices /\ ~r.dev.port.en
        /\ d.wide /\ nib = 3 => r.dev.wide
        /\ d.wide /\ nib = 2 => ~r.dev.wide /\ r.dev.hi = NoNibble
        /\ ~d.wide /\ d.hi = NoNibble => r.dev.hi = nib
        /\ ~d.wide /\ d.hi # NoNibble => r.dev.hi = NoNibble
        /\ ~d.wide /\ d.hi = 3 /\ nib = 3 => r.dev.wide
<1>1. nib \in Nibbles BY DEF Nibbles
<1>2. PICK rs \in BOOLEAN : rs = FALSE OBVIOUS
<1> DEFINE p == Port(nib, rs, FALSE, light)
           e == [d EXCEPT !.port = p]
<1>3. r \in Write4bits(d, link, light, nib, rs) BY <1>2 DEF Perform, Nibble
<1>4. p \in Ports /\ p.en = FALSE BY <1>1 DEF Port, Ports
<1>5. r.dev \in TakeNibble(e, nib, rs) BY <1>1, <1>3, Write4bitsTakes
<1> HIDE DEF p
<1>6. e \in Devices /\ e.port = p /\ e.hi = d.hi /\ e.wide = d.wide
  BY <1>4 DEF Devices
<1> HIDE DEF e
<1>7. r.dev \in Devices /\ r.dev.port = p BY <1>1, <1>5, <1>6, TakeNibbleDevices
<1>8. ASSUME d.wide
      PROVE (nib = 3 => r.dev.wide) /\ (nib = 2 => ~r.dev.wide) /\ r.dev.hi = NoNibble
  <2>1. PICK low \in Floating : r.dev = Execute(e, nib * 16 + low, rs)
    BY <1>5, <1>6, <1>8 DEF TakeNibble
  <2>2. low \in 0..15 BY FloatingAssumption
  <2>3. e.hi = NoNibble BY <1>6, <1>8 DEF Devices
  <2>4. nib * 16 + low \in 32..63 BY <2>2
  <2> DEFINE w == Bit(nib * 16 + low, 16)
             t == Bit(nib * 16 + low, 8)
  <2>5. r.dev = [e EXCEPT !.wide = w, !.two = t]
    BY <1>2, <2>1, <2>4 DEF Execute, Instruction
  <2>6. w \in BOOLEAN /\ t \in BOOLEAN BY DEF Bit
  <2>7. nib = 3 => w = TRUE
    <3>1. nib = 3 => nib * 16 + low = 48 + low BY <2>2
    <3>2. Bit(48 + low, 16) = TRUE BY <2>2 DEF Bit
    <3> QED BY <3>1, <3>2
  <2>8. nib = 2 => w = FALSE
    <3>1. nib = 2 => nib * 16 + low = 32 + low BY <2>2
    <3>2. Bit(32 + low, 16) = FALSE BY <2>2 DEF Bit
    <3> QED BY <3>1, <3>2
  <2> HIDE DEF w, t
  <2>9. r.dev.wide = w /\ r.dev.hi = NoNibble BY <1>6, <2>3, <2>5 DEF Devices
  <2> QED BY <2>7, <2>8, <2>9
<1>9. ASSUME ~d.wide, d.hi = NoNibble
      PROVE r.dev.hi = nib
  BY <1>5, <1>6, <1>9 DEF TakeNibble, Devices
<1>10. ASSUME ~d.wide, d.hi = 3, nib = 3
       PROVE r.dev.wide
  <2> DEFINE b == [e EXCEPT !.hi = NoNibble]
  <2>1. r.dev = Execute(b, 51, rs) BY <1>5, <1>6, <1>10 DEF TakeNibble, NoNibble
  <2>2. r.dev = [b EXCEPT !.wide = Bit(51, 16), !.two = Bit(51, 8)]
    BY <1>2, <2>1 DEF Execute, Instruction
  <2>3. Bit(51, 16) = TRUE BY DEF Bit
  <2>4. b \in Devices BY <1>6 DEF Devices
  <2> HIDE DEF b
  <2> QED BY <2>2, <2>3, <2>4 DEF Devices
<1>11. ASSUME ~d.wide, d.hi # NoNibble
       PROVE r.dev.hi = NoNibble
  <2> DEFINE b == [e EXCEPT !.hi = NoNibble]
  <2>1. r.dev = Execute(b, d.hi * 16 + nib, rs) BY <1>5, <1>6, <1>11 DEF TakeNibble
  <2>2. b \in Devices /\ b.hi = NoNibble BY <1>6 DEF Devices
  <2>3. d.hi \in 0..15 BY <1>11 DEF Devices, Nibbles
  <2>4. d.hi * 16 + nib \in Bytes BY <2>3 DEF Bytes
  <2> HIDE DEF b
  <2> QED BY <2>1, <2>2, <2>4, ExecuteDevice
<1> QED BY <1>4, <1>7, <1>8, <1>9, <1>10, <1>11

\* What a command of init() does between two bytes.
LEMMA CommandOfInit ==
  ASSUME NEW d \in Devices, NEW link \in BOOLEAN, NEW light \in BOOLEAN,
         NEW v \in {40, 12, 1, 6, 2},
         NEW r \in Perform(Command(v), d, link, light), r.ok, InStep(d)
  PROVE /\ InStep(r.dev)
        /\ d.two \/ v = 40 => r.dev.two
        /\ d.on \/ v = 12 => r.dev.on
        /\ d.inc \/ v \in {1, 6} => r.dev.inc
        /\ ~d.slide \/ v = 6 => ~r.dev.slide
        /\ ~d.moved \/ v \in {1, 2} => ~r.dev.moved
<1>1. v \in Bytes BY DEF Bytes
<1>2. PICK rs \in BOOLEAN : rs = FALSE OBVIOUS
<1>3. r \in Send(d, link, light, v, rs) BY <1>2 DEF Perform, Command
<1>4. PICK e \in Devices : Repointed(d, e) /\ r.dev = Execute(e, v, rs)
  BY <1>1, <1>3, SendExecutes
<1>5. r.dev = Instruction(e, v) BY <1>2, <1>4 DEF Execute
<1>a. /\ e \in Devices /\ ~e.port.en /\ e.hi = NoNibble /\ ~e.wide
      /\ d.two => e.two
      /\ d.on => e.on
      /\ d.inc => e.inc
      /\ ~d.slide => ~e.slide
      /\ ~d.moved => ~e.moved
  BY <1>4 DEF Repointed, SameMode, InStep
<1> USE <1>a DEF InStep, Devices
<1>6. CASE v = 40
  <2>1. r.dev = [e EXCEPT !.wide = Bit(40, 16), !.two = Bit(40, 8)]
    BY <1>5, <1>6 DEF Instruction
  <2>2. Bit(40, 16) = FALSE /\ Bit(40, 8) = TRUE BY DEF Bit
  <2> QED BY <1>6, <2>1, <2>2
<1>7. CASE v = 12
  <2>1. r.dev = [e EXCEPT !.on = Bit(12, 4)] BY <1>5, <1>7 DEF Instruction
  <2>2. Bit(12, 4) = TRUE BY DEF Bit
  <2> QED BY <1>7, <2>1, <2>2
<1>8. CASE v = 1
  <2>1. r.dev = [e EXCEPT !.ac = 0, !.cg = FALSE, !.moved = FALSE, !.inc = TRUE,
                          !.ram = [c \in Cells |-> Blank]]
    BY <1>5, <1>8 DEF Instruction
  <2> QED BY <1>8, <2>1
<1>9. CASE v = 6
  <2>1. r.dev = [e EXCEPT !.inc = Bit(6, 2), !.slide = Bit(6, 1)]
    BY <1>5, <1>9 DEF Instruction
  <2>2. Bit(6, 2) = TRUE /\ Bit(6, 1) = FALSE BY DEF Bit
  <2> QED BY <1>9, <2>1, <2>2
<1>10. CASE v = 2
  <2>1. r.dev = [e EXCEPT !.ac = 0, !.cg = FALSE, !.moved = FALSE]
    BY <1>5, <1>10 DEF Instruction
  <2> QED BY <1>10, <2>1
<1> QED BY <1>6, <1>7, <1>8, <1>9, <1>10

LEMMA InitCallsInOrder ==
  /\ Len(InitCalls) = 11 /\ InitCalls[1] = SetSlaveId /\ InitCalls[2] = Expander(0)
  /\ \A i \in 3..5 : InitCalls[i] = Nibble(3)
  /\ InitCalls[6] = Nibble(2)
  /\ InitCalls[7] = Command(40) /\ InitCalls[8] = Command(12) /\ InitCalls[9] = Command(1)
  /\ InitCalls[10] = Command(6) /\ InitCalls[11] = Command(2)
BY DEF InitCalls

\* Each clean call of init() brings it one call further.
LEMMA CleanCallAdvances ==
  ASSUME NEW d \in Devices, NEW link \in BOOLEAN, NEW light \in BOOLEAN,
         NEW n \in 1..10, SetUpProgress(d, n),
         NEW r \in Perform(InitCalls[12 - n], d, link, light), r.ok
  PROVE SetUpProgress(r.dev, n - 1)
<1> DEFINE c == InitCalls[12 - n]
<1>0. r \in Perform(c, d, link, light) OBVIOUS
<1> HIDE DEF c
<1>1. CASE n = 10
  <2>1. c = Expander(0) BY <1>1, InitCallsInOrder DEF c
  <2>2. r \in ExpanderWrite(d, link, light, 0, FALSE, FALSE)
    BY <1>0, <2>1 DEF Perform, Expander
  <2> DEFINE p == Port(0, FALSE, FALSE, light)
  <2>3. 0 \in Nibbles /\ FALSE \in BOOLEAN BY DEF Nibbles
  <2>4. r.dev \in SetPort(d, p) BY <2>2, <2>3, ExpanderWriteResults
  <2>5. p \in Ports /\ p.en = FALSE BY DEF Port, Ports, Nibbles
  <2> HIDE DEF p
  <2>6. r.dev.port = p BY <2>4, <2>5, SetPortDevices
  <2> QED BY <1>1, <2>5, <2>6 DEF SetUpProgress
<1>2. CASE n \in 6..9
  <2>1. CASE n \in 7..9
    <3>1. c = Nibble(3)
      <4>1. 12 - n \in 3..5 BY <2>1
      <4> QED BY <4>1, InitCallsInOrder DEF c
    <3>2. ~d.port.en BY <2>1 DEF SetUpProgress
    <3>3. /\ r.dev \in Devices /\ ~r.dev.port.en
          /\ d.wide => r.dev.wide
          /\ ~d.wide /\ d.hi = NoNibble => r.dev.hi = 3
          /\ ~d.wide /\ d.hi # NoNibble => r.dev.hi = NoNibble
          /\ ~d.wide /\ d.hi = 3 => r.dev.wide
      BY <1>0, <3>1, <3>2, NibbleOfInit
    <3>4. n = 8 => d.wide \/ d.hi = NoNibble \/ d.hi = 3 BY DEF SetUpProgress
    <3>5. n = 7 => d.wide \/ d.hi = 3 BY DEF SetUpProgress
    <3>6. CASE n = 9 BY <3>3, <3>6 DEF SetUpProgress
    <3>7. CASE n = 8 BY <3>3, <3>4, <3>7 DEF SetUpProgress, Devices
    <3>8. CASE n = 7 BY <3>3, <3>5, <3>8 DEF SetUpProgress, NoNibble
    <3> QED BY <2>1, <3>6, <3>7, <3>8
  <2>2. CASE n = 6
    <3>1. c = Nibble(2) BY <2>2, InitCallsInOrder DEF c
    <3>2. ~d.port.en /\ d.wide BY <2>2 DEF SetUpProgress
    <3>3. ~r.dev.port.en /\ ~r.dev.wide /\ r.dev.hi = NoNibble
      BY <1>0, <3>1, <3>2, NibbleOfInit
    <3> QED BY <2>2, <3>3 DEF SetUpProgress, InStep
  <2> QED BY <1>2, <2>1, <2>2
<1>3. CASE n \in 1..5
  <2> DEFINE v == <<2, 6, 1, 12, 40>>[n]
  <2>1. c = Command(v) /\ v \in {40, 12, 1, 6, 2} BY <1>3, InitCallsInOrder DEF c
  <2>2. InStep(d) BY <1>3 DEF SetUpProgress
  <2>3. /\ v = 40 <=> n = 5
        /\ v = 12 <=> n = 4
        /\ v = 1 <=> n = 3
        /\ v = 6 <=> n = 2
        /\ v = 2 <=> n = 1
    BY <1>3
  <2> HIDE DEF v
  <2>4. /\ InStep(r.dev)
        /\ d.two \/ v = 40 => r.dev.two
        /\ d.on \/ v = 12 => r.dev.on
        /\ d.inc \/ v \in {1, 6} => r.dev.inc
        /\ ~d.slide \/ v = 6 => ~r.dev.slide
        /\ ~d.moved \/ v \in {1, 2} => ~r.dev.moved
    BY <1>0, <2>1, <2>2, CommandOfInit
  <2> USE <2>3, <2>4 DEF SetUpProgress, InStep
  <2>5. CASE n = 5 BY <2>5
  <2>6. CASE n = 4 BY <2>6
  <2>7. CASE n = 3 BY <2>7
  <2>8. CASE n = 2 BY <2>8
  <2>9. CASE n = 1 BY <2>9
  <2> QED BY <1>3, <2>5, <2>6, <2>7, <2>8, <2>9
<1> QED BY <1>1, <1>2, <1>3

-----------------------------------------------------------------------------
SetUpCalls == {SetSlaveId} \cup BareCalls \cup SetUpCommands

\* What is left of init().
RestOfInit(t) == /\ t \in Seq(SetUpCalls)
                 /\ Len(t) <= 11
                 /\ \A i \in 1..Len(t) : t[i] = InitCalls[11 - Len(t) + i]

StateOK == /\ dev \in Devices
           /\ opened \in BOOLEAN /\ linked \in BOOLEAN /\ bl \in BOOLEAN
           /\ routine \in Routines
           /\ want \in [Rows -> Seq(Bytes)]
           /\ age \in Never .. ReinitPasses
           /\ faults \in 0..MaxFaults
           /\ clean \in BOOLEAN

\* The calls still to be made are of the routine.
TodoAgrees == /\ routine = Idle => todo = <<>>
              /\ routine = SetUp => RestOfInit(todo)
              /\ routine = BacklightOn => todo \in Seq({Expander(0)})
              /\ routine \in Rows => todo \in Seq(RowCalls)

\* A clean init() has come as far as its calls go; after it the display is set up.
CleanAgrees == clean => IF routine = SetUp THEN SetUpProgress(dev, Len(todo))
                                           ELSE Ready(dev)

\* The inductive invariant.
IInv == StateOK /\ TodoAgrees /\ CleanAgrees

LEMMA InitCallsRest == RestOfInit(InitCalls) /\ RestOfInit(<<>>)
<1>1. InitCalls \in Seq(SetUpCalls)
  BY DEF InitCalls, SetUpCalls, BareCalls, SetUpCommands
<1>2. Len(InitCalls) = 11 BY InitCallsInOrder
<1> QED BY <1>1, <1>2 DEF RestOfInit

\* Of a rest of init() the first call is the next of InitCalls.
LEMMA RestOfInitTail ==
  ASSUME NEW t, RestOfInit(t), t # <<>>
  PROVE /\ Len(t) \in 1..11 /\ Head(t) = InitCalls[12 - Len(t)]
        /\ Head(t) \in SetUpCalls
        /\ RestOfInit(Tail(t)) /\ Len(Tail(t)) = Len(t) - 1
        /\ Head(t) # SetSlaveId => Len(t) \in 1..10
<1>1. Len(t) \in 1..11
  <2>1. t \in Seq(SetUpCalls) /\ Len(t) <= 11 BY DEF RestOfInit
  <2> DEFINE n == Len(t)
  <2>2. n \in Nat \ {0} BY <2>1, EmptySeq
  <2>3. n <= 11 BY <2>1
  <2> HIDE DEF n
  <2>4. n \in 1..11 BY <2>2, <2>3
  <2> QED BY <2>4 DEF n
<1>2. Head(t) = t[1] /\ t[1] \in SetUpCalls BY <1>1 DEF RestOfInit
<1>3. t[1] = InitCalls[12 - Len(t)] BY <1>1 DEF RestOfInit
<1>4. Tail(t) \in Seq(SetUpCalls) /\ Len(Tail(t)) = Len(t) - 1 BY <1>1 DEF RestOfInit
<1>5. \A i \in 1..Len(Tail(t)) : Tail(t)[i] = t[i + 1] BY <1>1, <1>4 DEF RestOfInit
<1>6. RestOfInit(Tail(t)) BY <1>1, <1>4, <1>5 DEF RestOfInit
<1>7. Head(t) # SetSlaveId => Len(t) # 11
  <2>1. Len(t) = 11 => 12 - Len(t) = 1 OBVIOUS
  <2> QED BY <1>2, <1>3, <2>1, InitCallsInOrder
<1>8. Len(t) # 11 => Len(t) \in 1..10 BY <1>1
<1>9. Head(t) \in SetUpCalls BY <1>2
<1>10. Head(t) = InitCalls[12 - Len(t)] BY <1>2, <1>3
<1> HIDE DEF RestOfInit
<1> QED BY <1>1, <1>4, <1>6, <1>7, <1>8, <1>9, <1>10

\* puts_newline() calls what RowCalls names, whatever the text.
LEMMA RowCallsSeq ==
  ASSUME NEW y \in Rows, NEW text \in Seq(Bytes)
  PROVE PutsNewlineCalls(y, text) \in Seq(RowCalls) /\ Padded(text) \in Seq(Bytes)
<1>1. Padded(text) \in [1..Cols -> Bytes]
  <2>1. Blank \in Bytes BY BlankAssumption DEF Bytes
  <2>2. Len(text) \in Nat BY LenProperties
  <2>3. \A i \in 1..Cols : i <= Len(text) => text[i] \in Bytes
    BY <2>2, ElementOfSeq, ColsAssumption
  <2> QED BY <2>1, <2>3 DEF Padded
<1>2. 128 + RowAddress(y) \in 128..255
  <2>1. y = 0 \/ y = 1 \/ y = 2 \/ y = 3 BY DEF Rows
  <2>2. CASE y = 0 BY <2>2 DEF RowAddress
  <2>3. CASE y = 1 BY <2>3 DEF RowAddress
  <2>4. CASE y = 2 BY <2>4 DEF RowAddress
  <2>5. CASE y = 3 BY <2>5 DEF RowAddress
  <2> QED BY <2>1, <2>2, <2>3, <2>4, <2>5
<1>3. <<Command(128 + RowAddress(y))>> \in Seq(RowCalls)
  <2>1. Command(128 + RowAddress(y)) \in RowCalls BY <1>2 DEF RowCalls
  <2> QED BY <2>1
<1> DEFINE puts == [i \in 1..Cols |-> PutChar(Padded(text)[i])]
<1>4. puts \in [1..Cols -> RowCalls] BY <1>1 DEF RowCalls
<1>5. Cols \in Nat BY ColsAssumption
<1>6. puts \in Seq(RowCalls) /\ Padded(text) \in Seq(Bytes)
  <2> HIDE DEF puts
  <2> QED BY <1>1, <1>4, <1>5
<1> QED BY <1>3, <1>6 DEF PutsNewlineCalls

-----------------------------------------------------------------------------
LEMMA BlankScreenTyped == BlankScreen \in [Rows -> Seq(Bytes)]
<1>1. <<>> \in Seq(Bytes) OBVIOUS
<1>2. 0 \in Rows BY DEF Rows
<1>3. Padded(<<>>) \in Seq(Bytes) BY <1>1, <1>2, RowCallsSeq
<1> QED BY <1>3 DEF BlankScreen

LEMMA PowerOnDevice == PowerOn \in Devices
<1>1. [c \in Cells |-> Blank] \in [Cells -> Bytes] BY BlankAssumption DEF Bytes
<1> DEFINE blank == [c \in Cells |-> Blank]
           p == Port(15, TRUE, TRUE, TRUE)
<1>2. p \in Ports BY DEF Port, Ports, Nibbles
<1>3. PowerOn = [port |-> p, wide |-> TRUE, hi |-> NoNibble, ac |-> 0, cg |-> FALSE,
                 inc |-> TRUE, slide |-> FALSE, moved |-> FALSE, on |-> FALSE,
                 two |-> FALSE, ram |-> blank]
  BY DEF PowerOn
<1>4. blank \in [Cells -> Bytes] BY <1>1
<1>5. 0 \in 0..127 OBVIOUS
<1> HIDE DEF blank, p
<1> QED BY <1>2, <1>3, <1>4, <1>5 DEF Devices

LEMMA InitEstablishesIInv == Init => IInv
<1> SUFFICES ASSUME Init PROVE IInv OBVIOUS
<1>1. StateOK
  <2>1. dev \in Devices /\ want \in [Rows -> Seq(Bytes)]
    BY PowerOnDevice, BlankScreenTyped DEF Init
  <2>2. faults \in 0..MaxFaults /\ age \in Never .. ReinitPasses
    BY BoundsAssumption DEF Init, Never
  <2>3. routine \in Routines BY DEF Init, Routines
  <2>4. /\ opened \in BOOLEAN /\ linked \in BOOLEAN
        /\ bl \in BOOLEAN /\ clean \in BOOLEAN
    BY DEF Init
  <2> QED BY <2>1, <2>2, <2>3, <2>4 DEF StateOK
<1>2. TodoAgrees BY DEF Init, TodoAgrees, Idle, SetUp, BacklightOn, Rows
<1> QED BY <1>1, <1>2 DEF IInv, CleanAgrees, Init

LEMMA CallsAgree ==
  ASSUME NEW w \in [Rows -> Seq(Bytes)], NEW y \in Rows
  PROVE PutsNewlineCalls(y, w[y]) \in Seq(RowCalls)
BY RowCallsSeq

LEMMA RoutinesApart ==
  /\ Idle # SetUp /\ Idle # BacklightOn /\ SetUp # BacklightOn
  /\ Idle \notin Rows /\ SetUp \notin Rows /\ BacklightOn \notin Rows
  /\ \A y \in Rows : y \in Routines
  /\ Idle \in Routines /\ SetUp \in Routines /\ BacklightOn \in Routines
BY DEF Idle, SetUp, BacklightOn, Rows, Routines

LEMMA BeginPassKeepsIInv == ASSUME IInv, BeginPassWithInit \/ BeginPass PROVE IInv'
<1> USE RoutinesApart
<1>1. want' \in [Rows -> Seq(Bytes)]
  BY WantsAssumption DEF BeginPassWithInit, BeginPass, Bytes
<1>2. CASE BeginPassWithInit
  <2>1. StateOK' BY <1>1, <1>2, BoundsAssumption DEF IInv, StateOK, BeginPassWithInit, Never
  <2>2. TodoAgrees' BY <1>2, InitCallsRest DEF TodoAgrees, BeginPassWithInit
  <2>3. Len(todo') = 11 BY <1>2, InitCallsInOrder DEF BeginPassWithInit
  <2>4. SetUpProgress(dev', 11) BY DEF SetUpProgress
  <2>5. CleanAgrees' BY <1>2, <2>3, <2>4 DEF CleanAgrees, BeginPassWithInit
  <2> QED BY <2>1, <2>2, <2>5 DEF IInv
<1>3. CASE BeginPass
  <2>0. 0 \in Rows BY DEF Rows
  <2>1. StateOK'
    BY <1>1, <1>3, <2>0, BoundsAssumption DEF IInv, StateOK, BeginPass, Never
  <2>2. todo' \in Seq(RowCalls) BY <1>1, <1>3, <2>0, CallsAgree DEF BeginPass
  <2>3. TodoAgrees' BY <1>3, <2>0, <2>2 DEF TodoAgrees, BeginPass
  <2>4. CleanAgrees' BY <1>3, <2>0 DEF IInv, CleanAgrees, BeginPass
  <2> QED BY <2>1, <2>3, <2>4 DEF IInv
<1> QED BY <1>2, <1>3

LEMMA ReturnKeepsIInv == ASSUME IInv, Return PROVE IInv'
<1> USE RoutinesApart DEF IInv
<1>1. /\ dev' = dev /\ opened' = opened /\ linked' = linked /\ want' = want
      /\ age' = age /\ faults' = faults /\ clean' = clean
      /\ routine # Idle /\ todo = <<>>
      /\ routine' = After(routine) /\ todo' = Calls(After(routine))
      /\ bl' = (bl \/ After(routine) = BacklightOn)
  BY DEF Return
<1>2. routine' \in {Idle, BacklightOn} \cup Rows
  BY <1>1 DEF StateOK, After, Routines, Idle, SetUp, BacklightOn, Rows
<1>3. StateOK' BY <1>1, <1>2 DEF StateOK
<1>4. TodoAgrees'
  <2>1. CASE routine' = Idle BY <1>1, <2>1 DEF TodoAgrees, Calls
  <2>2. CASE routine' = BacklightOn
    <3>1. todo' = <<Expander(0)>> BY <1>1, <2>2 DEF Calls, BacklightCalls
    <3>2. todo' \in Seq({Expander(0)}) BY <3>1
    <3> QED BY <2>2, <3>2 DEF TodoAgrees
  <2>3. CASE routine' \in Rows
    <3>1. todo' = PutsNewlineCalls(routine', want[routine']) BY <1>1, <2>3 DEF Calls
    <3>2. todo' \in Seq(RowCalls) BY <2>3, <3>1, CallsAgree DEF StateOK
    <3> QED BY <2>3, <3>2 DEF TodoAgrees
  <2> QED BY <1>2, <2>1, <2>2, <2>3
<1>5. clean => Ready(dev)
  <2>1. CASE routine = SetUp
    <3>1. Len(todo) = 0 BY <1>1
    <3>2. clean => SetUpProgress(dev, 0) BY <2>1, <3>1 DEF CleanAgrees
    <3> QED BY <3>2 DEF SetUpProgress, Ready
  <2>2. CASE routine # SetUp BY <2>2 DEF CleanAgrees
  <2> QED BY <2>1, <2>2
<1>6. CleanAgrees' BY <1>1, <1>2, <1>5 DEF CleanAgrees
<1> QED BY <1>3, <1>4, <1>6

\* Only init() sets the slave address.
LEMMA SetUpOnly ==
  ASSUME StateOK, TodoAgrees, todo # <<>>, Head(todo) = SetSlaveId
  PROVE routine = SetUp
<1>1. routine # BacklightOn
  <2> SUFFICES ASSUME routine = BacklightOn PROVE FALSE OBVIOUS
  <2>1. Head(todo) \in {Expander(0)} BY DEF TodoAgrees
  <2> QED BY <2>1 DEF SetSlaveId, Expander
<1>2. routine \notin Rows
  <2> SUFFICES ASSUME routine \in Rows PROVE FALSE OBVIOUS
  <2>1. Head(todo) \in RowCalls BY DEF TodoAgrees
  <2>2. \A c \in RowCalls : c.call = "command" \/ c.call = "putchar"
    BY DEF RowCalls, Command, PutChar
  <2>3. SetSlaveId.call = "setSlaveId" BY DEF SetSlaveId
  <2> QED BY <2>1, <2>2, <2>3
<1>3. routine # Idle BY DEF TodoAgrees
<1>4. routine \in {Idle, SetUp, BacklightOn} \cup Rows BY DEF StateOK, Routines
<1> QED BY <1>1, <1>2, <1>3, <1>4

\* setSlaveId() is the first call of init().
LEMMA LinkIsFirst ==
  ASSUME StateOK, TodoAgrees, LinkSlave
  PROVE Len(todo) = 11 /\ Len(todo') = 10
<1>1. RestOfInit(todo) /\ todo # <<>> BY SetUpOnly DEF LinkSlave, TodoAgrees
<1>2. \A i \in 2..11 : InitCalls[i] # SetSlaveId
  BY DEF InitCalls, SetSlaveId, Expander, Nibble, Command
<1> DEFINE n == Len(todo)
<1>3. n \in 1..11 /\ SetSlaveId = InitCalls[12 - n] /\ Len(todo') = n - 1
  BY <1>1, RestOfInitTail DEF LinkSlave
<1> HIDE DEF n
<1>4. n # 11 => 12 - n \in 2..11 BY <1>3
<1>5. n = 11 BY <1>2, <1>3, <1>4
<1> QED BY <1>3, <1>5 DEF n

LEMMA SlaveKeepsIInv == ASSUME IInv, LinkSlave \/ FailSlave PROVE IInv'
<1> USE RoutinesApart DEF IInv
<1>1. routine = SetUp /\ RestOfInit(todo) /\ todo # <<>>
  BY SetUpOnly DEF LinkSlave, FailSlave, TodoAgrees
<1>2. CASE LinkSlave
  <2>1. StateOK' BY <1>2 DEF StateOK, LinkSlave
  <2>2. RestOfInit(Tail(todo)) /\ Len(Tail(todo)) = Len(todo) - 1 /\ Len(todo) \in 1..11
        /\ Head(todo) = InitCalls[12 - Len(todo)]
    BY <1>1, RestOfInitTail
  <2>3. TodoAgrees' BY <1>1, <1>2, <2>2 DEF TodoAgrees, LinkSlave
  <2>4. Len(todo) = 11 /\ Len(todo') = 10 BY <1>2, LinkIsFirst
  <2>5. SetUpProgress(dev, 10) BY DEF SetUpProgress
  <2>7. CleanAgrees' BY <1>1, <1>2, <2>4, <2>5 DEF CleanAgrees, LinkSlave
  <2> QED BY <2>1, <2>3, <2>7
<1>3. CASE FailSlave
  <2>1. faults' \in 0..MaxFaults BY <1>3, BoundsAssumption DEF StateOK, FailSlave
  <2>2. StateOK' BY <1>3, <2>1 DEF StateOK, FailSlave
  <2>3. TodoAgrees' BY <1>1, <1>3, InitCallsRest DEF TodoAgrees, FailSlave
  <2>4. CleanAgrees' BY <1>3 DEF CleanAgrees, FailSlave
  <2> QED BY <2>2, <2>3, <2>4
<1> QED BY <1>2, <1>3

LEMMA FaultKeepsIInv == ASSUME IInv, PowerLoss \/ Restart PROVE IInv'
<1> USE RoutinesApart DEF IInv
<1>1. faults' \in 0..MaxFaults BY BoundsAssumption DEF StateOK, PowerLoss, Restart
<1>2. CASE PowerLoss
  <2>1. StateOK' BY <1>1, <1>2, PowerOnDevice DEF StateOK, PowerLoss, driverVars
  <2>2. TodoAgrees' BY <1>2 DEF TodoAgrees, PowerLoss, driverVars
  <2> QED BY <1>2, <2>1, <2>2 DEF CleanAgrees, PowerLoss
<1>3. CASE Restart
  <2>1. StateOK'
    <3>1. age' \in Never .. ReinitPasses
      BY <1>3, BoundsAssumption DEF Restart, StartProcess, Never
    <3>2. want' \in [Rows -> Seq(Bytes)]
      BY <1>3, BlankScreenTyped DEF Restart, StartProcess
    <3>3. /\ opened' \in BOOLEAN /\ linked' \in BOOLEAN
          /\ bl' \in BOOLEAN /\ clean' \in BOOLEAN
      BY <1>3 DEF Restart, StartProcess
    <3>4. routine' \in Routines BY <1>3 DEF Restart, StartProcess
    <3>5. dev' \in Devices BY <1>3 DEF Restart, StateOK
    <3> QED BY <1>1, <3>1, <3>2, <3>3, <3>4, <3>5 DEF StateOK
  <2>2. TodoAgrees' BY <1>3 DEF TodoAgrees, Restart, StartProcess
  <2> QED BY <1>3, <2>1, <2>2 DEF CleanAgrees, Restart
<1> QED BY <1>2, <1>3

LEMMA CallKeepsIInv == ASSUME IInv, Call PROVE IInv'
<1> USE RoutinesApart DEF IInv
<1> DEFINE c == Head(todo)
<1>1. PICK r \in Perform(c, dev, linked, bl) :
        dev' = r.dev /\ Charge(r.ok) /\ clean' = (clean /\ r.ok)
  BY DEF Call
<1>2. /\ todo # <<>> /\ c # SetSlaveId /\ todo' = Tail(todo)
      /\ opened' = opened /\ linked' = linked /\ bl' = bl /\ routine' = routine
      /\ want' = want /\ age' = age
  BY DEF Call
<1>3. routine \in {Idle, SetUp, BacklightOn} \cup Rows BY DEF StateOK, Routines
<1>4. dev \in Devices /\ linked \in BOOLEAN /\ bl \in BOOLEAN BY DEF StateOK
<1>5. TodoAgrees'
  <2>1. CASE routine = SetUp
    <3>1. RestOfInit(Tail(todo)) BY <1>2, <2>1, RestOfInitTail DEF TodoAgrees
    <3> QED BY <1>2, <2>1, <3>1 DEF TodoAgrees
  <2>2. CASE routine = BacklightOn
    <3>1. Tail(todo) \in Seq({Expander(0)}) BY <1>2, <2>2 DEF TodoAgrees
    <3> QED BY <1>2, <2>2, <3>1 DEF TodoAgrees
  <2>3. CASE routine \in Rows
    <3>1. Tail(todo) \in Seq(RowCalls) BY <1>2, <2>3 DEF TodoAgrees
    <3> QED BY <1>2, <2>3, <3>1 DEF TodoAgrees
  <2>4. routine # Idle BY <1>2 DEF TodoAgrees
  <2> QED BY <1>3, <2>1, <2>2, <2>3, <2>4
<1>6. /\ c \in RowCalls \cup BareCalls \cup SetUpCommands
      /\ routine # SetUp => c \in RowCalls \cup {Expander(0)}
  <2>1. CASE routine = SetUp
    <3>1. c \in SetUpCalls BY <1>2, <2>1, RestOfInitTail DEF TodoAgrees
    <3> QED BY <1>2, <2>1, <3>1 DEF SetUpCalls
  <2>2. CASE routine = BacklightOn
    <3>1. c \in {Expander(0)} BY <1>2, <2>2 DEF TodoAgrees
    <3> QED BY <3>1 DEF BareCalls
  <2>3. CASE routine \in Rows
    <3>1. c \in RowCalls BY <1>2, <2>3 DEF TodoAgrees
    <3> QED BY <2>3, <3>1
  <2>4. routine # Idle BY <1>2 DEF TodoAgrees
  <2> QED BY <1>3, <2>1, <2>2, <2>3, <2>4
<1> HIDE DEF c
<1>7. r \in Results BY <1>4, <1>6, PerformResults
<1>8. r.dev \in Devices /\ r.ok \in BOOLEAN BY <1>7 DEF Results
<1>9. StateOK'
  <2>1. faults' \in 0..MaxFaults BY <1>1, BoundsAssumption DEF StateOK, Charge
  <2>2. clean' \in BOOLEAN BY <1>1, <1>8 DEF StateOK
  <2> QED BY <1>1, <1>2, <1>8, <2>1, <2>2 DEF StateOK
<1>10. ASSUME clean, r.ok
       PROVE IF routine = SetUp THEN SetUpProgress(r.dev, Len(Tail(todo)))
                                ELSE Ready(r.dev)
  <2>1. CASE routine = SetUp
    <3> DEFINE n == Len(todo)
    <3>1. RestOfInit(todo) BY <2>1 DEF TodoAgrees
    <3>2. n \in 1..10 /\ c = InitCalls[12 - n] /\ Len(Tail(todo)) = n - 1
      BY <1>2, <3>1, RestOfInitTail DEF c
    <3>3. SetUpProgress(dev, n) BY <1>10, <2>1 DEF CleanAgrees
    <3> HIDE DEF n
    <3>4. r \in Perform(InitCalls[12 - n], dev, linked, bl) BY <3>2
    <3>5. SetUpProgress(r.dev, n - 1)
      BY <1>4, <1>10, <3>2, <3>3, <3>4, CleanCallAdvances
    <3> QED BY <2>1, <3>2, <3>5
  <2>2. CASE routine # SetUp
    <3>1. Ready(dev) BY <1>10, <2>2 DEF CleanAgrees
    <3> QED BY <1>4, <1>6, <1>10, <2>2, <3>1, DrawingKeepsReady
  <2> QED BY <2>1, <2>2
<1>11. CleanAgrees'
  <2>1. clean' => clean /\ r.ok BY <1>1
  <2> QED BY <1>1, <1>2, <1>10, <2>1 DEF CleanAgrees
<1> QED BY <1>5, <1>9, <1>11

LEMMA NextKeepsIInv == IInv /\ [Next]_vars => IInv'
<1> SUFFICES ASSUME IInv, [Next]_vars PROVE IInv' OBVIOUS
<1>1. CASE UNCHANGED vars
  BY <1>1 DEF vars, driverVars, IInv, StateOK, TodoAgrees, CleanAgrees
<1>2. CASE BeginPassWithInit \/ BeginPass BY <1>2, BeginPassKeepsIInv
<1>3. CASE Return BY <1>3, ReturnKeepsIInv
<1>4. CASE LinkSlave \/ FailSlave BY <1>4, SlaveKeepsIInv
<1>5. CASE Call BY <1>5, CallKeepsIInv
<1>6. CASE PowerLoss \/ Restart BY <1>6, FaultKeepsIInv
<1> QED BY <1>1, <1>2, <1>3, <1>4, <1>5, <1>6 DEF Next, Work

-----------------------------------------------------------------------------
\* Where the rows lie.
LEMMA RowAddresses ==
  \A y \in Rows : \/ y = 0 /\ RowAddress(y) = 0
                  \/ y = 1 /\ RowAddress(y) = 64
                  \/ y = 2 /\ RowAddress(y) = 20
                  \/ y = 3 /\ RowAddress(y) = 84
<1> SUFFICES ASSUME NEW y \in Rows
             PROVE \/ y = 0 /\ RowAddress(y) = 0
                   \/ y = 1 /\ RowAddress(y) = 64
                   \/ y = 2 /\ RowAddress(y) = 20
                   \/ y = 3 /\ RowAddress(y) = 84
  OBVIOUS
<1>1. y = 0 \/ y = 1 \/ y = 2 \/ y = 3 BY DEF Rows
<1>2. CASE y = 0 BY <1>2 DEF RowAddress
<1>3. CASE y = 1 BY <1>3 DEF RowAddress
<1>4. CASE y = 2 BY <1>4 DEF RowAddress
<1>5. CASE y = 3 BY <1>5 DEF RowAddress
<1> QED BY <1>1, <1>2, <1>3, <1>4, <1>5

\* They lie apart, in the display's memory.
LEMMA RowsApart ==
  ASSUME NEW y \in Rows, NEW i \in 1..Cols
  PROVE /\ RowAddress(y) + i - 1 \in Cells /\ RowAddress(y) + i - 1 \in 0..103
        /\ \A z \in Rows, j \in 1..Cols :
             RowAddress(z) + j - 1 = RowAddress(y) + i - 1 => z = y /\ j = i
<1>1. Cols \in 1..20 BY ColsAssumption
<1>2. RowAddress(y) + (i - 1) \in Cells
  <2>1. i - 1 \in 0 .. Cols - 1 BY <1>1
  <2> QED BY <2>1, CellsAssumption
<1>3. RowAddress(y) \in 0..84 BY RowAddresses
<1>4. RowAddress(y) + (i - 1) = RowAddress(y) + i - 1 BY <1>1, <1>3
<1>5. RowAddress(y) + i - 1 \in 0..103 BY <1>1, <1>3
<1>6. ASSUME NEW z \in Rows, NEW j \in 1..Cols,
             RowAddress(z) + j - 1 = RowAddress(y) + i - 1
      PROVE z = y /\ j = i
  BY <1>1, <1>6, RowAddresses
<1> QED BY <1>2, <1>4, <1>5, <1>6

\* Within a row the display's counter goes on by one.
LEMMA AdvanceInRow ==
  ASSUME NEW d \in Devices, d.inc, d.two, ~d.cg, NEW y \in Rows, NEW i \in 1 .. Cols - 1,
         d.ac = RowAddress(y) + i - 1
  PROVE Advance(d) = RowAddress(y) + i
<1>1. Cols \in 1..20 BY ColsAssumption
<1>2. d.ac \in 0..102 /\ d.ac # 39 BY <1>1, RowAddresses
<1>3. Advance(d) = (d.ac + 1) % 128 BY <1>2 DEF Advance
<1>4. (d.ac + 1) % 128 = d.ac + 1 BY <1>2
<1>5. d.ac + 1 = RowAddress(y) + i BY <1>1, RowAddresses
<1> QED BY <1>3, <1>4, <1>5

\* Displays with the same characters show the same rows.
LEMMA SameRows ==
  ASSUME NEW d, NEW e, e.ram = d.ram
  PROVE \A y : Row(e, y) = Row(d, y)
BY DEF Row

\* e is d with v put into column i of row y.
PutIn(d, e, y, i, v) == e.ram = [d.ram EXCEPT ![RowAddress(y) + i - 1] = v]

\* A character changes its own place in its own row and no other.
LEMMA CharacterInRow ==
  ASSUME NEW d \in Devices, NEW e, NEW y \in Rows, NEW i \in 1..Cols, NEW v,
         PutIn(d, e, y, i, v)
  PROVE /\ Row(e, y)[i] = v
        /\ \A j \in 1..Cols : j # i => Row(e, y)[j] = Row(d, y)[j]
        /\ \A z \in Rows : z # y => Row(e, z) = Row(d, z)
<1> DEFINE a == RowAddress(y) + i - 1
<1>1. a \in Cells /\ d.ram \in [Cells -> Bytes] BY RowsApart DEF Devices
<1>2. e.ram = [d.ram EXCEPT ![a] = v] BY DEF PutIn
<1>a. \A z \in Rows, j \in 1..Cols : RowAddress(z) + j - 1 = a => z = y /\ j = i
  BY RowsApart
<1>b. Row(e, y)[i] = e.ram[a] BY DEF Row
<1> HIDE DEF a
<1>3. ASSUME NEW z \in Rows, NEW j \in 1..Cols, z # y \/ j # i
      PROVE Row(e, z)[j] = Row(d, z)[j]
  <2> DEFINE b == RowAddress(z) + j - 1
  <2>1. b \in Cells BY RowsApart
  <2>2. b # a BY <1>3, <1>a
  <2>3. Row(e, z)[j] = e.ram[b] /\ Row(d, z)[j] = d.ram[b] BY DEF Row
  <2> HIDE DEF b
  <2>4. e.ram[b] = d.ram[b] BY <1>1, <1>2, <2>1, <2>2
  <2> QED BY <2>3, <2>4
<1>4. Row(e, y)[i] = v BY <1>1, <1>2, <1>b
<1>5. ASSUME NEW z \in Rows, z # y
      PROVE Row(e, z) = Row(d, z)
  <2>1. \A j \in 1..Cols : Row(e, z)[j] = Row(d, z)[j] BY <1>3, <1>5
  <2>2. \A j \in 1..Cols : e.ram[RowAddress(z) + j - 1] = d.ram[RowAddress(z) + j - 1]
    BY <2>1 DEF Row
  <2> QED BY <2>2 DEF Row
<1> QED BY <1>3, <1>4, <1>5

\* A character for an addressed cell is put there, and the counter moves on.
LEMMA WriteDataCell ==
  ASSUME NEW d \in Devices, NEW v, ~d.cg, d.ac \in Cells
  PROVE LET e == WriteData(d, v)
        IN e.ram = [d.ram EXCEPT ![d.ac] = v] /\ e.ac = Advance(d) /\ ~e.cg
<1> DEFINE e == WriteData(d, v)
           m == [d.ram EXCEPT ![d.ac] = v]
<1>1. e = [d EXCEPT !.ram = m, !.ac = Advance(d), !.moved = d.moved \/ d.slide]
  BY DEF WriteData
<1> HIDE DEF e, m
<1>2. e.ram = m /\ e.ac = Advance(d) /\ ~e.cg BY <1>1 DEF Devices
<1> QED BY <1>2 DEF e, m

\* The device of the driver's calls that a row makes, and of backlight().
LEMMA GotoPoints ==
  ASSUME NEW d \in Devices, NEW link \in BOOLEAN, NEW light \in BOOLEAN, NEW y \in Rows,
         NEW r \in Perform(Command(128 + RowAddress(y)), d, link, light), r.ok, InStep(d)
  PROVE r.dev.ram = d.ram /\ ~r.dev.cg /\ r.dev.ac = RowAddress(y)
<1> DEFINE v == 128 + RowAddress(y)
<1>1. RowAddress(y) \in 0..84 BY RowAddresses
<1>2. v \in Bytes /\ v >= 128 /\ v - 128 = RowAddress(y) BY <1>1 DEF Bytes
<1>3. PICK rs \in BOOLEAN : rs = FALSE OBVIOUS
<1>4. r \in Send(d, link, light, v, rs) BY <1>3 DEF Perform, Command
<1> HIDE DEF v
<1>5. PICK e \in Devices : Repointed(d, e) /\ r.dev = Execute(e, v, rs)
  BY <1>2, <1>4, SendExecutes
<1>6. r.dev = [e EXCEPT !.ac = v - 128, !.cg = FALSE]
  BY <1>2, <1>3, <1>5 DEF Execute, Instruction
<1>7. r.dev.ram = e.ram /\ r.dev.cg = FALSE /\ r.dev.ac = v - 128 BY <1>6 DEF Devices
<1> QED BY <1>2, <1>5, <1>7 DEF Repointed

LEMMA PutCharDraws ==
  ASSUME NEW d \in Devices, NEW link \in BOOLEAN, NEW light \in BOOLEAN, NEW v \in Bytes,
         NEW r \in Perform(PutChar(v), d, link, light), r.ok, Ready(d),
         NEW y \in Rows, NEW i \in 1..Cols, ~d.cg, d.ac = RowAddress(y) + i - 1
  PROVE /\ PutIn(d, r.dev, y, i, v)
        /\ ~r.dev.cg
        /\ i < Cols => r.dev.ac = RowAddress(y) + i
<1>1. PICK rs \in BOOLEAN : rs = TRUE OBVIOUS
<1>2. r \in Send(d, link, light, v, rs) BY <1>1 DEF Perform, PutChar
<1>3. InStep(d) BY DEF Ready
<1>4. PICK e \in Devices : Repointed(d, e) /\ r.dev = Execute(e, v, rs)
  BY <1>2, <1>3, SendExecutes
<1>5. r.dev = WriteData(e, v) BY <1>1, <1>4 DEF Execute
<1>6. /\ e.ac = RowAddress(y) + i - 1 /\ ~e.cg /\ e.ram = d.ram /\ e.inc /\ e.two
  BY <1>4 DEF Repointed, SameMode, Ready
<1>7. e.ac \in Cells BY <1>6, RowsApart
<1>8. r.dev.ram = [e.ram EXCEPT ![e.ac] = v] /\ r.dev.ac = Advance(e) /\ ~r.dev.cg
  BY <1>5, <1>6, <1>7, WriteDataCell
<1>9. ASSUME i < Cols PROVE r.dev.ac = RowAddress(y) + i
  <2>1. i \in 1 .. Cols - 1 BY <1>9, ColsAssumption
  <2>2. Advance(e) = RowAddress(y) + i BY <1>6, <2>1, AdvanceInRow
  <2> QED BY <1>8, <2>2
<1>10. PutIn(d, r.dev, y, i, v) BY <1>6, <1>8 DEF PutIn
<1> QED BY <1>8, <1>9, <1>10

LEMMA ExpanderLeavesRows ==
  ASSUME NEW d \in Devices, NEW link \in BOOLEAN, NEW light \in BOOLEAN,
         NEW r \in Perform(Expander(0), d, link, light), r.ok, InStep(d)
  PROVE r.dev.ram = d.ram
<1> DEFINE p == Port(0, FALSE, FALSE, light)
<1>1. r \in ExpanderWrite(d, link, light, 0, FALSE, FALSE) BY DEF Perform, Expander
<1>2. 0 \in Nibbles /\ FALSE \in BOOLEAN BY DEF Nibbles
<1>3. r.dev \in SetPort(d, p) BY <1>1, <1>2, ExpanderWriteResults
<1>4. p \in Ports BY DEF Port, Ports, Nibbles
<1> HIDE DEF p
<1>5. r.dev = [d EXCEPT !.port = p] BY <1>3, <1>4, SetPortDevices DEF InStep
<1> QED BY <1>5 DEF Devices

\* Of init() the clear blanks the rows, and what follows it leaves them so.
LEMMA ClearBlanks ==
  ASSUME NEW d \in Devices, NEW link \in BOOLEAN, NEW light \in BOOLEAN,
         NEW v \in {1, 6, 2},
         NEW r \in Perform(Command(v), d, link, light), r.ok, InStep(d),
         v = 1 \/ \A y \in Rows : Row(d, y) = BlankScreen[y]
  PROVE \A y \in Rows : Row(r.dev, y) = BlankScreen[y]
<1>1. v \in Bytes BY DEF Bytes
<1>2. PICK rs \in BOOLEAN : rs = FALSE OBVIOUS
<1>3. r \in Send(d, link, light, v, rs) BY <1>2 DEF Perform, Command
<1>4. PICK e \in Devices : Repointed(d, e) /\ r.dev = Execute(e, v, rs)
  BY <1>1, <1>3, SendExecutes
<1>5. r.dev = Instruction(e, v) BY <1>2, <1>4 DEF Execute
<1>6. e.ram = d.ram BY <1>4 DEF Repointed
<1>7. CASE v = 1
  <2>1. r.dev = [e EXCEPT !.ac = 0, !.cg = FALSE, !.moved = FALSE, !.inc = TRUE,
                          !.ram = [c \in Cells |-> Blank]]
    BY <1>5, <1>7 DEF Instruction
  <2>2. r.dev.ram = [c \in Cells |-> Blank] BY <2>1 DEF Devices
  <2>3. ASSUME NEW y \in Rows PROVE Row(r.dev, y) = BlankScreen[y]
    <3>1. \A i \in 1..Cols : r.dev.ram[RowAddress(y) + i - 1] = Blank
      BY <2>2, RowsApart
    <3>2. Row(r.dev, y) = [i \in 1..Cols |-> Blank] BY <3>1 DEF Row
    <3>3. BlankScreen[y] = [i \in 1..Cols |-> Blank]
      <4>1. Len(<<>>) = 0 OBVIOUS
      <4>2. \A i \in 1..Cols : ~(i <= 0) BY ColsAssumption
      <4> QED BY <4>1, <4>2 DEF BlankScreen, Padded
    <3> QED BY <3>2, <3>3
  <2> QED BY <2>3
<1>8. CASE v \in {6, 2}
  <2>1. r.dev.ram = e.ram
    <3>1. CASE v = 6
      <4>1. r.dev = [e EXCEPT !.inc = Bit(6, 2), !.slide = Bit(6, 1)]
        BY <1>5, <3>1 DEF Instruction
      <4> QED BY <4>1 DEF Devices
    <3>2. CASE v = 2
      <4>1. r.dev = [e EXCEPT !.ac = 0, !.cg = FALSE, !.moved = FALSE]
        BY <1>5, <3>2 DEF Instruction
      <4> QED BY <4>1 DEF Devices
    <3> QED BY <1>8, <3>1, <3>2
  <2>2. \A y : Row(r.dev, y) = Row(d, y) BY <1>6, <2>1 DEF Row
  <2>3. v # 1 BY <1>8
  <2> QED BY <2>2, <2>3
<1> QED BY <1>7, <1>8

\* A row's calls one by one: gotoxy() and its characters.
LEMMA PutsNewlineInOrder ==
  ASSUME NEW y \in Rows, NEW text \in Seq(Bytes)
  PROVE /\ Len(PutsNewlineCalls(y, text)) = Cols + 1
        /\ PutsNewlineCalls(y, text)[1] = Command(128 + RowAddress(y))
        /\ \A i \in 1..Cols : /\ Padded(text)[i] \in Bytes
                              /\ PutsNewlineCalls(y, text)[i + 1] = PutChar(Padded(text)[i])
<1> DEFINE goto == <<Command(128 + RowAddress(y))>>
           puts == [i \in 1..Cols |-> PutChar(Padded(text)[i])]
           S == {Command(128 + RowAddress(y))} \cup {PutChar(Padded(text)[i]) : i \in 1..Cols}
<1>1. Cols \in Nat /\ Cols \in 1..20 BY ColsAssumption
<1>2. puts \in Seq(S) /\ Len(puts) = Cols
  <2>1. puts \in [1..Cols -> S] OBVIOUS
  <2> HIDE DEF puts, S
  <2> QED BY <1>1, <2>1
<1>3. goto \in Seq(S) /\ Len(goto) = 1 /\ goto[1] = Command(128 + RowAddress(y)) OBVIOUS
<1>4. PutsNewlineCalls(y, text) = goto \o puts BY DEF PutsNewlineCalls
<1>5. \A i \in 1..Cols : puts[i] = PutChar(Padded(text)[i]) OBVIOUS
<1>6. \A i \in 1..Cols : Padded(text)[i] \in Bytes
  <2>1. Blank \in Bytes BY BlankAssumption DEF Bytes
  <2>2. Len(text) \in Nat BY LenProperties
  <2>3. \A i \in 1..Cols : i <= Len(text) => text[i] \in Bytes
    BY <2>2, ElementOfSeq, <1>1
  <2> QED BY <2>1, <2>3 DEF Padded
<1> HIDE DEF goto, puts, S
<1> DEFINE all == goto \o puts
<1>a. /\ Len(all) = Len(goto) + Len(puts)
      /\ \A i \in 1 .. Len(goto) + Len(puts) :
           all[i] = IF i <= Len(goto) THEN goto[i] ELSE puts[i - Len(goto)]
  BY <1>2, <1>3, ConcatProperties
<1> HIDE DEF all
<1>7. Len(all) = Cols + 1 /\ all[1] = goto[1] BY <1>1, <1>2, <1>3, <1>a
<1>8. ASSUME NEW i \in 1..Cols PROVE all[i + 1] = puts[i]
  <2>1. i + 1 \in 1 .. 1 + Cols /\ i + 1 > 1 /\ (i + 1) - 1 = i BY <1>1
  <2>2. all[i + 1] = puts[(i + 1) - 1] BY <1>1, <1>2, <1>3, <1>a, <2>1
  <2> QED BY <2>1, <2>2
<1> QED BY <1>3, <1>4, <1>5, <1>6, <1>7, <1>8 DEF all

\* What is left of puts_newline(y, text).
RestOfRow(t, y, text) ==
  /\ t \in Seq(RowCalls) /\ Len(t) \in 0 .. Cols + 1
  /\ \A i \in 1..Len(t) : t[i] = PutsNewlineCalls(y, text)[Cols + 1 - Len(t) + i]

LEMMA RowCallsRest ==
  ASSUME NEW y \in Rows, NEW text \in Seq(Bytes)
  PROVE RestOfRow(PutsNewlineCalls(y, text), y, text)
<1> DEFINE t == PutsNewlineCalls(y, text)
<1>1. t \in Seq(RowCalls) BY RowCallsSeq
<1>2. Len(t) = Cols + 1 BY PutsNewlineInOrder
<1> HIDE DEF t
<1>3. Cols \in 1..20 BY ColsAssumption
<1>4. \A i \in 1..Len(t) : Cols + 1 - Len(t) + i = i BY <1>2, <1>3
<1>5. Len(t) \in 0 .. Cols + 1 BY <1>2, <1>3
<1>6. \A i \in 1..Len(t) : t[i] = t[Cols + 1 - Len(t) + i] BY <1>4
<1> QED BY <1>1, <1>5, <1>6 DEF RestOfRow, t

\* Its first call is gotoxy(), or the character of the column it has come to.
LEMMA RestOfRowTail ==
  ASSUME NEW y \in Rows, NEW text \in Seq(Bytes), NEW t, RestOfRow(t, y, text), t # <<>>
  PROVE /\ RestOfRow(Tail(t), y, text)
        /\ Len(t) \in 1 .. Cols + 1 /\ Len(Tail(t)) = Len(t) - 1
        /\ Len(t) = Cols + 1 => Head(t) = Command(128 + RowAddress(y))
        /\ Len(t) # Cols + 1 => Head(t) = PutChar(Padded(text)[Cols + 1 - Len(t)])
<1> DEFINE n == Len(t)
           calls == PutsNewlineCalls(y, text)
           u == Tail(t)
<1>1. Cols \in 1..20 BY ColsAssumption
<1>2. t \in Seq(RowCalls) /\ n \in 0 .. Cols + 1
      /\ \A i \in 1..n : t[i] = calls[Cols + 1 - n + i]
  BY DEF RestOfRow
<1>3. n # 0 BY <1>2, EmptySeq
<1>4. Head(t) = t[1] BY <1>2
<1>5. u \in Seq(RowCalls) /\ Len(u) = n - 1 /\ \A i \in 1 .. n - 1 : u[i] = t[i + 1]
  BY <1>2
<1>6. calls[1] = Command(128 + RowAddress(y))
      /\ \A i \in 1..Cols : calls[i + 1] = PutChar(Padded(text)[i])
  BY PutsNewlineInOrder
<1> HIDE DEF n, calls, u
<1>7. n \in 1 .. Cols + 1 BY <1>1, <1>2, <1>3
<1>8. \A i \in 1 .. n - 1 : u[i] = calls[Cols + 1 - (n - 1) + i]
  <2> SUFFICES ASSUME NEW i \in 1 .. n - 1 PROVE u[i] = calls[Cols + 1 - (n - 1) + i]
    OBVIOUS
  <2>1. i + 1 \in 1..n /\ Cols + 1 - n + (i + 1) = Cols + 1 - (n - 1) + i BY <1>1, <1>7
  <2>2. u[i] = t[i + 1] BY <1>5
  <2>3. t[i + 1] = calls[Cols + 1 - n + (i + 1)] BY <1>2, <2>1
  <2> QED BY <2>1, <2>2, <2>3
<1>9. n - 1 \in 0 .. Cols + 1 BY <1>1, <1>7
<1>10. RestOfRow(u, y, text) BY <1>5, <1>8, <1>9 DEF RestOfRow, calls
<1>11. Head(t) = calls[Cols + 1 - n + 1] BY <1>2, <1>4, <1>7
<1>12. CASE n = Cols + 1
  <2>1. Cols + 1 - n + 1 = 1 BY <1>1, <1>12
  <2> QED BY <1>5, <1>6, <1>7, <1>10, <1>11, <1>12, <2>1 DEF n, u
<1>13. CASE n # Cols + 1
  <2>1. Cols + 1 - n \in 1..Cols /\ (Cols + 1 - n) + 1 = Cols + 1 - n + 1 BY <1>1, <1>7, <1>13
  <2>2. Head(t) = PutChar(Padded(text)[Cols + 1 - n]) BY <1>6, <1>11, <2>1
  <2> QED BY <1>5, <1>7, <1>10, <1>13, <2>2 DEF n, u
<1> QED BY <1>12, <1>13

-----------------------------------------------------------------------------
\* A row with n calls to go: the counter stands at the next column, and the
\* columns before it show the text.
RowUnderWay(d, y, text, n) ==
  n <= Cols => /\ ~d.cg
               /\ n > 0 => d.ac = RowAddress(y) + (Cols - n)
               /\ \A i \in 1 .. Cols - n : Row(d, y)[i] = Padded(text)[i]

\* What a clean pass has brought to the display: blank rows once init() has
\* cleared them, and then the rows of the screen, but for the one being written.
TextsAgree ==
  /\ screen \in [Rows -> Seq(Bytes)]
  /\ clean =>
       /\ routine = SetUp /\ Len(todo) <= 2 =>
            \A y \in Rows : Row(dev, y) = BlankScreen[y]
       /\ routine # SetUp => \A y \in Rows \ {routine} : Row(dev, y) = screen[y]
       /\ routine \in Rows => /\ RestOfRow(todo, routine, want[routine])
                              /\ RowUnderWay(dev, routine, want[routine], Len(todo))

\* The next call of a row keeps to its row and brings it one column further.
LEMMA RowCallDraws ==
  ASSUME NEW d \in Devices, NEW link \in BOOLEAN, NEW light \in BOOLEAN,
         NEW y \in Rows, NEW text \in Seq(Bytes), NEW t, RestOfRow(t, y, text), t # <<>>,
         RowUnderWay(d, y, text, Len(t)), Ready(d),
         NEW r \in Perform(Head(t), d, link, light), r.ok
  PROVE /\ RowUnderWay(r.dev, y, text, Len(Tail(t)))
        /\ \A z \in Rows : z # y => Row(r.dev, z) = Row(d, z)
<1> DEFINE n == Len(t)
<1>1. Cols \in 1..20 BY ColsAssumption
<1>2. /\ n \in 1 .. Cols + 1 /\ Len(Tail(t)) = n - 1
      /\ n = Cols + 1 => Head(t) = Command(128 + RowAddress(y))
      /\ n # Cols + 1 => Head(t) = PutChar(Padded(text)[Cols + 1 - n])
  BY RestOfRowTail
<1>3. RowUnderWay(d, y, text, n) OBVIOUS
<1> HIDE DEF n
<1>4. CASE n = Cols + 1
  <2>1. InStep(d) BY DEF Ready
  <2>2. r.dev.ram = d.ram /\ ~r.dev.cg /\ r.dev.ac = RowAddress(y)
    BY <1>2, <1>4, <2>1, GotoPoints
  <2>3. n - 1 = Cols /\ 1 .. Cols - Cols = {} BY <1>1, <1>4
  <2>4. RowAddress(y) = RowAddress(y) + (Cols - Cols) BY <1>1, RowAddresses
  <2>5. RowUnderWay(r.dev, y, text, Cols) BY <2>2, <2>3, <2>4 DEF RowUnderWay
  <2>6. \A z \in Rows : Row(r.dev, z) = Row(d, z) BY <2>2, SameRows
  <2> QED BY <1>2, <2>3, <2>5, <2>6
<1>5. CASE n # Cols + 1
  <2> DEFINE i == Cols + 1 - n
             v == Padded(text)[i]
  <2>1. /\ i \in 1..Cols /\ n <= Cols /\ n > 0 /\ Cols - n = i - 1
        /\ Cols - (n - 1) = i /\ (n - 1 > 0 => i < Cols)
    BY <1>1, <1>2, <1>5
  <2>2. v \in Bytes BY <2>1, PutsNewlineInOrder
  <2>3. /\ ~d.cg /\ d.ac = RowAddress(y) + (Cols - n)
        /\ \A j \in 1 .. Cols - n : Row(d, y)[j] = Padded(text)[j]
    BY <1>3, <2>1 DEF RowUnderWay
  <2>4. r \in Perform(PutChar(v), d, link, light) BY <1>2, <1>5
  <2> HIDE DEF i, v
  <2>5. d.ac = RowAddress(y) + i - 1
    <3>1. RowAddress(y) + (i - 1) = RowAddress(y) + i - 1 BY <2>1, RowAddresses
    <3> QED BY <2>1, <2>3, <3>1
  <2>6. /\ PutIn(d, r.dev, y, i, v) /\ ~r.dev.cg
        /\ i < Cols => r.dev.ac = RowAddress(y) + i
    BY <2>1, <2>2, <2>3, <2>4, <2>5, PutCharDraws
  <2>7. /\ Row(r.dev, y)[i] = v
        /\ \A j \in 1..Cols : j # i => Row(r.dev, y)[j] = Row(d, y)[j]
        /\ \A z \in Rows : z # y => Row(r.dev, z) = Row(d, z)
    BY <2>1, <2>6, CharacterInRow
  <2>8. \A j \in 1..i : Row(r.dev, y)[j] = Padded(text)[j]
    <3> SUFFICES ASSUME NEW j \in 1..i PROVE Row(r.dev, y)[j] = Padded(text)[j]
      OBVIOUS
    <3>1. CASE j = i BY <2>7, <3>1 DEF v
    <3>2. CASE j # i
      <4>1. j \in 1 .. i - 1 /\ j \in 1..Cols BY <1>1, <2>1, <3>2
      <4> QED BY <2>1, <2>3, <2>7, <3>2, <4>1
    <3> QED BY <3>1, <3>2
  <2>9. RowUnderWay(r.dev, y, text, n - 1) BY <2>1, <2>6, <2>8 DEF RowUnderWay
  <2> QED BY <1>2, <2>7, <2>9
<1> QED BY <1>4, <1>5

LEMMA PaddedTyped == \A text \in Seq(Bytes) : Padded(text) \in Seq(Bytes)
<1>1. 0 \in Rows BY DEF Rows
<1> QED BY <1>1, RowCallsSeq

\* A row all of whose calls are made shows its text.
LEMMA RowWritten ==
  ASSUME NEW d, NEW y \in Rows, NEW text, RowUnderWay(d, y, text, 0)
  PROVE Row(d, y) = Padded(text)
<1>1. Cols \in 1..20 /\ Cols - 0 = Cols BY ColsAssumption
<1>2. \A i \in 1..Cols : Row(d, y)[i] = Padded(text)[i] BY <1>1 DEF RowUnderWay
<1>3. \A i \in 1..Cols : Row(d, y)[i] = d.ram[RowAddress(y) + i - 1] BY DEF Row
<1>4. Padded(text) = [i \in 1..Cols |-> Padded(text)[i]] BY DEF Padded
<1> QED BY <1>2, <1>3, <1>4 DEF Row

\* A row that is about to be written.
LEMMA RowBegins ==
  ASSUME NEW d, NEW y \in Rows, NEW text \in Seq(Bytes)
  PROVE RowUnderWay(d, y, text, Len(PutsNewlineCalls(y, text)))
<1>1. Len(PutsNewlineCalls(y, text)) = Cols + 1 BY PutsNewlineInOrder
<1>2. ~(Cols + 1 <= Cols) BY ColsAssumption
<1> QED BY <1>1, <1>2 DEF RowUnderWay

LEMMA InitEstablishesTexts == Init => TextsAgree
<1> SUFFICES ASSUME Init PROVE TextsAgree OBVIOUS
<1>1. screen \in [Rows -> Seq(Bytes)] BY BlankScreenTyped DEF Init
<1> QED BY <1>1 DEF Init, TextsAgree

LEMMA BeginPassKeepsTexts ==
  ASSUME IInv, TextsAgree, BeginPassWithInit \/ BeginPass
  PROVE TextsAgree'
<1> USE RoutinesApart
<1>1. CASE BeginPassWithInit
  <2>1. Len(todo') = 11 BY <1>1, InitCallsInOrder DEF BeginPassWithInit
  <2>2. ~(Len(todo') <= 2) BY <2>1
  <2> QED BY <1>1, <2>2 DEF TextsAgree, BeginPassWithInit
<1>2. CASE BeginPass
  <2>1. 0 \in Rows BY DEF Rows
  <2>2. want' \in [Rows -> Seq(Bytes)] BY <1>2, WantsAssumption DEF BeginPass, Bytes
  <2>3. /\ routine = Idle /\ routine' = 0 /\ todo' = PutsNewlineCalls(0, want'[0])
        /\ dev' = dev /\ screen' = screen /\ clean' = clean
    BY <1>2 DEF BeginPass
  <2>4. want'[0] \in Seq(Bytes) BY <2>1, <2>2
  <2> DEFINE text == want'[0]
  <2> HIDE DEF text
  <2>5. RestOfRow(PutsNewlineCalls(0, text), 0, text)
        /\ RowUnderWay(dev, 0, text, Len(PutsNewlineCalls(0, text)))
    BY <2>1, <2>4, RowCallsRest, RowBegins DEF text
  <2>6. RestOfRow(todo', routine', want'[routine'])
        /\ RowUnderWay(dev', routine', want'[routine'], Len(todo'))
    BY <2>3, <2>5 DEF text
  <2>7. clean => \A y \in Rows : Row(dev, y) = screen[y] BY <2>3 DEF TextsAgree
  <2> QED BY <2>1, <2>3, <2>6, <2>7 DEF TextsAgree
<1> QED BY <1>1, <1>2

\* A routine that has made its calls has brought its part to the display.
LEMMA ReturnKeepsTexts == ASSUME IInv, TextsAgree, Return PROVE TextsAgree'
<1> USE RoutinesApart
<1>1. /\ dev' = dev /\ want' = want /\ clean' = clean
      /\ routine # Idle /\ todo = <<>>
      /\ routine' = After(routine) /\ todo' = Calls(After(routine))
      /\ screen' = CASE routine = SetUp -> BlankScreen
                     [] routine \in Rows -> [screen EXCEPT ![routine] = Padded(want[routine])]
                     [] OTHER -> screen
  BY DEF Return
<1>2. routine' \in {Idle, BacklightOn} \cup Rows /\ routine \in {SetUp, BacklightOn} \cup Rows
  BY <1>1 DEF IInv, StateOK, After, Routines, Idle, SetUp, BacklightOn, Rows
<1>3. want \in [Rows -> Seq(Bytes)] /\ screen \in [Rows -> Seq(Bytes)]
  BY DEF IInv, StateOK, TextsAgree
<1>4. Len(todo) = 0 BY <1>1
<1>5. screen' \in [Rows -> Seq(Bytes)] /\ (clean => \A y \in Rows : Row(dev, y) = screen'[y])
  <2>1. CASE routine = SetUp
    <3>1. screen' = BlankScreen BY <1>1, <2>1
    <3>2. clean => \A y \in Rows : Row(dev, y) = BlankScreen[y]
      BY <1>4, <2>1 DEF TextsAgree
    <3> QED BY <3>1, <3>2, BlankScreenTyped
  <2>2. CASE routine = BacklightOn
    <3>1. screen' = screen BY <1>1, <2>2
    <3> QED BY <1>3, <2>2, <3>1 DEF TextsAgree
  <2>3. CASE routine \in Rows
    <3> DEFINE p == Padded(want[routine])
    <3>1. screen' = [screen EXCEPT ![routine] = p] BY <1>1, <2>3
    <3>2. p \in Seq(Bytes) BY <1>3, <2>3, PaddedTyped
    <3>3. clean => Row(dev, routine) = p
      <4> SUFFICES ASSUME clean PROVE Row(dev, routine) = p OBVIOUS
      <4>1. RowUnderWay(dev, routine, want[routine], 0) BY <1>4, <2>3 DEF TextsAgree
      <4> QED BY <2>3, <4>1, RowWritten
    <3>4. clean => \A y \in Rows \ {routine} : Row(dev, y) = screen[y]
      BY <2>3 DEF TextsAgree
    <3> HIDE DEF p
    <3> QED BY <1>3, <2>3, <3>1, <3>2, <3>3, <3>4
  <2> QED BY <1>2, <2>1, <2>2, <2>3
<1>6. ASSUME routine' \in Rows
      PROVE RestOfRow(todo', routine', want'[routine'])
            /\ RowUnderWay(dev', routine', want'[routine'], Len(todo'))
  <2> DEFINE z == routine'
             text == want[z]
  <2>1. text \in Seq(Bytes) BY <1>3, <1>6
  <2>2. todo' = PutsNewlineCalls(z, text) BY <1>1, <1>6 DEF Calls
  <2>3. z \in Rows /\ want' = want /\ dev' = dev BY <1>1, <1>6
  <2> HIDE DEF z, text
  <2>4. RestOfRow(PutsNewlineCalls(z, text), z, text)
        /\ RowUnderWay(dev, z, text, Len(PutsNewlineCalls(z, text)))
    BY <2>1, <2>3, RowCallsRest, RowBegins
  <2> QED BY <2>2, <2>3, <2>4 DEF z, text
<1> QED BY <1>1, <1>2, <1>5, <1>6 DEF TextsAgree

LEMMA SlaveKeepsTexts ==
  ASSUME IInv, TextsAgree, LinkSlave \/ FailSlave
  PROVE TextsAgree'
<1> USE RoutinesApart
<1>1. CASE LinkSlave
  <2>1. routine = SetUp /\ Len(todo') = 10
    BY <1>1, LinkIsFirst, SetUpOnly DEF LinkSlave, IInv
  <2>2. ~(Len(todo') <= 2) BY <2>1
  <2> QED BY <1>1, <2>1, <2>2 DEF TextsAgree, LinkSlave
<1>2. CASE FailSlave BY <1>2 DEF TextsAgree, FailSlave
<1> QED BY <1>1, <1>2

LEMMA FaultKeepsTexts == ASSUME TextsAgree, PowerLoss \/ Restart PROVE TextsAgree'
BY DEF TextsAgree, PowerLoss, Restart

\* The calls of init() that are left when the display is cleared.
LEMMA LastOfInit ==
  /\ InitCalls[12 - 3] = Command(1) /\ InitCalls[12 - 2] = Command(6)
  /\ InitCalls[12 - 1] = Command(2)
BY InitCallsInOrder

LEMMA CallKeepsTexts == ASSUME IInv, TextsAgree, Call PROVE TextsAgree'
<1> USE RoutinesApart
<1> DEFINE c == Head(todo)
<1>1. PICK r \in Perform(c, dev, linked, bl) : dev' = r.dev /\ clean' = (clean /\ r.ok)
  BY DEF Call
<1>2. /\ todo # <<>> /\ c # SetSlaveId /\ todo' = Tail(todo)
      /\ routine' = routine /\ want' = want /\ screen' = screen
  BY DEF Call
<1>3. routine \in {Idle, SetUp, BacklightOn} \cup Rows BY DEF IInv, StateOK, Routines
<1>4. dev \in Devices /\ linked \in BOOLEAN /\ bl \in BOOLEAN BY DEF IInv, StateOK
<1>5. want \in [Rows -> Seq(Bytes)] BY DEF IInv, StateOK
<1> SUFFICES ASSUME clean, r.ok PROVE TextsAgree'
  <2>1. ASSUME ~(clean /\ r.ok) PROVE TextsAgree' BY <1>1, <1>2, <2>1 DEF TextsAgree
  <2> QED BY <2>1
<1>6. CASE routine = SetUp
  <2> DEFINE n == Len(todo)
  <2>1. RestOfInit(todo) BY <1>6 DEF IInv, TodoAgrees
  <2>2. n \in 1..10 /\ c = InitCalls[12 - n] /\ Len(Tail(todo)) = n - 1
    BY <1>2, <2>1, RestOfInitTail
  <2>3. SetUpProgress(dev, n) BY <1>6 DEF IInv, CleanAgrees
  <2>4. n <= 2 => \A y \in Rows : Row(dev, y) = BlankScreen[y] BY <1>6 DEF TextsAgree
  <2> HIDE DEF n, c
  <2>5. ASSUME n - 1 <= 2 PROVE \A y \in Rows : Row(r.dev, y) = BlankScreen[y]
    <3>1. InStep(dev) BY <2>2, <2>3, <2>5 DEF SetUpProgress
    <3>2. n = 3 \/ n = 2 \/ n = 1 BY <2>2, <2>5
    <3>3. PICK v \in {1, 6, 2} : c = Command(v) /\ (n = 3 => v = 1)
      BY <2>2, <3>2, LastOfInit
    <3>4. v = 1 \/ \A y \in Rows : Row(dev, y) = BlankScreen[y]
      BY <2>4, <3>2, <3>3
    <3> QED BY <1>4, <3>1, <3>3, <3>4, ClearBlanks
  <2> QED BY <1>1, <1>2, <1>6, <2>2, <2>5 DEF TextsAgree
<1>7. CASE routine = BacklightOn
  <2>1. c = Expander(0) BY <1>2, <1>7 DEF IInv, TodoAgrees
  <2>2. InStep(dev) BY <1>7 DEF IInv, CleanAgrees, Ready
  <2>3. r \in Perform(Expander(0), dev, linked, bl) BY <2>1
  <2>4. r.dev.ram = dev.ram BY <1>4, <2>2, <2>3, ExpanderLeavesRows
  <2>5. \A y \in Rows : Row(r.dev, y) = Row(dev, y) BY <2>4, SameRows
  <2> QED BY <1>1, <1>2, <1>7, <2>5 DEF TextsAgree
<1>8. CASE routine \in Rows
  <2> DEFINE y == routine
             text == want[routine]
  <2>1. RestOfRow(todo, y, text) /\ RowUnderWay(dev, y, text, Len(todo))
    BY <1>8 DEF TextsAgree
  <2>2. Ready(dev) BY <1>8 DEF IInv, CleanAgrees
  <2>3. y \in Rows /\ text \in Seq(Bytes) BY <1>5, <1>8
  <2>4. \A z \in Rows \ {y} : Row(dev, z) = screen[z] BY <1>8 DEF TextsAgree
  <2> HIDE DEF y, text
  <2>5. /\ RowUnderWay(r.dev, y, text, Len(Tail(todo)))
        /\ \A z \in Rows : z # y => Row(r.dev, z) = Row(dev, z)
    BY <1>2, <1>4, <2>1, <2>2, <2>3, RowCallDraws
  <2>6. RestOfRow(Tail(todo), y, text) BY <1>2, <2>1, <2>3, RestOfRowTail
  <2>7. RestOfRow(todo', routine', want'[routine'])
        /\ RowUnderWay(dev', routine', want'[routine'], Len(todo'))
    BY <1>1, <1>2, <2>5, <2>6 DEF y, text
  <2>8. \A z \in Rows \ {routine'} : Row(dev', z) = screen'[z]
    BY <1>1, <1>2, <2>4, <2>5 DEF y
  <2> QED BY <1>2, <1>8, <2>7, <2>8 DEF TextsAgree
<1>9. routine # Idle BY <1>2 DEF IInv, TodoAgrees
<1> QED BY <1>3, <1>6, <1>7, <1>8, <1>9

LEMMA NextKeepsTexts == IInv /\ TextsAgree /\ [Next]_vars => TextsAgree'
<1> SUFFICES ASSUME IInv, TextsAgree, [Next]_vars PROVE TextsAgree' OBVIOUS
<1>1. CASE UNCHANGED vars BY <1>1 DEF vars, driverVars, TextsAgree
<1>2. CASE BeginPassWithInit \/ BeginPass BY <1>2, BeginPassKeepsTexts
<1>3. CASE Return BY <1>3, ReturnKeepsTexts
<1>4. CASE LinkSlave \/ FailSlave BY <1>4, SlaveKeepsTexts
<1>5. CASE Call BY <1>5, CallKeepsTexts
<1>6. CASE PowerLoss \/ Restart BY <1>6, FaultKeepsTexts
<1> QED BY <1>1, <1>2, <1>3, <1>4, <1>5, <1>6 DEF Next, Work

-----------------------------------------------------------------------------
\* Driver and display run in the inductive invariant for ever, faults included.
THEOREM IInvHolds == Spec => []IInv
BY InitEstablishesIInv, NextKeepsIInv, PTL DEF Spec

\* The state keeps its types: display, driver and pass are as Display says.
THEOREM TypeCorrect == Spec => []TypeOK
<1>1. IInv => TypeOK
  BY DEF IInv, StateOK, TypeOK, Devices, Nibbles, Bytes
<1> QED BY <1>1, IInvHolds, PTL

\* An init() whose transfers succeed brings driver and display back in step,
\* in whatever half of a byte and in whichever mode the faults before it left
\* the display, for displays of any width and however the data lines that are
\* not wired read; and drawing keeps them in step until the next fault.
THEOREM InitRecoversHolds == Spec => []InitRecovers
<1>1. IInv => InitRecovers BY DEF IInv, CleanAgrees, InitRecovers
<1> QED BY <1>1, IInvHolds, PTL

\* While no transfer fails, every row but the one being written shows its text:
\* each goto reaches the row's first cell, each character the next one, and no
\* row runs over into another, for displays of up to twenty columns and texts of
\* any length.
THEOREM RowsShowTextHolds == Spec => []RowsShowText
<1>1. TextsAgree => RowsShowText
  BY DEF TextsAgree, RowsShowText
<1>2. Spec => []TextsAgree
  BY InitEstablishesTexts, NextKeepsTexts, IInvHolds, PTL DEF Spec
<1> QED BY <1>1, <1>2, PTL
=============================================================================
