------------------------------- MODULE HD44780 -------------------------------
(***************************************************************************)
(* The display the driver talks to: an HD44780 character controller behind *)
(* a PCF8574 I2C port expander.  Neither is in the repository; this is     *)
(* what src/I2CLCD.cpp takes them to be, from the commands it sends, the   *)
(* pins it drives (Rs, En, the upper four data lines) and its waits.       *)
(*                                                                         *)
(* A device is a record:                                                   *)
(*   port  what the expander's pins carry: nib, rs, en, bl                 *)
(*   wide  TRUE in 8-bit mode, where every nibble is a whole instruction   *)
(*   hi    in 4-bit mode, the first nibble of a byte still waiting for its *)
(*         second one, or NoNibble                                         *)
(*   ac    the address counter;  cg: it points into the glyph memory       *)
(*   inc   the counter moves up after a write;  slide: the picture shifts  *)
(*         on writes;  moved: the picture may have been shifted            *)
(*   on    the display is switched on;  two: it is in two-line mode        *)
(*   ram   the characters of the visible cells                             *)
(***************************************************************************)
EXTENDS Integers, Sequences

CONSTANTS Cells,     \* the addresses of the visible cells
          Blank,     \* the character code of a space
          Floating   \* what the four lower data lines, which are not wired,
                     \* may read as in 8-bit mode

ASSUME FloatingAssumption == Floating \subseteq 0..15 /\ Floating # {}
ASSUME BlankAssumption == Blank \in 0..255

NoNibble == -1

Port(nib, rs, en, bl) == [nib |-> nib, rs |-> rs, en |-> en, bl |-> bl]

\* The expander powers up with every pin high, the controller in 8-bit mode.
PowerOn == [port |-> Port(15, TRUE, TRUE, TRUE), wide |-> TRUE, hi |-> NoNibble,
            ac |-> 0, cg |-> FALSE, inc |-> TRUE, slide |-> FALSE,
            moved |-> FALSE, on |-> FALSE, two |-> FALSE,
            ram |-> [c \in Cells |-> Blank]]

Bit(v, weight) == (v \div weight) % 2 = 1

\* The address after a, in the direction of the entry mode.  In two-line mode
\* the two halves 0..39 and 64..103 follow each other.
Advance(d) ==
  LET last == IF d.cg THEN 63 ELSE IF d.two THEN 103 ELSE 79
      up == CASE d.ac = last -> 0
              [] ~d.cg /\ d.two /\ d.ac = 39 -> 64
              [] OTHER -> (d.ac + 1) % 128
      down == CASE d.ac = 0 -> last
                [] ~d.cg /\ d.two /\ d.ac = 64 -> 39
                [] OTHER -> d.ac - 1
  IN IF d.inc THEN up ELSE down

\* A byte received with rs high is a character for the addressed cell.
WriteData(d, v) ==
  [d EXCEPT !.ram = IF ~d.cg /\ d.ac \in Cells THEN [@ EXCEPT ![d.ac] = v] ELSE @,
            !.ac = Advance(d),
            !.moved = @ \/ d.slide]

\* A byte received with rs low is the instruction its highest set bit names.
Instruction(d, v) ==
  CASE v >= 128 -> [d EXCEPT !.ac = v - 128, !.cg = FALSE]
    [] v \in 64..127 -> [d EXCEPT !.ac = v - 64, !.cg = TRUE]
    [] v \in 32..63 -> [d EXCEPT !.wide = Bit(v, 16), !.two = Bit(v, 8)]
    [] v \in 16..31 -> IF Bit(v, 8) THEN [d EXCEPT !.moved = TRUE]
                       ELSE [d EXCEPT !.ac = Advance([d EXCEPT !.inc = Bit(v, 4)])]
    [] v \in 8..15 -> [d EXCEPT !.on = Bit(v, 4)]
    [] v \in 4..7 -> [d EXCEPT !.inc = Bit(v, 2), !.slide = Bit(v, 1)]
    [] v \in 2..3 -> [d EXCEPT !.ac = 0, !.cg = FALSE, !.moved = FALSE]
    [] v = 1 -> [d EXCEPT !.ac = 0, !.cg = FALSE, !.moved = FALSE, !.inc = TRUE,
                          !.ram = [c \in Cells |-> Blank]]
    [] v = 0 -> d

Execute(d, v, rs) == IF rs THEN WriteData(d, v) ELSE Instruction(d, v)

\* The falling edge of En takes in a nibble.
TakeNibble(d, nib, rs) ==
  CASE d.wide -> {Execute(d, nib * 16 + low, rs) : low \in Floating}
    [] ~d.wide /\ d.hi = NoNibble -> {[d EXCEPT !.hi = nib]}
    [] OTHER -> {Execute([d EXCEPT !.hi = NoNibble], d.hi * 16 + nib, rs)}

\* The devices that may result when the expander is set to p.  When the other
\* pins change together with the falling edge, either value may be taken in.
SetPort(d, p) ==
  LET e == [d EXCEPT !.port = p]
  IN IF d.port.en /\ ~p.en
       THEN TakeNibble(e, d.port.nib, d.port.rs) \cup TakeNibble(e, p.nib, p.rs)
       ELSE {e}

\* Between two bytes: in 4-bit mode, no half-received byte, En low.
InStep(d) == ~d.wide /\ d.hi = NoNibble /\ ~d.port.en

\* Set up for drawing: as InStep, and what is written shows where it is put.
Ready(d) == InStep(d) /\ d.two /\ d.on /\ d.inc /\ ~d.slide /\ ~d.moved
=============================================================================
