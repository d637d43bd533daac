------------------------------- MODULE I2CLCD -------------------------------
(***************************************************************************)
(* The display driver (src/I2CLCD.cpp over src/JsEmbeddedUtils/            *)
(* I2CDevice.cpp) as operators on the device.  Every transfer on the bus   *)
(* can fail, with or without having reached the device, so an operation    *)
(* yields a set of results [dev, ok]: the device afterwards and whether    *)
(* the operation returned 1.  A routine such as init() or puts_newline()   *)
(* is the sequence of calls it makes; it ignores what they return.         *)
(***************************************************************************)
EXTENDS HD44780

CONSTANTS Cols    \* m_numOfcols: the columns of the display

ASSUME ColsAssumption == Cols \in 1..20

Rows == 0..3

\* gotoxy(): the address of the first cell of a row.
RowAddress(y) == <<0, 64, 20, 84>>[y + 1]

\* The display has a cell at each place the driver puts a character.
ASSUME CellsAssumption == \A y \in Rows, x \in 0 .. Cols - 1 : RowAddress(y) + x \in Cells

Result(devs, ok) == {[dev |-> d, ok |-> ok] : d \in devs}

\* Goes on with the operation Next(_) where the one before returned 1.
Then(results, Next(_)) ==
  {r \in results : ~r.ok} \cup UNION {Next(r.dev) : r \in {s \in results : s.ok}}

\* expanderWrite(value) -> trasnfer(): one byte to the expander, with the
\* backlight bit.  linked: the bus is open and the slave address is set;
\* otherwise the ioctl fails and nothing reaches the display.
ExpanderWrite(d, linked, bl, nib, rs, en) ==
  LET reached == SetPort(d, Port(nib, rs, en, bl))
  IN IF linked THEN Result(reached, TRUE) \cup Result(reached \cup {d}, FALSE)
               ELSE Result({d}, FALSE)

\* write4bits() and pulseEnable(): the nibble, then En high, then En low, each
\* only if the one before succeeded.
Write4bits(d, linked, bl, nib, rs) ==
  LET Write(e, en) == ExpanderWrite(e, linked, bl, nib, rs, en)
  IN Then(Then(Write(d, FALSE), LAMBDA e : Write(e, TRUE)), LAMBDA e : Write(e, FALSE))

\* send(): the high nibble and, if that succeeded, the low one.
Send(d, linked, bl, v, rs) ==
  Then(Write4bits(d, linked, bl, v \div 16, rs),
       LAMBDA e : Write4bits(e, linked, bl, v % 16, rs))

-----------------------------------------------------------------------------
\* The calls a routine makes.
SetSlaveId == [call |-> "setSlaveId", v |-> 0]
Expander(nib) == [call |-> "expanderWrite", v |-> nib]
Nibble(nib) == [call |-> "write4bits", v |-> nib]
Command(v) == [call |-> "command", v |-> v]
PutChar(c) == [call |-> "putchar", v |-> c]

\* What a call other than setSlaveId does to the device.
Perform(c, d, linked, bl) ==
  CASE c.call = "expanderWrite" -> ExpanderWrite(d, linked, bl, c.v, FALSE, FALSE)
    [] c.call = "write4bits" -> Write4bits(d, linked, bl, c.v, FALSE)
    [] c.call = "command" -> Send(d, linked, bl, c.v, FALSE)
    [] c.call = "putchar" -> Send(d, linked, bl, c.v, TRUE)

\* Mutant: the 8-bit function set is sent once instead of three times.
InitCallsOnce ==
  <<SetSlaveId, Expander(0), Nibble(3), Nibble(2),
    Command(40), Command(12), Command(1), Command(6), Command(2)>>

\* init(0x27, cols, 4, 0): function set 0x28 (4 bits, two lines), display
\* control 0x0c, clear 0x01, entry mode 0x06, home 0x02.
InitCalls ==
  <<SetSlaveId, Expander(0), Nibble(3), Nibble(3), Nibble(3), Nibble(2),
    Command(40), Command(12), Command(1), Command(6), Command(2)>>

\* backlight(true): m_backlightval is set before the call, see Display.
BacklightCalls == <<Expander(0)>>

\* The row puts_newline() aims at: the text cut or filled up to the columns.
Padded(text) ==
  [i \in 1..Cols |-> IF i <= Len(text) THEN text[i] ELSE Blank]

\* Mutant: i <= m_numOfcols
PutsNewlineCallsOneMore(y, text) ==
  <<Command(128 + RowAddress(y))>> \o
  [i \in 1 .. Cols + 1 |-> PutChar(IF i <= Cols THEN Padded(text)[i] ELSE Blank)]

\* puts_newline(y, text): gotoxy(y, 0), then exactly m_numOfcols characters.
PutsNewlineCalls(y, text) ==
  <<Command(128 + RowAddress(y))>> \o [i \in 1..Cols |-> PutChar(Padded(text)[i])]

\* What the display shows in row y.
Row(d, y) == [i \in 1..Cols |-> d.ram[RowAddress(y) + i - 1]]
=============================================================================
