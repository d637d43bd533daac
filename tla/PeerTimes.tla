------------------------------ MODULE PeerTimes ------------------------------
(***************************************************************************)
(* The "when" column of a peer (src/ntpqmod.c:325-380): how long ago the   *)
(* peer's last packet came, from seconds counters that wrap around, and    *)
(* the rounded text made of an interval.                                   *)
(* The program runs on a 32-bit ARM: u_int32 and long are words of one     *)
(* width, and the difference of two counters is read as a signed word.     *)
(*                                                                         *)
(* Around the operators the clock goes on from the peer's last packet, so  *)
(* that what they show can be compared with the time that has passed.      *)
(* When the next packet comes it all starts anew.                          *)
(***************************************************************************)
EXTENDS Integers

CONSTANTS Half,     \* half the number of values of a word: 2^31 in the code
          Start,    \* what the seconds counter may show at first
          Gaps      \* the intervals since the last packet to look at; below 0
                    \* when the clock has been set back

ASSUME HalfAssumption == Half \in Nat \ {0, 1}
ASSUME StartAssumption == Start \subseteq 0 .. 2 * Half - 1
ASSUME GapsAssumption == Gaps \subseteq -Half .. Half - 1

VARIABLES
  now,      \* ts->l_ui: the seconds of the system clock
  rec,      \* rec->l_ui: the counter when the last packet came; 0 for never
  reftime,  \* reftime->l_ui
  elapsed   \* the clock's seconds from the last packet to now

timesVars == <<now, rec, reftime, elapsed>>

Word == 2 * Half
Words == 0 .. Word - 1

\* Mutants: a counter of more than 32 bits, and a long of more than 32 bits.
UnsignedWider(x) == x
SignedWider(x) == x

\* x, less than a word out of range, as an unsigned word, and such a word as a
\* signed one.
Unsigned(x) == IF x < 0 THEN x + Word ELSE IF x >= Word THEN x - Word ELSE x
Signed(x) == IF x >= Half THEN x - Word ELSE x

\* Mutant: a clock behind the packet's counter is taken for no time at all.
WhenClamped(ts, r, ref) == LET last == IF r # 0 THEN r ELSE ref
                           IN IF last = 0 \/ ts < last THEN 0 ELSE Signed(ts - last)

\* when(): the last packet's time, or else the peer's own last update's.
When(ts, r, ref) == IF r # 0 THEN Signed(Unsigned(ts - r))
                    ELSE IF ref # 0 THEN Signed(Unsigned(ts - ref))
                    ELSE 0

-----------------------------------------------------------------------------
Dash == [n |-> 0, unit |-> 0]

\* prettyinterval(): seconds, minutes, hours or days, each rounded from the one
\* before.  unit is the length of the unit in seconds.  diff + 29 must not
\* overflow.
Chosen(diff, minutes, hours, days) ==
  CASE diff <= 0 -> Dash
    [] diff > 0 /\ diff <= 2048 -> [n |-> diff, unit |-> 1]
    [] diff > 2048 /\ minutes <= 300 -> [n |-> minutes, unit |-> 60]
    [] diff > 2048 /\ minutes > 300 /\ hours <= 96 -> [n |-> hours, unit |-> 3600]
    [] OTHER -> [n |-> days, unit |-> 86400]

\* Mutant: the hours are made of the seconds.
PrettyHours(diff) ==
  LET minutes == (diff + 29) \div 60
      hours == (diff + 29) \div 60
      days == (hours + 11) \div 24
  IN Chosen(diff, minutes, hours, days)

Pretty(diff) ==
  LET minutes == (diff + 29) \div 60
      hours == (minutes + 29) \div 60
      days == (hours + 11) \div 24
  IN Chosen(diff, minutes, hours, days)

TimesInit == /\ now \in Start
             /\ rec \in {0, now}
             /\ reftime \in {0, now}
             /\ elapsed = 0

\* The clock goes on, or is set.
Clock == \E gap \in Gaps : /\ elapsed' = gap
                          /\ now' = Unsigned(now + (gap - elapsed))
                          /\ UNCHANGED <<rec, reftime>>

TimesSpec == TimesInit /\ [][Clock]_timesVars

-----------------------------------------------------------------------------
TimesTypeOK == now \in Words /\ rec \in Words /\ reftime \in Words
               /\ elapsed \in -Half .. Half - 1

Shown == Pretty(When(now, rec, reftime))

\* The difference of the two counters is the time since the last packet, also
\* when the counter has wrapped around in between and when the clock was set
\* back behind the packet.  (A packet in the second in which the counter is 0
\* counts as none.)
WhenIsElapsed == rec # 0 => When(now, rec, reftime) = elapsed

\* The text is off by at most half of its unit, plus what rounding to the
\* smaller units has added.
Slack(unit) == CASE unit = 1 -> 0
                 [] unit = 60 -> 30
                 [] unit = 3600 -> 1800 + 30
                 [] unit = 86400 -> 43200 + 1800 + 30

Within(x, bound) == x <= bound /\ -x <= bound

ShownIsClose ==
  rec # 0 /\ elapsed \in 1 .. Half - 30 =>
    Within(Shown.n * Shown.unit - elapsed, Slack(Shown.unit))

\* As time goes by without a packet the text never goes back: not to a smaller
\* unit, and not to a smaller number of the same unit.
NotBefore(a, b) == a.unit < b.unit \/ (a.unit = b.unit /\ a.n <= b.n)

ShownGrows ==
  [][rec # 0 /\ 0 < elapsed /\ elapsed < elapsed' /\ elapsed' <= Half - 30
       => NotBefore(Shown, Shown')]_timesVars
=============================================================================
