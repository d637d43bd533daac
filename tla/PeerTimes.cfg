SPECIFICATION TimesSpec
CONSTANTS
  Half <- MCHalf
  Start <- MCStart
  Gaps <- MCGaps
INVARIANTS TimesTypeOK WhenIsElapsed ShownIsClose
PROPERTY ShownGrows
