SPECIFICATION Spec
CONSTANTS
  CommandLines <- MCCommandLines
  GroupFiles <- MCGroupFiles
  Known = {"root", "pi", "jsntpd"}
  Starters = {"root", "pi"}
  Root = "root"
  NoValue = "none"
  MaxGroups = 2
  MaxStarts = 2
INVARIANTS TypeOK IdentityIsWhole PidFileIsCurrent
CHECK_DEADLOCK FALSE
