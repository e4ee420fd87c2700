SPECIFICATION Spec
CONSTANTS
  Groups = {g1}
  Scans = {s1}
  Redis = FALSE
  MaxMessages = 3
  OldMessages = 1
  PageSize = 1
  MaxPages = 3
  Rare = {"select", "rescrape", "scan", "message", "fault"}
  RareBound = 3
  Repeats = 1
CHECK_DEADLOCK FALSE
INVARIANTS TypeOK OnlyChosenGroups OnePage CoversTheDay
PROPERTIES HandlersEnd SecondPassReads
