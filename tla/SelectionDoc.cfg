SPECIFICATION Spec
CONSTANTS
  Groups = {g1}
  Scans = {s1}
  Redis = FALSE
  MaxMessages = 1
  OldMessages = 0
  PageSize = 1
  MaxPages = 1
  Rare = {"select", "rescrape"}
  RareBound = 2
  Repeats = 1
PROPERTY SelectionTakesEffect
CHECK_DEADLOCK FALSE
