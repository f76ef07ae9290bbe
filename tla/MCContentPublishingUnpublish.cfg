SPECIFICATION FairSpec
CONSTANTS
  Entries = {1}
  Clients = {c1}
  Schedulers = {s1}
  MaxTime = 2
  Overrides = FALSE
PROPERTY UnpublishHappens
CHECK_DEADLOCK FALSE
