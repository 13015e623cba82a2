\* Reloads, commands of two handlers, one new version at the centre, and one fault:
\* a response that is late, lost or not saved.
SPECIFICATION FairSpec
CONSTANTS
  a = a
  w = w
  s = s
  h1 = h1
  h2 = h2
  Names = {a, w, s}
  Reloadable = {a, w}
  Versions = {0, 1, 2}
  Refused = {2}
  Notifying = a
  Server = s
  Blank = Blank
  Torn = Torn
  Handlers = {h1, h2}
  Commands <- SetCommands
  Synced = {a}
  Last = 1
  MaxLate = 1
INVARIANTS
  ChecksumOfCurrent
  OneWaits
PROPERTIES
  StableUntilSwitch
  PublishedBecomesCurrent
\* The process may end.
CHECK_DEADLOCK FALSE
