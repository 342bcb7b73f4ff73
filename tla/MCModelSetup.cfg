SPECIFICATION FairSpec
CONSTANTS
  Setups = {p1, p2, p3}
  Servers = {server}
  short = short
  long = long
  Urls = {short, long}
  Size <- MCSize
  Sized = {long}
  Installed = installed
  None = none
CHECK_DEADLOCK FALSE
INVARIANTS
  InstalledIsWhole
  LoadedIsWhole
PROPERTY SetupsHeal
