\* Two rounds of polls that may overlap.
CONSTANTS
  o1 = o1
  o2 = o2
  d1 = d1
  d2 = d2
  u1 = u1
  u2 = u2
  r1 = r1
  r2 = r2
  NoDevice = NoDevice
  Olt = {o1, o2}
  Device = {d1, d2}
  Onu = {u1, u2}
  Round = {r1, r2}
  Start <- OneOlt
  Home <- AtFirst
  MaxPoll = 2
  MaxChange = 2
SPECIFICATION FairSpec
INVARIANTS TypeOK OrphansHaveCause
PROPERTIES OneRowPerOnu RowsGoForward SettledIsShown StatusSettles
