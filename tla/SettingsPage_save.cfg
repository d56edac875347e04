\* One administrator, a setting on one tab and two on the other, an Inform that pushes.
CONSTANTS
  title = title
  user = user
  pass = pass
  system = system
  tr069 = tr069
  Key = {title, user, pass}
  Tab = {system, tr069}
  TabOf <- Tabs
  Tr069 = tr069
  OfVendor = {pass}
  First = system
  MaxEdit = 2
  MaxEvent = 1
SPECIFICATION FairSpec
INVARIANTS TypeOK EditIsKept DeviceIsCurrent BlankIsAwaited
PROPERTIES SaveIsNotReverted FormIsShown
