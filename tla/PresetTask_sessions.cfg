\* Two devices, one with two overlapping sessions; operators add rows too; one restart.
CONSTANTS
  d1 = d1
  d2 = d2
  s1 = s1
  s2 = s2
  s3 = s3
  b1 = b1
  b2 = b2
  p1 = p1
  p2 = p2
  NoBatch = NoBatch
  NoPreset = NoPreset
  PresetId = {p1, p2}
  Device = {d1, d2}
  Session = {s1, s2, s3}
  Serves <- TwoDevices
  Batch = {b1}
  Contents <- GuardedContents
  Commands = {"Execute", "Wifi", "Reboot"}
  Window = 0
  MaxOrder = 1
  MaxRow = 2
  MaxClock = 0
  MaxCrash = 1
SPECIFICATION FairSpec
INVARIANTS SentOncePerSession StartInOrder
PROPERTIES IsTaskBoard PendingIsServed ReportSettles
CHECK_DEADLOCK FALSE
