\* Finding: the other tasks of a failed batch are sent.
CONSTANTS
  d1 = d1
  d2 = d2
  s1 = s1
  s2 = s2
  s3 = s3
  b1 = b1
  b2 = b2
  p1 = p1
  p2 = p2
  NoBatch = NoBatch
  NoPreset = NoPreset
  PresetId = {p1, p2}
  Device = {d1}
  Session = {s1}
  Serves <- OneSession
  Batch = {b1}
  Contents <- GuardedContents
  Commands = {"Event"}
  Window = 0
  MaxOrder = 1
  MaxRow = 3
  MaxClock = 0
  MaxCrash = 0
SPECIFICATION Spec
PROPERTIES FailedBatchStaysStopped
CHECK_DEADLOCK FALSE
