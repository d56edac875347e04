\* Both commands set the same part; a preset makes the CPE download after every
\* periodic Inform.
CONSTANTS
  c1 = c1
  c2 = c2
  ssid = ssid
  enable = enable
  Nobody = Nobody
  Command = {c1, c2}
  Part = {enable}
  Parts <- SamePart
  Periodic = TRUE
  Room <- SmallRoom
  Timeout = 0
  Window = 0
  MaxFault = 1
SPECIFICATION FairSpec
INVARIANTS TypeOK AtMostTwice KeptUntilSent LastWinsUnlessCut
PROPERTIES IsDelivery CommandIsSent UrgentIsTaken
