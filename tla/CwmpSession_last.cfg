\* A command for two parts and, when it is over, one for the second of them.
CONSTANTS
  c1 = c1
  c2 = c2
  ssid = ssid
  enable = enable
  Nobody = Nobody
  Command = {c1, c2}
  Part = {ssid, enable}
  Parts <- TwoCommands
  Periodic = FALSE
  Room <- SmallRoom
  Timeout = 2
  Window = 3
  MaxFault = 0
SPECIFICATION Spec
INVARIANTS LastCommandWins
