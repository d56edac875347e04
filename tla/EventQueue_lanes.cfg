\* Two urgent and two normal messages, one of them hasty; two entries; the CPE keeps
\* connecting.
CONSTANTS
  u1 = u1
  u2 = u2
  n1 = n1
  n2 = n2
  s1 = s1
  Room <- SmallRoom
  Message = {u1, u2, n1, n2}
  Urgent = {u1, u2}
  Hasty = {u2}
  Session = {s1}
  MaxEntry = 2
SPECIFICATION FairSpec
INVARIANTS TypeOK LanesInOrder TakenOnce UrgentFirst
PROPERTIES IsMailbox SendReturns WaitingIsTaken
