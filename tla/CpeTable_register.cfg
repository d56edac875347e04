\* Finding: a deleted device that connects again is not registered.
CONSTANTS
  h1 = h1
  h2 = h2
  f1 = f1
  f2 = f2
  o1 = o1
  o2 = o2
  d1 = d1
  d2 = d2
  t1 = t1
  t2 = t2
  NoTags = NoTags
  Handler = {h1, h2}
  Filler = {}
  Editor = {}
  Deleter = {d1}
  Tags = {t1}
  AutoRegister = TRUE
  Quiet = 1
  MaxInform = 3
  MaxRow = 2
  MaxEntry = 2
SPECIFICATION Spec
SYMMETRY Alike
INVARIANTS ConnectedIsRegistered
