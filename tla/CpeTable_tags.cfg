\* Two readers of the tags, two editors, a deletion; one Inform.
CONSTANTS
  h1 = h1
  h2 = h2
  f1 = f1
  f2 = f2
  o1 = o1
  o2 = o2
  d1 = d1
  d2 = d2
  t1 = t1
  t2 = t2
  NoTags = NoTags
  Handler = {h1}
  Filler = {f1, f2}
  Editor = {o1, o2}
  Deleter = {d1}
  Tags = {t1, t2}
  AutoRegister = TRUE
  Quiet = 0
  MaxInform = 1
  MaxRow = 2
  MaxEntry = 2
SPECIFICATION Spec
SYMMETRY Alike
INVARIANTS TypeOK StaleTagsHaveCause
