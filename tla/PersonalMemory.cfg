SPECIFICATION Spec
CONSTANTS
  t1 = t1
  t2 = t2
  t3 = t3
  k1 = k1
  k2 = k2
  link = link
  p1 = p1
  p2 = p2
  m1 = m1
  m2 = m2
  m3 = m3
  Timelines = {t1, t2, t3}
  Items = {m1, m2}
  Aliases = {k1, k2, link}
  Prints = {p1, p2}
  Evidence <- MCEvidenceOf
  NoText = NoText
  NoRow = NoRow
  Nobody = Nobody
  Conflict = Conflict
  MaxMembers = 1
  Instances <- MCInstances
SYMMETRY ItemSymmetry
CHECK_DEADLOCK FALSE
INVARIANTS
  LibrarySound
  FeedbackKept
PROPERTIES
  NeverRecaptured
  UserDecides
