SPECIFICATION Spec
CONSTANTS
  b1 = b1
  b2 = b2
  d1 = d1
  d2 = d2
  s1 = s1
  m1 = m1
  c1 = c1
  t1 = t1
  Buttons = {b1, b2}
  Doors = {d1, d2}
  Sources = {s1}
  Managers = {m1}
  Counters = {c1}
  Triggers = {t1}
  Names = {"src", "door", "count", "mm"}
  NoName = NoName
  Stranger = Stranger
  Maps <- MCMaps
  Count = 2
  MaxInputs = 4
INVARIANTS
  TypeOK
  NothingStranded
  InputsMatch
PROPERTIES
  MotionEnds
CHECK_DEADLOCK FALSE
