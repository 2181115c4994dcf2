SPECIFICATION Spec
CONSTANTS
  a = a
  b = b
  c1 = c1
  c2 = c2
  c3 = c3
  Scripts = {c1, c2, c3}
  Monsters = {a, b}
  Names = {"g", "h"}
  NoName = NoName
  NULL = NULL
  Maps <- MCMaps
  MaxUses = 2
INVARIANTS
  TypeOK
  LinksAgree
  WaitsForWalkers
PROPERTIES
  EveryScriptEnds
CHECK_DEADLOCK FALSE
