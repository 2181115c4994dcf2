SPECIFICATION Spec
CONSTANTS
  p = p
  q = q
  r = r
  x = x
  Clients = {p, r}
  Others = {q, x}
  Slots = {1, 2}
  Mine = 1
  NoPlayer = NoPlayer
  Team <- MCTeam
  MaxFlight = 2
  MaxInputs = 5
INVARIANTS
  TypeOK
  SettledMeansRight
PROPERTIES
  Settles
CHECK_DEADLOCK FALSE
