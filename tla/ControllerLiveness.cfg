SPECIFICATION Spec
CONSTANTS
  c1 = c1
  c2 = c2
  c3 = c3
  p1 = p1
  p2 = p2
  debug = debug
  info = info
  None = None
  Config <- MCConfig
  Port = {p1, p2}
  Level = {debug, info}
  PortOf <- MCPortOf
  LevelOf <- MCLevelOf
  DefaultLevel = info
  Deployment = {d1, d2}
  Conn = {k1}
INVARIANTS DrainedIsEmpty
PROPERTIES QuitTerminates ReloadReturns ListenerReleased
