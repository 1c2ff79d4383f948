SPECIFICATION ProxySpec
CONSTANTS
  s1 = s1  s2 = s2
  local = local  other = other  first = first
  alpha = alpha  gamma = gamma  east = east
  p1 = p1
  None = None
  Request = {r1}
  Snapshot = {s1, s2}
  Key = {local, other, first}
  Blanked = {}
  Model = {alpha, gamma}
  Upstream = {east}
  LocalKey <- MCLocalKey
  Routes <- MCRoutes
  LevelOf <- MCLevelOf
  Inbound <- MCInbound
  UpstreamStatus = {200}
  Port = {p1}
  PortOf <- MCPortOf
  Deployment = {d1}
  Conn = {}
PROPERTIES NewRequestsGetWholeSnapshot
