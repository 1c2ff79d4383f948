SPECIFICATION Spec
CONSTANTS
  s1 = s1  s2 = s2  s3 = s3
  local = local  spaced = spaced  first = first  second = second
  alpha = alpha  beta = beta  gamma = gamma  model = model
  String <- MCModel  ModelField = model  MaxDepth = 3  Bodies <- MCBodies
  east = east  west = west
  None = None
  Request = {r1}
  Snapshot <- MCSnapshot
  Key <- MCKey
  Blanked = {spaced}
  Model <- MCModel
  Upstream = {east, west}
  LocalKey <- MCLocalKey
  Routes <- MCRoutes
  LevelOf <- MCLevelOf
  Inbound <- PairsInbound
  UpstreamStatus = {200, 404, 500}
INVARIANTS
  TypeOK
  OneSnapshot
  ForwardedByOneSnapshot
  KeysStayHome
  BodyAfterAuthentication
  SignedBodyIntact
  LocateExact
PROPERTIES
  RefusedWithoutBody
