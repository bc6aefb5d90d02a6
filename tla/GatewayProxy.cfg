SPECIFICATION FairSpec
CONSTANTS
  r1 = r1
  r2 = r2
  r3 = r3
  c1 = c1
  f1 = f1
  f2 = f2
  f3 = f3
  Requests = {r1, r2, r3}
  Addresses = {"office"}
  Tokens = {"no token", "expired", "alice's"}
  Users = {"alice"}
  Correlations = {c1, f1, f2, f3}
  Routes = {"run", "history"}
  RouteOf <- MCRouteOf
  AddressOf <- MCAddressOf
  Paths = {"/chats/1/messages", "/pipelines/1/run"}
  PathOf <- MCPathOfMessages
  Places = {0}
  PlaceOf <- MCPlaceOfMessages
  HeaderOf <- MCHeaderOf
  FreshId <- MCFreshId
  Decoded <- MCDecoded
  JwtEnabled = TRUE
  PublicRoutes = {"run", "history"}
  LimitedRoutes = {"run"}
  BodyRoutes = {"run"}
  MappedRoutes = {"run", "history"}
  RunRoutes = {"run"}
  LimitOf <- MCLimitOf
  MaxConnections = 1
  MaxFaults = 1
  Anonymous = Anonymous
  None = None
INVARIANTS
  AnswersAreTraceable
  ResendIsNotRepeated
  QuotaHolds
PROPERTIES
  ContractKept
  EveryRequestEnds
CHECK_DEADLOCK FALSE
