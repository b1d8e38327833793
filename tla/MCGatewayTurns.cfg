SPECIFICATION Spec
CONSTANTS
  i1 = i1
  i2 = i2
  c1 = c1
  c2 = c2
  c3 = c3
  w1 = w1
  imRoute = imRoute
  cliRoute = cliRoute
  webRoute = webRoute
  bot = bot
  NoReq = NoReq
  Req <- MCReq
  Route <- MCRoute
  Account <- MCAccount
  RouteOf <- MCRouteOf
  Channel <- MCChannel
  AccountRoutes <- MCAccountRoutes
  TerminalLimit = 1
CHECK_DEADLOCK FALSE
INVARIANTS
  OneTurnPerRoute
  InflightAccounting
  ControlMatchesActive
  BlockedRouteIsQuiet
  NoticedIdle
PROPERTIES
  ImplementsFifo
SYMMETRY MCSymmetry
