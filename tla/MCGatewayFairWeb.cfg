SPECIFICATION FairSpec
CONSTANTS
  i1 = i1
  i2 = i2
  w1 = w1
  imRoute = imRoute
  webRoute = webRoute
  NoReq = NoReq
  Req <- MCReq
  Route <- MCRoute
  Account <- MCAccount
  RouteOf <- MCRouteOf
  Channel <- MCChannel
  AccountRoutes <- MCAccountRoutes
  TerminalLimit = 1
CHECK_DEADLOCK FALSE
PROPERTIES
  WebRouteReleased
