--------------------------- MODULE MCGatewayFair ---------------------------
(* Two requests on an IM route and one on a Web route: small enough for    *)
(* the liveness properties.  No Binding is deleted.                        *)
EXTENDS GatewayTurns

CONSTANTS i1, i2, w1, imRoute, webRoute

MCReq == {i1, i2, w1}
MCRoute == {imRoute, webRoute}
MCAccount == {}
MCRouteOf == [r \in MCReq |-> IF r = w1 THEN webRoute ELSE imRoute]
MCChannel == [ro \in MCRoute |-> IF ro = webRoute THEN "web" ELSE "im"]
MCAccountRoutes == [a \in MCAccount |-> {}]
=============================================================================
