--------------------------- MODULE MCGatewayTurns ---------------------------
(* Two requests on one IM route, whose account's Binding may be deleted;    *)
(* three on a CLI route, two of which may wait; one on a Web route.         *)
EXTENDS GatewayTurns, TLC

CONSTANTS i1, i2, c1, c2, c3, w1, imRoute, cliRoute, webRoute, bot

MCReq == {i1, i2, c1, c2, c3, w1}
MCRoute == {imRoute, cliRoute, webRoute}
MCAccount == {bot}
MCRouteOf == [r \in MCReq |-> CASE r = w1 -> webRoute [] r \in {c1, c2, c3} -> cliRoute [] OTHER -> imRoute]
MCChannel == [ro \in MCRoute |-> CASE ro = webRoute -> "web" [] ro = cliRoute -> "cli" [] OTHER -> "im"]
MCAccountRoutes == [a \in MCAccount |-> {imRoute}]

(* The messages of one route may be exchanged for one another. *)
MCSymmetry == Permutations({i1, i2}) \union Permutations({c1, c2, c3})
=============================================================================
