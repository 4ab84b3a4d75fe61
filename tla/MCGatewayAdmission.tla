------------------------- MODULE MCGatewayAdmission -------------------------
(* An instance of GatewayAdmission for TLC: the fleet-service's limiter has *)
(* the default of one request per second, the auth-service's is disabled.   *)
EXTENDS GatewayAdmission, TLC

FleetRate == "fleet" :> <<>> @@ "auth" :> <<0>>
Defaults == "fleet" :> 1 @@ "auth" :> 1

\* A token lasts for two seconds.
TwoSeconds == <<2>>

Symmetry == Permutations(Request)

=============================================================================
