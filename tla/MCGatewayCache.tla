--------------------------- MODULE MCGatewayCache ---------------------------
(* Instances of GatewayCache for TLC.                                      *)
EXTENDS GatewayCache, TLC

CONSTANTS shelters, shelter1, trips, vehicles, shelterRow, tripRow, vehicleRow

\* Two URLs of one service: the list of shelters and one of them.
OnePrefixOf == shelters :> "/shelters" @@ shelter1 :> "/shelters"
OneDataOf == shelters :> shelterRow @@ shelter1 :> shelterRow
OneTouches == "/shelters" :> {shelterRow}

\* The two targets of the fleet service: a trip also changes its vehicle.
FleetPrefixOf == trips :> "/trips" @@ vehicles :> "/vehicles"
FleetDataOf == trips :> tripRow @@ vehicles :> vehicleRow
FleetTouches == "/trips" :> {tripRow, vehicleRow} @@ "/vehicles" :> {vehicleRow}

Symmetry == Permutations(Request)

=============================================================================
