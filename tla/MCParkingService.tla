-------------------------- MODULE MCParkingService --------------------------
(* Two spots of two types; ev prefers the far one.                         *)
EXTENDS ParkingService, TLC

CONSTANTS w1, w2, A, B
Symmetry == Permutations({w1, w2}) \cup Permutations({A, B})

MCSpotTypes == <<"standard", "ev">>
MCPreferences == [sedan |-> <<"standard">>, ev |-> <<"ev", "standard">>]
MCVehicleTypes == {"sedan", "ev"}
=============================================================================
