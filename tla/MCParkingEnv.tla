------------------------------ MODULE MCParkingEnv ------------------------------
(* A lot of two columns for TLC; the rows are alike.                       *)
EXTENDS ParkingEnv, TLC

(* The hypothesis of MaskAlwaysOpen (ParkingProofs) holds of this lot.      *)
ASSUME WaitsSuffice == WaitsOutlastWayIn

RowSymmetry == Permutations(Rows)
================================================================================
