--------------------------- MODULE MCWriteBehind ---------------------------
(***************************************************************************)
(* Instances of WriteBehind for TLC.                                       *)
(***************************************************************************)
EXTENDS WriteBehind

\* Every capture but the last carries usage.
MCBillable == Ids \ {MaxId}
=============================================================================
