------------------------- MODULE MCShadowOperations -------------------------
(***************************************************************************)
(* The calendar of MCShadowRunner for the attended runner.                 *)
(***************************************************************************)
EXTENDS ShadowOperations

MCClose == [s \in Official |-> 2 * s + 1]

=============================================================================
