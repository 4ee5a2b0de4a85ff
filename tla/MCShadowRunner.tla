--------------------------- MODULE MCShadowRunner ---------------------------
(***************************************************************************)
(* Small calendars for the runner.  A session s closes at 2 * s + 1, so a  *)
(* clock reading may fall before, at or after a close.  Processes and code *)
(* versions are interchangeable; the runs without temporal properties over *)
(* infinite behaviours use that symmetry.                                  *)
(***************************************************************************)
EXTENDS ShadowRunner, TLC

MCClose == [s \in Official |-> 2 * s + 1]

MCSymmetry == Permutations(Procs) \cup Permutations(Identities)

=============================================================================
