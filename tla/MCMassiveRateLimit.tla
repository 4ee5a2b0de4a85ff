------------------------- MODULE MCMassiveRateLimit -------------------------
(***************************************************************************)
(* A small budget: two slots, slots that expire after three ticks,         *)
(* clocks that may disagree by one.                                        *)
(***************************************************************************)
EXTENDS MassiveRateLimit

MCAdjustments == {-1, 2}

=============================================================================
