--------------------------- MODULE MCIntradayData ---------------------------
(* Two processes, three sessions of two bars, and request windows of one     *)
(* session.  The report requires the second and third session of one symbol  *)
(* and the third of the other; the provider may lack a whole session or      *)
(* single bars of one, and each symbol may be the one that has more.         *)
EXTENDS IntradayData

CONSTANTS p1, p2, k

MCRequired == {<<1, 2>>, <<1, 3>>, <<2, 3>>}

LateOnly == {<<1, 3>>}

MCSupplies == {{1, 2, 5, 6}, {2, 3, 4}}

Complete == {1 .. 6}

NoMiddle == {{1, 2, 5, 6}}

=============================================================================
