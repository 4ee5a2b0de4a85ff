--------------------------- MODULE ShadowSession ---------------------------
(***************************************************************************)
(* What one processed session may do to the ledger, as a relation between  *)
(* the ledger b after the session before and the ledger a after session s. *)
(***************************************************************************)
EXTENDS ShadowState

CONSTANT MaxHold    \* sessions a position is held at most (10)

ASSUME HoldAssumption == MaxHold \in Nat \ {0}

-----------------------------------------------------------------------------
SameMoney(b, a) == a.cash = b.cash /\ a.realized = b.realized

\* The position found stays: same security, same cost, no cash moves.
Kept(b, a) ==
    /\ b.position # None /\ a.position # None
    /\ a.position.symbol = b.position.symbol
    /\ CostBasis(a) = CostBasis(b)
    /\ a.sequence = b.sequence
    /\ SameMoney(b, a)

\* The position found is sold: the proceeds reach cash through realized_pnl.
Closed(b, a) ==
    /\ b.position # None /\ a.position = None
    /\ a.sequence = b.sequence

\* The intent found is executed, in the session it was made for.
Bought(b, a, s) ==
    /\ b.pending # None /\ b.pending.execution = s
    /\ a.position # None
    /\ a.position.symbol = b.pending.symbol
    /\ a.cash = b.cash - CostBasis(a)
    /\ a.realized = b.realized
    /\ a.sequence = b.sequence + 1

\* The intent found is executed and the position sold in the same session.
RoundTrip(b, a, s) ==
    /\ b.pending # None /\ b.pending.execution = s
    /\ a.position = None
    /\ a.sequence = b.sequence + 1

\* The intent found is rejected, in the session it was made for.
Refused(b, a, s) ==
    /\ b.pending # None /\ b.pending.execution = s
    /\ a.position = None
    /\ a.sequence = b.sequence
    /\ SameMoney(b, a)

Idle(b, a) ==
    /\ b.position = None /\ b.pending = None
    /\ a.position = None
    /\ a.sequence = b.sequence
    /\ SameMoney(b, a)

Trades(b, a, s) ==
    /\ ValidState(a)
    /\ a.pending # None => a.pending.signal = s
    /\ \/ Kept(b, a) \/ Closed(b, a) \/ Bought(b, a, s)
       \/ RoundTrip(b, a, s) \/ Refused(b, a, s) \/ Idle(b, a)

\* A position ages by one session, is one session old when bought, and does
\* not outlive its last permitted session.
Ages(b, a, s) ==
    a.position # None =>
        /\ a.position.holding < MaxHold
        /\ IF b.position # None
           THEN /\ a.position.entry = b.position.entry
                /\ a.position.holding = b.position.holding + 1
           ELSE a.position.entry = s /\ a.position.holding = 1

=============================================================================
