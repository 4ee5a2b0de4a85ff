-------------------------- MODULE PositionManager --------------------------
(***************************************************************************)
(* The decisions about one open long position                              *)
(* (backtest/position_manager.py), as operators over the position and the  *)
(* rules in force.  Prices are whole ticks.  A percentage of a price is a  *)
(* number of ticks added to it or taken from it: what matters is that it   *)
(* grows with the price and on which side of it it lies.                   *)
(***************************************************************************)
EXTENDS Integers, Sequences, FiniteSets, FiniteSetsExt

CONSTANTS
    None,
    Cost    \* what must be earned per share to break even, in ticks

ASSUME CostAssumption == Cost \in Nat /\ None \notin Int

\* The rules, one field per section of PositionManagementConfig; None is a rule
\* that is disabled.
\*   target    take_profit.percent
\*   trail     [activation, distance]
\*   atr       [activation, multiple, bars]: bars completed before it may arm
\*   lock      [breakEven, oneR, locked], in multiples of the initial risk
\*   partial   <<[profit, part, original]>>, sorted by profit: a level sells
\*             1/part of the original or the current quantity
\*   decay     whether signal_decay is enabled
\*   rotation  minimum_holding_days
\*   hold      [days, hard]
Larger(a, b) == IF a >= b THEN a ELSE b

\* Mutant of RaiseOnly: the newest candidate counts.
RaiseNewest(previous, candidate) == candidate

RaiseOnly(previous, candidate) ==
    IF previous = None THEN candidate ELSE Larger(previous, candidate)

\* The stops in force.
Stops(p) == {p.stop, p.trail, p.atrTrail, p.lock} \ {None}

Hit(p, price) == Stops(p) # {} /\ price <= Max(Stops(p))

-----------------------------------------------------------------------------
\* A price at or above the activation of the percentage trail raises its stop.
\* (The highest price since then is kept too; with a fixed percentage the stop
\* says the same.)
ArmTrail(rules, p, price) ==
    IF rules.trail = None \/ price < p.entry + rules.trail.activation THEN p
    ELSE [p EXCEPT !.trail = RaiseOnly(@, price - rules.trail.distance)]

\* The same for the ATR trail, measured from base, which the ATR may be too
\* wide for.
ArmAtrTrail(rules, p, price, base) ==
    IF \/ rules.atr = None \/ p.atr = None
       \/ p.bars < rules.atr.bars \/ price < p.entry + rules.atr.activation
    THEN p
    ELSE LET candidate == base - p.atr * rules.atr.multiple IN
         [p EXCEPT !.peak = RaiseOnly(@, price),
                   !.atrTrail = IF candidate > 0 THEN RaiseOnly(@, candidate)
                                ELSE @]

ActivateAtOpen(rules, p, open) ==
    ArmAtrTrail(rules, ArmTrail(rules, p, open), open, open)

\* The highest price in multiples of the initial risk locks a profit in.
UpdateProfitLock(rules, p) ==
    IF rules.lock = None THEN p
    ELSE LET reached(r) == p.high - p.entry >= r * p.risk
             even == IF reached(rules.lock.breakEven)
                     THEN RaiseOnly(p.lock, p.entry + Cost) ELSE p.lock IN
         [p EXCEPT !.lock = IF reached(rules.lock.oneR)
                            THEN RaiseOnly(even, p.entry
                                                 + p.risk * rules.lock.locked)
                            ELSE even]

\* A completed bar prepares the stops of the next one.  (The ATR is only kept
\* where a rule reads it.)
UpdateAfterBar(rules, p, high, atr) ==
    LET seen == [p EXCEPT !.high = Larger(@, high), !.bars = @ + 1]
        trailed == ArmTrail(rules, UpdateProfitLock(rules, seen), high)
        next == [trailed EXCEPT !.atr = IF rules.atr = None \/ atr = None THEN @
                                        ELSE atr] IN
    ArmAtrTrail(rules, next, high, RaiseOnly(next.peak, high))

-----------------------------------------------------------------------------
\* A decision: how much is sold, at which reference price, at which level of
\* partial_take_profit, and by which kind of rule.
Decision(quantity, price, level, reason) ==
    [quantity |-> quantity, price |-> price, level |-> level, reason |-> reason]

Hold == Decision(0, None, None, "hold")

Sell(p, price, reason) == Decision(p.quantity, price, None, reason)

\* The levels that are reached and have not been sold yet.
Reached(rules, p, seen) ==
    {i \in DOMAIN rules.partial :
        i \notin p.triggered /\ seen >= p.entry + rules.partial[i].profit}

PartialDecision(rules, p, seen, gap) ==
    LET i == Min(Reached(rules, p, seen))
        level == rules.partial[i]
        basis == IF level.original THEN p.initial ELSE p.quantity
        part == basis \div level.part IN
    Decision(IF part < p.quantity THEN part ELSE p.quantity,
             IF gap = None THEN p.entry + level.profit ELSE gap, i, "partial")

\* Of the profit orders reached, the one with the lowest trigger.
ProfitDecision(rules, p, seen, gap) ==
    LET levels == Reached(rules, p, seen)
        first == p.entry + rules.partial[Min(levels)].profit IN
    IF /\ p.target # None /\ seen >= p.target
       /\ levels = {} \/ p.target <= first
    THEN Sell(p, IF gap = None THEN p.target ELSE gap, "target")
    ELSE IF levels # {} THEN PartialDecision(rules, p, seen, gap)
    ELSE Hold

\* Mutant of EvaluateOpen: a gap through a stop is filled at the stop.
EvaluateOpenAtStop(rules, p, open) ==
    IF Hit(p, open) THEN Sell(p, Max(Stops(p)), "stop")
    ELSE ProfitDecision(rules, p, open, open)

\* A position that has just been activated at the opening price.
EvaluateOpen(rules, p, open) ==
    IF Hit(p, open) THEN Sell(p, open, "stop")
    ELSE ProfitDecision(rules, p, open, open)

\* Mutant of EvaluateIntrabar: a stop the bar itself has raised counts.
EvaluateIntrabarLate(rules, p, low, high) ==
    LET late == ArmTrail(rules, p, high) IN
    IF Hit(late, low) THEN Sell(p, Max(Stops(late)), "stop")
    ELSE ProfitDecision(rules, p, high, None)

EvaluateIntrabar(rules, p, low, high) ==
    IF Hit(p, low) THEN Sell(p, Max(Stops(p)), "stop")
    ELSE ProfitDecision(rules, p, high, None)

\* Mutant of EvaluateClose: a day too late.
EvaluateCloseLate(rules, p, others, view) ==
    IF \/ rules.decay /\ "decayed" \in view
       \/ /\ rules.rotation # None /\ p.days >= rules.rotation
          /\ others /\ "outscored" \in view
       \/ /\ rules.hold # None /\ p.days > rules.hold.days
          /\ rules.hold.hard \/ "weak" \in view
    THEN Sell(p, None, "close")
    ELSE Hold

\* What is thought of the position at the close: its score has decayed, the best
\* of the other candidates, if there is one, beats it, or it is too weak to be
\* held beyond its days.  It is sold at the close, which has no name here.
EvaluateClose(rules, p, others, view) ==
    IF \/ rules.decay /\ "decayed" \in view
       \/ /\ rules.rotation # None /\ p.days >= rules.rotation
          /\ others /\ "outscored" \in view
       \/ /\ rules.hold # None /\ p.days >= rules.hold.days
          /\ rules.hold.hard \/ "weak" \in view
    THEN Sell(p, None, "close")
    ELSE Hold

=============================================================================
