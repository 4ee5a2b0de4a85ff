--------------------------- MODULE DailyBacktest ---------------------------
(***************************************************************************)
(* The daily loop of the backtest engine (backtest/engine.py): in every    *)
(* session the open of the positions held, the orders of the day before,   *)
(* the range of the bar, the close, and the orders for the next session.   *)
(* A bar is revealed as the loop comes to need it.  How large a position   *)
(* is and whether the cash suffices are left open: an order may be refused.*)
(* An exit is only ever decided by the position manager.                   *)
(***************************************************************************)
EXTENDS PositionManager, SequencesExt

CONSTANTS
    Symbols,       \* numbers
    SectorOf,      \* a sector for every symbol
    RuleSets,      \* the rules a backtest may run under, with fields cooldown
                   \* (reentry.cooldown_days, None: disabled), strict, and
                   \* max_positions and max_sector_positions of the portfolio,
                   \* slip (the slippage, in ticks) and distances (of the
                   \* initial stop)
    Fee,           \* entry commission per share
    Quantity,      \* shares bought
    Atrs,          \* readings of the ATR, which may be None
    TopPrice,      \* bound: prices are 1 .. TopPrice
    LastSession    \* bound

\* What the configuration models validate, in ticks, sessions and shares.
Rules ==
    [stop : BOOLEAN, target : Nat \cup {None},
     trail : [activation : Nat, distance : Nat] \cup {None},
     atr : [activation : Nat, multiple : Nat, bars : Nat] \cup {None},
     lock : [breakEven : Nat, oneR : Nat, locked : Nat] \cup {None},
     partial : Seq([profit : Nat, part : Nat \ {0}, original : BOOLEAN]),
     decay : BOOLEAN, rotation : Nat \cup {None},
     hold : [days : Nat, hard : BOOLEAN] \cup {None},
     cooldown : Nat \cup {None}, strict : BOOLEAN,
     max_positions : Nat \ {0}, max_sector_positions : Nat \ {0},
     slip : Nat, distances : SUBSET Nat]

\* The slippage is less than the distance at which a stop can be set at the fill.
ASSUME BacktestAssumption ==
    /\ Symbols \subseteq Nat /\ IsFiniteSet(Symbols)
    /\ RuleSets \subseteq Rules /\ Atrs \subseteq Nat \cup {None}
    /\ Fee \in Nat /\ Quantity \in Nat \ {0} /\ TopPrice \in Nat
    /\ \A r \in RuleSets : \A d \in r.distances : d > r.slip
    /\ \A r \in RuleSets : r.trail # None =>
           r.trail.activation > 0 \/ r.trail.distance > r.slip
    /\ \A r \in RuleSets : r.atr # None =>
           \/ r.atr.activation + r.atr.bars > 0
           \/ \A atr \in Atrs \ {None} : atr * r.atr.multiple > r.slip
    /\ LastSession \in Nat \ {0}

VARIABLES
    rules,
    session, phase,
    bars,        \* the symbols with a bar in this session, and what is known of it
    positions,
    todo,        \* the positions the phase has yet to come to
    pending,     \* the orders, best first
    ranking,     \* the candidates of this close, best first
    capacity,    \* places for which orders are made
    others,      \* whether one of them was not held when the close began
    closedDates,
    trade,       \* the trade just made, if the last step made one
    armed,       \* history: stops in force when the range of the bar began
    legs         \* history: what the trades of a position add up to

vars == <<rules, session, phase, bars, positions, todo, pending, ranking,
          capacity, others, closedDates, trade, armed, legs>>

account == <<closedDates, legs>>

Prices == 1 .. TopPrice

Sessions == 1 .. LastSession

Held == {s \in Symbols : positions[s] # None}

NoLegs == [quantity |-> 0, value |-> 0, fee |-> 0, levels |-> 0]

Init ==
    /\ rules \in RuleSets
    /\ session = 1 /\ phase = "begin"
    /\ bars = [s \in Symbols |-> None]
    /\ positions = [s \in Symbols |-> None]
    /\ todo = {} /\ pending = <<>> /\ ranking = <<>> /\ capacity = 0
    /\ others = FALSE
    /\ closedDates = [s \in Symbols |-> None]
    /\ trade = None
    /\ armed = [s \in Symbols |-> {}]
    /\ legs = [s \in Symbols |-> NoLegs]

-----------------------------------------------------------------------------
\* Mutant of AfterSale: the value stays with the position.
AfterSaleKeepsValue(p, d) ==
    [p EXCEPT !.quantity = @ - d.quantity,
              !.high = IF d.price = None THEN @ ELSE Larger(@, d.price),
              !.triggered = IF d.level = None THEN @ ELSE @ \cup {d.level}]

\* A position some of which is sold, and the cost that goes with it.
AfterSale(p, d) ==
    [p EXCEPT !.quantity = @ - d.quantity,
              !.value = @ - (p.value * d.quantity) \div p.quantity,
              !.fee = @ - (p.fee * d.quantity) \div p.quantity,
              !.high = IF d.price = None THEN @ ELSE Larger(@, d.price),
              !.triggered = IF d.level = None THEN @ ELSE @ \cup {d.level}]

\* Mutant of Closed: the last exit is not noted.
ClosedUnnoted(s) == closedDates

\* When symbols were last sold out, once s is.
Closed(s) == [closedDates EXCEPT ![s] = session]

\* Mutant of Whole: something must be left over.
WholeBeyond(p, d) == d.quantity > p.quantity

Whole(p, d) == d.quantity >= p.quantity

\* A sale: a leg, and the end of the position when nothing is left.
Execute(s, p, d) ==
    /\ positions' = [positions EXCEPT ![s] =
                         IF Whole(p, d) THEN None ELSE AfterSale(p, d)]
    /\ closedDates' = IF Whole(p, d) /\ phase # "final" THEN Closed(s)
                      ELSE closedDates
    /\ trade' = [symbol |-> s, phase |-> phase, price |-> d.price,
                 reason |-> d.reason, whole |-> Whole(p, d)]
    /\ legs' = [legs EXCEPT ![s] =
           [quantity |-> @.quantity + d.quantity,
            value |-> @.value + (p.value * d.quantity) \div p.quantity,
            fee |-> @.fee + (p.fee * d.quantity) \div p.quantity,
            levels |-> @.levels + IF d.level = None THEN 0 ELSE 1]]

-----------------------------------------------------------------------------
\* The bars of the session are there or not.  A strict backtest ends when one is
\* missing; the others go on without it.
Begin(present) ==
    LET active == Held \cup Range(pending) IN
    /\ phase = "begin" /\ present \subseteq active
    /\ bars' = [s \in Symbols |->
                   IF s \in present THEN [open |-> None, low |-> None,
                                          high |-> None]
                   ELSE None]
    /\ IF rules.strict /\ present # active
       THEN phase' = "refused" /\ UNCHANGED <<positions, todo>>
       ELSE /\ phase' = "open"
            /\ positions' = [s \in Symbols |->
                   IF s \in Held THEN [positions[s] EXCEPT !.days = @ + 1]
                   ELSE None]
            /\ todo' = Held \cap present
    /\ trade' = None
    /\ UNCHANGED <<rules, session, pending, ranking, capacity, others, armed,
                   account>>

First(s) == s \in todo /\ \A other \in todo : s <= other

\* 1. A position held is activated and evaluated at the open, again after a
\* partial sale.
AtOpen(s) ==
    /\ phase = "open" /\ First(s)
    /\ \E open \in IF bars[s].open = None THEN Prices ELSE {bars[s].open} :
        LET p == ActivateAtOpen(rules, positions[s], open)
            d == EvaluateOpen(rules, p, open) IN
        /\ bars' = [bars EXCEPT ![s] = [@ EXCEPT !.open = open]]
        /\ IF d = Hold
           THEN /\ positions' = [positions EXCEPT ![s] = p]
                /\ armed' = [armed EXCEPT ![s] = Stops(p)]
                /\ trade' = None /\ UNCHANGED account
           ELSE Execute(s, p, d) /\ UNCHANGED armed
        /\ todo' = IF d = Hold \/ Whole(p, d) THEN todo \ {s}
                   ELSE todo
    /\ UNCHANGED <<rules, session, phase, pending, ranking, capacity, others>>

OpensDone ==
    /\ phase = "open" /\ todo = {}
    /\ phase' = "entries" /\ trade' = None
    /\ UNCHANGED <<rules, session, bars, positions, todo, pending, ranking,
                   capacity, others, armed, account>>

InSector(sector, symbols) == {s \in symbols : SectorOf[s] = sector}

\* What _open_position refuses an order for, cash and sizing aside.
Full(s) ==
    \/ Cardinality(Held) >= rules.max_positions
    \/ Cardinality(InSector(SectorOf[s], Held)) >= rules.max_sector_positions

\* A position bought at the open, activated at its own fill.
Opened(open, distance, atr) ==
    LET fill == open + rules.slip IN
    ActivateAtOpen(rules,
        [entry |-> fill, quantity |-> Quantity, initial |-> Quantity,
         value |-> fill * Quantity, fee |-> Fee * Quantity,
         risk |-> distance,
         stop |-> IF rules.stop THEN fill - distance ELSE None,
         target |-> IF rules.target = None THEN None ELSE fill + rules.target,
         trail |-> None, atrTrail |-> None, lock |-> None, peak |-> None,
         atr |-> IF rules.atr = None THEN None ELSE atr, high |-> fill,
         bars |-> 0, days |-> 1, triggered |-> {}],
        fill)

\* 2. The orders, best first, and only at this session's open.  An order is gone
\* whatever becomes of it.
Skip ==
    /\ phase = "entries" /\ pending # <<>>
    /\ pending' = Tail(pending)
    /\ trade' = None
    /\ UNCHANGED <<rules, session, phase, bars, positions, todo, ranking,
                   capacity, others, armed, account>>

Buy(open, distance, atr) ==
    LET s == Head(pending) IN
    /\ phase = "entries" /\ pending # <<>>
    /\ s \notin Held /\ bars[s] # None /\ ~Full(s)
    /\ distance < open + rules.slip
    /\ LET p == Opened(open, distance, atr) IN
       /\ positions' = [positions EXCEPT ![s] = p]
       /\ armed' = [armed EXCEPT ![s] = Stops(p)]
    /\ bars' = [bars EXCEPT ![s] = [@ EXCEPT !.open = open]]
    /\ pending' = Tail(pending)
    /\ legs' = [legs EXCEPT ![s] = NoLegs]
    /\ trade' = None
    /\ UNCHANGED <<rules, session, phase, todo, ranking, capacity, others,
                   closedDates>>

EntriesDone ==
    /\ phase = "entries" /\ pending = <<>>
    /\ phase' = "range"
    /\ todo' = {s \in Held : bars[s] # None}
    /\ trade' = None
    /\ UNCHANGED <<rules, session, bars, positions, pending, ranking,
                   capacity, others, armed, account>>

\* The lowest and the highest price of a bar that opens at open.
Extremes(s) ==
    IF bars[s].low # None THEN {<<bars[s].low, bars[s].high>>}
    ELSE {e \in Prices \X Prices : e[1] <= bars[s].open /\ bars[s].open <= e[2]}

\* 3. The range of the bar: stops first, then profits, and the completed bar
\* prepares the next one.
InRange(s, atr) ==
    /\ phase = "range" /\ First(s)
    /\ \E e \in Extremes(s) :
        LET p == positions[s]
            d == EvaluateIntrabar(rules, p, e[1], e[2]) IN
        /\ bars' = [bars EXCEPT ![s] = [@ EXCEPT !.low = e[1], !.high = e[2]]]
        /\ IF d = Hold
           THEN /\ positions' = [positions EXCEPT ![s] =
                                     UpdateAfterBar(rules, p, e[2], atr)]
                /\ trade' = None /\ UNCHANGED account
           ELSE Execute(s, p, d)
        /\ todo' = IF d = Hold \/ Whole(p, d) THEN todo \ {s}
                   ELSE todo
    /\ UNCHANGED <<rules, session, phase, pending, ranking, capacity, others,
                   armed>>

Final == session = LastSession

\* The completed session is screened, unless it is the last.  Candidates are
\* ranked by score; the positions at this moment say who counts as another.
Screen(best) ==
    /\ phase = "range" /\ todo = {}
    /\ Final => best = <<>>
    /\ phase' = "close"
    /\ ranking' = best
    /\ others' = (Range(best) \ Held # {})
    /\ todo' = {s \in Held : bars[s] # None}
    /\ trade' = None
    /\ UNCHANGED <<rules, session, bars, positions, pending, capacity, armed,
                   account>>

\* 4. The rules of the close.  Without a report there is no score.
AtClose(s, view) ==
    LET p == positions[s]
        d == EvaluateClose(rules, p, others, view) IN
    /\ phase = "close" /\ First(s)
    /\ Final => view = {}
    /\ IF d = Hold THEN trade' = None /\ UNCHANGED <<positions, account>>
       ELSE Execute(s, p, d)
    /\ todo' = todo \ {s}
    /\ UNCHANGED <<rules, session, phase, bars, pending, ranking, capacity,
                   others, armed>>

ReentryAllowed(s) ==
    \/ closedDates[s] = None
    \/ rules.cooldown # None /\ session - closedDates[s] >= rules.cooldown

\* Mutant of Admits: orders do not count against the sector.
AdmitsSector(s) ==
    /\ Len(pending) < capacity
    /\ Cardinality(InSector(SectorOf[s], Held)) < rules.max_sector_positions

\* Whether there is a place left, after the orders made already.
Admits(s) ==
    /\ Len(pending) < capacity
    /\ Cardinality(InSector(SectorOf[s], Held \cup Range(pending)))
           < rules.max_sector_positions

\* 6. The orders for the next session: for how many in all,
Order(target) ==
    /\ phase = "close" /\ todo = {} /\ ~Final
    /\ phase' = "orders"
    /\ capacity' = target - Cardinality(Held)
    /\ trade' = None
    /\ UNCHANGED <<rules, session, bars, positions, todo, pending, ranking,
                   others, armed, account>>

\* candidate by candidate, in the order of their scores,
Consider ==
    LET s == Head(ranking) IN
    /\ phase = "orders" /\ ranking # <<>>
    /\ pending' = IF s \notin Held /\ ReentryAllowed(s) /\ Admits(s)
                  THEN Append(pending, s) ELSE pending
    /\ ranking' = Tail(ranking)
    /\ trade' = None
    /\ UNCHANGED <<rules, session, phase, bars, positions, todo, capacity,
                   others, armed, account>>

\* and the session is over.
OrdersDone ==
    /\ phase = "orders" /\ ranking = <<>>
    /\ session' = session + 1 /\ phase' = "begin"
    /\ bars' = [s \in Symbols |-> None]
    /\ capacity' = 0 /\ others' = FALSE
    /\ trade' = None
    /\ UNCHANGED <<rules, positions, todo, pending, ranking, armed, account>>

\* Mutant of ToLiquidate: positions without a bar today are left out.
ToLiquidateToday == {s \in Held : bars[s] # None}

\* What the last session sells: positions without a bar at their last one.
ToLiquidate == Held

\* 5. The last session ends: everything is sold.
Finish ==
    /\ phase = "close" /\ todo = {} /\ Final
    /\ phase' = "final" /\ todo' = ToLiquidate
    /\ trade' = None
    /\ UNCHANGED <<rules, session, bars, positions, pending, ranking,
                   capacity, others, armed, account>>

Liquidate(s) ==
    /\ phase = "final" /\ First(s)
    /\ Execute(s, positions[s], Sell(positions[s], None, "end"))
    /\ todo' = todo \ {s}
    /\ UNCHANGED <<rules, session, phase, bars, pending, ranking, capacity,
                   others, armed>>

Over ==
    /\ phase = "final" /\ todo = {}
    /\ phase' = "over" /\ trade' = None
    /\ UNCHANGED <<rules, session, bars, positions, todo, pending, ranking,
                   capacity, others, armed, account>>

Rankings == SetToAllKPermutations(Symbols)

Next ==
    \/ \E present \in SUBSET Symbols : Begin(present)
    \/ \E s \in Symbols :
        \/ AtOpen(s)
        \/ \E atr \in Atrs : InRange(s, atr)
        \/ \E view \in SUBSET {"decayed", "outscored", "weak"} : AtClose(s, view)
        \/ Liquidate(s)
    \/ OpensDone \/ Skip \/ EntriesDone \/ Consider \/ OrdersDone
    \/ Finish \/ Over
    \/ \E open \in Prices, d \in rules.distances, atr \in Atrs : Buy(open, d, atr)
    \/ \E best \in Rankings : Screen(best)
    \/ \E target \in 1 .. rules.max_positions : Order(target)

Spec == Init /\ [][Next]_vars

\* Every step of the loop is taken once it is possible.
FairSpec == Spec /\ WF_vars(Next)

-----------------------------------------------------------------------------
Stop == Int \cup {None}

Position ==
    [entry : Nat, quantity : 1 .. Quantity, initial : {Quantity},
     value : Nat, fee : Nat, risk : Nat, stop : Stop, target : Nat \cup {None},
     trail : Stop, atrTrail : Stop, lock : Stop, peak : Stop,
     atr : Atrs \cup {None}, high : Nat, bars : Nat, days : Nat,
     triggered : SUBSET Nat]

Bar == [open : Prices \cup {None}, low : Prices \cup {None},
        high : Prices \cup {None}]

Legs == [quantity : Nat, value : Nat, fee : Nat, levels : Nat]

ASSUME RecordAssumption == None \notin Position /\ None \notin Bar

Phases == {"begin", "open", "entries", "range", "close", "orders", "final",
           "over", "refused"}

TypeOK ==
    /\ rules \in RuleSets /\ session \in Sessions /\ phase \in Phases
    /\ bars \in [Symbols -> Bar \cup {None}]
    /\ positions \in [Symbols -> Position \cup {None}]
    /\ todo \subseteq Held
    /\ pending \in Seq(Symbols) /\ ranking \in Seq(Symbols)
    /\ capacity \in Int /\ others \in BOOLEAN
    /\ closedDates \in [Symbols -> Sessions \cup {None}]
    /\ armed \in [Symbols -> SUBSET Int]
    /\ legs \in [Symbols -> Legs]

(***************************************************************************)
(* Every sale by a price rule is at a price that was there: the open, when *)
(* it is made at the open, even for a gap through a stop; and within the   *)
(* bar's range otherwise, because every level above the low that was not   *)
(* reached at the open is below the high.                                  *)
(***************************************************************************)
FillsInRange ==
    trade # None =>
        LET b == bars[trade.symbol] IN
        CASE trade.phase = "open" -> trade.price = b.open
          [] trade.phase = "range" -> b.low <= trade.price /\ trade.price <= b.high
          [] OTHER -> trade.price = None

(***************************************************************************)
(* Within a bar that reaches both, the stop comes before the profit, the   *)
(* highest stop before the others, and no stop counts that was not in      *)
(* force when the bar's range began: what the bar itself shows can only    *)
(* serve the next one.  A position that keeps such a stop is gone.         *)
(***************************************************************************)
StopsFirst ==
    /\ trade # None /\ trade.phase = "range" =>
        LET stops == armed[trade.symbol] IN
        IF stops # {} /\ bars[trade.symbol].low <= Max(stops)
        THEN trade.whole /\ trade.price = Max(stops) /\ trade.reason = "stop"
        ELSE trade.reason # "stop"
    /\ phase = "close" =>
        \A s \in Held : bars[s] # None /\ armed[s] # {} =>
            bars[s].low > Max(armed[s])

(***************************************************************************)
(* While a position is held none of its stops is lowered or withdrawn,     *)
(* whatever the prices, the ATR and the session's missing bars do.         *)
(***************************************************************************)
StopsNeverFall ==
    [][\A s \in Held : positions[s]' # None =>
           \A stop \in {"stop", "trail", "atrTrail", "lock"} :
               positions[s][stop] # None =>
                   /\ positions[s]'[stop] # None
                   /\ positions[s]'[stop] >= positions[s][stop]]_vars

(***************************************************************************)
(* The legs of a position add up: what has been sold and what is left are  *)
(* what was bought, at its price and with its entry commission, and no     *)
(* level of partial_take_profit has been sold twice.                       *)
(***************************************************************************)
LegsAddUp ==
    \A s \in Symbols :
        IF s \in Held
        THEN LET p == positions[s] IN
             /\ legs[s].quantity + p.quantity = p.initial
             /\ legs[s].value + p.value = p.entry * p.initial
             /\ legs[s].fee + p.fee = Fee * p.initial
             /\ legs[s].levels = Cardinality(p.triggered)
        ELSE legs[s] # NoLegs =>
             /\ legs[s].quantity = Quantity
             /\ legs[s].fee = Fee * Quantity
             /\ legs[s].levels <= Len(rules.partial)

(***************************************************************************)
(* An order is only made if it can be carried out whatever the others do:  *)
(* until the next open the positions and the orders together respect the   *)
(* limits of the portfolio and of every sector, and no symbol is ordered   *)
(* twice or while it is held.                                              *)
(***************************************************************************)
OrdersFit ==
    LET ordered == Range(pending) IN
    /\ Cardinality(Held) + Len(pending) <= rules.max_positions
    /\ \A s \in Symbols :
        Cardinality(InSector(SectorOf[s], Held \cup ordered))
            <= rules.max_sector_positions
    /\ Held \cap ordered = {} /\ Cardinality(ordered) = Len(pending)

(***************************************************************************)
(* A symbol is bought in the session after the one it was ranked in, and   *)
(* after it was sold out only if the cooldown is over then; a sale by the  *)
(* range, at the close or at the open starts the cooldown all the same.    *)
(***************************************************************************)
CooldownKept ==
    [][\A s \in Symbols \ Held : positions[s]' # None =>
           LET sold == legs[s].quantity # 0 IN
           sold => /\ rules.cooldown # None /\ closedDates[s] # None
                   /\ session - 1 - closedDates[s] >= rules.cooldown]_vars

(***************************************************************************)
(* A hard maximum is kept: after a close with a bar no position has been   *)
(* held for that many sessions, counting the one it was bought in and      *)
(* those without a bar.                                                    *)
(***************************************************************************)
HardHoldKept ==
    rules.hold # None /\ rules.hold.hard /\ phase = "close" /\ todo = {} =>
        \A s \in Held : bars[s] # None => positions[s].days < rules.hold.days

(***************************************************************************)
(* A backtest comes to its end with nothing held, missing bars or not, or  *)
(* is refused for a missing bar by a strict one: no loop over a position's *)
(* decisions goes on for ever.                                             *)
(***************************************************************************)
EndsFlat == <>(phase = "refused" \/ (phase = "over" /\ Held = {}))

=============================================================================
