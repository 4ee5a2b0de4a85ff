------------------------ MODULE DailyBacktest_proofs ------------------------
(***************************************************************************)
(* That the daily loop sells at prices that were there, stops first, and   *)
(* that its legs add up; that its orders fit, its stops never fall, and    *)
(* its cooldown and hard maximum are kept: for any symbols, sectors,       *)
(* rules, prices and sessions.                                             *)
(***************************************************************************)
EXTENDS DailyBacktest, TLAPS, FiniteSetTheorems, WellFoundedInduction

\* A set that has a greatest element, unless it is empty.
Topped(S) == S # {} => \E m \in S : \A x \in S : x <= m

\* Which positions a phase may still have to come to, and what is sold of them.
Control ==
    /\ phase \in {"begin", "entries", "orders", "over", "refused"} => todo = {}
    /\ phase \in {"open", "range", "close"} => \A s \in todo : bars[s] # None
    /\ phase = "orders" => ~Final
    /\ \A s \in Held : positions[s].triggered \subseteq DOMAIN rules.partial
    /\ \A s \in Symbols : Topped(armed[s])

\* The range of a bar is known once its phase has come, and contains the open.
BarsSound ==
    \A s \in Symbols : bars[s] # None =>
        /\ bars[s].low = None => bars[s].high = None
        /\ phase \in {"begin", "open", "entries"} => bars[s].low = None
        /\ bars[s].low # None =>
               /\ bars[s].open \in Prices /\ bars[s].high \in Prices
               /\ bars[s].low <= bars[s].open /\ bars[s].open <= bars[s].high

\* Nothing of a position is due at the open: its stops are below it, its profit
\* orders not.
Ahead(r, p, open) ==
    /\ \A stop \in Stops(p) : stop < open
    /\ p.target # None => p.target >= open
    /\ \A i \in DOMAIN r.partial : i \notin p.triggered =>
           p.entry + r.partial[i].profit >= open

\* The bar has opened, the range is to come.
Facing(s) ==
    /\ bars[s].open \in Prices
    /\ armed[s] = Stops(positions[s])
    /\ Ahead(rules, positions[s], bars[s].open)

\* The range of the bar is over and has not reached a stop.
Faced(s) == bars[s].low \in Prices /\ \A stop \in armed[s] : stop < bars[s].low

StopsInForce ==
    /\ phase \in {"open", "entries"} =>
           \A s \in Held \ todo : bars[s] # None => Facing(s)
    /\ phase = "range" => \A s \in todo : Facing(s)
    /\ phase \in {"range", "close"} =>
           \A s \in Held : /\ phase = "range" => s \notin todo
                           /\ bars[s] # None
                           => Faced(s)

\* The close has sold what has been held too long, as far as it has come.
Holding ==
    /\ phase = "close" /\ rules.hold # None /\ rules.hold.hard
    => \A s \in Held \ todo : bars[s] # None => positions[s].days < rules.hold.days

\* Every order is another symbol's, and none is left once its open is over.
OrdersSound ==
    /\ IsInjective(pending)
    /\ phase \in {"range", "close", "final", "over"} => pending = <<>>
    /\ phase \in {"close", "orders"} => IsInjective(ranking)
    /\ phase = "orders" =>
           /\ Range(ranking) \cap Range(pending) = {}
           /\ capacity + Cardinality(Held) <= rules.max_positions

\* The session in which the orders were made.
Ranked == IF phase = "orders" THEN session ELSE session - 1

\* The cooldown of what is ordered was over then.
Cooled ==
    \A s \in Range(pending) : legs[s].quantity # 0 =>
        /\ rules.cooldown # None /\ closedDates[s] # None
        /\ Ranked - closedDates[s] >= rules.cooldown

\* What was sold out is noted, but for the last session's own sales.
SoldNoted ==
    phase \notin {"final", "over"} =>
        \A s \in Symbols \ Held : legs[s].quantity # 0 => closedDates[s] # None

\* What a sale in the range says of the stops: StopsFirst without the close.
StopSold ==
    trade # None /\ trade.phase = "range" =>
        LET stops == armed[trade.symbol] IN
        IF stops # {} /\ bars[trade.symbol].low <= Max(stops)
        THEN trade.whole /\ trade.price = Max(stops) /\ trade.reason = "stop"
        ELSE trade.reason # "stop"

BacktestInv ==
    /\ TypeOK /\ Control /\ BarsSound /\ StopsInForce /\ Holding
    /\ LegsAddUp /\ OrdersFit /\ OrdersSound /\ Cooled /\ SoldNoted
    /\ FillsInRange /\ StopSold

\* StopsNeverFall and CooldownKept, of one step.
NoStopFalls ==
    \A s \in Held : positions[s]' # None =>
        \A stop \in {"stop", "trail", "atrTrail", "lock"} :
            positions[s][stop] # None =>
                /\ positions[s]'[stop] # None
                /\ positions[s]'[stop] >= positions[s][stop]

BoughtCooled ==
    \A s \in Symbols \ Held : positions[s]' # None =>
        LET sold == legs[s].quantity # 0 IN
        sold => /\ rules.cooldown # None /\ closedDates[s] # None
                /\ session - 1 - closedDates[s] >= rules.cooldown

-----------------------------------------------------------------------------
\* Numbers: the least and the greatest of a set, and shares of an amount.
LEMMA Least ==
    ASSUME NEW S \in SUBSET Nat, S # {}
    PROVE  Min(S) \in S /\ \A n \in S : Min(S) <= n
  <1>1. IsWellFoundedOn(OpToRel(<, Nat), Nat)
    BY NatLessThanWellFounded
  <1>2. PICK m \in S : \A n \in S : ~(<<n, m>> \in OpToRel(<, Nat))
    BY <1>1, WFMin
  <1>3. OpToRel(<, Nat) = {pair \in Nat \X Nat : pair[1] < pair[2]}
    BY DEF OpToRel
  <1>4. ASSUME NEW n \in S PROVE m <= n
    <2>1. n \in Nat /\ m \in Nat
      OBVIOUS
    <2>2. <<n, m>> \notin {pair \in Nat \X Nat : pair[1] < pair[2]}
      BY <1>2, <1>3
    <2>3. ~(n < m)
      BY <2>1, <2>2
    <2> QED
      BY <2>1, <2>3
  <1> QED
    BY <1>4 DEF Min

LEMMA Greatest ==
    ASSUME NEW S \in SUBSET Int, Topped(S), S # {}
    PROVE  Max(S) \in S /\ \A n \in S : n <= Max(S)
  <1>1. PICK m \in S : \A x \in S : x <= m
    BY DEF Topped
  <1>2. \A x \in S : m >= x
    BY <1>1
  <1> QED
    BY <1>2 DEF Max

LEMMA ToppedBy ==
    ASSUME NEW S \in SUBSET Int, NEW x, NEW T, Topped(S), T = (S \cup {x}) \ {None},
           x \in Int \cup {None}, None \notin Int
    PROVE  T \in SUBSET Int /\ Topped(T)
  <1>1. T \in SUBSET Int
    OBVIOUS
  <1>2. CASE x = None
    <2>1. T = S
      BY <1>2
    <2> QED
      BY <1>1, <2>1
  <1>3. CASE x # None /\ S = {}
    <2>1. T = {x} /\ x \in Int
      BY <1>3
    <2>2. x <= x
      BY <2>1
    <2> QED
      BY <1>1, <2>1, <2>2 DEF Topped
  <1>4. CASE x # None /\ S # {}
    <2>1. T = S \cup {x} /\ x \in Int
      BY <1>4
    <2>2. PICK m \in S : \A y \in S : y <= m
      BY <1>4 DEF Topped
    <2>3. PICK n \in T : m <= n /\ x <= n
      BY <2>1, <2>2
    <2>4. \A y \in T : y <= n
      BY <2>1, <2>2, <2>3
    <2> QED
      BY <1>1, <2>4 DEF Topped
  <1> QED
    BY <1>2, <1>3, <1>4

LEMMA StopsTopped ==
    ASSUME NEW p, p.stop \in Stop, p.trail \in Stop, p.atrTrail \in Stop,
           p.lock \in Stop
    PROVE  Stops(p) \in SUBSET Int /\ Topped(Stops(p))
  <1> DEFINE A == ({} \cup {p.stop}) \ {None}
             B == (A \cup {p.trail}) \ {None}
             C == (B \cup {p.atrTrail}) \ {None}
             D == (C \cup {p.lock}) \ {None}
  <1>1. None \notin Int
    BY CostAssumption
  <1>2. Topped({}) /\ {} \in SUBSET Int
    BY DEF Topped
  <1>3. A \in SUBSET Int /\ Topped(A)
    BY <1>1, <1>2, ToppedBy DEF Stop
  <1>4. B \in SUBSET Int /\ Topped(B)
    <2> HIDE DEF A
    <2> QED
      BY <1>1, <1>3, ToppedBy DEF Stop
  <1>5. C \in SUBSET Int /\ Topped(C)
    <2> HIDE DEF B
    <2> QED
      BY <1>1, <1>4, ToppedBy DEF Stop
  <1>6. D \in SUBSET Int /\ Topped(D)
    <2> HIDE DEF C
    <2> QED
      BY <1>1, <1>5, ToppedBy DEF Stop
  <1>7. Stops(p) = D
    BY DEF Stops
  <1> QED
    BY <1>6, <1>7

\* What a part of an amount is, rounded down.
LEMMA Shares ==
    ASSUME NEW a \in Nat, NEW n \in Nat \ {0}, NEW k \in 0 .. n
    PROVE  /\ (a * k) \div n \in 0 .. a
           /\ k = n => (a * k) \div n = a
  <1>1. a * k \in Nat /\ a * n \in Nat /\ a * k <= a * n
    <2>1. n = k + (n - k) /\ n - k \in Nat /\ k \in Nat
      OBVIOUS
    <2>2. a * n = a * k + a * (n - k)
      BY <2>1
    <2>3. a * k \in Nat /\ a * (n - k) \in Nat
      BY <2>1
    <2> QED
      BY <2>2, <2>3
  <1> DEFINE x == a * k
             y == a * n
             f == x \div n
             rest == x % n
  <1>2. f \in Int /\ rest \in 0 .. n - 1 /\ x = f * n + rest
    BY <1>1
  <1>3. f >= 0
    <2> SUFFICES ASSUME f <= -1 PROVE FALSE
      BY <1>2
    <2>1. f * n <= -n
      BY <1>2, SMT
    <2> QED
      BY <1>1, <1>2, <2>1
  <1>4. f <= a
    <2> SUFFICES ASSUME f >= a + 1 PROVE FALSE
      BY <1>2
    <2>1. f * n >= (a + 1) * n
      BY <1>2, SMT
    <2>2. (a + 1) * n = a * n + n
      OBVIOUS
    <2> QED
      BY <1>1, <1>2, <2>1, <2>2
  <1>5. k = n => f = a
    <2> SUFFICES ASSUME k = n, f < a PROVE FALSE
      BY <1>2, <1>4
    <2>1. f <= a - 1
      BY <1>2
    <2>2. f * n <= (a - 1) * n
      BY <1>2, <2>1, SMT
    <2>3. (a - 1) * n = a * n - n
      OBVIOUS
    <2> QED
      BY <1>1, <1>2, <2>2, <2>3
  <1> QED
    BY <1>2, <1>3, <1>4, <1>5

-----------------------------------------------------------------------------
\* The position manager: what it changes of a position.

\* A position with other stops, all else of account the same.
SameBut(p, q) ==
    /\ q.entry = p.entry /\ q.quantity = p.quantity /\ q.initial = p.initial
    /\ q.value = p.value /\ q.fee = p.fee /\ q.target = p.target
    /\ q.days = p.days /\ q.triggered = p.triggered

StopFields == {"stop", "trail", "atrTrail", "lock"}

\* No stop of p is lower in q.
Raised(p, q) ==
    \A stop \in StopFields :
        p[stop] # None => q[stop] # None /\ q[stop] >= p[stop]

LEMMA RaiseOnlyRaises ==
    ASSUME NEW previous \in Stop, NEW candidate \in Int
    PROVE  /\ RaiseOnly(previous, candidate) \in Int
           /\ RaiseOnly(previous, candidate) # None
           /\ previous # None => RaiseOnly(previous, candidate) >= previous
           /\ RaiseOnly(previous, candidate) >= candidate
           /\ RaiseOnly(previous, candidate) \in {previous, candidate}
  BY CostAssumption DEF Stop, RaiseOnly, Larger

LEMMA RaisedRefl ==
    ASSUME NEW p \in Position
    PROVE  SameBut(p, p) /\ Raised(p, p)
  <1>1. \A stop \in StopFields : p[stop] \in Stop
    BY DEF Position, StopFields
  <1> QED
    BY <1>1, CostAssumption DEF SameBut, Raised, Stop

LEMMA RaisedTrans ==
    ASSUME NEW p \in Position, NEW q \in Position, NEW r \in Position,
           SameBut(p, q), Raised(p, q), SameBut(q, r), Raised(q, r)
    PROVE  SameBut(p, r) /\ Raised(p, r)
  <1>1. \A stop \in StopFields :
            p[stop] \in Stop /\ q[stop] \in Stop /\ r[stop] \in Stop
    BY DEF Position, StopFields
  <1>2. SameBut(p, r)
    BY DEF SameBut
  <1>3. Raised(p, r)
    BY <1>1, CostAssumption DEF Raised, Stop
  <1> QED
    BY <1>2, <1>3

LEMMA ArmTrailRaises ==
    ASSUME NEW r \in Rules, NEW p \in Position, NEW price \in Int
    PROVE  /\ ArmTrail(r, p, price) \in Position
           /\ SameBut(p, ArmTrail(r, p, price)) /\ Raised(p, ArmTrail(r, p, price))
  <1> DEFINE q == ArmTrail(r, p, price)
             raised == RaiseOnly(p.trail, price - r.trail.distance)
  <1>1. CASE q = p
    BY <1>1, RaisedRefl
  <1>2. CASE q # p
    <2>1. r.trail # None /\ r.trail \in [activation : Nat, distance : Nat]
      BY <1>2 DEF ArmTrail, Rules
    <2>2. price - r.trail.distance \in Int
      BY <2>1
    <2>3. p.trail \in Stop
      BY DEF Position
    <2>4. raised \in Int /\ raised # None /\ (p.trail # None => raised >= p.trail)
      BY <2>2, <2>3, RaiseOnlyRaises
    <2>5. q = [p EXCEPT !.trail = raised]
      BY <1>2 DEF ArmTrail
    <2> HIDE DEF q, raised
    <2>6. q \in Position
      BY <2>4, <2>5 DEF Position, Stop
    <2>7. SameBut(p, q)
      BY <2>5 DEF SameBut, Position
    <2>8. q.trail = raised /\ q.stop = p.stop /\ q.atrTrail = p.atrTrail /\ q.lock = p.lock
      BY <2>5 DEF Position
    <2>9. Raised(p, q)
      <3>1. \A stop \in StopFields : p[stop] \in Stop
        BY DEF Position, StopFields
      <3> QED
        BY <3>1, <2>4, <2>8, CostAssumption DEF Raised, StopFields, Stop
    <2> QED
      BY <2>6, <2>7, <2>9 DEF q
  <1> QED
    BY <1>1, <1>2

LEMMA ArmAtrTrailRaises ==
    ASSUME NEW r \in Rules, NEW p \in Position, NEW price \in Int, NEW base \in Int
    PROVE  /\ ArmAtrTrail(r, p, price, base) \in Position
           /\ SameBut(p, ArmAtrTrail(r, p, price, base))
           /\ Raised(p, ArmAtrTrail(r, p, price, base))
  <1> DEFINE q == ArmAtrTrail(r, p, price, base)
             candidate == base - p.atr * r.atr.multiple
             raised == IF candidate > 0 THEN RaiseOnly(p.atrTrail, candidate)
                       ELSE p.atrTrail
  <1>1. CASE q = p
    BY <1>1, RaisedRefl
  <1>2. CASE q # p
    <2>1. /\ r.atr # None /\ p.atr # None
          /\ r.atr \in [activation : Nat, multiple : Nat, bars : Nat]
      BY <1>2 DEF ArmAtrTrail, Rules
    <2>2. p.atr \in Nat
      BY <2>1, BacktestAssumption DEF Position
    <2>3. candidate \in Int
      BY <2>1, <2>2
    <2>4. p.atrTrail \in Stop /\ p.peak \in Stop
      BY DEF Position
    <2>5. raised \in Stop /\ (p.atrTrail # None => raised # None /\ raised >= p.atrTrail)
      <3> HIDE DEF candidate
      <3> QED
        BY <2>3, <2>4, RaiseOnlyRaises, CostAssumption DEF Stop
    <2>6. RaiseOnly(p.peak, price) \in Stop
      BY <2>4, RaiseOnlyRaises DEF Stop
    <2>7. q = [p EXCEPT !.peak = RaiseOnly(p.peak, price), !.atrTrail = raised]
      BY <1>2 DEF ArmAtrTrail
    <2> HIDE DEF q, raised
    <2>8. q \in Position
      BY <2>5, <2>6, <2>7 DEF Position
    <2>9. SameBut(p, q)
      BY <2>7 DEF SameBut, Position
    <2>10. q.atrTrail = raised /\ q.stop = p.stop /\ q.trail = p.trail /\ q.lock = p.lock
      BY <2>7 DEF Position
    <2>11. Raised(p, q)
      <3>1. \A stop \in StopFields : p[stop] \in Stop
        BY DEF Position, StopFields
      <3> QED
        BY <3>1, <2>5, <2>10, CostAssumption DEF Raised, StopFields, Stop
    <2> QED
      BY <2>8, <2>9, <2>11 DEF q
  <1> QED
    BY <1>1, <1>2

LEMMA ActivateRaises ==
    ASSUME NEW r \in Rules, NEW p \in Position, NEW open \in Int
    PROVE  /\ ActivateAtOpen(r, p, open) \in Position
           /\ SameBut(p, ActivateAtOpen(r, p, open))
           /\ Raised(p, ActivateAtOpen(r, p, open))
  BY ArmTrailRaises, ArmAtrTrailRaises, RaisedTrans DEF ActivateAtOpen

LEMMA UpdateProfitLockRaises ==
    ASSUME NEW r \in Rules, NEW p \in Position
    PROVE  /\ UpdateProfitLock(r, p) \in Position
           /\ SameBut(p, UpdateProfitLock(r, p)) /\ Raised(p, UpdateProfitLock(r, p))
  <1> DEFINE q == UpdateProfitLock(r, p)
             reached(n) == p.high - p.entry >= n * p.risk
             even == IF reached(r.lock.breakEven)
                     THEN RaiseOnly(p.lock, p.entry + Cost) ELSE p.lock
             lock == IF reached(r.lock.oneR)
                     THEN RaiseOnly(even, p.entry + p.risk * r.lock.locked)
                     ELSE even
  <1>1. CASE r.lock = None
    BY <1>1, RaisedRefl DEF UpdateProfitLock
  <1>2. CASE r.lock # None
    <2>1. r.lock \in [breakEven : Nat, oneR : Nat, locked : Nat]
      BY <1>2 DEF Rules
    <2>2. p.lock \in Stop /\ p.entry + Cost \in Int
      BY CostAssumption DEF Position
    <2>3. even \in Stop /\ (p.lock # None => even # None /\ even >= p.lock)
      BY <2>2, RaiseOnlyRaises, CostAssumption DEF Stop
    <2>4. p.entry + p.risk * r.lock.locked \in Int
      BY <2>1 DEF Position
    <2>5. lock \in Stop /\ (even # None => lock # None /\ lock >= even)
      <3> HIDE DEF even
      <3> QED
        BY <2>3, <2>4, RaiseOnlyRaises, CostAssumption DEF Stop
    <2>6. q = [p EXCEPT !.lock = lock]
      BY <1>2 DEF UpdateProfitLock
    <2> HIDE DEF q, lock, even
    <2>7. p.lock # None => lock # None /\ lock >= p.lock
      BY <2>2, <2>3, <2>5, CostAssumption DEF Stop
    <2>8. q \in Position
      BY <2>5, <2>6 DEF Position
    <2>9. SameBut(p, q)
      BY <2>6 DEF SameBut, Position
    <2>10. q.lock = lock /\ q.stop = p.stop /\ q.trail = p.trail /\ q.atrTrail = p.atrTrail
      BY <2>6 DEF Position
    <2>11. Raised(p, q)
      <3>1. \A stop \in StopFields : p[stop] \in Stop
        BY DEF Position, StopFields
      <3> QED
        BY <3>1, <2>7, <2>10, CostAssumption DEF Raised, StopFields, Stop
    <2> QED
      BY <2>8, <2>9, <2>11 DEF q
  <1> QED
    BY <1>1, <1>2

LEMMA UpdateRaises ==
    ASSUME NEW r \in Rules, NEW p \in Position, NEW high \in Nat, NEW atr \in Atrs
    PROVE  /\ UpdateAfterBar(r, p, high, atr) \in Position
           /\ SameBut(p, UpdateAfterBar(r, p, high, atr))
           /\ Raised(p, UpdateAfterBar(r, p, high, atr))
  <1> DEFINE seen == [p EXCEPT !.high = Larger(p.high, high), !.bars = p.bars + 1]
             trailed == ArmTrail(r, UpdateProfitLock(r, seen), high)
             next == [trailed EXCEPT !.atr = IF r.atr = None \/ atr = None
                                             THEN trailed.atr ELSE atr]
  <1>1. seen \in Position /\ SameBut(p, seen) /\ Raised(p, seen)
    <2>1. Larger(p.high, high) \in Nat /\ p.bars + 1 \in Nat
      BY DEF Position, Larger
    <2>2. seen \in Position
      BY <2>1 DEF Position
    <2>3. SameBut(p, seen)
      BY DEF SameBut, Position
    <2>4. \A stop \in StopFields : seen[stop] = p[stop]
      BY DEF Position, StopFields
    <2>5. Raised(p, seen)
      BY <2>4, RaisedRefl DEF Raised
    <2> QED
      BY <2>2, <2>3, <2>5
  <1>2. trailed \in Position /\ SameBut(p, trailed) /\ Raised(p, trailed)
    <2> HIDE DEF seen
    <2>1. /\ UpdateProfitLock(r, seen) \in Position
          /\ SameBut(seen, UpdateProfitLock(r, seen))
          /\ Raised(seen, UpdateProfitLock(r, seen))
      BY <1>1, UpdateProfitLockRaises
    <2>2. /\ SameBut(p, UpdateProfitLock(r, seen))
          /\ Raised(p, UpdateProfitLock(r, seen))
      BY <1>1, <2>1, RaisedTrans
    <2>3. /\ trailed \in Position /\ SameBut(UpdateProfitLock(r, seen), trailed)
          /\ Raised(UpdateProfitLock(r, seen), trailed)
      BY <2>1, ArmTrailRaises
    <2> QED
      BY <2>1, <2>2, <2>3, RaisedTrans
  <1>3. next \in Position /\ SameBut(p, next) /\ Raised(p, next)
    <2> HIDE DEF trailed
    <2>1. next \in Position
      BY <1>2 DEF Position
    <2>2. SameBut(trailed, next)
      BY <1>2 DEF SameBut, Position
    <2>3. \A stop \in StopFields : next[stop] = trailed[stop]
      BY <1>2 DEF Position, StopFields
    <2>4. Raised(trailed, next)
      BY <1>2, <2>3, RaisedRefl DEF Raised
    <2> QED
      BY <1>2, <2>1, <2>2, <2>4, RaisedTrans
  <1>4. UpdateAfterBar(r, p, high, atr)
        = ArmAtrTrail(r, next, high, RaiseOnly(next.peak, high))
    BY DEF UpdateAfterBar
  <1> HIDE DEF next
  <1>5. RaiseOnly(next.peak, high) \in Int
    BY <1>3, RaiseOnlyRaises DEF Position
  <1> QED
    BY <1>3, <1>4, <1>5, ArmAtrTrailRaises, RaisedTrans

-----------------------------------------------------------------------------
\* The position manager: what it decides.

\* What is sold is there, and all of it unless a level is, which has not been
\* sold before.
Sound(r, p, d) ==
    /\ d.quantity \in 0 .. p.quantity
    /\ d.price \in Nat \cup {None}
    /\ d.level = None => d.quantity = p.quantity
    /\ d.level # None => d.level \in DOMAIN r.partial /\ d.level \notin p.triggered

\* No profit order is due at a price.
NothingDue(r, p, seen) ==
    /\ p.target # None => seen < p.target
    /\ \A i \in DOMAIN r.partial : i \notin p.triggered =>
           seen < p.entry + r.partial[i].profit

\* The trigger of a profit order that has been reached.
Trigger(r, p, seen, price) ==
    /\ price <= seen
    /\ \/ p.target # None /\ price = p.target
       \/ \E i \in DOMAIN r.partial :
              i \notin p.triggered /\ price = p.entry + r.partial[i].profit

LEMMA LevelTypes ==
    ASSUME NEW r \in Rules
    PROVE  /\ Len(r.partial) \in Nat /\ DOMAIN r.partial = 1 .. Len(r.partial)
           /\ \A i \in DOMAIN r.partial :
                  r.partial[i] \in [profit : Nat, part : Nat \ {0},
                                   original : BOOLEAN]
  <1>1. r.partial \in Seq([profit : Nat, part : Nat \ {0}, original : BOOLEAN])
    BY DEF Rules
  <1> DEFINE levels == r.partial
             Level == [profit : Nat, part : Nat \ {0}, original : BOOLEAN]
  <1>2. levels \in Seq(Level)
    BY <1>1
  <1> HIDE DEF levels, Level
  <1>3. /\ Len(levels) \in Nat /\ DOMAIN levels = 1 .. Len(levels)
        /\ \A i \in DOMAIN levels : levels[i] \in Level
    BY <1>2
  <1> QED
    BY <1>3 DEF levels, Level

LEMMA SellSound ==
    ASSUME NEW r \in Rules, NEW p \in Position, NEW price \in Nat \cup {None},
           NEW reason
    PROVE  /\ Sound(r, p, Sell(p, price, reason))
           /\ Sell(p, price, reason).price = price
           /\ Sell(p, price, reason).reason = reason
           /\ Sell(p, price, reason).quantity = p.quantity
           /\ Sell(p, price, reason).level = None
  <1>1. p.quantity \in Nat
    BY BacktestAssumption DEF Position
  <1> QED
    BY <1>1 DEF Sound, Sell, Decision

LEMMA PartialSound ==
    ASSUME NEW r \in Rules, NEW p \in Position, NEW seen \in Nat,
           NEW gap \in {seen, None}, Reached(r, p, seen) # {}
    PROVE  LET d == PartialDecision(r, p, seen, gap) IN
           /\ Sound(r, p, d) /\ d.reason = "partial"
           /\ gap # None => d.price = gap
           /\ gap = None => d.price \in Nat /\ Trigger(r, p, seen, d.price)
  <1> DEFINE i == Min(Reached(r, p, seen))
             level == r.partial[i]
             basis == IF level.original THEN p.initial ELSE p.quantity
             part == basis \div level.part
             quantity == IF part < p.quantity THEN part ELSE p.quantity
             price == IF gap = None THEN p.entry + level.profit ELSE gap
             d == PartialDecision(r, p, seen, gap)
  <1>1. DOMAIN r.partial \subseteq Nat
    BY LevelTypes
  <1>2. Reached(r, p, seen) \in SUBSET Nat
    BY <1>1 DEF Reached
  <1>3. i \in Reached(r, p, seen)
    BY <1>2, Least
  <1>4. /\ i \in DOMAIN r.partial /\ i \notin p.triggered
        /\ seen >= p.entry + r.partial[i].profit
    BY <1>3 DEF Reached
  <1>5. level \in [profit : Nat, part : Nat \ {0}, original : BOOLEAN]
    BY <1>4, LevelTypes
  <1>6. basis \in Nat /\ p.quantity \in Nat /\ p.entry \in Nat
    BY BacktestAssumption DEF Position
  <1>7. d = [quantity |-> quantity, price |-> price, level |-> i, reason |-> "partial"]
    BY DEF PartialDecision, Decision
  <1> HIDE DEF i, d
  <1>8. part \in Nat
    <2> HIDE DEF level, basis
    <2>1. level.part \in Nat \ {0}
      BY <1>5
    <2> QED
      BY <1>6, <2>1
  <1>9. quantity \in 0 .. p.quantity
    <2> HIDE DEF part
    <2> QED
      BY <1>6, <1>8
  <1>10. price \in Nat \cup {None}
    BY <1>5, <1>6
  <1>11. i # None
    BY <1>1, <1>4, CostAssumption
  <1>12. Sound(r, p, d)
    <2> HIDE DEF quantity, price
    <2> QED
      BY <1>4, <1>7, <1>9, <1>10, <1>11 DEF Sound
  <1>13. gap # None => d.price = gap
    BY <1>7
  <1>14. gap = None => d.price \in Nat /\ Trigger(r, p, seen, d.price)
    <2> SUFFICES ASSUME gap = None
                 PROVE  d.price \in Nat /\ Trigger(r, p, seen, d.price)
      OBVIOUS
    <2>1. d.price = p.entry + r.partial[i].profit
      BY <1>7
    <2>2. r.partial[i].profit \in Nat
      BY <1>5
    <2>3. p.entry + r.partial[i].profit <= seen
      BY <1>4, <1>6, <2>2
    <2> QED
      BY <1>4, <1>6, <2>1, <2>2, <2>3 DEF Trigger
  <1> QED
    BY <1>7, <1>12, <1>13, <1>14 DEF d

LEMMA ProfitSound ==
    ASSUME NEW r \in Rules, NEW p \in Position, NEW seen \in Nat,
           NEW gap \in {seen, None}
    PROVE  LET d == ProfitDecision(r, p, seen, gap) IN
           /\ d = Hold => NothingDue(r, p, seen)
           /\ d # Hold =>
                 /\ Sound(r, p, d) /\ d.reason # "stop"
                 /\ gap # None => d.price = gap
                 /\ gap = None => d.price \in Nat /\ Trigger(r, p, seen, d.price)
  <1> DEFINE d == ProfitDecision(r, p, seen, gap)
             levels == Reached(r, p, seen)
             first == p.entry + r.partial[Min(levels)].profit
             atTarget == /\ p.target # None /\ seen >= p.target
                         /\ levels = {} \/ p.target <= first
  <1>1. p.target \in Nat \cup {None} /\ p.entry \in Nat /\ None \notin Nat
    BY CostAssumption DEF Position
  <1>2. CASE atTarget
    <2> DEFINE price == IF gap = None THEN p.target ELSE gap
    <2>1. d = Sell(p, price, "target")
      BY <1>2 DEF ProfitDecision
    <2>2. price \in Nat
      BY <1>1, <1>2
    <2> HIDE DEF price, d
    <2>3. Sound(r, p, d) /\ d.price = price /\ d.reason = "target"
      BY <2>1, <2>2, SellSound
    <2>4. d # Hold
      BY <2>3 DEF Hold, Decision
    <2>5. gap = None => Trigger(r, p, seen, price)
      BY <1>1, <1>2 DEF Trigger, price
    <2>6. gap # None => price = gap
      BY DEF price
    <2> QED
      BY <2>2, <2>3, <2>4, <2>5, <2>6 DEF d
  <1>3. CASE ~atTarget /\ levels # {}
    <2>1. d = PartialDecision(r, p, seen, gap)
      BY <1>3 DEF ProfitDecision
    <2> HIDE DEF d
    <2>2. /\ Sound(r, p, d) /\ d.reason = "partial"
          /\ gap # None => d.price = gap
          /\ gap = None => d.price \in Nat /\ Trigger(r, p, seen, d.price)
      BY <1>3, <2>1, PartialSound
    <2>3. d # Hold
      BY <2>2 DEF Hold, Decision
    <2> QED
      BY <2>2, <2>3 DEF d
  <1>4. CASE ~atTarget /\ levels = {}
    <2>1. d = Hold
      BY <1>4 DEF ProfitDecision
    <2>2. p.target # None => seen < p.target
      BY <1>1, <1>4
    <2>3. ASSUME NEW i \in DOMAIN r.partial, i \notin p.triggered
          PROVE  seen < p.entry + r.partial[i].profit
      <3>1. r.partial[i].profit \in Nat
        BY LevelTypes
      <3>2. ~(seen >= p.entry + r.partial[i].profit)
        BY <1>4, <2>3 DEF Reached
      <3> QED
        BY <1>1, <3>1, <3>2
    <2> QED
      BY <2>1, <2>2, <2>3 DEF NothingDue
  <1> QED
    BY <1>2, <1>3, <1>4

LEMMA HitIs ==
    ASSUME NEW p \in Position, NEW price \in Int
    PROVE  /\ Stops(p) \in SUBSET Int /\ Topped(Stops(p))
           /\ Hit(p, price) => /\ Max(Stops(p)) \in Stops(p)
                               /\ price <= Max(Stops(p))
           /\ ~Hit(p, price) => \A stop \in Stops(p) : stop < price
  <1>1. Stops(p) \in SUBSET Int /\ Topped(Stops(p))
    BY StopsTopped DEF Position
  <1>2. Stops(p) # {} =>
            Max(Stops(p)) \in Stops(p) /\ \A stop \in Stops(p) : stop <= Max(Stops(p))
    BY <1>1, Greatest
  <1>3. \A stop \in Stops(p) : stop \in Int
    BY <1>1
  <1>4. Hit(p, price) <=> Stops(p) # {} /\ price <= Max(Stops(p))
    BY DEF Hit
  <1>5. ASSUME ~Hit(p, price), NEW stop \in Stops(p) PROVE stop < price
    <2>1. Max(Stops(p)) \in Int /\ stop \in Int /\ stop <= Max(Stops(p))
      BY <1>2, <1>3
    <2>2. ~(price <= Max(Stops(p)))
      BY <1>4, <1>5
    <2> QED
      BY <2>1, <2>2
  <1> QED
    BY <1>1, <1>2, <1>4, <1>5

LEMMA OpenSound ==
    ASSUME NEW r \in Rules, NEW p \in Position, NEW open \in Nat
    PROVE  LET d == EvaluateOpen(r, p, open) IN
           /\ d = Hold => Ahead(r, p, open)
           /\ d # Hold => Sound(r, p, d) /\ d.price = open
  <1> DEFINE d == EvaluateOpen(r, p, open)
  <1>0. None \notin Nat
    BY CostAssumption
  <1>1. CASE Hit(p, open)
    <2>1. d = Sell(p, open, "stop")
      BY <1>1 DEF EvaluateOpen
    <2> HIDE DEF d
    <2>2. Sound(r, p, d) /\ d.price = open /\ d.reason = "stop"
      BY <2>1, SellSound
    <2>3. d # Hold
      BY <2>2 DEF Hold, Decision
    <2> QED
      BY <2>2, <2>3 DEF d
  <1>2. CASE ~Hit(p, open)
    <2>1. d = ProfitDecision(r, p, open, open)
      BY <1>2 DEF EvaluateOpen
    <2> HIDE DEF d
    <2>2. /\ d = Hold => NothingDue(r, p, open)
          /\ d # Hold => Sound(r, p, d) /\ d.price = open
      BY <1>0, <2>1, ProfitSound
    <2>3. \A stop \in Stops(p) : stop < open
      BY <1>2, HitIs
    <2>4. p.target \in Nat \cup {None} /\ p.entry \in Nat
      BY DEF Position
    <2>5. \A i \in DOMAIN r.partial : r.partial[i].profit \in Nat
      BY LevelTypes
    <2>6. NothingDue(r, p, open) => Ahead(r, p, open)
      BY <1>0, <2>3, <2>4, <2>5 DEF NothingDue, Ahead
    <2> QED
      BY <2>2, <2>6 DEF d
  <1> QED
    BY <1>1, <1>2

\* In the range of a bar that was faced, the stops come first.
LEMMA RangeSound ==
    ASSUME NEW r \in Rules, NEW p \in Position, NEW low \in Nat, NEW high \in Nat,
           NEW open \in Nat, low <= open, open <= high, Ahead(r, p, open)
    PROVE  LET d == EvaluateIntrabar(r, p, low, high) IN
           /\ d = Hold => \A stop \in Stops(p) : stop < low
           /\ d # Hold =>
                 /\ Sound(r, p, d) /\ d.price \in Nat
                 /\ low <= d.price /\ d.price <= high
                 /\ IF Stops(p) # {} /\ low <= Max(Stops(p))
                    THEN /\ d.quantity = p.quantity /\ d.price = Max(Stops(p))
                         /\ d.reason = "stop"
                    ELSE d.reason # "stop"
  <1> DEFINE d == EvaluateIntrabar(r, p, low, high)
  <1>0. None \notin Nat
    BY CostAssumption
  <1>1. CASE Hit(p, low)
    <2> DEFINE top == Max(Stops(p))
    <2>1. d = Sell(p, top, "stop")
      BY <1>1 DEF EvaluateIntrabar
    <2>2. Stops(p) # {} /\ low <= top
      BY <1>1 DEF Hit
    <2>3. top \in Stops(p) /\ top \in Int
      BY <1>1, HitIs
    <2>4. top < open
      BY <2>3 DEF Ahead
    <2> HIDE DEF d, top
    <2>5. top \in Nat /\ top <= high
      BY <2>2, <2>3, <2>4
    <2>6. /\ Sound(r, p, d) /\ d.price = top /\ d.reason = "stop"
          /\ d.quantity = p.quantity
      BY <2>1, <2>5, SellSound
    <2>7. d # Hold
      BY <2>6 DEF Hold, Decision
    <2> QED
      BY <2>2, <2>5, <2>6, <2>7 DEF d, top
  <1>2. CASE ~Hit(p, low)
    <2>1. d = ProfitDecision(r, p, high, None)
      BY <1>2 DEF EvaluateIntrabar
    <2>2. ~(Stops(p) # {} /\ low <= Max(Stops(p)))
      BY <1>2 DEF Hit
    <2>3. \A stop \in Stops(p) : stop < low
      BY <1>2, HitIs
    <2> HIDE DEF d
    <2>4. d # Hold => /\ Sound(r, p, d) /\ d.reason # "stop"
                      /\ d.price \in Nat /\ Trigger(r, p, high, d.price)
      BY <2>1, ProfitSound
    <2>5. d # Hold => open <= d.price /\ d.price <= high
      BY <2>4 DEF Trigger, Ahead
    <2>6. d # Hold => low <= d.price
      BY <2>4, <2>5
    <2> QED
      BY <2>2, <2>3, <2>4, <2>5, <2>6 DEF d
  <1> QED
    BY <1>1, <1>2

LEMMA CloseSound ==
    ASSUME NEW r \in Rules, NEW p \in Position, NEW best, NEW view
    PROVE  LET d == EvaluateClose(r, p, best, view) IN
           /\ d # Hold => Sound(r, p, d) /\ d.price = None /\ d.quantity = p.quantity
           /\ d = Hold => (r.hold # None /\ r.hold.hard => p.days < r.hold.days)
  <1> DEFINE d == EvaluateClose(r, p, best, view)
  <1>1. d = Sell(p, None, "close") \/ d = Hold
    BY DEF EvaluateClose
  <1>2. /\ Sound(r, p, Sell(p, None, "close"))
        /\ Sell(p, None, "close").price = None
        /\ Sell(p, None, "close").quantity = p.quantity
    <2>1. \A price \in Nat \cup {None} :
              /\ Sound(r, p, Sell(p, price, "close"))
              /\ Sell(p, price, "close").price = price
              /\ Sell(p, price, "close").quantity = p.quantity
      BY SellSound
    <2> QED
      BY <2>1
  <1>3. Sell(p, None, "close") # Hold
    BY DEF Sell, Hold, Decision
  <1>4. d = Hold /\ r.hold # None /\ r.hold.hard => ~(p.days >= r.hold.days)
    BY <1>3 DEF EvaluateClose
  <1>5. p.days \in Nat /\ (r.hold # None => r.hold.days \in Nat)
    BY DEF Position, Rules
  <1> HIDE DEF d
  <1> QED
    BY <1>1, <1>2, <1>4, <1>5 DEF d

-----------------------------------------------------------------------------
\* What is bought, and what is left after a sale.
LEMMA RuleTypes ==
    ASSUME NEW r \in RuleSets
    PROVE  /\ r \in Rules
           /\ r.slip \in Nat /\ r.distances \in SUBSET Nat
           /\ r.max_positions \in Nat \ {0} /\ r.max_sector_positions \in Nat \ {0}
           /\ r.target \in Nat \cup {None}
  <1>1. r \in Rules
    BY BacktestAssumption
  <1> QED
    BY <1>1 DEF Rules

LEMMA OpenedSound ==
    ASSUME rules \in RuleSets, NEW open \in Nat, NEW distance \in rules.distances,
           distance < open + rules.slip, NEW atr \in Atrs
    PROVE  LET p == Opened(open, distance, atr) IN
           /\ p \in Position
           /\ p.quantity = Quantity /\ p.initial = Quantity
           /\ p.value = p.entry * p.initial /\ p.fee = Fee * p.initial
           /\ p.triggered = {}
           /\ Ahead(rules, p, open)
  <1> DEFINE fill == open + rules.slip
             target == IF rules.target = None THEN None ELSE fill + rules.target
             stop == IF rules.stop THEN fill - distance ELSE None
             reading == IF rules.atr = None THEN None ELSE atr
             bought == [entry |-> fill, quantity |-> Quantity,
                        initial |-> Quantity, value |-> fill * Quantity,
                        fee |-> Fee * Quantity, risk |-> distance,
                        stop |-> stop, target |-> target, trail |-> None,
                        atrTrail |-> None, lock |-> None, peak |-> None,
                        atr |-> reading, high |-> fill, bars |-> 0,
                        days |-> 1, triggered |-> {}]
             trailed == ArmTrail(rules, bought, fill)
             p == Opened(open, distance, atr)
  <1>1. /\ rules \in Rules /\ rules.slip \in Nat /\ distance \in Nat
        /\ rules.target \in Nat \cup {None} /\ fill \in Nat
        /\ distance > rules.slip /\ None \notin Int
        /\ Fee \in Nat /\ Quantity \in Nat \ {0}
    BY RuleTypes, BacktestAssumption, CostAssumption
  <1>2. /\ target \in Nat \cup {None} /\ (target # None => target >= open)
        /\ stop \in Stop /\ (stop # None => stop < open)
    BY <1>1 DEF Stop
  <1>3. fill * Quantity \in Nat /\ Fee * Quantity \in Nat
    BY <1>1
  <1>4. reading \in Atrs \cup {None}
    OBVIOUS
  <1>5. p = ArmAtrTrail(rules, trailed, fill, fill)
    BY DEF Opened, ActivateAtOpen
  <1> HIDE DEF fill, target, stop, reading, trailed, p
  <1>6. bought \in Position
    <2>1. Quantity \in 1 .. Quantity
      BY <1>1
    <2> QED
      BY <1>1, <1>2, <1>3, <1>4, <2>1 DEF Position, Stop
  <1> DEFINE q == bought
  <1>7. /\ q.entry = fill /\ q.quantity = Quantity /\ q.initial = Quantity
        /\ q.value = fill * Quantity /\ q.fee = Fee * Quantity
        /\ q.triggered = {} /\ q.target = target /\ q.bars = 0 /\ q.atr = reading
        /\ q.stop = stop /\ q.trail = None /\ q.atrTrail = None /\ q.lock = None
    OBVIOUS
  <1>8. q \in Position /\ trailed = ArmTrail(rules, q, fill)
    BY <1>6 DEF trailed
  <1> HIDE DEF q
  <1>9. trailed \in Position /\ SameBut(q, trailed)
    BY <1>1, <1>8, ArmTrailRaises
  <1>10. /\ trailed.stop = stop /\ trailed.atrTrail = None /\ trailed.lock = None
         /\ trailed.bars = 0 /\ trailed.atr = reading
    BY <1>7, <1>8 DEF ArmTrail, Position
  <1>11. trailed.trail # None => trailed.trail \in Int /\ trailed.trail < open
    <2>1. CASE rules.trail = None \/ fill < fill + rules.trail.activation
      BY <1>7, <1>8, <2>1 DEF ArmTrail
    <2>2. CASE ~(rules.trail = None \/ fill < fill + rules.trail.activation)
      <3>1. rules.trail \in [activation : Nat, distance : Nat]
        BY <1>1, <2>2 DEF Rules
      <3>2. rules.trail.distance > rules.slip
        <4>1. rules.trail.activation > 0 \/ rules.trail.distance > rules.slip
          BY <2>2, BacktestAssumption
        <4> QED
          BY <1>1, <2>2, <3>1, <4>1
      <3>3. trailed.trail = fill - rules.trail.distance
        BY <1>7, <1>8, <2>2 DEF ArmTrail, RaiseOnly, Position
      <3>4. fill - rules.trail.distance < open
        BY <1>1, <3>1, <3>2 DEF fill
      <3> QED
        BY <1>1, <3>1, <3>3, <3>4
    <2> QED
      BY <2>1, <2>2
  <1>12. p \in Position /\ SameBut(trailed, p)
    <2>1. fill \in Int
      BY <1>1
    <2>2. /\ ArmAtrTrail(rules, trailed, fill, fill) \in Position
          /\ SameBut(trailed, ArmAtrTrail(rules, trailed, fill, fill))
      BY <1>1, <1>9, <2>1, ArmAtrTrailRaises
    <2> QED
      BY <1>5, <2>2
  <1>13. p.stop = stop /\ p.trail = trailed.trail /\ p.lock = None
    BY <1>5, <1>9, <1>10 DEF ArmAtrTrail, Position
  <1>14. p.atrTrail # None => p.atrTrail \in Int /\ p.atrTrail < open
    <2> DEFINE off == \/ rules.atr = None \/ trailed.atr = None
                      \/ trailed.bars < rules.atr.bars
                      \/ fill < trailed.entry + rules.atr.activation
               candidate == fill - trailed.atr * rules.atr.multiple
    <2>1. CASE off
      BY <1>5, <1>10, <2>1 DEF ArmAtrTrail
    <2>2. CASE ~off
      <3>1. rules.atr # None /\ trailed.atr = atr /\ atr # None
        BY <1>10, <2>2 DEF reading
      <3>2. rules.atr \in [activation : Nat, multiple : Nat, bars : Nat]
        BY <1>1, <3>1 DEF Rules
      <3>3. trailed.entry = fill
        BY <1>7, <1>9 DEF SameBut
      <3>4. rules.atr.activation = 0 /\ rules.atr.bars = 0
        BY <1>1, <1>10, <2>2, <3>2, <3>3
      <3>5. atr \in Atrs \ {None} /\ atr \in Nat
        BY <3>1, BacktestAssumption
      <3>6. atr * rules.atr.multiple > rules.slip
        <4>1. \/ rules.atr.activation + rules.atr.bars > 0
              \/ atr * rules.atr.multiple > rules.slip
          BY <3>1, <3>5, BacktestAssumption
        <4>2. ~(rules.atr.activation + rules.atr.bars > 0)
          BY <3>4
        <4> QED
          BY <4>1, <4>2
      <3>7. atr * rules.atr.multiple \in Int
        BY <3>2, <3>5
      <3>8. candidate \in Int /\ candidate < open
        <4> DEFINE width == atr * rules.atr.multiple
        <4>1. candidate = fill - width
          BY <3>1
        <4> HIDE DEF width, candidate
        <4>2. width \in Int /\ width > rules.slip
          BY <3>6, <3>7 DEF width
        <4> QED
          BY <1>1, <4>1, <4>2 DEF fill
      <3>9. p.atrTrail = IF candidate > 0 THEN candidate ELSE None
        BY <1>5, <1>9, <1>10, <2>2 DEF ArmAtrTrail, RaiseOnly, Position
      <3> HIDE DEF candidate
      <3> QED
        BY <3>8, <3>9
    <2> QED
      BY <2>1, <2>2
  <1>15. /\ p.entry = fill /\ p.quantity = Quantity /\ p.initial = Quantity
         /\ p.value = fill * Quantity /\ p.fee = Fee * Quantity
         /\ p.triggered = {} /\ p.target = target
    BY <1>7, <1>9, <1>12 DEF SameBut
  <1>16. Ahead(rules, p, open)
    <2>1. \A x \in Stops(p) : x < open
      BY <1>2, <1>11, <1>13, <1>14 DEF Stops
    <2>2. ASSUME NEW i \in DOMAIN rules.partial
          PROVE  fill + rules.partial[i].profit >= open
      <3>1. rules.partial[i].profit \in Nat
        BY <1>1, LevelTypes
      <3> QED
        BY <1>1, <3>1 DEF fill
    <2> QED
      BY <1>2, <1>15, <2>1, <2>2 DEF Ahead
  <1> QED
    BY <1>12, <1>15, <1>16 DEF p

\* What has been sold of the levels can be counted.
LEMMA TriggeredFinite ==
    ASSUME NEW r \in Rules, NEW T, T \subseteq DOMAIN r.partial
    PROVE  IsFiniteSet(T) /\ Cardinality(T) \in Nat /\ Cardinality(T) <= Len(r.partial)
  <1>1. Len(r.partial) \in Nat /\ DOMAIN r.partial = 1 .. Len(r.partial)
    BY LevelTypes
  <1>2. /\ IsFiniteSet(1 .. Len(r.partial))
        /\ Cardinality(1 .. Len(r.partial)) = Len(r.partial)
    BY <1>1, FS_Interval
  <1>3. /\ IsFiniteSet(T) /\ Cardinality(T) <= Cardinality(1 .. Len(r.partial))
    BY <1>1, <1>2, FS_Subset
  <1> QED
    BY <1>2, <1>3, FS_CardinalityType

LEMMA AfterSaleKeeps ==
    ASSUME NEW r \in Rules, NEW p \in Position, NEW d, Sound(r, p, d), ~Whole(p, d),
           p.triggered \subseteq DOMAIN r.partial
    PROVE  LET q == AfterSale(p, d) IN
           /\ q \in Position
           /\ d.level \in DOMAIN r.partial /\ d.level \notin p.triggered
           /\ d.level # None
           /\ q.triggered = p.triggered \cup {d.level}
           /\ q.entry = p.entry /\ q.initial = p.initial
           /\ q.quantity = p.quantity - d.quantity
           /\ q.value = p.value - (p.value * d.quantity) \div p.quantity
           /\ q.fee = p.fee - (p.fee * d.quantity) \div p.quantity
           /\ \A stop \in StopFields : q[stop] = p[stop]
           /\ Stops(q) = Stops(p)
           /\ \A open : Ahead(r, p, open) => Ahead(r, q, open)
  <1> DEFINE value == p.value - (p.value * d.quantity) \div p.quantity
             fee == p.fee - (p.fee * d.quantity) \div p.quantity
             high == IF d.price = None THEN p.high ELSE Larger(p.high, d.price)
             triggered == p.triggered \cup {d.level}
             q == AfterSale(p, d)
  <1>1. /\ p.quantity \in Nat \ {0} /\ p.quantity \in 1 .. Quantity /\ p.high \in Nat
        /\ p.value \in Nat /\ p.fee \in Nat /\ p.triggered \in SUBSET Nat
        /\ Quantity \in Nat
    BY BacktestAssumption DEF Position
  <1>2. d.quantity \in 0 .. p.quantity /\ d.quantity < p.quantity
    BY <1>1 DEF Sound, Whole
  <1>3. /\ d.level # None /\ d.level \in DOMAIN r.partial
        /\ d.level \notin p.triggered
    BY <1>1, <1>2 DEF Sound
  <1>4. value \in Nat
    <2>1. (p.value * d.quantity) \div p.quantity \in 0 .. p.value
      BY <1>1, <1>2, Shares
    <2> QED
      BY <1>1, <2>1
  <1>5. fee \in Nat
    <2>1. (p.fee * d.quantity) \div p.quantity \in 0 .. p.fee
      BY <1>1, <1>2, Shares
    <2> QED
      BY <1>1, <2>1
  <1>6. high \in Nat
    BY <1>1 DEF Sound, Larger
  <1>7. triggered \in SUBSET Nat
    BY <1>1, <1>3, LevelTypes
  <1>8. p.quantity - d.quantity \in 1 .. Quantity
    BY <1>1, <1>2
  <1>9. q = [p EXCEPT !.quantity = p.quantity - d.quantity, !.value = value,
                      !.fee = fee, !.high = high, !.triggered = triggered]
    BY <1>3 DEF AfterSale
  <1> HIDE DEF q, value, fee, high, triggered
  <1>10. q \in Position
    BY <1>4, <1>5, <1>6, <1>7, <1>8, <1>9 DEF Position
  <1>11. /\ q.entry = p.entry /\ q.initial = p.initial /\ q.target = p.target
         /\ q.quantity = p.quantity - d.quantity
         /\ q.value = value /\ q.fee = fee /\ q.triggered = triggered
         /\ q.stop = p.stop /\ q.trail = p.trail /\ q.atrTrail = p.atrTrail
         /\ q.lock = p.lock
    BY <1>9 DEF Position
  <1>12. Stops(q) = Stops(p)
    BY <1>11 DEF Stops
  <1>13. \A stop \in StopFields : q[stop] = p[stop]
    BY <1>11 DEF StopFields
  <1>14. \A open : Ahead(r, p, open) => Ahead(r, q, open)
    BY <1>11, <1>12 DEF Ahead, triggered
  <1> QED
    BY <1>3, <1>10, <1>11, <1>12, <1>13, <1>14 DEF q, value, fee, triggered

-----------------------------------------------------------------------------
\* A sale.
LEMMA ExecuteKeeps ==
    ASSUME TypeOK, Control, LegsAddUp, rules' = rules,
           NEW s \in Held, NEW p \in Position, SameBut(positions[s], p),
           NEW d, Sound(rules, p, d), Execute(s, p, d)
    PROVE  /\ positions' \in [Symbols -> Position \cup {None}]
           /\ closedDates' \in [Symbols -> Sessions \cup {None}]
           /\ legs' \in [Symbols -> Legs]
           /\ LegsAddUp'
           /\ \A x \in Symbols \ {s} : /\ positions'[x] = positions[x]
                                       /\ closedDates'[x] = closedDates[x]
                                       /\ legs'[x] = legs[x]
           /\ positions'[s] = IF Whole(p, d) THEN None ELSE AfterSale(p, d)
           /\ Whole(p, d) /\ phase # "final" => closedDates'[s] = session
           /\ Held' = IF Whole(p, d) THEN Held \ {s} ELSE Held
           /\ \A x \in Held' : positions'[x].triggered \subseteq DOMAIN rules.partial
  <1> DEFINE q == AfterSale(p, d)
             l == legs[s]
             soldValue == (p.value * d.quantity) \div p.quantity
             soldFee == (p.fee * d.quantity) \div p.quantity
             levels == l.levels + (IF d.level = None THEN 0 ELSE 1)
  <1>1. /\ s \in Symbols /\ rules \in Rules /\ session \in Sessions
        /\ positions \in [Symbols -> Position \cup {None}]
        /\ closedDates \in [Symbols -> Sessions \cup {None}]
        /\ legs \in [Symbols -> Legs] /\ positions[s] # None
    BY RuleTypes DEF TypeOK, Held
  <1>2. /\ l \in Legs /\ l.quantity \in Nat /\ l.value \in Nat /\ l.fee \in Nat
        /\ l.levels \in Nat
    BY <1>1 DEF Legs
  <1>3. p.triggered \subseteq DOMAIN rules.partial
    BY DEF Control, SameBut
  <1>4. /\ l.quantity + p.quantity = p.initial
        /\ l.value + p.value = p.entry * p.initial
        /\ l.fee + p.fee = Fee * p.initial
        /\ l.levels = Cardinality(p.triggered)
    BY <1>1 DEF LegsAddUp, SameBut
  <1>5. /\ p.quantity \in Nat \ {0} /\ p.value \in Nat /\ p.fee \in Nat
        /\ p.initial = Quantity /\ Quantity \in Nat /\ Fee \in Nat
    BY BacktestAssumption DEF Position
  <1>6. /\ d.quantity \in 0 .. p.quantity
        /\ Whole(p, d) <=> d.quantity = p.quantity
        /\ d.level = None => Whole(p, d)
        /\ d.level # None => d.level \in DOMAIN rules.partial /\ d.level \notin p.triggered
    BY <1>5 DEF Sound, Whole
  <1>7. /\ soldValue \in 0 .. p.value /\ soldFee \in 0 .. p.fee
        /\ Whole(p, d) => soldFee = p.fee
    <2>1. soldValue \in 0 .. p.value
      BY <1>5, <1>6, Shares
    <2>2. soldFee \in 0 .. p.fee /\ (d.quantity = p.quantity => soldFee = p.fee)
      BY <1>5, <1>6, Shares
    <2> QED
      BY <1>6, <2>1, <2>2
  <1>8. ~Whole(p, d) =>
            /\ q \in Position
            /\ q.triggered = p.triggered \cup {d.level}
            /\ q.triggered \subseteq DOMAIN rules.partial
            /\ q.entry = p.entry /\ q.initial = p.initial
            /\ q.quantity = p.quantity - d.quantity
            /\ q.value = p.value - soldValue /\ q.fee = p.fee - soldFee
    BY <1>1, <1>3, AfterSaleKeeps
  <1>9. /\ positions' = [positions EXCEPT ![s] = IF Whole(p, d) THEN None ELSE q]
        /\ closedDates' = IF Whole(p, d) /\ phase # "final" THEN Closed(s)
                          ELSE closedDates
        /\ legs' = [legs EXCEPT ![s] =
                       [quantity |-> l.quantity + d.quantity,
                        value |-> l.value + soldValue, fee |-> l.fee + soldFee,
                        levels |-> levels]]
    BY DEF Execute
  <1> HIDE DEF q, l, soldValue, soldFee, levels
  <1>10. levels \in Nat
    BY <1>2 DEF levels
  <1>11. positions' \in [Symbols -> Position \cup {None}]
    BY <1>1, <1>8, <1>9
  <1>12. closedDates' \in [Symbols -> Sessions \cup {None}]
    BY <1>1, <1>9 DEF Closed
  <1>13. /\ l.quantity + d.quantity \in Nat /\ l.value + soldValue \in Nat
         /\ l.fee + soldFee \in Nat
    BY <1>2, <1>5, <1>6, <1>7
  <1>14. legs' \in [Symbols -> Legs]
    BY <1>1, <1>9, <1>10, <1>13 DEF Legs
  <1>15. \A x \in Symbols \ {s} : /\ positions'[x] = positions[x]
                                  /\ closedDates'[x] = closedDates[x]
                                  /\ legs'[x] = legs[x]
    BY <1>1, <1>9 DEF Closed
  <1>16. positions'[s] = IF Whole(p, d) THEN None ELSE q
    BY <1>1, <1>9
  <1>17. Whole(p, d) /\ phase # "final" => closedDates'[s] = session
    BY <1>1, <1>9 DEF Closed
  <1>18. None \notin Position
    BY RecordAssumption
  <1>19. Held' = IF Whole(p, d) THEN Held \ {s} ELSE Held
    BY <1>1, <1>8, <1>15, <1>16, <1>18 DEF Held
  <1>20. \A x \in Held' : positions'[x].triggered \subseteq DOMAIN rules.partial
    <2> TAKE x \in Held'
    <2>1. CASE x = s
      BY <1>8, <1>16, <1>19, <2>1
    <2>2. CASE x # s
      <3>1. x \in Held /\ x \in Symbols \ {s}
        BY <1>19, <2>2 DEF Held
      <3> QED
        BY <1>15, <3>1 DEF Control
    <2> QED
      BY <2>1, <2>2
  <1>21. /\ legs'[s].quantity = l.quantity + d.quantity
         /\ legs'[s].value = l.value + soldValue
         /\ legs'[s].fee = l.fee + soldFee /\ legs'[s].levels = levels
    BY <1>1, <1>9
  <1>22. LegsAddUp'
    <2> SUFFICES ASSUME NEW x \in Symbols
                 PROVE  IF x \in Held'
                        THEN LET r == positions'[x] IN
                             /\ legs'[x].quantity + r.quantity = r.initial
                             /\ legs'[x].value + r.value = r.entry * r.initial
                             /\ legs'[x].fee + r.fee = Fee * r.initial
                             /\ legs'[x].levels = Cardinality(r.triggered)
                        ELSE legs'[x] # NoLegs =>
                             /\ legs'[x].quantity = Quantity
                             /\ legs'[x].fee = Fee * Quantity
                             /\ legs'[x].levels <= Len(rules.partial)
      BY DEF LegsAddUp
    <2>1. CASE x # s
      <3>1. x \in Held' <=> x \in Held
        BY <1>19, <2>1
      <3>2. positions'[x] = positions[x] /\ legs'[x] = legs[x]
        BY <1>15, <2>1
      <3> QED
        BY <3>1, <3>2 DEF LegsAddUp
    <2>2. /\ IsFiniteSet(p.triggered) /\ Cardinality(p.triggered) \in Nat
          /\ Cardinality(p.triggered) <= Len(rules.partial)
          /\ Len(rules.partial) \in Nat
      BY <1>1, <1>3, TriggeredFinite, LevelTypes
    <2>3. d.level # None =>
              /\ Cardinality(p.triggered \cup {d.level}) = Cardinality(p.triggered) + 1
              /\ Cardinality(p.triggered \cup {d.level}) <= Len(rules.partial)
      <3> SUFFICES ASSUME d.level # None
                   PROVE  /\ Cardinality(p.triggered \cup {d.level})
                             = Cardinality(p.triggered) + 1
                          /\ Cardinality(p.triggered \cup {d.level})
                             <= Len(rules.partial)
        OBVIOUS
      <3>1. p.triggered \cup {d.level} \subseteq DOMAIN rules.partial
        BY <1>3, <1>6
      <3> QED
        BY <1>1, <1>6, <2>2, <3>1, TriggeredFinite, FS_AddElement
    <2>4. CASE x = s /\ Whole(p, d)
      <3>1. x \notin Held'
        BY <1>19, <2>4
      <3>2. l.quantity + d.quantity = Quantity
        BY <1>4, <1>5, <1>6, <2>4
      <3>3. l.fee + soldFee = Fee * Quantity
        BY <1>4, <1>5, <1>7, <2>4
      <3>4. levels <= Len(rules.partial)
        BY <1>4, <2>2, <2>3 DEF levels
      <3> QED
        BY <1>21, <2>4, <3>1, <3>2, <3>3, <3>4
    <2>5. CASE x = s /\ ~Whole(p, d)
      <3>1. x \in Held' /\ positions'[x] = q
        BY <1>16, <1>19, <2>5
      <3>2. (l.quantity + d.quantity) + (p.quantity - d.quantity) = p.initial
        BY <1>2, <1>4, <1>5, <1>6
      <3>3. (l.value + soldValue) + (p.value - soldValue) = p.entry * p.initial
        BY <1>2, <1>4, <1>5, <1>7
      <3>4. (l.fee + soldFee) + (p.fee - soldFee) = Fee * p.initial
        BY <1>2, <1>4, <1>5, <1>7
      <3>5. levels = Cardinality(p.triggered \cup {d.level})
        BY <1>4, <1>6, <2>3, <2>5 DEF levels
      <3> QED
        BY <1>8, <1>21, <2>5, <3>1, <3>2, <3>3, <3>4, <3>5
    <2> QED
      BY <2>1, <2>4, <2>5
  <1> QED
    BY <1>11, <1>12, <1>14, <1>15, <1>16, <1>17, <1>19, <1>20, <1>22 DEF q

-----------------------------------------------------------------------------
\* Sequences without repetition, and sets of symbols.
LEMMA OneOrderLess ==
    ASSUME NEW S, NEW f \in Seq(S), f # <<>>, IsInjective(f)
    PROVE  /\ Head(f) \in S /\ Head(f) \in Range(f)
           /\ Tail(f) \in Seq(S) /\ Len(Tail(f)) = Len(f) - 1
           /\ Range(Tail(f)) = Range(f) \ {Head(f)}
           /\ IsInjective(Tail(f))
  <1> DEFINE g == Tail(f)
  <1>1. /\ Len(f) \in Nat \ {0} /\ DOMAIN f = 1 .. Len(f)
        /\ \A i \in 1 .. Len(f) : f[i] \in S
        /\ Head(f) = f[1]
    OBVIOUS
  <1>2. /\ g \in Seq(S) /\ Len(g) = Len(f) - 1 /\ DOMAIN g = 1 .. Len(f) - 1
        /\ \A i \in 1 .. Len(f) - 1 : g[i] = f[i + 1]
    OBVIOUS
  <1> HIDE DEF g
  <1>3. Head(f) \in S /\ Head(f) \in Range(f)
    BY <1>1 DEF Range
  <1>4. ASSUME NEW x \in Range(f), x # Head(f) PROVE x \in Range(g)
    <2>1. PICK i \in 1 .. Len(f) : x = f[i]
      BY <1>1, <1>4 DEF Range
    <2>2. i - 1 \in 1 .. Len(f) - 1 /\ (i - 1) + 1 = i
      BY <1>1, <1>4, <2>1
    <2>3. g[i - 1] = f[i]
      BY <1>2, <2>2
    <2> QED
      BY <1>2, <2>1, <2>2, <2>3 DEF Range
  <1>5. ASSUME NEW x \in Range(g) PROVE x \in Range(f) /\ x # Head(f)
    <2>1. PICK i \in 1 .. Len(f) - 1 : x = g[i]
      BY <1>2, <1>5 DEF Range
    <2>2. x = f[i + 1] /\ i + 1 \in 1 .. Len(f) /\ i + 1 # 1 /\ 1 \in 1 .. Len(f)
      BY <1>1, <1>2, <2>1
    <2>3. f[i + 1] # f[1]
      BY <1>1, <2>2 DEF IsInjective
    <2> QED
      BY <1>1, <2>2, <2>3 DEF Range
  <1>6. IsInjective(g)
    <2> SUFFICES ASSUME NEW i \in 1 .. Len(f) - 1, NEW j \in 1 .. Len(f) - 1,
                        g[i] = g[j]
                 PROVE  i = j
      BY <1>2 DEF IsInjective
    <2>1. i + 1 \in 1 .. Len(f) /\ j + 1 \in 1 .. Len(f)
      BY <1>1
    <2>2. f[i + 1] = f[j + 1]
      BY <1>2
    <2>3. i + 1 = j + 1
      BY <1>1, <2>1, <2>2 DEF IsInjective
    <2> QED
      BY <2>3
  <1> QED
    BY <1>2, <1>3, <1>4, <1>5, <1>6 DEF g

LEMMA OneMoreOrder ==
    ASSUME NEW S, NEW f \in Seq(S), IsInjective(f), NEW x \in S, x \notin Range(f)
    PROVE  /\ Append(f, x) \in Seq(S) /\ Len(Append(f, x)) = Len(f) + 1
           /\ Range(Append(f, x)) = Range(f) \cup {x}
           /\ IsInjective(Append(f, x))
  <1> SUFFICES ASSUME NEW g, g = Append(f, x)
               PROVE  /\ g \in Seq(S) /\ Len(g) = Len(f) + 1
                      /\ Range(g) = Range(f) \cup {x} /\ IsInjective(g)
    OBVIOUS
  <1>1. /\ Len(f) \in Nat /\ DOMAIN f = 1 .. Len(f)
        /\ g \in Seq(S) /\ Len(g) = Len(f) + 1 /\ DOMAIN g = 1 .. Len(f) + 1
        /\ \A i \in 1 .. Len(f) : g[i] = f[i]
        /\ g[Len(f) + 1] = x
    OBVIOUS
  <1>2. \A i \in 1 .. Len(f) + 1 : i \in 1 .. Len(f) \/ i = Len(f) + 1
    BY <1>1
  <1>3. \A i \in 1 .. Len(f) : i \in 1 .. Len(f) + 1
    BY <1>1
  <1>4. Len(f) + 1 \in 1 .. Len(f) + 1
    BY <1>1
  <1>5. Range(g) = Range(f) \cup {x}
    BY <1>1, <1>2, <1>3, <1>4 DEF Range
  <1>6. \A i \in 1 .. Len(f) : f[i] # x
    BY <1>1 DEF Range
  <1>7. IsInjective(g)
    BY <1>1, <1>2, <1>6 DEF IsInjective
  <1> QED
    BY <1>1, <1>5, <1>7

LEMMA RankingInjective ==
    ASSUME NEW best \in Rankings
    PROVE  best \in Seq(Symbols) /\ IsInjective(best)
  <1>1. PICK S \in SUBSET Symbols : best \in SetToSeqs(S)
    BY DEF Rankings, SetToAllKPermutations
  <1>2. IsFiniteSet(S)
    BY BacktestAssumption, FS_Subset
  <1>3. Cardinality(S) \in Nat
    BY <1>2, FS_CardinalityType
  <1>4. /\ best \in [1 .. Cardinality(S) -> S]
        /\ \A i, j \in 1 .. Cardinality(S) : i # j => best[i] # best[j]
    BY <1>1 DEF SetToSeqs
  <1>5. best \in Seq(S)
    BY <1>3, <1>4
  <1>6. \A x \in S : x \in Symbols
    OBVIOUS
  <1>7. best \in [1 .. Cardinality(S) -> Symbols]
    BY <1>4, <1>6
  <1>8. best \in Seq(Symbols)
    BY <1>3, <1>7
  <1> QED
    BY <1>4, <1>8 DEF IsInjective

LEMMA SymbolsFinite ==
    ASSUME NEW S \in SUBSET Symbols
    PROVE  /\ IsFiniteSet(S) /\ Cardinality(S) \in Nat
           /\ \A T \in SUBSET S : Cardinality(T) <= Cardinality(S)
  <1>1. IsFiniteSet(S)
    BY BacktestAssumption, FS_Subset
  <1> QED
    BY <1>1, FS_Subset, FS_CardinalityType

LEMMA OneMore ==
    ASSUME NEW S \in SUBSET Symbols, NEW x \in Symbols, x \notin S
    PROVE  Cardinality(S \cup {x}) = Cardinality(S) + 1
  BY SymbolsFinite, FS_AddElement

LEMMA OneLess ==
    ASSUME NEW S \in SUBSET Symbols, NEW x \in S
    PROVE  Cardinality(S \ {x}) = Cardinality(S) - 1
  BY SymbolsFinite, FS_RemoveElement

LEMMA OrderedSymbols ==
    ASSUME TypeOK
    PROVE  /\ Held \in SUBSET Symbols /\ Range(pending) \in SUBSET Symbols
           /\ Range(ranking) \in SUBSET Symbols
           /\ Len(pending) \in Nat
           /\ pending = <<>> => Range(pending) = {}
           /\ rules.max_positions \in Nat /\ rules.max_sector_positions \in Nat
  <1>1. pending \in Seq(Symbols) /\ ranking \in Seq(Symbols) /\ rules \in RuleSets
    BY DEF TypeOK
  <1>2. Range(pending) \in SUBSET Symbols /\ Range(ranking) \in SUBSET Symbols
    BY <1>1 DEF Range
  <1>3. pending = <<>> => Range(pending) = {}
    BY DEF Range
  <1>4. Len(pending) \in Nat
    BY <1>1
  <1>5. rules.max_positions \in Nat /\ rules.max_sector_positions \in Nat
    BY <1>1, RuleTypes
  <1> QED
    BY <1>2, <1>3, <1>4, <1>5 DEF Held

\* Fewer positions and fewer orders fit as well.
LEMMA FewerFit ==
    ASSUME TypeOK, OrdersFit, rules' = rules, Held' \subseteq Held,
           pending' \in Seq(Symbols), Len(pending') <= Len(pending),
           Range(pending') \subseteq Range(pending),
           Cardinality(Range(pending')) = Len(pending')
    PROVE  OrdersFit'
  <1>1. /\ Held \in SUBSET Symbols /\ Range(pending) \in SUBSET Symbols
        /\ Len(pending) \in Nat
        /\ rules.max_positions \in Nat /\ rules.max_sector_positions \in Nat
    BY OrderedSymbols
  <1>2. Len(pending') \in Nat
    OBVIOUS
  <1>3. Cardinality(Held') + Len(pending') <= rules.max_positions
    <2>1. Cardinality(Held') <= Cardinality(Held)
      BY <1>1, SymbolsFinite
    <2>2. Cardinality(Held) \in Nat /\ Cardinality(Held') \in Nat
      BY <1>1, SymbolsFinite
    <2>3. Cardinality(Held) + Len(pending) <= rules.max_positions
      BY DEF OrdersFit
    <2> QED
      BY <1>1, <1>2, <2>1, <2>2, <2>3
  <1>4. ASSUME NEW s \in Symbols
        PROVE  Cardinality(InSector(SectorOf[s], Held' \cup Range(pending')))
                   <= rules.max_sector_positions
    <2> DEFINE A == InSector(SectorOf[s], Held \cup Range(pending))
               B == InSector(SectorOf[s], Held' \cup Range(pending'))
    <2>1. A \in SUBSET Symbols /\ B \in SUBSET A
      BY <1>1 DEF InSector
    <2>2. Cardinality(A) <= rules.max_sector_positions
      BY DEF OrdersFit
    <2> HIDE DEF A, B
    <2>3. Cardinality(A) \in Nat /\ Cardinality(B) \in Nat
          /\ Cardinality(B) <= Cardinality(A)
      BY <2>1, SymbolsFinite
    <2>4. Cardinality(B) <= rules.max_sector_positions
      BY <1>1, <2>2, <2>3
    <2> QED
      BY <2>4 DEF B
  <1>5. Held' \cap Range(pending') = {}
    BY DEF OrdersFit
  <1> QED
    BY <1>3, <1>4, <1>5 DEF OrdersFit

\* Orders of which some are gone are as cooled as they were.
LEMMA FewerCooled ==
    ASSUME Cooled, rules' = rules, Ranked' = Ranked,
           Range(pending') \subseteq Range(pending),
           \A x \in Range(pending') : legs'[x] = legs[x] /\ closedDates'[x] = closedDates[x]
    PROVE  Cooled'
  BY DEF Cooled

\* A step that touches no position.
Quiet ==
    /\ UNCHANGED <<rules, positions, armed, closedDates, legs>>
    /\ trade' = None

LEMMA QuietKeeps ==
    ASSUME BacktestInv, Quiet
    PROVE  /\ Held' = Held /\ LegsAddUp' /\ NoStopFalls /\ BoughtCooled
           /\ FillsInRange' /\ StopSold'
           /\ rules' \in RuleSets /\ positions' \in [Symbols -> Position \cup {None}]
           /\ closedDates' \in [Symbols -> Sessions \cup {None}]
           /\ armed' \in [Symbols -> SUBSET Int] /\ legs' \in [Symbols -> Legs]
           /\ \A s \in Held' : positions'[s].triggered \subseteq DOMAIN rules'.partial
           /\ \A s \in Symbols : Topped(armed'[s])
  <1>1. /\ rules' = rules /\ positions' = positions /\ armed' = armed
        /\ closedDates' = closedDates /\ legs' = legs /\ trade' = None
    BY DEF Quiet
  <1>2. TypeOK /\ Control /\ LegsAddUp
    BY DEF BacktestInv
  <1>3. Held' = Held
    BY <1>1 DEF Held
  <1>4. LegsAddUp'
    BY <1>1, <1>2, <1>3 DEF LegsAddUp
  <1>5. NoStopFalls
    <2> SUFFICES ASSUME NEW s \in Held,
                        NEW stop \in {"stop", "trail", "atrTrail", "lock"},
                        positions[s][stop] # None
                 PROVE  positions[s][stop] >= positions[s][stop]
      BY <1>1 DEF NoStopFalls
    <2>1. positions[s] \in Position
      BY <1>2 DEF TypeOK, Held
    <2>2. positions[s][stop] \in Stop
      BY <2>1 DEF Position
    <2> QED
      BY <2>2 DEF Stop
  <1>6. BoughtCooled
    BY <1>1 DEF BoughtCooled, Held
  <1>7. FillsInRange' /\ StopSold'
    BY <1>1 DEF FillsInRange, StopSold
  <1> QED
    BY <1>1, <1>2, <1>3, <1>4, <1>5, <1>6, <1>7 DEF TypeOK, Control

LEMMA FitKept ==
    ASSUME TypeOK, OrdersFit, rules' = rules, Held' \subseteq Held,
           pending' = pending
    PROVE  OrdersFit'
  <1>1. pending \in Seq(Symbols) /\ Len(pending) \in Nat
    BY OrderedSymbols DEF TypeOK
  <1>2. Cardinality(Range(pending)) = Len(pending)
    BY DEF OrdersFit
  <1> QED
    BY <1>1, <1>2, FewerFit

LEMMA StopsKept ==
    ASSUME Quiet, bars' = bars, NEW s
    PROVE  (Facing(s)' <=> Facing(s)) /\ (Faced(s)' <=> Faced(s))
  BY DEF Quiet, Facing, Faced

-----------------------------------------------------------------------------
\* The steps that touch no position.
LEMMA OpensDoneKeeps ==
    ASSUME BacktestInv, OpensDone
    PROVE  BacktestInv' /\ NoStopFalls /\ BoughtCooled
  <1>1. /\ TypeOK /\ Control /\ BarsSound /\ StopsInForce /\ OrdersFit
        /\ OrdersSound /\ Cooled /\ SoldNoted
    BY DEF BacktestInv
  <1>2. /\ phase = "open" /\ todo = {} /\ phase' = "entries" /\ bars' = bars
        /\ session' = session /\ todo' = todo /\ pending' = pending
        /\ ranking' = ranking /\ capacity' = capacity /\ others' = others
        /\ rules' = rules /\ positions' = positions /\ legs' = legs
        /\ closedDates' = closedDates /\ armed' = armed /\ trade' = None
    BY DEF OpensDone, account
  <1>3. Quiet
    BY <1>2 DEF Quiet
  <1>4. Held' = Held
    BY <1>3, QuietKeeps
  <1>5. TypeOK'
    BY <1>1, <1>2, <1>4 DEF TypeOK, Phases
  <1>6. Control'
    BY <1>1, <1>2, <1>4 DEF Control
  <1>7. BarsSound'
    BY <1>1, <1>2 DEF BarsSound
  <1>8. StopsInForce'
    BY <1>1, <1>2, <1>3, <1>4, StopsKept DEF StopsInForce
  <1>9. Holding'
    BY <1>2 DEF Holding
  <1>10. OrdersFit'
    BY <1>1, <1>2, <1>4, FitKept
  <1>11. OrdersSound'
    BY <1>1, <1>2 DEF OrdersSound
  <1>12. Cooled'
    BY <1>1, <1>2 DEF Cooled, Ranked
  <1>13. SoldNoted'
    BY <1>1, <1>2, <1>4 DEF SoldNoted
  <1> QED
    BY <1>3, <1>5, <1>6, <1>7, <1>8, <1>9, <1>10, <1>11, <1>12, <1>13, QuietKeeps
       DEF BacktestInv

LEMMA SkipKeeps ==
    ASSUME BacktestInv, Skip
    PROVE  BacktestInv' /\ NoStopFalls /\ BoughtCooled
  <1>1. /\ TypeOK /\ Control /\ BarsSound /\ StopsInForce /\ OrdersFit
        /\ OrdersSound /\ Cooled /\ SoldNoted
    BY DEF BacktestInv
  <1>2. /\ phase = "entries" /\ phase' = phase /\ bars' = bars
        /\ session' = session /\ todo' = todo
        /\ pending # <<>> /\ pending' = Tail(pending)
        /\ ranking' = ranking /\ capacity' = capacity /\ others' = others
        /\ rules' = rules /\ positions' = positions /\ legs' = legs
        /\ closedDates' = closedDates /\ armed' = armed /\ trade' = None
    BY DEF Skip, account
  <1>3. Quiet
    BY <1>2 DEF Quiet
  <1>4. Held' = Held
    BY <1>3, QuietKeeps
  <1>5. /\ pending \in Seq(Symbols) /\ Len(pending) \in Nat
        /\ Range(pending) \in SUBSET Symbols /\ IsInjective(pending)
    BY <1>1, OrderedSymbols DEF TypeOK, OrdersSound
  <1>6. /\ pending' \in Seq(Symbols) /\ Len(pending') = Len(pending) - 1
        /\ Head(pending) \in Range(pending)
        /\ Range(pending') = Range(pending) \ {Head(pending)}
        /\ IsInjective(pending')
    BY <1>2, <1>5, OneOrderLess
  <1>7. Cardinality(Range(pending')) = Len(pending')
    <2>1. Cardinality(Range(pending)) = Len(pending)
      BY <1>1 DEF OrdersFit
    <2> QED
      BY <1>5, <1>6, <2>1, OneLess
  <1>8. TypeOK'
    BY <1>1, <1>2, <1>4, <1>6 DEF TypeOK
  <1>9. Control'
    BY <1>1, <1>2, <1>4 DEF Control
  <1>10. BarsSound'
    BY <1>1, <1>2 DEF BarsSound
  <1>11. StopsInForce'
    BY <1>1, <1>2, <1>3, <1>4, StopsKept DEF StopsInForce
  <1>12. Holding'
    BY <1>2 DEF Holding
  <1>13. OrdersFit'
    <2>1. Len(pending') <= Len(pending) /\ Range(pending') \subseteq Range(pending)
      BY <1>5, <1>6
    <2> QED
      BY <1>1, <1>2, <1>4, <1>6, <1>7, <2>1, FewerFit
  <1>14. OrdersSound'
    BY <1>2, <1>6 DEF OrdersSound
  <1>15. Cooled'
    BY <1>1, <1>2, <1>6 DEF Cooled, Ranked
  <1>16. SoldNoted'
    BY <1>1, <1>2, <1>4 DEF SoldNoted
  <1> QED
    BY <1>3, <1>8, <1>9, <1>10, <1>11, <1>12, <1>13, <1>14, <1>15, <1>16, QuietKeeps
       DEF BacktestInv

LEMMA EntriesDoneKeeps ==
    ASSUME BacktestInv, EntriesDone
    PROVE  BacktestInv' /\ NoStopFalls /\ BoughtCooled
  <1>1. /\ TypeOK /\ Control /\ BarsSound /\ StopsInForce /\ OrdersFit
        /\ OrdersSound /\ Cooled /\ SoldNoted
    BY DEF BacktestInv
  <1>2. /\ phase = "entries" /\ phase' = "range" /\ bars' = bars
        /\ session' = session /\ todo' = {s \in Held : bars[s] # None}
        /\ pending = <<>> /\ pending' = pending
        /\ ranking' = ranking /\ capacity' = capacity /\ others' = others
        /\ rules' = rules /\ positions' = positions /\ legs' = legs
        /\ closedDates' = closedDates /\ armed' = armed /\ trade' = None
    BY DEF EntriesDone, account
  <1>3. Quiet
    BY <1>2 DEF Quiet
  <1>4. Held' = Held /\ todo = {}
    BY <1>1, <1>2, <1>3, QuietKeeps DEF Control
  <1>5. TypeOK'
    BY <1>1, <1>2, <1>4 DEF TypeOK, Phases
  <1>6. Control'
    BY <1>1, <1>2, <1>4 DEF Control
  <1>7. BarsSound'
    BY <1>1, <1>2 DEF BarsSound
  <1>8. StopsInForce'
    <2>1. \A s \in Held : bars[s] # None => Facing(s)
      BY <1>1, <1>2, <1>4 DEF StopsInForce
    <2>2. \A s \in todo' : Facing(s)'
      BY <1>2, <1>3, <2>1, StopsKept
    <2>3. \A s \in Held' : ~(s \notin todo' /\ bars'[s] # None)
      BY <1>2, <1>4
    <2> QED
      BY <1>2, <2>2, <2>3 DEF StopsInForce
  <1>9. Holding'
    BY <1>2 DEF Holding
  <1>10. OrdersFit'
    BY <1>1, <1>2, <1>4, FitKept
  <1>11. OrdersSound'
    BY <1>1, <1>2 DEF OrdersSound
  <1>12. Cooled'
    BY <1>1, <1>2 DEF Cooled, Ranked
  <1>13. SoldNoted'
    BY <1>1, <1>2, <1>4 DEF SoldNoted
  <1> QED
    BY <1>3, <1>5, <1>6, <1>7, <1>8, <1>9, <1>10, <1>11, <1>12, <1>13, QuietKeeps
       DEF BacktestInv

LEMMA ScreenKeeps ==
    ASSUME BacktestInv, NEW best \in Rankings, Screen(best)
    PROVE  BacktestInv' /\ NoStopFalls /\ BoughtCooled
  <1>1. /\ TypeOK /\ Control /\ BarsSound /\ StopsInForce /\ OrdersFit
        /\ OrdersSound /\ Cooled /\ SoldNoted
    BY DEF BacktestInv
  <1>2. /\ phase = "range" /\ phase' = "close" /\ bars' = bars /\ todo = {}
        /\ session' = session /\ todo' = {s \in Held : bars[s] # None}
        /\ pending' = pending /\ ranking' = best /\ capacity' = capacity
        /\ others' \in BOOLEAN
        /\ rules' = rules /\ positions' = positions /\ legs' = legs
        /\ closedDates' = closedDates /\ armed' = armed /\ trade' = None
    BY DEF Screen, account
  <1>3. Quiet
    BY <1>2 DEF Quiet
  <1>4. Held' = Held
    BY <1>3, QuietKeeps
  <1>5. best \in Seq(Symbols) /\ IsInjective(best)
    BY RankingInjective
  <1>6. TypeOK'
    BY <1>1, <1>2, <1>4, <1>5 DEF TypeOK, Phases
  <1>7. Control'
    BY <1>1, <1>2, <1>4 DEF Control
  <1>8. BarsSound'
    BY <1>1, <1>2 DEF BarsSound
  <1>9. StopsInForce'
    <2>1. \A s \in Held : bars[s] # None => Faced(s)
      BY <1>1, <1>2 DEF StopsInForce
    <2> QED
      BY <1>2, <1>3, <1>4, <2>1, StopsKept DEF StopsInForce
  <1>10. Holding'
    BY <1>2, <1>4 DEF Holding
  <1>11. OrdersFit'
    BY <1>1, <1>2, <1>4, FitKept
  <1>12. OrdersSound'
    BY <1>1, <1>2, <1>5 DEF OrdersSound
  <1>13. Cooled'
    BY <1>1, <1>2 DEF Cooled, Ranked
  <1>14. SoldNoted'
    BY <1>1, <1>2, <1>4 DEF SoldNoted
  <1> QED
    BY <1>3, <1>6, <1>7, <1>8, <1>9, <1>10, <1>11, <1>12, <1>13, <1>14, QuietKeeps
       DEF BacktestInv

LEMMA OrderKeeps ==
    ASSUME BacktestInv, NEW target \in 1 .. rules.max_positions, Order(target)
    PROVE  BacktestInv' /\ NoStopFalls /\ BoughtCooled
  <1>1. /\ TypeOK /\ Control /\ BarsSound /\ StopsInForce /\ OrdersFit
        /\ OrdersSound /\ Cooled /\ SoldNoted
    BY DEF BacktestInv
  <1>2. /\ phase = "close" /\ phase' = "orders" /\ bars' = bars /\ todo = {}
        /\ ~Final /\ session' = session /\ todo' = todo
        /\ pending' = pending /\ ranking' = ranking
        /\ capacity' = target - Cardinality(Held) /\ others' = others
        /\ rules' = rules /\ positions' = positions /\ legs' = legs
        /\ closedDates' = closedDates /\ armed' = armed /\ trade' = None
    BY DEF Order, account
  <1>3. Quiet
    BY <1>2 DEF Quiet
  <1>4. Held' = Held
    BY <1>3, QuietKeeps
  <1>5. /\ Held \in SUBSET Symbols /\ rules.max_positions \in Nat
        /\ Cardinality(Held) \in Nat
    BY <1>1, OrderedSymbols, SymbolsFinite
  <1>6. capacity' \in Int /\ capacity' + Cardinality(Held) <= rules.max_positions
    BY <1>2, <1>5
  <1>7. pending = <<>> /\ Range(pending) = {}
    BY <1>1, <1>2, OrderedSymbols DEF OrdersSound
  <1>8. TypeOK'
    BY <1>1, <1>2, <1>4, <1>6 DEF TypeOK, Phases
  <1>9. Control'
    BY <1>1, <1>2, <1>4 DEF Control, Final
  <1>10. BarsSound'
    BY <1>1, <1>2 DEF BarsSound
  <1>11. StopsInForce'
    BY <1>2 DEF StopsInForce
  <1>12. Holding'
    BY <1>2 DEF Holding
  <1>13. OrdersFit'
    BY <1>1, <1>2, <1>4, FitKept
  <1>14. OrdersSound'
    BY <1>1, <1>2, <1>4, <1>6, <1>7 DEF OrdersSound
  <1>15. Cooled'
    BY <1>2, <1>7 DEF Cooled
  <1>16. SoldNoted'
    BY <1>1, <1>2, <1>4 DEF SoldNoted
  <1> QED
    BY <1>3, <1>8, <1>9, <1>10, <1>11, <1>12, <1>13, <1>14, <1>15, <1>16, QuietKeeps
       DEF BacktestInv

\* An order more fits, if it is admitted.
LEMMA AdmittedFits ==
    ASSUME TypeOK, OrdersFit, OrdersSound, phase = "orders", rules' = rules,
           Held' = Held, NEW s \in Symbols, s \notin Held, s \notin Range(pending),
           Admits(s), pending' = Append(pending, s)
    PROVE  OrdersFit'
  <1> DEFINE all == Held \cup Range(pending)
  <1>1. /\ Held \in SUBSET Symbols /\ Range(pending) \in SUBSET Symbols
        /\ Len(pending) \in Nat /\ pending \in Seq(Symbols) /\ capacity \in Int
        /\ rules.max_positions \in Nat /\ rules.max_sector_positions \in Nat
        /\ Cardinality(Held) \in Nat /\ IsInjective(pending)
    BY OrderedSymbols, SymbolsFinite DEF TypeOK, OrdersSound
  <1>2. Len(pending') = Len(pending) + 1 /\ Range(pending') = Range(pending) \cup {s}
    BY <1>1, OneMoreOrder
  <1>3. /\ Len(pending) < capacity
        /\ Cardinality(InSector(SectorOf[s], all)) < rules.max_sector_positions
    BY DEF Admits
  <1>4. capacity + Cardinality(Held) <= rules.max_positions
    BY DEF OrdersSound
  <1>5. Cardinality(Held) + Len(pending') <= rules.max_positions
    BY <1>1, <1>2, <1>3, <1>4
  <1>6. Cardinality(Range(pending')) = Len(pending')
    <2>1. Cardinality(Range(pending)) = Len(pending)
      BY DEF OrdersFit
    <2> QED
      BY <1>1, <1>2, <2>1, OneMore
  <1>7. ASSUME NEW x \in Symbols
        PROVE  Cardinality(InSector(SectorOf[x], Held \cup Range(pending')))
                   <= rules.max_sector_positions
    <2> DEFINE A == InSector(SectorOf[x], all)
               B == InSector(SectorOf[x], Held \cup Range(pending'))
    <2>1. A \in SUBSET Symbols /\ s \notin A
      BY <1>1 DEF InSector
    <2>2. Cardinality(A) \in Nat /\ Cardinality(A) <= rules.max_sector_positions
      BY <2>1, SymbolsFinite DEF OrdersFit
    <2>3. CASE SectorOf[x] = SectorOf[s]
      <3>1. B = A \cup {s}
        BY <1>2, <2>3 DEF InSector
      <3>2. Cardinality(A) < rules.max_sector_positions
        BY <1>3, <2>3
      <3> HIDE DEF A, B
      <3>3. Cardinality(B) = Cardinality(A) + 1
        BY <2>1, <3>1, OneMore
      <3>4. Cardinality(B) <= rules.max_sector_positions
        BY <1>1, <2>2, <3>2, <3>3
      <3> QED
        BY <3>4 DEF B
    <2>4. CASE SectorOf[x] # SectorOf[s]
      <3>1. B = A
        BY <1>2, <2>4 DEF InSector
      <3> QED
        BY <2>2, <3>1
    <2> QED
      BY <2>3, <2>4
  <1>8. Held \cap Range(pending') = {}
    BY <1>2 DEF OrdersFit
  <1> QED
    BY <1>5, <1>6, <1>7, <1>8 DEF OrdersFit

LEMMA ConsiderKeeps ==
    ASSUME BacktestInv, Consider
    PROVE  BacktestInv' /\ NoStopFalls /\ BoughtCooled
  <1> DEFINE s == Head(ranking)
             ordered == s \notin Held /\ ReentryAllowed(s) /\ Admits(s)
  <1>1. /\ TypeOK /\ Control /\ BarsSound /\ StopsInForce /\ OrdersFit
        /\ OrdersSound /\ Cooled /\ SoldNoted
    BY DEF BacktestInv
  <1>2. /\ phase = "orders" /\ phase' = phase /\ bars' = bars /\ todo' = todo
        /\ session' = session /\ capacity' = capacity /\ others' = others
        /\ pending' = IF ordered THEN Append(pending, s) ELSE pending
        /\ ranking # <<>> /\ ranking' = Tail(ranking)
        /\ rules' = rules /\ positions' = positions /\ legs' = legs
        /\ closedDates' = closedDates /\ armed' = armed /\ trade' = None
    BY DEF Consider, account
  <1>3. Quiet
    BY <1>2 DEF Quiet
  <1>4. Held' = Held
    BY <1>3, QuietKeeps
  <1>5. /\ ranking \in Seq(Symbols) /\ IsInjective(ranking)
        /\ pending \in Seq(Symbols) /\ IsInjective(pending)
        /\ Range(ranking) \cap Range(pending) = {}
        /\ capacity + Cardinality(Held) <= rules.max_positions
    BY <1>1, <1>2 DEF TypeOK, OrdersSound
  <1>6. /\ s \in Symbols /\ s \in Range(ranking) /\ ranking' \in Seq(Symbols)
        /\ Range(ranking') = Range(ranking) \ {s} /\ IsInjective(ranking')
    BY <1>2, <1>5, OneOrderLess
  <1>7. s \notin Range(pending)
    BY <1>5, <1>6
  <1> HIDE DEF s
  <1>8. /\ pending' \in Seq(Symbols) /\ IsInjective(pending')
        /\ Range(pending') \subseteq Range(pending) \cup {s}
        /\ s \in Range(pending') => ordered
    BY <1>2, <1>5, <1>6, <1>7, OneMoreOrder
  <1>9. TypeOK'
    BY <1>1, <1>2, <1>4, <1>6, <1>8 DEF TypeOK
  <1>10. Control'
    BY <1>1, <1>2, <1>4 DEF Control, Final
  <1>11. BarsSound'
    BY <1>1, <1>2 DEF BarsSound
  <1>12. StopsInForce'
    BY <1>2 DEF StopsInForce
  <1>13. Holding'
    BY <1>2 DEF Holding
  <1>14. OrdersFit'
    BY <1>1, <1>2, <1>4, <1>6, <1>7, AdmittedFits, FitKept
  <1>15. OrdersSound'
    <2>1. Range(ranking') \cap Range(pending') = {}
      BY <1>5, <1>6, <1>8
    <2> QED
      BY <1>2, <1>4, <1>5, <1>6, <1>8, <2>1 DEF OrdersSound
  <1>16. Cooled'
    <2> SUFFICES ASSUME NEW x \in Range(pending'), legs[x].quantity # 0
                 PROVE  /\ rules.cooldown # None /\ closedDates[x] # None
                        /\ session - closedDates[x] >= rules.cooldown
      BY <1>2 DEF Cooled, Ranked
    <2>1. CASE x \in Range(pending)
      BY <1>1, <1>2, <2>1 DEF Cooled, Ranked
    <2>2. CASE x \notin Range(pending)
      <3>1. x = s /\ ordered
        BY <1>8, <2>2
      <3>2. closedDates[s] # None
        BY <1>1, <1>2, <1>6, <3>1 DEF SoldNoted
      <3> QED
        BY <3>1, <3>2 DEF ReentryAllowed
    <2> QED
      BY <2>1, <2>2
  <1>17. SoldNoted'
    BY <1>1, <1>2, <1>4 DEF SoldNoted
  <1> QED
    BY <1>3, <1>9, <1>10, <1>11, <1>12, <1>13, <1>14, <1>15, <1>16, <1>17, QuietKeeps
       DEF BacktestInv

LEMMA OrdersDoneKeeps ==
    ASSUME BacktestInv, OrdersDone
    PROVE  BacktestInv' /\ NoStopFalls /\ BoughtCooled
  <1>1. /\ TypeOK /\ Control /\ OrdersFit /\ OrdersSound /\ Cooled /\ SoldNoted
    BY DEF BacktestInv
  <1>2. /\ phase = "orders" /\ phase' = "begin" /\ bars' = [s \in Symbols |-> None]
        /\ todo' = todo /\ session' = session + 1 /\ capacity' = 0 /\ others' = FALSE
        /\ pending' = pending /\ ranking' = ranking
        /\ rules' = rules /\ positions' = positions /\ legs' = legs
        /\ closedDates' = closedDates /\ armed' = armed /\ trade' = None
    BY DEF OrdersDone, account
  <1>3. Quiet
    BY <1>2 DEF Quiet
  <1>4. Held' = Held
    BY <1>3, QuietKeeps
  <1>5. /\ session \in Int /\ session' \in Sessions
    <2>1. session \in 1 .. LastSession /\ LastSession \in Nat /\ session # LastSession
      BY <1>1, <1>2, BacktestAssumption DEF TypeOK, Sessions, Control, Final
    <2> QED
      BY <1>2, <2>1 DEF Sessions
  <1>6. TypeOK'
    <2>1. bars' \in [Symbols -> Bar \cup {None}]
      BY <1>2
    <2>2. phase' \in Phases /\ capacity' \in Int
      BY <1>2 DEF Phases
    <2>3. others' \in BOOLEAN
      BY <1>2, Zenon
    <2> QED
      BY <1>1, <1>2, <1>4, <1>5, <2>1, <2>2, <2>3 DEF TypeOK
  <1>7. Control'
    BY <1>1, <1>2, <1>3, <1>4, QuietKeeps DEF Control
  <1>8. BarsSound'
    BY <1>2 DEF BarsSound
  <1>9. StopsInForce'
    BY <1>2 DEF StopsInForce
  <1>10. Holding'
    BY <1>2 DEF Holding
  <1>11. OrdersFit'
    BY <1>1, <1>2, <1>4, FitKept
  <1>12. OrdersSound'
    BY <1>1, <1>2 DEF OrdersSound
  <1>13. Cooled'
    <2>1. Ranked' = Ranked
      BY <1>2, <1>5 DEF Ranked
    <2> QED
      BY <1>1, <1>2, <2>1, FewerCooled
  <1>14. SoldNoted'
    BY <1>1, <1>2, <1>4 DEF SoldNoted
  <1> QED
    BY <1>3, <1>6, <1>7, <1>8, <1>9, <1>10, <1>11, <1>12, <1>13, <1>14, QuietKeeps
       DEF BacktestInv

LEMMA FinishKeeps ==
    ASSUME BacktestInv, Finish
    PROVE  BacktestInv' /\ NoStopFalls /\ BoughtCooled
  <1>1. /\ TypeOK /\ Control /\ BarsSound /\ OrdersFit /\ OrdersSound
    BY DEF BacktestInv
  <1>2. /\ phase = "close" /\ phase' = "final" /\ bars' = bars /\ todo' = Held
        /\ session' = session /\ capacity' = capacity /\ others' = others
        /\ pending' = pending /\ ranking' = ranking
        /\ rules' = rules /\ positions' = positions /\ legs' = legs
        /\ closedDates' = closedDates /\ armed' = armed /\ trade' = None
    BY DEF Finish, ToLiquidate, account
  <1>3. Quiet
    BY <1>2 DEF Quiet
  <1>4. Held' = Held
    BY <1>3, QuietKeeps
  <1>5. pending = <<>> /\ Range(pending) = {}
    BY <1>1, <1>2, OrderedSymbols DEF OrdersSound
  <1>6. TypeOK'
    BY <1>1, <1>2, <1>4 DEF TypeOK, Phases
  <1>7. Control'
    BY <1>2, <1>3, <1>4, QuietKeeps DEF Control
  <1>8. BarsSound'
    BY <1>1, <1>2 DEF BarsSound
  <1>9. StopsInForce' /\ Holding'
    BY <1>2 DEF StopsInForce, Holding
  <1>10. OrdersFit'
    BY <1>1, <1>2, <1>4, FitKept
  <1>11. OrdersSound'
    BY <1>1, <1>2, <1>5 DEF OrdersSound
  <1>12. Cooled' /\ SoldNoted'
    BY <1>2, <1>5 DEF Cooled, SoldNoted
  <1> QED
    BY <1>3, <1>6, <1>7, <1>8, <1>9, <1>10, <1>11, <1>12, QuietKeeps DEF BacktestInv

LEMMA OverKeeps ==
    ASSUME BacktestInv, Over
    PROVE  BacktestInv' /\ NoStopFalls /\ BoughtCooled
  <1>1. /\ TypeOK /\ Control /\ BarsSound /\ OrdersFit /\ OrdersSound
    BY DEF BacktestInv
  <1>2. /\ phase = "final" /\ phase' = "over" /\ bars' = bars /\ todo' = todo
        /\ todo = {} /\ session' = session /\ capacity' = capacity
        /\ others' = others /\ pending' = pending /\ ranking' = ranking
        /\ rules' = rules /\ positions' = positions /\ legs' = legs
        /\ closedDates' = closedDates /\ armed' = armed /\ trade' = None
    BY DEF Over, account
  <1>3. Quiet
    BY <1>2 DEF Quiet
  <1>4. Held' = Held
    BY <1>3, QuietKeeps
  <1>5. pending = <<>> /\ Range(pending) = {}
    BY <1>1, <1>2, OrderedSymbols DEF OrdersSound
  <1>6. TypeOK'
    BY <1>1, <1>2, <1>4 DEF TypeOK, Phases
  <1>7. Control'
    BY <1>2, <1>3, <1>4, QuietKeeps DEF Control
  <1>8. BarsSound'
    BY <1>1, <1>2 DEF BarsSound
  <1>9. StopsInForce' /\ Holding'
    BY <1>2 DEF StopsInForce, Holding
  <1>10. OrdersFit'
    BY <1>1, <1>2, <1>4, FitKept
  <1>11. OrdersSound'
    BY <1>1, <1>2, <1>5 DEF OrdersSound
  <1>12. Cooled' /\ SoldNoted'
    BY <1>2, <1>5 DEF Cooled, SoldNoted
  <1> QED
    BY <1>3, <1>6, <1>7, <1>8, <1>9, <1>10, <1>11, <1>12, QuietKeeps DEF BacktestInv

-----------------------------------------------------------------------------
\* The beginning of a session.
LEMMA BeginKeeps ==
    ASSUME BacktestInv, NEW present \in SUBSET Symbols, Begin(present)
    PROVE  BacktestInv' /\ NoStopFalls /\ BoughtCooled
  <1> DEFINE longer == [s \in Symbols |->
                            IF s \in Held
                            THEN [positions[s] EXCEPT !.days = positions[s].days + 1]
                            ELSE None]
             empty == [open |-> None, low |-> None, high |-> None]
  <1>1. /\ TypeOK /\ Control /\ LegsAddUp /\ OrdersFit /\ OrdersSound /\ Cooled
        /\ SoldNoted
    BY DEF BacktestInv
  <1>2. /\ phase = "begin" /\ todo = {} /\ session' = session
        /\ bars' = [s \in Symbols |-> IF s \in present THEN empty ELSE None]
        /\ pending' = pending /\ ranking' = ranking /\ capacity' = capacity
        /\ others' = others /\ rules' = rules /\ legs' = legs
        /\ closedDates' = closedDates /\ armed' = armed /\ trade' = None
        /\ \/ phase' = "refused" /\ positions' = positions /\ todo' = todo
           \/ phase' = "open" /\ positions' = longer /\ todo' = Held \cap present
    BY <1>1 DEF Begin, account, Control
  <1>3. positions \in [Symbols -> Position \cup {None}] /\ None \notin Position
    BY <1>1, RecordAssumption DEF TypeOK
  <1>4. \A s \in Held : positions[s] \in Position
    BY <1>3 DEF Held
  <1>5. ASSUME NEW s \in Held
        PROVE  /\ longer[s] \in Position
               /\ longer[s].entry = positions[s].entry
               /\ longer[s].quantity = positions[s].quantity
               /\ longer[s].initial = positions[s].initial
               /\ longer[s].value = positions[s].value
               /\ longer[s].fee = positions[s].fee
               /\ longer[s].triggered = positions[s].triggered
               /\ \A stop \in StopFields : longer[s][stop] = positions[s][stop]
    <2> DEFINE p == positions[s]
               q == [p EXCEPT !.days = p.days + 1]
    <2>1. p \in Position /\ longer[s] = q
      BY <1>4 DEF Held
    <2> HIDE DEF p, longer
    <2>2. q \in Position
      BY <2>1 DEF Position
    <2>3. /\ q.entry = p.entry /\ q.quantity = p.quantity /\ q.initial = p.initial
          /\ q.value = p.value /\ q.fee = p.fee /\ q.triggered = p.triggered
      BY <2>1 DEF Position
    <2>4. \A stop \in StopFields : q[stop] = p[stop]
      BY <2>1 DEF Position, StopFields
    <2> QED
      BY <2>1, <2>2, <2>3, <2>4 DEF p
  <1>6. \A s \in Symbols \ Held : longer[s] = None
    OBVIOUS
  <1>7. longer \in [Symbols -> Position \cup {None}]
    <2>1. \A s \in Symbols : longer[s] \in Position \cup {None}
      BY <1>5, <1>6
    <2> QED
      BY <2>1
  <1> HIDE DEF longer
  <1>8. positions' \in [Symbols -> Position \cup {None}]
    BY <1>2, <1>3, <1>7
  <1>9. /\ \A s \in Held :
              /\ positions'[s] \in Position
              /\ positions'[s].entry = positions[s].entry
              /\ positions'[s].quantity = positions[s].quantity
              /\ positions'[s].initial = positions[s].initial
              /\ positions'[s].value = positions[s].value
              /\ positions'[s].fee = positions[s].fee
              /\ positions'[s].triggered = positions[s].triggered
              /\ \A stop \in StopFields : positions'[s][stop] = positions[s][stop]
        /\ \A s \in Symbols \ Held : positions'[s] = None
    BY <1>2, <1>4, <1>5, <1>6 DEF Held
  <1>10. Held' = Held
    BY <1>3, <1>9 DEF Held
  <1>11. empty \in Bar
    BY DEF Bar
  <1>12. TypeOK'
    <2>1. bars' \in [Symbols -> Bar \cup {None}]
      BY <1>2, <1>11
    <2>2. phase' \in Phases /\ todo' \subseteq Held'
      BY <1>2, <1>10 DEF Phases
    <2> QED
      BY <1>1, <1>2, <1>8, <2>1, <2>2 DEF TypeOK
  <1>13. Control'
    <2>1. empty # None
      BY <1>11, RecordAssumption
    <2>2. \A s \in Held \cap present : bars'[s] # None
      BY <1>2, <2>1 DEF Held
    <2>3. /\ phase' \in {"begin", "entries", "orders", "over", "refused"} => todo' = {}
          /\ phase' \in {"open", "range", "close"} => \A s \in todo' : bars'[s] # None
          /\ phase' # "orders"
      BY <1>2, <2>2
    <2>4. \A s \in Held' : positions'[s].triggered \subseteq DOMAIN rules.partial
      BY <1>1, <1>9, <1>10 DEF Control
    <2> QED
      BY <1>1, <1>2, <2>3, <2>4 DEF Control
  <1>14. BarsSound'
    <2>1. \A s \in Symbols : bars'[s] # None => bars'[s].low = None /\ bars'[s].high = None
      BY <1>2
    <2> QED
      BY <2>1 DEF BarsSound
  <1>15. StopsInForce'
    <2>1. \A s \in Held : s \notin Held \cap present => bars'[s] = None
      BY <1>2 DEF Held
    <2> QED
      BY <1>2, <1>10, <2>1 DEF StopsInForce
  <1>16. Holding'
    BY <1>2 DEF Holding
  <1>17. LegsAddUp'
    <2> USE DEF LegsAddUp
    <2> TAKE s \in Symbols
    <2>1. CASE s \in Held
      BY <1>1, <1>2, <1>9, <1>10, <2>1
    <2>2. CASE s \notin Held
      BY <1>1, <1>2, <1>10, <2>2
    <2> QED
      BY <2>1, <2>2
  <1>18. OrdersFit'
    BY <1>1, <1>2, <1>10, FitKept
  <1>19. OrdersSound'
    BY <1>1, <1>2 DEF OrdersSound
  <1>20. Cooled'
    BY <1>1, <1>2 DEF Cooled, Ranked
  <1>21. SoldNoted'
    BY <1>1, <1>2, <1>10 DEF SoldNoted
  <1>22. FillsInRange' /\ StopSold'
    BY <1>2 DEF FillsInRange, StopSold
  <1>23. NoStopFalls
    <2>1. \A s \in Held : \A stop \in StopFields : positions[s][stop] \in Stop
      BY <1>4 DEF Position, StopFields
    <2> QED
      BY <1>9, <2>1 DEF NoStopFalls, StopFields, Stop
  <1>24. BoughtCooled
    BY <1>9 DEF BoughtCooled
  <1> QED
    BY <1>12, <1>13, <1>14, <1>15, <1>16, <1>17, <1>18, <1>19, <1>20, <1>21, <1>22,
       <1>23, <1>24 DEF BacktestInv

-----------------------------------------------------------------------------
\* A purchase.
LEMMA PricesAreNumbers ==
    Prices \subseteq Nat \ {0} /\ Prices \subseteq Int /\ None \notin Prices
  BY BacktestAssumption, CostAssumption DEF Prices

LEMMA BuyKeeps ==
    ASSUME BacktestInv, NEW open \in Prices, NEW distance \in rules.distances,
           NEW atr \in Atrs, Buy(open, distance, atr)
    PROVE  BacktestInv' /\ NoStopFalls /\ BoughtCooled
  <1>0. PICK s, p : s = Head(pending) /\ p = Opened(open, distance, atr)
    OBVIOUS
  <1>1. /\ TypeOK /\ Control /\ BarsSound /\ StopsInForce /\ LegsAddUp
        /\ OrdersFit /\ OrdersSound /\ Cooled /\ SoldNoted
    BY DEF BacktestInv
  <1>2. /\ phase = "entries" /\ pending # <<>> /\ s \notin Held /\ bars[s] # None
        /\ distance < open + rules.slip
        /\ positions' = [positions EXCEPT ![s] = p]
        /\ armed' = [armed EXCEPT ![s] = Stops(p)]
        /\ bars' = [bars EXCEPT ![s] = [bars[s] EXCEPT !.open = open]]
        /\ pending' = Tail(pending) /\ legs' = [legs EXCEPT ![s] = NoLegs]
        /\ trade' = None /\ rules' = rules /\ session' = session
        /\ phase' = phase /\ todo' = todo /\ ranking' = ranking
        /\ capacity' = capacity /\ others' = others /\ closedDates' = closedDates
    BY <1>0 DEF Buy
  <1>3. /\ rules \in RuleSets /\ open \in Nat /\ open \in Int /\ todo = {}
        /\ None \notin Position /\ None \notin Bar
        /\ bars \in [Symbols -> Bar \cup {None}]
        /\ positions \in [Symbols -> Position \cup {None}]
        /\ armed \in [Symbols -> SUBSET Int] /\ legs \in [Symbols -> Legs]
    BY <1>1, <1>2, PricesAreNumbers, RecordAssumption DEF TypeOK, Control
  <1>4. /\ p \in Position /\ p.quantity = Quantity /\ p.initial = Quantity
        /\ p.value = p.entry * p.initial /\ p.fee = Fee * p.initial
        /\ p.triggered = {} /\ Ahead(rules, p, open)
    BY <1>0, <1>2, <1>3, OpenedSound
  <1>5. /\ pending \in Seq(Symbols) /\ Len(pending) \in Nat
        /\ Range(pending) \in SUBSET Symbols /\ IsInjective(pending)
        /\ Held \in SUBSET Symbols
        /\ rules.max_positions \in Nat /\ rules.max_sector_positions \in Nat
    BY <1>1, OrderedSymbols DEF TypeOK, OrdersSound
  <1>6. /\ s \in Symbols /\ s \in Range(pending)
        /\ pending' \in Seq(Symbols) /\ Len(pending') = Len(pending) - 1
        /\ Range(pending') = Range(pending) \ {s} /\ IsInjective(pending')
    BY <1>0, <1>2, <1>5, OneOrderLess
  <1>7. Stops(p) \in SUBSET Int /\ Topped(Stops(p))
    BY <1>4, StopsTopped DEF Position
  <1>8. bars[s] \in Bar /\ bars[s].low = None /\ bars[s].high = None
    BY <1>1, <1>2, <1>3, <1>6 DEF BarsSound
  <1>9. /\ bars'[s] \in Bar /\ bars'[s] # None /\ bars'[s].open = open
        /\ bars'[s].low = None /\ bars'[s].high = None
    BY <1>2, <1>3, <1>6, <1>8 DEF Bar
  <1>10. /\ positions'[s] = p /\ positions'[s] # None /\ armed'[s] = Stops(p)
         /\ legs'[s] = NoLegs
    BY <1>2, <1>3, <1>4, <1>6
  <1>11. \A x \in Symbols \ {s} : /\ positions'[x] = positions[x]
                                  /\ armed'[x] = armed[x] /\ legs'[x] = legs[x]
                                  /\ bars'[x] = bars[x]
    BY <1>2, <1>3
  <1>12. Held' = Held \cup {s}
    BY <1>6, <1>10, <1>11 DEF Held
  <1>13. TypeOK'
    <2>1. bars' \in [Symbols -> Bar \cup {None}]
      <3> HIDE DEF Bar
      <3> QED
        BY <1>2, <1>3, <1>6, <1>9
    <2>2. positions' \in [Symbols -> Position \cup {None}]
      BY <1>2, <1>3, <1>4
    <2>3. armed' \in [Symbols -> SUBSET Int]
      BY <1>2, <1>3, <1>7
    <2>4. NoLegs \in Legs
      BY DEF NoLegs, Legs
    <2>5. legs' \in [Symbols -> Legs]
      BY <1>2, <1>3, <2>4
    <2>6. todo' \subseteq Held'
      BY <1>2, <1>3
    <2> QED
      BY <1>1, <1>2, <1>6, <2>1, <2>2, <2>3, <2>5, <2>6 DEF TypeOK
  <1>14. Control'
    <2>1. \A x \in Held' : positions'[x].triggered \subseteq DOMAIN rules.partial
      BY <1>1, <1>4, <1>5, <1>10, <1>11, <1>12 DEF Control
    <2>2. \A x \in Symbols : Topped(armed'[x])
      BY <1>1, <1>7, <1>10, <1>11 DEF Control
    <2> QED
      BY <1>2, <1>3, <2>1, <2>2 DEF Control
  <1>15. BarsSound'
    <2> USE DEF BarsSound
    <2> TAKE x \in Symbols
    <2>1. CASE x = s
      BY <1>9, <2>1
    <2>2. CASE x # s
      BY <1>1, <1>2, <1>11, <2>2
    <2> QED
      BY <2>1, <2>2
  <1>16. StopsInForce'
    <2>1. Facing(s)'
      BY <1>2, <1>4, <1>9, <1>10 DEF Facing
    <2>2. ASSUME NEW x \in Held, bars[x] # None PROVE Facing(x)'
      <3>1. x \in Symbols \ {s}
        BY <1>2 DEF Held
      <3>2. Facing(x)
        BY <1>1, <1>2, <1>3, <2>2 DEF StopsInForce
      <3> QED
        BY <1>2, <1>11, <3>1, <3>2 DEF Facing
    <2>3. \A x \in Held' : bars'[x] # None => Facing(x)'
      <3> SUFFICES ASSUME NEW x \in Held', bars'[x] # None PROVE Facing(x)'
        OBVIOUS
      <3>1. CASE x = s
        BY <2>1, <3>1
      <3>2. CASE x # s
        BY <1>5, <1>11, <1>12, <2>2, <3>2
      <3> QED
        BY <3>1, <3>2
    <2> QED
      BY <1>2, <2>3 DEF StopsInForce
  <1>17. Holding'
    BY <1>2 DEF Holding
  <1>18. LegsAddUp'
    <2> USE DEF LegsAddUp
    <2> TAKE x \in Symbols
    <2>1. CASE x = s
      <3>1. p.quantity \in Nat /\ p.value \in Nat /\ p.fee \in Nat
        BY <1>4, BacktestAssumption DEF Position
      <3>2. Cardinality({}) = 0
        BY FS_EmptySet
      <3>3. /\ NoLegs.quantity + p.quantity = p.initial
            /\ NoLegs.value + p.value = p.entry * p.initial
            /\ NoLegs.fee + p.fee = Fee * p.initial
            /\ NoLegs.levels = Cardinality(p.triggered)
        BY <1>4, <3>1, <3>2 DEF NoLegs
      <3>4. x \in Held' /\ positions'[x] = p /\ legs'[x] = NoLegs
        BY <1>10, <1>12, <2>1
      <3> QED
        BY <3>3, <3>4
    <2>2. CASE x # s
      <3>1. x \in Held' <=> x \in Held
        BY <1>12, <2>2
      <3>2. positions'[x] = positions[x] /\ legs'[x] = legs[x]
        BY <1>11, <2>2
      <3> QED
        BY <1>1, <1>2, <3>1, <3>2
    <2> QED
      BY <2>1, <2>2
  <1>19. OrdersFit'
    <2>1. Held' \cup Range(pending') = Held \cup Range(pending)
      BY <1>6, <1>12
    <2>2. Held' \cap Range(pending') = {}
      BY <1>1, <1>6, <1>12 DEF OrdersFit
    <2>3. Cardinality(Held') = Cardinality(Held) + 1 /\ Cardinality(Held) \in Nat
      BY <1>2, <1>5, <1>6, <1>12, OneMore, SymbolsFinite
    <2>4. /\ Cardinality(Range(pending)) = Len(pending)
          /\ Cardinality(Held) + Len(pending) <= rules.max_positions
      BY <1>1 DEF OrdersFit
    <2>5. Cardinality(Held') + Len(pending') <= rules.max_positions
      BY <1>5, <1>6, <2>3, <2>4
    <2>6. Cardinality(Range(pending')) = Len(pending')
      BY <1>5, <1>6, <2>4, OneLess
    <2>7. \A x \in Symbols :
              Cardinality(InSector(SectorOf[x], Held \cup Range(pending)))
                  <= rules.max_sector_positions
      BY <1>1 DEF OrdersFit
    <2> QED
      BY <1>2, <2>1, <2>2, <2>5, <2>6, <2>7 DEF OrdersFit
  <1>20. OrdersSound'
    BY <1>2, <1>6 DEF OrdersSound
  <1>21. Cooled'
    <2>1. Ranked' = Ranked
      BY <1>2 DEF Ranked
    <2>2. \A x \in Range(pending') : legs'[x] = legs[x] /\ closedDates'[x] = closedDates[x]
      BY <1>2, <1>5, <1>6, <1>11
    <2> QED
      BY <1>1, <1>2, <1>6, <2>1, <2>2, FewerCooled
  <1>22. SoldNoted'
    BY <1>1, <1>2, <1>11, <1>12 DEF SoldNoted
  <1>23. FillsInRange' /\ StopSold'
    BY <1>2 DEF FillsInRange, StopSold
  <1>24. NoStopFalls
    <2> SUFFICES ASSUME NEW x \in Held, NEW stop \in StopFields,
                        positions[x][stop] # None
                 PROVE  /\ positions'[x][stop] # None
                        /\ positions'[x][stop] >= positions[x][stop]
      BY DEF NoStopFalls, StopFields
    <2>1. x \in Symbols \ {s} /\ positions[x] \in Position
      BY <1>2, <1>3 DEF Held
    <2>2. positions[x][stop] \in Stop
      BY <2>1 DEF Position, StopFields
    <2> QED
      BY <1>11, <2>1, <2>2 DEF Stop
  <1>25. BoughtCooled
    <2> SUFFICES ASSUME NEW x \in Symbols \ Held, positions'[x] # None,
                        legs[x].quantity # 0
                 PROVE  /\ rules.cooldown # None /\ closedDates[x] # None
                        /\ session - 1 - closedDates[x] >= rules.cooldown
      BY DEF BoughtCooled
    <2>1. x = s
      BY <1>11 DEF Held
    <2> QED
      BY <1>1, <1>2, <1>6, <2>1 DEF Cooled, Ranked
  <1> QED
    BY <1>13, <1>14, <1>15, <1>16, <1>17, <1>18, <1>19, <1>20, <1>21, <1>22, <1>23,
       <1>24, <1>25 DEF BacktestInv

-----------------------------------------------------------------------------
\* The steps of one position: what a change of its stops and what a sale keep.
Elsewhere ==
    /\ rules' = rules /\ session' = session /\ phase' = phase
    /\ pending' = pending /\ ranking' = ranking /\ capacity' = capacity
    /\ others' = others

LEMMA ChangeKeeps ==
    ASSUME BacktestInv, Elsewhere, phase \in {"open", "range"},
           NEW s \in Held, NEW p \in Position,
           SameBut(positions[s], p), Raised(positions[s], p),
           positions' = [positions EXCEPT ![s] = p],
           closedDates' = closedDates, legs' = legs, trade' = None,
           armed' \in [Symbols -> SUBSET Int], \A x \in Symbols : Topped(armed'[x]),
           bars' \in [Symbols -> Bar \cup {None}],
           todo' \subseteq todo, \A x \in todo' : bars'[x] # None
    PROVE  /\ TypeOK' /\ Control' /\ LegsAddUp' /\ OrdersFit' /\ OrdersSound'
           /\ Cooled' /\ SoldNoted' /\ FillsInRange' /\ StopSold' /\ Holding'
           /\ NoStopFalls /\ BoughtCooled /\ Held' = Held
  <1>1. /\ TypeOK /\ Control /\ LegsAddUp /\ OrdersFit /\ OrdersSound /\ Cooled
        /\ SoldNoted
    BY DEF BacktestInv
  <1>2. /\ rules' = rules /\ session' = session /\ phase' = phase
        /\ pending' = pending /\ ranking' = ranking /\ capacity' = capacity
        /\ others' = others
    BY DEF Elsewhere
  <1>3. /\ s \in Symbols /\ None \notin Position
        /\ positions \in [Symbols -> Position \cup {None}] /\ todo \subseteq Held
        /\ positions[s] \in Position
    BY <1>1, RecordAssumption DEF TypeOK, Held
  <1>4. /\ positions'[s] = p
        /\ \A x \in Symbols \ {s} : positions'[x] = positions[x]
    BY <1>3
  <1>5. Held' = Held
    BY <1>3, <1>4 DEF Held
  <1>6. TypeOK'
    <2>1. positions' \in [Symbols -> Position \cup {None}]
      BY <1>3
    <2> QED
      BY <1>1, <1>2, <1>3, <1>5, <2>1 DEF TypeOK
  <1>7. Control'
    <2>1. \A x \in Held' : positions'[x].triggered \subseteq DOMAIN rules.partial
      BY <1>1, <1>4, <1>5 DEF Control, SameBut, Held
    <2> QED
      BY <1>1, <1>2, <2>1 DEF Control
  <1>8. LegsAddUp'
    <2> USE DEF LegsAddUp
    <2> TAKE x \in Symbols
    <2>1. CASE x = s
      BY <1>1, <1>2, <1>4, <1>5, <2>1 DEF SameBut
    <2>2. CASE x # s
      BY <1>1, <1>2, <1>4, <1>5, <2>2
    <2> QED
      BY <2>1, <2>2
  <1>9. OrdersFit'
    BY <1>1, <1>2, <1>5, FitKept
  <1>10. OrdersSound'
    BY <1>1, <1>2 DEF OrdersSound
  <1>11. Cooled'
    BY <1>1, <1>2 DEF Cooled, Ranked
  <1>12. SoldNoted'
    BY <1>1, <1>2, <1>5 DEF SoldNoted
  <1>13. FillsInRange' /\ StopSold'
    BY DEF FillsInRange, StopSold
  <1>14. Holding'
    BY <1>2 DEF Holding
  <1>15. NoStopFalls
    <2> SUFFICES ASSUME NEW x \in Held, NEW stop \in StopFields,
                        positions[x][stop] # None
                 PROVE  /\ positions'[x][stop] # None
                        /\ positions'[x][stop] >= positions[x][stop]
      BY DEF NoStopFalls, StopFields
    <2>1. x \in Symbols /\ positions[x] \in Position
      BY <1>3 DEF Held
    <2>2. positions[x][stop] \in Stop
      BY <2>1 DEF Position, StopFields
    <2>3. CASE x = s
      BY <1>4, <2>3 DEF Raised
    <2>4. CASE x # s
      BY <1>4, <2>1, <2>2, <2>4 DEF Stop
    <2> QED
      BY <2>3, <2>4
  <1>16. BoughtCooled
    BY <1>4 DEF BoughtCooled, Held
  <1> QED
    BY <1>5, <1>6, <1>7, <1>8, <1>9, <1>10, <1>11, <1>12, <1>13, <1>14, <1>15, <1>16

LEMMA SaleKeeps ==
    ASSUME BacktestInv, Elsewhere, phase \in {"open", "range", "close", "final"},
           NEW s \in Held, NEW p \in Position,
           SameBut(positions[s], p), Raised(positions[s], p),
           NEW d, Sound(rules, p, d), Execute(s, p, d),
           armed' = armed, bars' \in [Symbols -> Bar \cup {None}],
           todo' = IF Whole(p, d) THEN todo \ {s} ELSE todo,
           phase # "final" => \A x \in todo' : bars'[x] # None
    PROVE  /\ TypeOK' /\ Control' /\ LegsAddUp' /\ OrdersFit' /\ OrdersSound'
           /\ Cooled' /\ SoldNoted' /\ NoStopFalls /\ BoughtCooled
           /\ Held' = IF Whole(p, d) THEN Held \ {s} ELSE Held
           /\ \A x \in Symbols \ {s} : positions'[x] = positions[x]
           /\ ~Whole(p, d) => positions'[s] = AfterSale(p, d)
  <1>1. /\ TypeOK /\ Control /\ LegsAddUp /\ OrdersFit /\ OrdersSound /\ Cooled
        /\ SoldNoted
    BY DEF BacktestInv
  <1>2. /\ rules' = rules /\ session' = session /\ phase' = phase
        /\ pending' = pending /\ ranking' = ranking /\ capacity' = capacity
        /\ others' = others
    BY DEF Elsewhere
  <1>3. /\ s \in Symbols /\ None \notin Position /\ rules \in Rules
        /\ positions \in [Symbols -> Position \cup {None}] /\ todo \subseteq Held
        /\ positions[s] \in Position /\ session \in Int /\ None \notin Int
    BY <1>1, RecordAssumption, RuleTypes, CostAssumption, BacktestAssumption
       DEF TypeOK, Held, Sessions
  <1>4. /\ positions' \in [Symbols -> Position \cup {None}]
        /\ closedDates' \in [Symbols -> Sessions \cup {None}]
        /\ legs' \in [Symbols -> Legs]
        /\ LegsAddUp'
        /\ \A x \in Symbols \ {s} : /\ positions'[x] = positions[x]
                                    /\ closedDates'[x] = closedDates[x]
                                    /\ legs'[x] = legs[x]
        /\ positions'[s] = IF Whole(p, d) THEN None ELSE AfterSale(p, d)
        /\ Whole(p, d) /\ phase # "final" => closedDates'[s] = session
        /\ Held' = IF Whole(p, d) THEN Held \ {s} ELSE Held
        /\ \A x \in Held' : positions'[x].triggered \subseteq DOMAIN rules.partial
    BY <1>1, <1>2, ExecuteKeeps
  <1>5. TypeOK'
    <2>1. todo' \subseteq Held'
      BY <1>3, <1>4
    <2> QED
      BY <1>1, <1>2, <1>4, <2>1 DEF TypeOK
  <1>6. Control'
    BY <1>1, <1>2, <1>4 DEF Control
  <1>7. OrdersFit'
    <2>1. Held' \subseteq Held
      BY <1>4
    <2> QED
      BY <1>1, <1>2, <2>1, FitKept
  <1>8. OrdersSound'
    BY <1>1, <1>2 DEF OrdersSound
  <1>9. Cooled'
    <2>1. Range(pending) \subseteq Symbols \ {s}
      BY <1>1, OrderedSymbols DEF OrdersFit
    <2>2. Ranked' = Ranked
      BY <1>2 DEF Ranked
    <2> QED
      BY <1>1, <1>2, <1>4, <2>1, <2>2, FewerCooled
  <1>10. SoldNoted'
    <2> SUFFICES ASSUME phase \notin {"final", "over"}, NEW x \in Symbols,
                        x \notin Held', legs'[x].quantity # 0
                 PROVE  closedDates'[x] # None
      BY <1>2 DEF SoldNoted
    <2>1. CASE x = s
      <3>1. Whole(p, d)
        BY <1>4, <2>1
      <3>2. closedDates'[s] = session
        BY <1>4, <3>1
      <3> QED
        BY <1>3, <2>1, <3>2
    <2>2. CASE x # s
      BY <1>1, <1>4, <2>2 DEF SoldNoted
    <2> QED
      BY <2>1, <2>2
  <1>11. NoStopFalls
    <2> SUFFICES ASSUME NEW x \in Held, positions'[x] # None, NEW stop \in StopFields,
                        positions[x][stop] # None
                 PROVE  /\ positions'[x][stop] # None
                        /\ positions'[x][stop] >= positions[x][stop]
      BY DEF NoStopFalls, StopFields
    <2>1. x \in Symbols /\ positions[x] \in Position
      BY <1>3 DEF Held
    <2>2. positions[x][stop] \in Stop
      BY <2>1 DEF Position, StopFields
    <2>3. CASE x = s
      <3>1. ~Whole(p, d) /\ positions'[x] = AfterSale(p, d)
        BY <1>4, <2>3
      <3>2. p.triggered \subseteq DOMAIN rules.partial
        BY <1>1 DEF Control, SameBut
      <3>3. positions'[x][stop] = p[stop]
        BY <1>3, <3>1, <3>2, AfterSaleKeeps
      <3> QED
        BY <2>3, <3>3 DEF Raised
    <2>4. CASE x # s
      BY <1>4, <2>1, <2>2, <2>4 DEF Stop
    <2> QED
      BY <2>3, <2>4
  <1>12. BoughtCooled
    BY <1>4 DEF BoughtCooled, Held
  <1> QED
    BY <1>4, <1>5, <1>6, <1>7, <1>8, <1>9, <1>10, <1>11, <1>12

LEMMA AtOpenKeeps ==
    ASSUME BacktestInv, NEW s \in Symbols, AtOpen(s)
    PROVE  BacktestInv' /\ NoStopFalls /\ BoughtCooled
  <1>1. /\ TypeOK /\ Control /\ BarsSound /\ StopsInForce
    BY DEF BacktestInv
  <1>2. phase = "open" /\ s \in todo
    BY DEF AtOpen, First
  <1>3. Elsewhere
    BY DEF AtOpen, Elsewhere
  <1>4. /\ rules \in Rules /\ s \in Held /\ bars[s] # None /\ bars[s] \in Bar
        /\ bars[s].low = None /\ bars[s].high = None
        /\ positions[s] \in Position /\ bars \in [Symbols -> Bar \cup {None}]
        /\ todo \subseteq Held /\ armed \in [Symbols -> SUBSET Int]
        /\ None \notin Bar
    BY <1>1, <1>2, RuleTypes, RecordAssumption DEF TypeOK, Control, BarsSound, Held
  <1>5. PICK open \in IF bars[s].open = None THEN Prices ELSE {bars[s].open} :
            LET p == ActivateAtOpen(rules, positions[s], open)
                d == EvaluateOpen(rules, p, open) IN
            /\ bars' = [bars EXCEPT ![s] = [bars[s] EXCEPT !.open = open]]
            /\ IF d = Hold
               THEN /\ positions' = [positions EXCEPT ![s] = p]
                    /\ armed' = [armed EXCEPT ![s] = Stops(p)]
                    /\ trade' = None /\ UNCHANGED account
               ELSE Execute(s, p, d) /\ UNCHANGED armed
            /\ todo' = IF d = Hold \/ Whole(p, d) THEN todo \ {s} ELSE todo
    BY DEF AtOpen
  <1>6. PICK p, d : /\ p = ActivateAtOpen(rules, positions[s], open)
                    /\ d = EvaluateOpen(rules, p, open)
    OBVIOUS
  <1>7. /\ bars' = [bars EXCEPT ![s] = [bars[s] EXCEPT !.open = open]]
        /\ d = Hold => /\ positions' = [positions EXCEPT ![s] = p]
                       /\ armed' = [armed EXCEPT ![s] = Stops(p)]
                       /\ trade' = None /\ closedDates' = closedDates
                       /\ legs' = legs /\ todo' = todo \ {s}
        /\ d # Hold => /\ Execute(s, p, d) /\ armed' = armed
                       /\ todo' = IF Whole(p, d) THEN todo \ {s} ELSE todo
    BY <1>5, <1>6 DEF account
  <1>8. open \in Prices /\ open \in Nat /\ open \in Int
    BY <1>4, PricesAreNumbers DEF Bar
  <1>9. p \in Position /\ SameBut(positions[s], p) /\ Raised(positions[s], p)
    BY <1>4, <1>6, <1>8, ActivateRaises
  <1>10. /\ d = Hold => Ahead(rules, p, open)
         /\ d # Hold => Sound(rules, p, d) /\ d.price = open
    BY <1>4, <1>6, <1>8, <1>9, OpenSound
  <1>11. /\ bars'[s] \in Bar /\ bars'[s] # None /\ bars'[s].open = open
         /\ bars'[s].low = None /\ bars'[s].high = None
    BY <1>4, <1>7, <1>8 DEF Bar
  <1>12. \A x \in Symbols \ {s} : bars'[x] = bars[x]
    BY <1>4, <1>7
  <1>13. bars' \in [Symbols -> Bar \cup {None}]
    <2> HIDE DEF Bar
    <2> QED
      BY <1>4, <1>7, <1>11
  <1>14. \A x \in todo : bars'[x] # None
    BY <1>1, <1>2, <1>4, <1>11, <1>12 DEF Control, Held
  <1>15. rules' = rules /\ phase' = phase
    BY <1>3 DEF Elsewhere
  <1>16. BarsSound'
    <2> USE DEF BarsSound
    <2> TAKE x \in Symbols
    <2>1. CASE x = s
      BY <1>11, <2>1
    <2>2. CASE x # s
      BY <1>1, <1>12, <1>15, <2>2
    <2> QED
      BY <2>1, <2>2
  <1>17. CASE d = Hold
    <2>1. Stops(p) \in SUBSET Int /\ Topped(Stops(p))
      BY <1>9, StopsTopped DEF Position
    <2>2. /\ armed' \in [Symbols -> SUBSET Int] /\ armed'[s] = Stops(p)
          /\ \A x \in Symbols \ {s} : armed'[x] = armed[x]
      BY <1>4, <1>7, <1>17, <2>1
    <2>3. \A x \in Symbols : Topped(armed'[x])
      BY <1>1, <2>1, <2>2 DEF Control
    <2>4. /\ TypeOK' /\ Control' /\ LegsAddUp' /\ OrdersFit' /\ OrdersSound'
          /\ Cooled' /\ SoldNoted' /\ FillsInRange' /\ StopSold' /\ Holding'
          /\ NoStopFalls /\ BoughtCooled /\ Held' = Held
      <3>1. todo' \subseteq todo /\ \A x \in todo' : bars'[x] # None
        BY <1>7, <1>14, <1>17
      <3> QED
        BY <1>2, <1>3, <1>4, <1>7, <1>9, <1>13, <1>17, <2>2, <2>3, <3>1, ChangeKeeps
    <2>5. positions'[s] = p /\ \A x \in Symbols \ {s} : positions'[x] = positions[x]
      BY <1>1, <1>7, <1>17 DEF TypeOK
    <2>6. Facing(s)'
      BY <1>8, <1>10, <1>11, <1>15, <1>17, <2>2, <2>5 DEF Facing
    <2>7. ASSUME NEW x \in Held, x \notin todo, bars'[x] # None, x # s
          PROVE  Facing(x)'
      <3>1. x \in Symbols \ {s}
        BY <2>7 DEF Held
      <3>2. Facing(x)
        BY <1>1, <1>2, <1>12, <2>7, <3>1 DEF StopsInForce
      <3> QED
        BY <1>12, <1>15, <2>2, <2>5, <3>1, <3>2 DEF Facing
    <2>8. \A x \in Held' \ todo' : bars'[x] # None => Facing(x)'
      BY <1>7, <1>17, <2>4, <2>6, <2>7
    <2>9. StopsInForce'
      BY <1>2, <1>15, <2>8 DEF StopsInForce
    <2> QED
      BY <1>16, <2>4, <2>9 DEF BacktestInv
  <1>18. CASE d # Hold
    <2>1. /\ TypeOK' /\ Control' /\ LegsAddUp' /\ OrdersFit' /\ OrdersSound'
          /\ Cooled' /\ SoldNoted' /\ NoStopFalls /\ BoughtCooled
          /\ Held' = IF Whole(p, d) THEN Held \ {s} ELSE Held
          /\ \A x \in Symbols \ {s} : positions'[x] = positions[x]
      <3>1. \A x \in todo' : bars'[x] # None
        BY <1>7, <1>14, <1>18
      <3> QED
        BY <1>2, <1>3, <1>4, <1>7, <1>9, <1>10, <1>13, <1>18, <3>1, SaleKeeps
    <2>2. \A x \in Held' \ todo' : x \in Held /\ x \notin todo /\ x \in Symbols \ {s}
      BY <1>2, <1>7, <1>18, <2>1 DEF Held
    <2>3. ASSUME NEW x \in Held' \ todo', bars'[x] # None
          PROVE  Facing(x)'
      <3>1. x \in Held /\ x \notin todo /\ x \in Symbols \ {s}
        BY <2>2
      <3>2. Facing(x)
        BY <1>1, <1>2, <1>12, <2>3, <3>1 DEF StopsInForce
      <3> QED
        BY <1>7, <1>12, <1>15, <1>18, <2>1, <3>1, <3>2 DEF Facing
    <2>4. StopsInForce'
      BY <1>2, <1>15, <2>3 DEF StopsInForce
    <2>5. Holding'
      BY <1>2, <1>15 DEF Holding
    <2>6. /\ trade'.symbol = s /\ trade'.phase = "open" /\ trade'.price = open
      BY <1>2, <1>7, <1>10, <1>18 DEF Execute
    <2>7. FillsInRange' /\ StopSold'
      BY <1>11, <2>6 DEF FillsInRange, StopSold
    <2> QED
      BY <1>16, <2>1, <2>4, <2>5, <2>7 DEF BacktestInv
  <1> QED
    BY <1>17, <1>18

LEMMA InRangeKeeps ==
    ASSUME BacktestInv, NEW s \in Symbols, NEW atr \in Atrs, InRange(s, atr)
    PROVE  BacktestInv' /\ NoStopFalls /\ BoughtCooled
  <1>1. /\ TypeOK /\ Control /\ BarsSound /\ StopsInForce
    BY DEF BacktestInv
  <1>2. phase = "range" /\ s \in todo
    BY DEF InRange, First
  <1>3. Elsewhere /\ armed' = armed
    BY DEF InRange, Elsewhere
  <1>4. PICK p : p = positions[s]
    OBVIOUS
  <1>5. /\ rules \in Rules /\ s \in Held /\ bars[s] # None /\ bars[s] \in Bar
        /\ p \in Position /\ bars \in [Symbols -> Bar \cup {None}]
        /\ todo \subseteq Held /\ armed \in [Symbols -> SUBSET Int]
        /\ None \notin Bar /\ p.triggered \subseteq DOMAIN rules.partial
    BY <1>1, <1>2, <1>4, RuleTypes, RecordAssumption DEF TypeOK, Control, Held
  <1>6. /\ bars[s].open \in Prices /\ armed[s] = Stops(p)
        /\ Ahead(rules, p, bars[s].open)
    BY <1>1, <1>2, <1>4 DEF StopsInForce, Facing
  <1>7. PICK e \in Extremes(s) :
            LET q == positions[s]
                d == EvaluateIntrabar(rules, q, e[1], e[2]) IN
            /\ bars' = [bars EXCEPT ![s] = [bars[s] EXCEPT !.low = e[1], !.high = e[2]]]
            /\ IF d = Hold
               THEN /\ positions' = [positions EXCEPT ![s] =
                                         UpdateAfterBar(rules, q, e[2], atr)]
                    /\ trade' = None /\ UNCHANGED account
               ELSE Execute(s, q, d)
            /\ todo' = IF d = Hold \/ Whole(q, d) THEN todo \ {s} ELSE todo
    BY DEF InRange
  <1>8. PICK low, high, open : low = e[1] /\ high = e[2] /\ open = bars[s].open
    OBVIOUS
  <1>9. /\ low \in Prices /\ high \in Prices /\ low <= open /\ open <= high
    <2>1. CASE bars[s].low # None
      <3>1. e = <<bars[s].low, bars[s].high>>
        BY <1>7, <2>1 DEF Extremes
      <3>2. /\ bars[s].low \in Prices /\ bars[s].high \in Prices
            /\ bars[s].low <= bars[s].open /\ bars[s].open <= bars[s].high
        BY <1>1, <1>5, <2>1 DEF BarsSound, Bar
      <3> QED
        BY <1>8, <3>1, <3>2
    <2>2. CASE bars[s].low = None
      <3>1. e \in Prices \X Prices /\ e[1] <= bars[s].open /\ bars[s].open <= e[2]
        BY <1>7, <2>2 DEF Extremes
      <3> QED
        BY <1>8, <3>1
    <2> QED
      BY <2>1, <2>2
  <1>10. /\ low \in Nat /\ high \in Nat /\ open \in Nat /\ open \in Prices
    BY <1>6, <1>8, <1>9, PricesAreNumbers
  <1>11. PICK d : d = EvaluateIntrabar(rules, p, low, high)
    OBVIOUS
  <1>12. /\ bars' = [bars EXCEPT ![s] = [bars[s] EXCEPT !.low = low, !.high = high]]
         /\ d = Hold => /\ positions' = [positions EXCEPT ![s] =
                                             UpdateAfterBar(rules, p, high, atr)]
                        /\ trade' = None /\ closedDates' = closedDates
                        /\ legs' = legs /\ todo' = todo \ {s}
         /\ d # Hold => /\ Execute(s, p, d)
                        /\ todo' = IF Whole(p, d) THEN todo \ {s} ELSE todo
    BY <1>4, <1>7, <1>8, <1>11 DEF account
  <1>13. /\ d = Hold => \A stop \in Stops(p) : stop < low
         /\ d # Hold =>
               /\ Sound(rules, p, d) /\ d.price \in Nat
               /\ low <= d.price /\ d.price <= high
               /\ IF Stops(p) # {} /\ low <= Max(Stops(p))
                  THEN /\ d.quantity = p.quantity /\ d.price = Max(Stops(p))
                       /\ d.reason = "stop"
                  ELSE d.reason # "stop"
    BY <1>5, <1>6, <1>8, <1>9, <1>10, <1>11, RangeSound
  <1>14. /\ bars'[s] \in Bar /\ bars'[s] # None /\ bars'[s].open = open
         /\ bars'[s].low = low /\ bars'[s].high = high
    BY <1>5, <1>8, <1>9, <1>10, <1>12 DEF Bar
  <1>15. \A x \in Symbols \ {s} : bars'[x] = bars[x]
    BY <1>5, <1>12
  <1>16. bars' \in [Symbols -> Bar \cup {None}]
    <2> HIDE DEF Bar
    <2> QED
      BY <1>5, <1>12, <1>14
  <1>17. \A x \in todo : bars'[x] # None
    BY <1>1, <1>2, <1>5, <1>14, <1>15 DEF Control, Held
  <1>18. rules' = rules /\ phase' = phase
    BY <1>3 DEF Elsewhere
  <1>19. BarsSound'
    <2> USE DEF BarsSound
    <2> TAKE x \in Symbols
    <2>1. CASE x = s
      BY <1>2, <1>9, <1>10, <1>14, <1>18, <2>1, CostAssumption
    <2>2. CASE x # s
      BY <1>1, <1>15, <1>18, <2>2
    <2> QED
      BY <2>1, <2>2
  <1>20. ASSUME \A x \in Symbols \ {s} : positions'[x] = positions[x],
                NEW x \in Held, x # s
         PROVE  /\ x \in todo => Facing(x)'
                /\ x \notin todo /\ bars'[x] # None => Faced(x)'
    <2>1. x \in Symbols \ {s}
      BY <1>20 DEF Held
    <2>2. x \in todo => Facing(x)
      BY <1>1, <1>2 DEF StopsInForce
    <2>3. x \notin todo /\ bars'[x] # None => Faced(x)
      BY <1>1, <1>2, <1>15, <2>1 DEF StopsInForce
    <2>4. positions'[x] = positions[x] /\ bars'[x] = bars[x] /\ armed' = armed
      BY <1>3, <1>15, <1>20, <2>1
    <2> QED
      BY <1>18, <2>2, <2>3, <2>4 DEF Facing, Faced
  <1>21. CASE d = Hold
    <2>1. PICK q : q = UpdateAfterBar(rules, p, high, atr)
      OBVIOUS
    <2>2. q \in Position /\ SameBut(p, q) /\ Raised(p, q)
      BY <1>5, <1>10, <2>1, UpdateRaises
    <2>3. /\ TypeOK' /\ Control' /\ LegsAddUp' /\ OrdersFit' /\ OrdersSound'
          /\ Cooled' /\ SoldNoted' /\ FillsInRange' /\ StopSold' /\ Holding'
          /\ NoStopFalls /\ BoughtCooled /\ Held' = Held
      <3>1. todo' \subseteq todo /\ \A x \in todo' : bars'[x] # None
        BY <1>12, <1>17, <1>21
      <3>2. armed' \in [Symbols -> SUBSET Int] /\ \A x \in Symbols : Topped(armed'[x])
        BY <1>1, <1>3, <1>5 DEF Control
      <3>3. positions' = [positions EXCEPT ![s] = q]
        BY <1>12, <1>21, <2>1
      <3>4. SameBut(positions[s], q) /\ Raised(positions[s], q)
        BY <1>4, <2>2
      <3> QED
        BY <1>2, <1>3, <1>5, <1>12, <1>16, <1>21, <2>2, <3>1, <3>2, <3>3, <3>4,
           ChangeKeeps
    <2>4. \A x \in Symbols \ {s} : positions'[x] = positions[x]
      BY <1>1, <1>12, <1>21 DEF TypeOK
    <2>5. Faced(s)'
      BY <1>3, <1>6, <1>9, <1>13, <1>14, <1>21 DEF Faced
    <2>6. StopsInForce'
      <3>1. \A x \in todo' : Facing(x)'
        BY <1>5, <1>12, <1>20, <1>21, <2>4
      <3>2. \A x \in Held' : x \notin todo' /\ bars'[x] # None => Faced(x)'
        <4> SUFFICES ASSUME NEW x \in Held, x \notin todo', bars'[x] # None
                     PROVE  Faced(x)'
          BY <2>3
        <4>1. CASE x = s
          BY <2>5, <4>1
        <4>2. CASE x # s
          BY <1>12, <1>20, <1>21, <2>4, <4>2
        <4> QED
          BY <4>1, <4>2
      <3> QED
        BY <1>2, <1>18, <3>1, <3>2 DEF StopsInForce
    <2> QED
      BY <1>19, <2>3, <2>6 DEF BacktestInv
  <1>22. CASE d # Hold
    <2>1. /\ TypeOK' /\ Control' /\ LegsAddUp' /\ OrdersFit' /\ OrdersSound'
          /\ Cooled' /\ SoldNoted' /\ NoStopFalls /\ BoughtCooled
          /\ Held' = IF Whole(p, d) THEN Held \ {s} ELSE Held
          /\ \A x \in Symbols \ {s} : positions'[x] = positions[x]
          /\ ~Whole(p, d) => positions'[s] = AfterSale(p, d)
      <3>1. \A x \in todo' : bars'[x] # None
        BY <1>12, <1>17, <1>22
      <3>2. SameBut(positions[s], p) /\ Raised(positions[s], p)
        BY <1>4, <1>5, RaisedRefl
      <3> QED
        BY <1>2, <1>3, <1>5, <1>12, <1>13, <1>16, <1>22, <3>1, <3>2, SaleKeeps
    <2>2. ~Whole(p, d) => Facing(s)'
      <3> SUFFICES ASSUME ~Whole(p, d) PROVE Facing(s)'
        OBVIOUS
      <3>1. /\ Stops(AfterSale(p, d)) = Stops(p)
            /\ Ahead(rules, AfterSale(p, d), open)
        BY <1>5, <1>6, <1>8, <1>13, <1>22, AfterSaleKeeps
      <3> QED
        BY <1>3, <1>6, <1>10, <1>14, <1>18, <2>1, <3>1 DEF Facing
    <2>3. StopsInForce'
      <3>1. ASSUME NEW x \in todo' PROVE Facing(x)'
        <4>1. CASE x = s
          BY <1>12, <1>22, <2>2, <4>1
        <4>2. CASE x # s
          BY <1>5, <1>12, <1>20, <1>22, <2>1, <4>2
        <4> QED
          BY <4>1, <4>2
      <3>2. ASSUME NEW x \in Held', x \notin todo', bars'[x] # None
            PROVE  Faced(x)'
        <4>1. x # s /\ x \in Held /\ x \notin todo
          BY <1>2, <1>12, <1>22, <2>1, <3>2
        <4> QED
          BY <1>20, <2>1, <3>2, <4>1
      <3> QED
        BY <1>2, <1>18, <3>1, <3>2 DEF StopsInForce
    <2>4. Holding'
      BY <1>2, <1>18 DEF Holding
    <2>5. /\ trade'.symbol = s /\ trade'.phase = "range" /\ trade'.price = d.price
          /\ trade'.reason = d.reason /\ trade'.whole = Whole(p, d)
      BY <1>2, <1>12, <1>22 DEF Execute
    <2>6. FillsInRange'
      BY <1>13, <1>14, <1>22, <2>5 DEF FillsInRange
    <2>7. d.quantity = p.quantity => Whole(p, d)
      BY <1>5, BacktestAssumption DEF Whole, Position
    <2>8. StopSold'
      BY <1>3, <1>6, <1>13, <1>14, <1>22, <2>5, <2>7 DEF StopSold
    <2> QED
      BY <1>19, <2>1, <2>3, <2>4, <2>6, <2>8 DEF BacktestInv
  <1> QED
    BY <1>21, <1>22

LEMMA AtCloseKeeps ==
    ASSUME BacktestInv, NEW s \in Symbols, NEW view, AtClose(s, view)
    PROVE  BacktestInv' /\ NoStopFalls /\ BoughtCooled
  <1>1. /\ TypeOK /\ Control /\ BarsSound /\ StopsInForce /\ Holding /\ LegsAddUp
        /\ OrdersFit /\ OrdersSound /\ Cooled /\ SoldNoted
    BY DEF BacktestInv
  <1>2. PICK p, d : /\ p = positions[s]
                    /\ d = EvaluateClose(rules, p, others, view)
    OBVIOUS
  <1>3. /\ phase = "close" /\ s \in todo /\ todo' = todo \ {s} /\ bars' = bars
        /\ armed' = armed
        /\ d = Hold => /\ trade' = None /\ positions' = positions
                       /\ closedDates' = closedDates /\ legs' = legs
        /\ d # Hold => Execute(s, p, d)
    BY <1>2 DEF AtClose, First, account
  <1>4. Elsewhere
    BY DEF AtClose, Elsewhere
  <1>5. /\ rules' = rules /\ session' = session /\ phase' = phase
        /\ pending' = pending /\ ranking' = ranking /\ capacity' = capacity
        /\ others' = others
    BY <1>4 DEF Elsewhere
  <1>6. /\ rules \in Rules /\ s \in Held /\ p \in Position /\ todo \subseteq Held
        /\ bars \in [Symbols -> Bar \cup {None}]
        /\ \A x \in todo : bars[x] # None
    BY <1>1, <1>2, <1>3, RuleTypes DEF TypeOK, Control, Held
  <1>7. /\ d # Hold => /\ Sound(rules, p, d) /\ d.price = None
                       /\ d.quantity = p.quantity
        /\ d = Hold /\ rules.hold # None /\ rules.hold.hard =>
               p.days < rules.hold.days
    BY <1>2, <1>6, CloseSound
  <1>8. BarsSound'
    BY <1>1, <1>3, <1>5 DEF BarsSound
  <1>9. CASE d = Hold
    <2>1. Quiet
      BY <1>3, <1>5, <1>9 DEF Quiet
    <2>2. Held' = Held
      BY <2>1, QuietKeeps
    <2>3. TypeOK'
      BY <1>1, <1>3, <1>5, <1>9, <2>2 DEF TypeOK
    <2>4. Control'
      BY <1>1, <1>3, <1>5, <1>9, <2>2 DEF Control
    <2>5. StopsInForce'
      BY <1>1, <1>3, <1>5, <2>1, <2>2, StopsKept DEF StopsInForce
    <2>6. Holding'
      BY <1>1, <1>2, <1>3, <1>5, <1>7, <1>9, <2>2 DEF Holding
    <2>7. OrdersFit'
      BY <1>1, <1>5, <2>2, FitKept
    <2>8. OrdersSound'
      BY <1>1, <1>3, <1>5 DEF OrdersSound
    <2>9. Cooled'
      BY <1>1, <1>3, <1>5, <1>9 DEF Cooled, Ranked
    <2>10. SoldNoted'
      BY <1>1, <1>3, <1>5, <1>9, <2>2 DEF SoldNoted
    <2> QED
      BY <1>8, <2>1, <2>3, <2>4, <2>5, <2>6, <2>7, <2>8, <2>9, <2>10, QuietKeeps
         DEF BacktestInv
  <1>10. CASE d # Hold
    <2>1. Whole(p, d)
      BY <1>6, <1>7, <1>10, BacktestAssumption DEF Whole, Position
    <2>2. /\ TypeOK' /\ Control' /\ LegsAddUp' /\ OrdersFit' /\ OrdersSound'
          /\ Cooled' /\ SoldNoted' /\ NoStopFalls /\ BoughtCooled
          /\ Held' = Held \ {s}
          /\ \A x \in Symbols \ {s} : positions'[x] = positions[x]
      <3>1. SameBut(positions[s], p) /\ Raised(positions[s], p)
        BY <1>2, <1>6, RaisedRefl
      <3>2. \A x \in todo' : bars'[x] # None
        BY <1>3, <1>6
      <3>3. todo' = IF Whole(p, d) THEN todo \ {s} ELSE todo
        BY <1>3, <2>1
      <3>4. bars' \in [Symbols -> Bar \cup {None}]
        BY <1>3, <1>6
      <3>5. /\ TypeOK' /\ Control' /\ LegsAddUp' /\ OrdersFit' /\ OrdersSound'
            /\ Cooled' /\ SoldNoted' /\ NoStopFalls /\ BoughtCooled
            /\ Held' = IF Whole(p, d) THEN Held \ {s} ELSE Held
            /\ \A x \in Symbols \ {s} : positions'[x] = positions[x]
        BY <1>3, <1>4, <1>6, <1>7, <1>10, <3>1, <3>2, <3>3, <3>4, SaleKeeps
      <3> QED
        BY <2>1, <3>5
    <2>3. StopsInForce'
      <3>1. ASSUME NEW x \in Held', bars'[x] # None PROVE Faced(x)'
        <4>1. Faced(x)
          BY <1>1, <1>3, <2>2, <3>1 DEF StopsInForce
        <4> QED
          BY <1>3, <4>1 DEF Faced
      <3> QED
        BY <1>3, <1>5, <3>1 DEF StopsInForce
    <2>4. Holding'
      BY <1>1, <1>3, <1>5, <2>2 DEF Holding, Held
    <2>5. trade'.symbol = s /\ trade'.phase = "close" /\ trade'.price = None
      BY <1>3, <1>7, <1>10 DEF Execute
    <2>6. FillsInRange' /\ StopSold'
      BY <2>5 DEF FillsInRange, StopSold
    <2> QED
      BY <1>8, <2>2, <2>3, <2>4, <2>6 DEF BacktestInv
  <1> QED
    BY <1>9, <1>10

LEMMA LiquidateKeeps ==
    ASSUME BacktestInv, NEW s \in Symbols, Liquidate(s)
    PROVE  BacktestInv' /\ NoStopFalls /\ BoughtCooled
  <1>1. /\ TypeOK /\ BarsSound
    BY DEF BacktestInv
  <1>2. PICK p, d : p = positions[s] /\ d = Sell(p, None, "end")
    OBVIOUS
  <1>3. /\ phase = "final" /\ s \in todo /\ todo' = todo \ {s} /\ bars' = bars
        /\ armed' = armed /\ Execute(s, p, d)
    BY <1>2 DEF Liquidate, First
  <1>4. Elsewhere
    BY DEF Liquidate, Elsewhere
  <1>5. rules' = rules /\ phase' = phase
    BY <1>4 DEF Elsewhere
  <1>6. /\ rules \in Rules /\ s \in Held /\ p \in Position
        /\ bars \in [Symbols -> Bar \cup {None}]
    BY <1>1, <1>2, <1>3, RuleTypes DEF TypeOK, Held
  <1>7. Sound(rules, p, d) /\ d.price = None /\ d.quantity = p.quantity
    <2>1. \A price \in Nat \cup {None} :
              /\ Sound(rules, p, Sell(p, price, "end"))
              /\ Sell(p, price, "end").price = price
              /\ Sell(p, price, "end").quantity = p.quantity
      BY <1>6, SellSound
    <2> QED
      BY <1>2, <2>1
  <1>8. Whole(p, d)
    BY <1>6, <1>7, BacktestAssumption DEF Whole, Position
  <1>9. /\ TypeOK' /\ Control' /\ LegsAddUp' /\ OrdersFit' /\ OrdersSound'
        /\ Cooled' /\ SoldNoted' /\ NoStopFalls /\ BoughtCooled
    <2>1. SameBut(positions[s], p) /\ Raised(positions[s], p)
      BY <1>2, <1>6, RaisedRefl
    <2>2. todo' = IF Whole(p, d) THEN todo \ {s} ELSE todo
      BY <1>3, <1>8
    <2>3. bars' \in [Symbols -> Bar \cup {None}]
      BY <1>3, <1>6
    <2> QED
      BY <1>3, <1>4, <1>6, <1>7, <2>1, <2>2, <2>3, SaleKeeps
  <1>10. BarsSound'
    BY <1>1, <1>3, <1>5 DEF BarsSound
  <1>11. StopsInForce' /\ Holding'
    BY <1>3, <1>5 DEF StopsInForce, Holding
  <1>12. trade'.symbol = s /\ trade'.phase = "final" /\ trade'.price = None
    BY <1>3, <1>7 DEF Execute
  <1>13. FillsInRange' /\ StopSold'
    BY <1>12 DEF FillsInRange, StopSold
  <1> QED
    BY <1>9, <1>10, <1>11, <1>13 DEF BacktestInv

-----------------------------------------------------------------------------
\* The loop.
LEMMA BacktestInit ==
    Init => BacktestInv
  <1> SUFFICES ASSUME Init PROVE BacktestInv
    OBVIOUS
  <1>1. /\ rules \in RuleSets /\ session = 1 /\ phase = "begin"
        /\ bars = [s \in Symbols |-> None] /\ positions = [s \in Symbols |-> None]
        /\ todo = {} /\ pending = <<>> /\ ranking = <<>> /\ capacity = 0
        /\ closedDates = [s \in Symbols |-> None] /\ trade = None
        /\ armed = [s \in Symbols |-> {}] /\ legs = [s \in Symbols |-> NoLegs]
    BY DEF Init
  <1>2. others \in BOOLEAN
    BY Zenon DEF Init
  <1>3. Held = {} /\ Range(pending) = {} /\ DOMAIN pending = {} /\ Len(pending) = 0
    BY <1>1 DEF Held, Range
  <1>4. NoLegs \in Legs /\ NoLegs.quantity = 0
    BY DEF NoLegs, Legs
  <1>5. TypeOK
    <2>1. session \in Sessions
      BY <1>1, BacktestAssumption DEF Sessions
    <2>2. phase \in Phases /\ pending \in Seq(Symbols) /\ ranking \in Seq(Symbols)
      BY <1>1 DEF Phases
    <2>3. legs \in [Symbols -> Legs]
      BY <1>1, <1>4
    <2>4. /\ bars \in [Symbols -> Bar \cup {None}]
          /\ positions \in [Symbols -> Position \cup {None}]
          /\ closedDates \in [Symbols -> Sessions \cup {None}]
          /\ armed \in [Symbols -> SUBSET Int] /\ capacity \in Int
      BY <1>1
    <2> QED
      BY <1>1, <1>2, <2>1, <2>2, <2>3, <2>4 DEF TypeOK
  <1>6. Control
    BY <1>1, <1>3 DEF Control, Topped
  <1>7. BarsSound /\ StopsInForce /\ Holding
    BY <1>1, <1>3 DEF BarsSound, StopsInForce, Holding
  <1>8. LegsAddUp
    BY <1>1, <1>3 DEF LegsAddUp
  <1>9. OrdersFit
    <2>1. Cardinality({}) = 0
      BY FS_EmptySet
    <2>2. \A s \in Symbols : InSector(SectorOf[s], Held \cup Range(pending)) = {}
      BY <1>3 DEF InSector
    <2>3. rules.max_positions \in Nat /\ rules.max_sector_positions \in Nat
      BY <1>5, OrderedSymbols
    <2>4. Cardinality(Held) = 0 /\ Cardinality(Range(pending)) = 0
      BY <1>3, <2>1
    <2>5. Cardinality(Held) + Len(pending) <= rules.max_positions
      BY <1>3, <2>3, <2>4
    <2>6. ASSUME NEW s \in Symbols
          PROVE  Cardinality(InSector(SectorOf[s], Held \cup Range(pending)))
                     <= rules.max_sector_positions
      <3>1. InSector(SectorOf[s], Held \cup Range(pending)) = {}
        BY <2>2
      <3>2. Cardinality(InSector(SectorOf[s], Held \cup Range(pending))) = 0
        BY <2>1, <3>1
      <3> QED
        BY <2>3, <3>2
    <2>7. Held \cap Range(pending) = {} /\ Cardinality(Range(pending)) = Len(pending)
      BY <1>3, <2>4
    <2> QED
      BY <2>5, <2>6, <2>7 DEF OrdersFit
  <1>10. OrdersSound
    BY <1>1, <1>3 DEF OrdersSound, IsInjective
  <1>11. Cooled /\ SoldNoted
    BY <1>1, <1>3, <1>4 DEF Cooled, SoldNoted
  <1>12. FillsInRange /\ StopSold
    BY <1>1 DEF FillsInRange, StopSold
  <1> QED
    BY <1>5, <1>6, <1>7, <1>8, <1>9, <1>10, <1>11, <1>12 DEF BacktestInv

LEMMA BacktestStep ==
    BacktestInv /\ [Next]_vars
    => BacktestInv' /\ [NoStopFalls]_vars /\ [BoughtCooled]_vars
  <1> SUFFICES ASSUME BacktestInv, [Next]_vars
               PROVE  BacktestInv' /\ [NoStopFalls]_vars /\ [BoughtCooled]_vars
    OBVIOUS
  <1>1. CASE Next
    <2>1. ASSUME NEW present \in SUBSET Symbols, Begin(present)
          PROVE  BacktestInv' /\ NoStopFalls /\ BoughtCooled
      BY <2>1, BeginKeeps
    <2>2. ASSUME NEW s \in Symbols, AtOpen(s)
          PROVE  BacktestInv' /\ NoStopFalls /\ BoughtCooled
      BY <2>2, AtOpenKeeps
    <2>3. ASSUME NEW s \in Symbols, NEW atr \in Atrs, InRange(s, atr)
          PROVE  BacktestInv' /\ NoStopFalls /\ BoughtCooled
      BY <2>3, InRangeKeeps
    <2>4. ASSUME NEW s \in Symbols, NEW view, AtClose(s, view)
          PROVE  BacktestInv' /\ NoStopFalls /\ BoughtCooled
      BY <2>4, AtCloseKeeps
    <2>5. ASSUME NEW s \in Symbols, Liquidate(s)
          PROVE  BacktestInv' /\ NoStopFalls /\ BoughtCooled
      BY <2>5, LiquidateKeeps
    <2>6. ASSUME OpensDone \/ Skip \/ EntriesDone \/ Consider \/ OrdersDone
                 \/ Finish \/ Over
          PROVE  BacktestInv' /\ NoStopFalls /\ BoughtCooled
      BY <2>6, OpensDoneKeeps, SkipKeeps, EntriesDoneKeeps, ConsiderKeeps,
         OrdersDoneKeeps, FinishKeeps, OverKeeps
    <2>7. ASSUME NEW open \in Prices, NEW d \in rules.distances, NEW atr \in Atrs,
                 Buy(open, d, atr)
          PROVE  BacktestInv' /\ NoStopFalls /\ BoughtCooled
      BY <2>7, BuyKeeps
    <2>8. ASSUME NEW best \in Rankings, Screen(best)
          PROVE  BacktestInv' /\ NoStopFalls /\ BoughtCooled
      BY <2>8, ScreenKeeps
    <2>9. ASSUME NEW target \in 1 .. rules.max_positions, Order(target)
          PROVE  BacktestInv' /\ NoStopFalls /\ BoughtCooled
      BY <2>9, OrderKeeps
    <2>10. BacktestInv' /\ NoStopFalls /\ BoughtCooled
      BY <1>1, <2>1, <2>2, <2>3, <2>4, <2>5, <2>6, <2>7, <2>8, <2>9 DEF Next
    <2> QED
      BY <2>10
  <1>2. CASE vars' = vars
    <2>1. /\ rules' = rules /\ session' = session /\ phase' = phase /\ bars' = bars
          /\ positions' = positions /\ todo' = todo /\ pending' = pending
          /\ ranking' = ranking /\ capacity' = capacity /\ others' = others
          /\ closedDates' = closedDates /\ trade' = trade /\ armed' = armed
          /\ legs' = legs
      BY <1>2 DEF vars
    <2>2. Held' = Held /\ Ranked' = Ranked
      BY <2>1 DEF Held, Ranked
    <2>3. TypeOK' <=> TypeOK
      BY <2>1, <2>2 DEF TypeOK
    <2>4. (Control' <=> Control) /\ (BarsSound' <=> BarsSound) /\ (Holding' <=> Holding)
      BY <2>1, <2>2 DEF Control, BarsSound, Holding, Final
    <2>5. StopsInForce' <=> StopsInForce
      BY <2>1, <2>2 DEF StopsInForce, Facing, Faced
    <2>6. (LegsAddUp' <=> LegsAddUp) /\ (OrdersFit' <=> OrdersFit)
      BY <2>1, <2>2 DEF LegsAddUp, OrdersFit
    <2>7. (OrdersSound' <=> OrdersSound) /\ (Cooled' <=> Cooled) /\ (SoldNoted' <=> SoldNoted)
      BY <2>1, <2>2 DEF OrdersSound, Cooled, SoldNoted
    <2>8. (FillsInRange' <=> FillsInRange) /\ (StopSold' <=> StopSold)
      BY <2>1 DEF FillsInRange, StopSold
    <2>9. BacktestInv'
      BY <2>3, <2>4, <2>5, <2>6, <2>7, <2>8 DEF BacktestInv
    <2> QED
      BY <1>2, <2>9
  <1> QED
    BY <1>1, <1>2

\* The inductive invariant of the daily loop: what every phase has left to do,
\* the bars it has revealed, the stops in force against them, the legs, and the
\* orders with the cooldown they were made under.
THEOREM BacktestInvariant ==
    Spec => []BacktestInv
  <1>1. BacktestInv /\ [Next]_vars => BacktestInv'
    BY BacktestStep
  <1> QED
    BY <1>1, BacktestInit, PTL DEF Spec

\* Every variable of the loop keeps its type.
THEOREM BacktestTypes ==
    Spec => []TypeOK
  <1>1. BacktestInv => TypeOK
    BY DEF BacktestInv
  <1> QED
    BY <1>1, BacktestInvariant, PTL

\* No sale by a price rule is at a price that was not there: a gap is filled at
\* the open, and a stop or a profit order within the range of the bar
\* (backtest/position_manager.py).
THEOREM BacktestFills ==
    Spec => []FillsInRange
  <1>1. BacktestInv => FillsInRange
    BY DEF BacktestInv
  <1> QED
    BY <1>1, BacktestInvariant, PTL

\* The stops in force when the range of a bar begins come before everything the
\* bar itself shows, and no position outlives a bar that reaches one.
THEOREM BacktestStopsFirst ==
    Spec => []StopsFirst
  <1>1. BacktestInv => StopsFirst
    <2> SUFFICES ASSUME BacktestInv PROVE StopsFirst
      OBVIOUS
    <2>1. TypeOK /\ Control /\ StopsInForce /\ StopSold
      BY DEF BacktestInv
    <2>2. ASSUME phase = "close", NEW s \in Held, bars[s] # None, armed[s] # {}
          PROVE  bars[s].low > Max(armed[s])
      <3>1. Faced(s)
        BY <2>1, <2>2 DEF StopsInForce
      <3>2. armed[s] \in SUBSET Int /\ Topped(armed[s])
        BY <2>1 DEF TypeOK, Control, Held
      <3>3. Max(armed[s]) \in armed[s]
        BY <2>2, <3>2, Greatest
      <3> QED
        BY <3>1, <3>2, <3>3, PricesAreNumbers DEF Faced
    <2> QED
      BY <2>1, <2>2 DEF StopsFirst, StopSold
  <1> QED
    BY <1>1, BacktestInvariant, PTL

\* No stop of a position is ever lowered or withdrawn, by whatever order of
\* opens, ranges, partial sales and missing bars.
THEOREM BacktestStops ==
    Spec => StopsNeverFall
  <1>1. BacktestInv /\ [Next]_vars => [NoStopFalls]_vars
    BY BacktestStep
  <1> QED
    BY <1>1, BacktestInvariant, PTL DEF Spec, StopsNeverFall, NoStopFalls

\* What is sold of a position and what is left of it are what was bought, to the
\* share, the cent and the level, however often it is sold in part.
THEOREM BacktestLegs ==
    Spec => []LegsAddUp
  <1>1. BacktestInv => LegsAddUp
    BY DEF BacktestInv
  <1> QED
    BY <1>1, BacktestInvariant, PTL

\* Positions and orders respect the limits of the portfolio and of its sectors
\* together, and no symbol is ordered twice.
THEOREM BacktestOrders ==
    Spec => []OrdersFit
  <1>1. BacktestInv => OrdersFit
    BY DEF BacktestInv
  <1> QED
    BY <1>1, BacktestInvariant, PTL

\* No symbol is bought again before its cooldown was over when it was ranked.
THEOREM BacktestCooldown ==
    Spec => CooldownKept
  <1>1. BacktestInv /\ [Next]_vars => [BoughtCooled]_vars
    BY BacktestStep
  <1> QED
    BY <1>1, BacktestInvariant, PTL DEF Spec, CooldownKept, BoughtCooled

\* No position outlives a close at which its hard maximum was reached.
THEOREM BacktestHold ==
    Spec => []HardHoldKept
  <1>1. BacktestInv => HardHoldKept
    BY DEF BacktestInv, Holding, HardHoldKept
  <1> QED
    BY <1>1, BacktestInvariant, PTL

=============================================================================
